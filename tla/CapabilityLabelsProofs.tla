------------------------ MODULE CapabilityLabelsProofs ------------------------
(***************************************************************************)
(* Proofs about CapabilityLabels, for any matrix, any file and any number  *)
(* of commands.                                                            *)
(*                                                                         *)
(* What the user has said last is what the file says the user has said     *)
(* (Remembered): the history variables follow the file through every       *)
(* command.  That needs the sources of the dialogue's labels never to be   *)
(* another's (DialogueIsUsers), since the dialogue leaves sources as they  *)
(* are.  The rest is about the searches: the first label found in one      *)
(* sequence after another.                                                 *)
(***************************************************************************)
EXTENDS CapabilityLabels, TLAPS

Labels == Values \cup {Blank}

LabelsTypeOK ==
  /\ file \in File
  /\ listed \subseteq Harnesses
  /\ word \in [Slots -> Labels]
  /\ measured \in [Providers -> Labels]

DialogueIsUsers ==
  \A g \in Harnesses \cup {Global} :
    file.source[<<g, Legacy>>] \in {"user", Blank}

Remembered ==
  /\ \A s \in Slots : word[s] = Users(Parsed(file), s)
  /\ measured = Parsed(file).probed

LInv == LabelsTypeOK /\ DialogueIsUsers /\ Remembered

-----------------------------------------------------------------------------
(* Loading                                                                 *)

LEMMA NormTypes ==
  ASSUME NEW v \in Written
  PROVE  Norm(v) \in Labels /\ Norm(Norm(v)) = Norm(v)
BY DEF Written, Values, Labels, Norm, Blank

LEMMA NormKeeps ==
  ASSUME NEW v \in Labels
  PROVE  Norm(v) = v /\ v \in Written
BY DEF Written, Values, Labels, Norm, Blank

LEMMA SlotNames ==
  /\ \A s \in Slots : /\ s = <<s[1], s[2]>>
                      /\ s[1] \in Harnesses \cup {Global}
                      /\ s[2] \in Providers
  /\ \A g \in Harnesses \cup {Global}, p \in Providers : <<g, p>> \in Slots
  /\ Legacy \in Providers /\ Nobody \in Providers
  /\ \A row \in Rows : /\ row.harness \in Harnesses
                       /\ row.provider \in Providers \ {Legacy}
                       /\ row.asked \in Providers
                       /\ row.provider # Blank
  /\ Global \notin Harnesses
BY LabelsAssumption DEF Slots, Providers

\* What loading makes of a file, field by field.
LEMMA ParsedFields ==
  ASSUME NEW f \in File
  PROVE  /\ Parsed(f) \in File
         /\ Parsed(f).label \in [Slots -> Labels]
         /\ Parsed(f).probed \in [Providers -> Labels]
         /\ Parsed(f).global \in [Keys -> Labels]
         /\ \A s \in Slots :
              Parsed(f).label[s] =
                Norm(IF s[2] = Legacy /\ s[1] # Global /\ f.group[s[1]] # Blank
                     THEN f.group[s[1]] ELSE f.label[s])
         /\ Parsed(f).source = f.source
         /\ \A h \in Harnesses : Parsed(f).group[h] = Blank
         /\ \A k \in Keys : /\ Parsed(f).top[k] = Blank
                            /\ Parsed(f).global[k] =
                                 Norm(IF f.top[k] # Blank THEN f.top[k]
                                      ELSE f.global[k])
         /\ \A p \in Providers : Parsed(f).probed[p] = Norm(f.probed[p])
         /\ Parsed(f).confirmed = f.confirmed
<1> DEFINE
     lab == [s \in Slots |->
              Norm(IF s[2] = Legacy /\ s[1] # Global /\ f.group[s[1]] # Blank
                   THEN f.group[s[1]] ELSE f.label[s])]
     glo == [k \in Keys |->
              Norm(IF f.top[k] # Blank THEN f.top[k] ELSE f.global[k])]
     pro == [p \in Providers |-> Norm(f.probed[p])]
<1>2. lab \in [Slots -> Labels]
  <2> SUFFICES ASSUME NEW s \in Slots
               PROVE  lab[s] \in Labels
    OBVIOUS
  <2>1. s[1] # Global => s[1] \in Harnesses
    BY SlotNames
  <2> QED
    BY <2>1, NormTypes DEF File
<1>3. glo \in [Keys -> Labels]
  BY NormTypes DEF File
<1>4. pro \in [Providers -> Labels]
  BY NormTypes DEF File
<1>5. /\ Nothing(Harnesses) \in [Harnesses -> Written]
      /\ Nothing(Keys) \in [Keys -> Written]
      /\ Labels \subseteq Written
  BY DEF Nothing, Written, Labels
<1>6. /\ lab \in [Slots -> Written] /\ glo \in [Keys -> Written]
      /\ pro \in [Providers -> Written]
  BY <1>2, <1>3, <1>4, <1>5
<1>7. Parsed(f) = [f EXCEPT !.label = lab, !.group = Nothing(Harnesses),
                            !.global = glo, !.top = Nothing(Keys),
                            !.probed = pro]
  BY DEF Parsed
<1>8. Parsed(f) \in File
  <2> HIDE DEF lab, glo, pro
  <2> QED
    BY <1>5, <1>6, <1>7 DEF File
<1>9. /\ Parsed(f).label = lab /\ Parsed(f).source = f.source
      /\ Parsed(f).group = Nothing(Harnesses) /\ Parsed(f).global = glo
      /\ Parsed(f).top = Nothing(Keys) /\ Parsed(f).probed = pro
      /\ Parsed(f).confirmed = f.confirmed
  <2> HIDE DEF lab, glo, pro
  <2> QED
    BY <1>5, <1>6, <1>7 DEF File
<1> QED
  BY <1>2, <1>3, <1>4, <1>8, <1>9 DEF Nothing

\* In the form in which a file is saved.
Plain(f) ==
  /\ f.label \in [Slots -> Labels]
  /\ f.probed \in [Providers -> Labels]
  /\ f.global \in [Keys -> Labels]
  /\ \A h \in Harnesses : f.group[h] = Blank
  /\ \A k \in Keys : f.top[k] = Blank

LEMMA ParsedIsPlain ==
  ASSUME NEW f \in File
  PROVE  Parsed(f) \in File /\ Plain(Parsed(f))
BY ParsedFields DEF Plain

LEMMA SameFields ==
  ASSUME NEW f \in File, NEW g \in File,
         f.label = g.label, f.source = g.source, f.group = g.group,
         f.global = g.global, f.top = g.top, f.probed = g.probed,
         f.confirmed = g.confirmed
  PROVE  f = g
BY DEF File

LEMMA PlainStays ==
  ASSUME NEW f \in File, Plain(f)
  PROVE  Parsed(f) = f
<1> DEFINE q == Parsed(f)
<1>1. q \in File /\ Plain(q)
  BY ParsedIsPlain
<1>2. \A s \in Slots : q.label[s] = f.label[s]
  <2> TAKE s \in Slots
  <2>1. s[1] # Global => f.group[s[1]] = Blank
    BY SlotNames DEF Plain
  <2>2. q.label[s] = Norm(f.label[s])
    BY <2>1, ParsedFields
  <2>3. f.label[s] \in Labels
    BY DEF Plain
  <2> QED
    BY <2>2, <2>3, NormKeeps
<1>3. \A k \in Keys : q.global[k] = f.global[k]
  <2> TAKE k \in Keys
  <2>1. q.global[k] = Norm(f.global[k]) /\ f.global[k] \in Labels
    BY ParsedFields DEF Plain
  <2> QED
    BY <2>1, NormKeeps
<1>4. \A p \in Providers : q.probed[p] = f.probed[p]
  <2> TAKE p \in Providers
  <2>1. q.probed[p] = Norm(f.probed[p]) /\ f.probed[p] \in Labels
    BY ParsedFields DEF Plain
  <2> QED
    BY <2>1, NormKeeps
<1>5. /\ \A h \in Harnesses : q.group[h] = f.group[h]
      /\ \A k \in Keys : q.top[k] = f.top[k]
  BY <1>1 DEF Plain
<1>6. q.source = f.source /\ q.confirmed = f.confirmed
  BY ParsedFields
<1> HIDE DEF q
<1>7. /\ q.label = f.label /\ q.global = f.global /\ q.probed = f.probed
  BY <1>1, <1>2, <1>3, <1>4 DEF Plain
<1>8. q.group = f.group /\ q.top = f.top
  BY <1>1, <1>5 DEF File
<1>9. q = f
  BY <1>1, <1>6, <1>7, <1>8, SameFields
<1> QED
  BY <1>9 DEF q

-----------------------------------------------------------------------------
(* The invariant                                                           *)

LEMMA UsersTypes ==
  ASSUME NEW f \in File, Plain(f), NEW s \in Slots
  PROVE  Users(f, s) \in Labels
BY DEF Users, Labels, Plain

LEMMA InitInv == Init => LInv
<1> SUFFICES ASSUME Init PROVE LInv
  OBVIOUS
<1>1. file \in File
  BY LabelsAssumption DEF Init
<1>2. Parsed(file) \in File /\ Plain(Parsed(file))
  BY <1>1, ParsedIsPlain
<1>3. word \in [Slots -> Labels] /\ measured \in [Providers -> Labels]
  BY <1>2, UsersTypes DEF Init, Plain
<1>4. Remembered
  BY DEF Init, Remembered
<1>5. DialogueIsUsers
  BY LabelsAssumption DEF Init, DialogueIsUsers
<1> QED
  BY <1>1, <1>3, <1>4, <1>5 DEF Init, LInv, LabelsTypeOK

\* A command saves a plain file, so that the next load changes nothing.
LEMMA Saved ==
  ASSUME LabelsTypeOK', Plain(file'), DialogueIsUsers',
         \A s \in Slots : word'[s] = Users(file', s),
         measured' = file'.probed
  PROVE  LInv'
<1>1. Parsed(file') = file'
  BY PlainStays DEF LabelsTypeOK
<1>2. Parsed(file)' = file'
  BY <1>1
<1>3. Remembered'
  BY <1>1 DEF Remembered
<1> QED
  BY <1>3 DEF LInv

\* What a command has loaded.
LEMMA Loaded ==
  ASSUME LInv
  PROVE  /\ Parsed(file) \in File /\ Plain(Parsed(file))
         /\ Parsed(file).source = file.source
         /\ \A s \in Slots : word[s] = Users(Parsed(file), s)
         /\ measured = Parsed(file).probed
BY ParsedIsPlain, ParsedFields DEF LInv, LabelsTypeOK, Remembered

LEMMA SetInv ==
  ASSUME LInv, NEW row \in Rows, NEW v \in Values \cup {Blank}, Set(row, v)
  PROVE  LInv'
<1> DEFINE
     c == Parsed(file)
     s == <<row.harness, row.provider>>
     shadows == {<<s[1], Legacy>>, <<s[1], Nobody>>} \ {s}
     lab == [t \in Slots |-> IF t = s THEN v
                             ELSE IF t \in shadows THEN Blank ELSE c.label[t]]
     src == [t \in Slots |-> IF t = s /\ v # Blank THEN "user"
                             ELSE IF t \in shadows \cup {s} THEN Blank
                             ELSE c.source[t]]
<1>1. c \in File /\ Plain(c) /\ c.source = file.source
  BY Loaded
<1>2. file' = [c EXCEPT !.label = lab, !.source = src, !.confirmed = TRUE]
  BY DEF Set
<1>3. lab \in [Slots -> Labels] /\ lab \in [Slots -> Written]
  BY <1>1 DEF Plain, Labels, Written
<1>4. src \in [Slots -> Sources]
  BY <1>1 DEF File, Sources
<1>5. /\ file' \in File
      /\ file'.label = lab /\ file'.source = src
      /\ file'.group = c.group /\ file'.global = c.global
      /\ file'.top = c.top /\ file'.probed = c.probed
  <2> HIDE DEF lab, src, c
  <2> QED
    BY <1>1, <1>2, <1>3, <1>4 DEF File
<1>6. Plain(file')
  BY <1>1, <1>3, <1>5 DEF Plain
<1>7. measured' = measured /\ measured = c.probed /\ listed' = listed
  BY Loaded DEF Set
<1>8. word' = [t \in Slots |-> IF t = s THEN v
                               ELSE IF t \in shadows THEN Blank ELSE word[t]]
  BY DEF Set
<1>9. \A t \in Slots : word'[t] = Users(file', t)
  <2> TAKE t \in Slots
  <2>1. CASE t = s
    BY <2>1, <1>5, <1>8 DEF Users, IsUsers
  <2>2. CASE t # s /\ t \in shadows
    BY <2>2, <1>5, <1>8 DEF Users, IsUsers
  <2>3. CASE t # s /\ t \notin shadows
    <3>1. lab[t] = c.label[t] /\ src[t] = c.source[t]
      BY <2>3
    <3>2. word'[t] = word[t] /\ word[t] = Users(c, t)
      BY <2>3, <1>8, Loaded
    <3> QED
      BY <3>1, <3>2, <1>5 DEF Users, IsUsers
  <2> QED
    BY <2>1, <2>2, <2>3
<1>10. DialogueIsUsers'
  <2> SUFFICES ASSUME NEW g \in Harnesses \cup {Global}
               PROVE  src[<<g, Legacy>>] \in {"user", Blank}
    BY <1>5 DEF DialogueIsUsers
  <2>1. <<g, Legacy>> \in Slots /\ c.source[<<g, Legacy>>] \in {"user", Blank}
    BY <1>1, SlotNames DEF LInv, DialogueIsUsers
  <2> QED
    BY <2>1
<1>11. word' \in [Slots -> Labels]
  BY <1>8 DEF LInv, LabelsTypeOK, Labels
<1>12. LabelsTypeOK'
  BY <1>5, <1>7, <1>11 DEF LInv, LabelsTypeOK
<1> QED
  BY <1>5, <1>6, <1>7, <1>9, <1>10, <1>12, Saved

LEMMA ProbeInv ==
  ASSUME LInv, NEW row \in Rows, NEW outcome \in Outcomes, Probe(row, outcome)
  PROVE  LInv'
<1> DEFINE
     c == Parsed(file)
     s == <<row.harness, row.provider>>
     found == Verdict(outcome)
     lab == [c.label EXCEPT ![s] = IF IsUsers(c, s) THEN @ ELSE found]
     src == [c.source EXCEPT ![s] = IF IsUsers(c, s) THEN @ ELSE "probe"]
     pro == [c.probed EXCEPT ![row.provider] = found]
<1>1. c \in File /\ Plain(c) /\ c.source = file.source
  BY Loaded
<1>2. file' = [c EXCEPT !.probed = pro, !.label = lab, !.source = src]
  BY <1>1 DEF Probe, File
<1>3. found \in Values /\ s \in Slots
  BY SlotNames DEF Probe, Verdict, Values, Blank
<1>4. lab \in [Slots -> Labels] /\ lab \in [Slots -> Written]
  BY <1>1, <1>3 DEF Plain, Labels, Written
<1>5. src \in [Slots -> Sources]
  BY <1>1 DEF File, Sources
<1>6. pro \in [Providers -> Labels] /\ pro \in [Providers -> Written]
  BY <1>1, <1>3 DEF Plain, Labels, Written
<1>7. /\ file' \in File
      /\ file'.label = lab /\ file'.source = src
      /\ file'.group = c.group /\ file'.global = c.global
      /\ file'.top = c.top /\ file'.probed = pro
  <2> HIDE DEF lab, src, pro, c
  <2> QED
    BY <1>1, <1>2, <1>4, <1>5, <1>6 DEF File
<1>8. Plain(file')
  BY <1>1, <1>4, <1>6, <1>7 DEF Plain
<1>9. word' = word /\ listed' = listed /\ measured' = file'.probed
  BY <1>7, Loaded DEF Probe
<1>10. \A t \in Slots : word'[t] = Users(file', t)
  <2> TAKE t \in Slots
  <2>1. word'[t] = Users(c, t)
    BY <1>9, Loaded
  <2>2. CASE t = s /\ ~ IsUsers(c, s)
    <3>1. file'.label[t] = found /\ file'.source[t] = "probe"
      BY <1>1, <1>3, <1>7, <2>2 DEF File
    <3> QED
      BY <2>1, <2>2, <3>1 DEF Users, IsUsers, Blank
  <2>3. CASE t # s \/ IsUsers(c, s)
    <3>1. lab[t] = c.label[t] /\ src[t] = c.source[t]
      BY <1>1, <1>3, <2>3 DEF File
    <3> QED
      BY <2>1, <3>1, <1>7 DEF Users, IsUsers
  <2> QED
    BY <2>2, <2>3
<1>11. DialogueIsUsers'
  <2> SUFFICES ASSUME NEW g \in Harnesses \cup {Global}
               PROVE  src[<<g, Legacy>>] \in {"user", Blank}
    BY <1>7 DEF DialogueIsUsers
  <2>1. <<g, Legacy>> \in Slots /\ c.source[<<g, Legacy>>] \in {"user", Blank}
    BY <1>1, SlotNames DEF LInv, DialogueIsUsers
  <2>2. <<g, Legacy>> # s
    BY SlotNames
  <2> QED
    BY <1>1, <1>3, <2>1, <2>2 DEF File
<1>12. LabelsTypeOK'
  BY <1>6, <1>7, <1>9 DEF LInv, LabelsTypeOK
<1> QED
  BY <1>7, <1>8, <1>9, <1>10, <1>11, <1>12, Saved

\* The dialogue, whatever the groups it asks about.
LEMMA ConfirmInv ==
  ASSUME LInv, NEW groups \in SUBSET (Harnesses \cup {Global}),
         Confirm(Parsed(file), groups), UNCHANGED <<listed, measured>>
  PROVE  LInv'
<1> DEFINE c == Parsed(file)
<1>1. PICK answer \in [groups -> Values] :
        LET told == [s \in Slots |-> IF s[2] = Legacy /\ s[1] \in groups
                                     THEN answer[s[1]] ELSE Blank]
            Over(old) == [s \in Slots |->
                            IF told[s] # Blank THEN told[s] ELSE old[s]]
        IN  /\ file' = [c EXCEPT !.label = Over(@), !.confirmed = TRUE]
            /\ word' = Over(word)
  BY DEF Confirm
<1> DEFINE
     told == [s \in Slots |-> IF s[2] = Legacy /\ s[1] \in groups
                              THEN answer[s[1]] ELSE Blank]
     lab == [s \in Slots |->
               IF told[s] # Blank THEN told[s] ELSE c.label[s]]
<1>2. c \in File /\ Plain(c) /\ c.source = file.source
  BY Loaded
<1>3. /\ file' = [c EXCEPT !.label = lab, !.confirmed = TRUE]
      /\ word' = [s \in Slots |->
                    IF told[s] # Blank THEN told[s] ELSE word[s]]
  BY <1>1, <1>2 DEF File
<1>4. told \in [Slots -> Labels]
  BY DEF Labels
<1>5. lab \in [Slots -> Labels] /\ lab \in [Slots -> Written]
  <2> HIDE DEF told
  <2> QED
    BY <1>2, <1>4 DEF Plain, Labels, Written
<1>6. /\ file' \in File
      /\ file'.label = lab /\ file'.source = c.source
      /\ file'.group = c.group /\ file'.global = c.global
      /\ file'.top = c.top /\ file'.probed = c.probed
  <2> HIDE DEF lab, c
  <2> QED
    BY <1>2, <1>3, <1>5 DEF File
<1>7. Plain(file')
  BY <1>2, <1>5, <1>6 DEF Plain
<1>8. measured' = file'.probed
  BY <1>6, Loaded
<1>9. \A s \in Slots : word'[s] = Users(file', s)
  <2> TAKE s \in Slots
  <2>1. CASE told[s] # Blank
    <3>1. s[2] = Legacy /\ s[1] \in Harnesses \cup {Global}
          /\ s = <<s[1], s[2]>>
      BY <2>1, SlotNames
    <3>2. c.source[s] \in {"user", Blank}
      BY <1>2, <3>1 DEF LInv, DialogueIsUsers
    <3>3. word'[s] = told[s] /\ file'.label[s] = told[s]
          /\ file'.source[s] = c.source[s]
      <4> HIDE DEF told
      <4> QED
        BY <1>3, <1>6, <2>1
    <3> QED
      BY <2>1, <3>2, <3>3 DEF Users, IsUsers
  <2>2. CASE told[s] = Blank
    <3>1. word'[s] = word[s] /\ file'.label[s] = c.label[s]
          /\ file'.source[s] = c.source[s]
      <4> HIDE DEF told
      <4> QED
        BY <1>3, <1>6, <2>2
    <3>2. word[s] = Users(c, s)
      BY Loaded
    <3> QED
      BY <3>1, <3>2 DEF Users, IsUsers
  <2> QED
    BY <2>1, <2>2
<1>10. DialogueIsUsers'
  BY <1>2, <1>6 DEF LInv, DialogueIsUsers
<1>11. word' \in [Slots -> Labels]
  <2> HIDE DEF told
  <2> QED
    BY <1>3, <1>4 DEF LInv, LabelsTypeOK
<1>12. LabelsTypeOK'
  BY <1>6, <1>11 DEF LInv, LabelsTypeOK
<1> QED
  BY <1>6, <1>7, <1>8, <1>9, <1>10, <1>12, Saved

LEMMA ScannedGroups ==
  ASSUME LInv
  PROVE  Scanned(Parsed(file)) \in SUBSET (Harnesses \cup {Global})
BY DEF Scanned

LEMMA WriteTopInv ==
  ASSUME LInv, NEW k \in Keys, NEW v \in Written, WriteTop(k, v)
  PROVE  LInv'
<1>1. file \in File
  BY DEF LInv, LabelsTypeOK
<1>2. /\ file' \in File
      /\ file'.label = file.label /\ file'.source = file.source
      /\ file'.group = file.group /\ file'.probed = file.probed
  BY <1>1 DEF WriteTop, File
<1> DEFINE c == Parsed(file)
           d == Parsed(file')
<1>3. \A s \in Slots : d.label[s] = c.label[s]
  BY <1>1, <1>2, ParsedFields
<1>4. d.source = c.source
  BY <1>1, <1>2, ParsedFields
<1>5. d.probed = c.probed
  <2>1. \A p \in Providers : d.probed[p] = c.probed[p]
    BY <1>1, <1>2, ParsedFields
  <2>2. /\ d.probed \in [Providers -> Labels]
        /\ c.probed \in [Providers -> Labels]
    BY <1>1, <1>2, ParsedFields
  <2> QED
    BY <2>1, <2>2
<1>6. Parsed(file)' = d
  OBVIOUS
<1>7. Remembered'
  <2> HIDE DEF c, d
  <2>1. /\ \A s \in Slots : word[s] = Users(c, s)
        /\ measured = c.probed
    BY DEF LInv, Remembered, c
  <2>2. word' = word /\ measured' = measured
    BY DEF WriteTop
  <2>3. \A s \in Slots : Users(d, s) = Users(c, s)
    BY <1>3, <1>4 DEF Users, IsUsers
  <2>4. /\ \A s \in Slots : word'[s] = Users(d, s)
        /\ measured' = d.probed
    BY <1>5, <2>1, <2>2, <2>3
  <2> QED
    BY <1>6, <2>4 DEF Remembered
<1>8. LabelsTypeOK' /\ DialogueIsUsers'
  BY <1>2 DEF WriteTop, LInv, LabelsTypeOK, DialogueIsUsers
<1> QED
  BY <1>7, <1>8 DEF LInv

LEMMA WriteGroupInv ==
  ASSUME LInv, NEW h \in Harnesses, NEW v \in Written, WriteGroup(h, v)
  PROVE  LInv'
<1> DEFINE
     s == <<h, Legacy>>
     c == Parsed(file)
     d == Parsed(file')
<1>1. file \in File
  BY DEF LInv, LabelsTypeOK
<1>2. /\ file' \in File
      /\ file'.label = file.label /\ file'.source = file.source
      /\ file'.group = [file.group EXCEPT ![h] = v]
      /\ file'.probed = file.probed
  BY <1>1 DEF WriteGroup, File
<1>3. s \in Slots /\ h # Global /\ file.label[s] = Blank
  BY SlotNames DEF WriteGroup
<1>4. \A t \in Slots : t # s => d.label[t] = c.label[t]
  <2> TAKE t \in Slots
  <2> HAVE t # s
  <2>1. t[2] = Legacy /\ t[1] # Global => t[1] # h /\ t[1] \in Harnesses
    BY SlotNames
  <2>2. t[2] = Legacy /\ t[1] # Global => file'.group[t[1]] = file.group[t[1]]
    BY <1>1, <1>2, <2>1 DEF File
  <2>3. d.label[t] =
          Norm(IF t[2] = Legacy /\ t[1] # Global /\ file'.group[t[1]] # Blank
               THEN file'.group[t[1]] ELSE file'.label[t])
    BY <1>2, ParsedFields
  <2>4. c.label[t] =
          Norm(IF t[2] = Legacy /\ t[1] # Global /\ file.group[t[1]] # Blank
               THEN file.group[t[1]] ELSE file.label[t])
    BY <1>1, ParsedFields
  <2> QED
    BY <1>2, <2>2, <2>3, <2>4
<1>5. d.label[s] = Norm(v)
  <2>1. file'.group[h] = v
    BY <1>1, <1>2 DEF File
  <2>2. d.label[s] =
          Norm(IF s[2] = Legacy /\ s[1] # Global /\ file'.group[s[1]] # Blank
               THEN file'.group[s[1]] ELSE file'.label[s])
    BY <1>2, <1>3, ParsedFields
  <2>3. s[1] = h /\ s[2] = Legacy
    OBVIOUS
  <2> QED
    BY <1>2, <1>3, <2>1, <2>2, <2>3
<1>6. d.source = c.source /\ c.source = file.source
  BY <1>1, <1>2, ParsedFields
<1>7. d.probed = c.probed
  <2>1. \A p \in Providers : d.probed[p] = c.probed[p]
    BY <1>1, <1>2, ParsedFields
  <2>2. /\ d.probed \in [Providers -> Labels]
        /\ c.probed \in [Providers -> Labels]
    BY <1>1, <1>2, ParsedFields
  <2> QED
    BY <2>1, <2>2
<1>8. Parsed(file)' = d
  OBVIOUS
<1>9. d.source[s] \in {"user", Blank}
  BY <1>6 DEF LInv, DialogueIsUsers
<1>10. Norm(v) \in Labels
  BY NormTypes
<1>11. Remembered'
  <2> HIDE DEF c, d, s
  <2>1. /\ \A t \in Slots : word[t] = Users(c, t)
        /\ measured = c.probed
    BY DEF LInv, Remembered, c
  <2>2. /\ word' = [word EXCEPT ![s] = Norm(v)]
        /\ measured' = measured
        /\ word \in [Slots -> Labels]
    BY DEF WriteGroup, LInv, LabelsTypeOK, s
  <2>3. \A t \in Slots : word'[t] = Users(d, t)
    <3> TAKE t \in Slots
    <3>1. CASE t = s
      BY <3>1, <1>5, <1>9, <2>2 DEF Users, IsUsers
    <3>2. CASE t # s
      BY <3>2, <1>4, <1>6, <2>1, <2>2 DEF Users, IsUsers
    <3> QED
      BY <3>1, <3>2
  <2> QED
    BY <1>7, <1>8, <2>1, <2>2, <2>3 DEF Remembered
<1>12. word' \in [Slots -> Labels]
  BY <1>10 DEF WriteGroup, LInv, LabelsTypeOK
<1>13. LabelsTypeOK' /\ DialogueIsUsers'
  BY <1>2, <1>12 DEF WriteGroup, LInv, LabelsTypeOK, DialogueIsUsers
<1> QED
  BY <1>11, <1>13 DEF LInv

\* The invariant is inductive: one case for each command or edit.
LEMMA NextInv ==
  ASSUME LInv, [Next]_vars
  PROVE  LInv'
<1>1. ASSUME NEW row \in Rows, NEW v \in Values \cup {Blank}, Set(row, v)
      PROVE  LInv'
  BY <1>1, SetInv
<1>2. ASSUME NEW row \in Rows, NEW outcome \in Outcomes, Probe(row, outcome)
      PROVE  LInv'
  BY <1>2, ProbeInv
<1>3. CASE Onboard
  BY <1>3, ConfirmInv, ScannedGroups DEF Onboard
<1>4. CASE EditAll
  BY <1>4, ConfirmInv, ScannedGroups DEF EditAll
<1>5. ASSUME NEW h \in Harnesses, List(h)
      PROVE  LInv'
  BY <1>5 DEF List, LInv, LabelsTypeOK, DialogueIsUsers, Remembered
<1>6. ASSUME NEW k \in Keys, NEW v \in Written, WriteTop(k, v)
      PROVE  LInv'
  BY <1>6, WriteTopInv
<1>7. ASSUME NEW h \in Harnesses, NEW v \in Written, WriteGroup(h, v)
      PROVE  LInv'
  BY <1>7, WriteGroupInv
<1>8. CASE UNCHANGED vars
  BY <1>8 DEF vars, LInv, LabelsTypeOK, DialogueIsUsers, Remembered
<1> QED
  BY <1>1, <1>2, <1>3, <1>4, <1>5, <1>6, <1>7, <1>8 DEF Next

\* The file and the histories keep their types, and the user's words and the
\* probe's results that a load finds are the last ones.
THEOREM Always == Spec => []LInv
<1>1. Init => LInv
  BY InitInv
<1>2. LInv /\ [Next]_vars => LInv'
  BY NextInv
<1> QED
  BY <1>1, <1>2, PTL DEF Spec

\* A file that was loaded and saved says what it said: whatever form it was
\* in, loading what was saved of it (config.py:272) gives the same.
THEOREM Stable == Spec => []LoadIsStable
<1>1. LInv => LoadIsStable
  BY ParsedIsPlain, PlainStays DEF LInv, LabelsTypeOK, LoadIsStable
<1> QED
  BY <1>1, Always, PTL

-----------------------------------------------------------------------------
(* Searches                                                                *)

LEMMA FirstAt ==
  ASSUME NEW s, DOMAIN s \subseteq Nat \ {0}, NEW k \in DOMAIN s,
         s[k] # Blank, \A j \in DOMAIN s : j < k => s[j] = Blank
  PROVE  FirstOf(s) = s[k]
<1> DEFINE here == {i \in DOMAIN s : s[i] # Blank}
<1>1. k \in here /\ \A j \in here : k <= j
  OBVIOUS
<1>2. \A i \in here : (\A j \in here : i <= j) => i = k
  BY <1>1
<1> HIDE DEF here
<1>3. (CHOOSE i \in here : \A j \in here : i <= j) = k
  BY <1>1, <1>2
<1> QED
  BY <1>1, <1>3 DEF FirstOf, here

LEMMA OneOfThree ==
  ASSUME NEW s, DOMAIN s \subseteq Nat \ {0}, {1, 2, 3} \subseteq DOMAIN s
  PROVE  /\ s[1] # Blank => FirstOf(s) = s[1]
         /\ s[1] = Blank /\ s[2] # Blank => FirstOf(s) = s[2]
         /\ s[1] = Blank /\ s[2] = Blank /\ s[3] # Blank => FirstOf(s) = s[3]
<1>1. ASSUME s[1] # Blank
      PROVE  FirstOf(s) = s[1]
  <2>1. \A j \in DOMAIN s : ~ (j < 1)
    OBVIOUS
  <2> QED
    BY <1>1, <2>1, FirstAt
<1>2. ASSUME s[1] = Blank, s[2] # Blank
      PROVE  FirstOf(s) = s[2]
  <2>1. \A j \in DOMAIN s : j < 2 => s[j] = Blank
    BY <1>2
  <2> QED
    BY <1>2, <2>1, FirstAt
<1>3. ASSUME s[1] = Blank, s[2] = Blank, s[3] # Blank
      PROVE  FirstOf(s) = s[3]
  <2>1. \A j \in DOMAIN s : j < 3 => s[j] = Blank
    BY <1>3
  <2> QED
    BY <1>3, <2>1, FirstAt
<1> QED
  BY <1>1, <1>2, <1>3

LEMMA FirstIsThere ==
  ASSUME NEW s, FirstOf(s) # Blank
  PROVE  \E i \in DOMAIN s : s[i] # Blank
BY DEF FirstOf

\* Only the first seven count, if one of them says something.
LEMMA SevenDecide ==
  ASSUME NEW s, NEW t, DOMAIN s = 1..7,
         DOMAIN t \subseteq Nat \ {0}, 1..7 \subseteq DOMAIN t,
         \A i \in 1..7 : s[i] = t[i],
         FirstOf(s) # Blank
  PROVE  FirstOf(t) = FirstOf(s)
<1>1. PICK i \in 1..7 : s[i] # Blank
  BY FirstIsThere
<1>2. PICK k \in 1..7 : s[k] # Blank /\ \A j \in 1..(k - 1) : s[j] = Blank
  <2>1. CASE s[1] # Blank
    BY <2>1
  <2>2. CASE s[1] = Blank /\ s[2] # Blank
    BY <2>2
  <2>3. CASE s[1] = Blank /\ s[2] = Blank /\ s[3] # Blank
    BY <2>3
  <2>4. CASE s[1] = Blank /\ s[2] = Blank /\ s[3] = Blank /\ s[4] # Blank
    BY <2>4
  <2>5. CASE /\ s[1] = Blank /\ s[2] = Blank /\ s[3] = Blank /\ s[4] = Blank
             /\ s[5] # Blank
    BY <2>5
  <2>6. CASE /\ s[1] = Blank /\ s[2] = Blank /\ s[3] = Blank /\ s[4] = Blank
             /\ s[5] = Blank /\ s[6] # Blank
    BY <2>6
  <2>7. CASE /\ s[1] = Blank /\ s[2] = Blank /\ s[3] = Blank /\ s[4] = Blank
             /\ s[5] = Blank /\ s[6] = Blank /\ s[7] # Blank
    BY <2>7
  <2> QED
    BY <1>1, <2>1, <2>2, <2>3, <2>4, <2>5, <2>6, <2>7
<1>3. FirstOf(s) = s[k]
  <2>1. /\ DOMAIN s \subseteq Nat \ {0} /\ k \in DOMAIN s
        /\ \A j \in DOMAIN s : j < k => s[j] = Blank
    BY <1>2
  <2> QED
    BY <1>2, <2>1, FirstAt
<1>4. /\ k \in DOMAIN t /\ t[k] # Blank
      /\ \A j \in DOMAIN t : j < k => t[j] = Blank
  BY <1>2
<1>5. FirstOf(t) = t[k]
  BY <1>4, FirstAt
<1> QED
  BY <1>3, <1>5

\* The matrix finds its label under the provider, or else where the dialogue
\* writes; the rest is for want of a provider.
LEMMA Shown ==
  ASSUME NEW c, NEW row \in Rows
  PROVE  LET s == ShownAt(c, row)
             own == c.label[<<row.harness, row.provider>>]
         IN  \/ own # Blank /\ s = <<row.harness, row.provider>>
             \/ /\ own = Blank /\ c.label[<<row.harness, Legacy>>] # Blank
                /\ s = <<row.harness, Legacy>>
             \/ own = Blank /\ s \in {<<row.harness, row.provider>>,
                                      <<row.harness, Nobody>>}
<1> DEFINE
     own == c.label[<<row.harness, row.provider>>]
     told == c.label[<<row.harness, Legacy>>]
     Found(p) == IF c.label[<<row.harness, p>>] = Blank THEN Blank ELSE p
     names == <<row.provider, Legacy, Nobody>>
     q == [i \in 1..3 |-> Found(names[i])]
<1>1. ShownAt(c, row) =
        <<row.harness,
          IF FirstOf(q) = Blank THEN row.provider ELSE FirstOf(q)>>
  BY DEF ShownAt
<1>2. /\ DOMAIN q = 1..3
      /\ q[1] = IF own = Blank THEN Blank ELSE row.provider
      /\ q[2] = IF told = Blank THEN Blank ELSE Legacy
      /\ q[3] \in {Blank, Nobody}
  OBVIOUS
<1>a. DOMAIN q \subseteq Nat \ {0} /\ {1, 2, 3} \subseteq DOMAIN q
  OBVIOUS
<1>3. row.provider # Blank /\ Legacy # Blank /\ Nobody # Blank
  BY SlotNames DEF Legacy, Nobody, Blank
<1> HIDE DEF q
<1>4. CASE own # Blank
  <2>1. FirstOf(q) = row.provider
    BY <1>2, <1>a, <1>3, <1>4, OneOfThree
  <2> QED
    BY <1>1, <1>3, <1>4, <2>1
<1>5. CASE own = Blank /\ told # Blank
  <2>1. FirstOf(q) = Legacy
    BY <1>2, <1>a, <1>3, <1>5, OneOfThree
  <2> QED
    BY <1>1, <1>3, <1>5, <2>1
<1>6. CASE own = Blank /\ told = Blank
  <2>1. FirstOf(q) \in {Blank, Nobody}
    <3>1. CASE q[3] = Blank
      <4>1. \A i \in DOMAIN q : q[i] = Blank
        BY <1>2, <1>6, <3>1
      <4> QED
        BY <4>1, FirstIsThere
    <3>2. CASE q[3] = Nobody
      BY <1>2, <1>a, <1>3, <1>6, <3>2, OneOfThree
    <3> QED
      BY <1>2, <3>1, <3>2
  <2> QED
    BY <1>1, <1>3, <1>6, <2>1
<1> QED
  BY <1>4, <1>5, <1>6

-----------------------------------------------------------------------------
(* What the searches find                                                  *)

\* What the user has said decides, the more particular first, and after that
\* what a probe has found, whatever was loaded, saved, cleared and probed in
\* between (capability.py:3-6), for every matrix and every catalog.
THEOREM UserThenProbe == Spec => []Precedence
<1>1. ASSUME LInv, NEW row \in Rows, Agreed(row), Known(row) # Blank
      PROVE  Judged(Parsed(file), row.harness, row.asked) = Known(row)
  <2> DEFINE
       c == Parsed(file)
       h == row.harness
       p == row.provider
       s == <<word[<<h, p>>], word[<<h, Legacy>>],
              word[<<Global, p>>], word[<<Global, Legacy>>],
              c.global["model"], c.global["pattern"], measured[p]>>
       t == <<Users(c, <<h, p>>), Users(c, <<h, Legacy>>),
              Users(c, <<Global, p>>), Users(c, <<Global, Legacy>>),
              c.global["model"], c.global["pattern"], c.probed[p],
              c.label[<<h, p>>], c.label[<<h, Legacy>>],
              c.label[<<Global, p>>], c.label[<<Global, Legacy>>],
              Suggestion, UnknownDefault>>
  <2>1. Known(row) = FirstOf(s) /\ Judged(c, h, row.asked) = FirstOf(t)
    BY <1>1 DEF Known, Judged, Agreed
  <2>2. /\ word[<<h, p>>] = Users(c, <<h, p>>)
        /\ word[<<h, Legacy>>] = Users(c, <<h, Legacy>>)
        /\ word[<<Global, p>>] = Users(c, <<Global, p>>)
        /\ word[<<Global, Legacy>>] = Users(c, <<Global, Legacy>>)
        /\ measured[p] = c.probed[p]
    BY <1>1, SlotNames DEF LInv, Remembered
  <2>3. /\ DOMAIN s = 1..7
        /\ DOMAIN t \subseteq Nat \ {0} /\ 1..7 \subseteq DOMAIN t
    OBVIOUS
  <2>4. /\ s[1] = t[1] /\ s[2] = t[2] /\ s[3] = t[3] /\ s[4] = t[4]
        /\ s[5] = t[5] /\ s[6] = t[6] /\ s[7] = t[7]
    BY <2>2
  <2> HIDE DEF s, t
  <2>5. \A i \in 1..7 : s[i] = t[i]
    BY <2>4
  <2>6. FirstOf(t) = FirstOf(s)
    BY <1>1, <2>1, <2>3, <2>5, SevenDecide
  <2> QED
    BY <2>1, <2>6
<1>2. LInv => Precedence
  BY <1>1 DEF Precedence
<1> QED
  BY <1>2, Always, PTL

\* A label that the matrix shows as the user's decides about the requests of
\* its row, for every matrix whose rows the service names alike.
THEOREM WhatIsShownDecides == Spec => []ShownDecides
<1>1. ASSUME LInv, NEW row \in Rows, Agreed(row),
             ShownAt(Parsed(file), row)[2] # Nobody,
             IsUsers(Parsed(file), ShownAt(Parsed(file), row))
      PROVE  Judged(Parsed(file), row.harness, row.asked)
               = Parsed(file).label[ShownAt(Parsed(file), row)]
  <2> DEFINE
       c == Parsed(file)
       h == row.harness
       p == row.provider
       s == ShownAt(c, row)
       t == <<Users(c, <<h, p>>), Users(c, <<h, Legacy>>),
              Users(c, <<Global, p>>), Users(c, <<Global, Legacy>>),
              c.global["model"], c.global["pattern"], c.probed[p],
              c.label[<<h, p>>], c.label[<<h, Legacy>>],
              c.label[<<Global, p>>], c.label[<<Global, Legacy>>],
              Suggestion, UnknownDefault>>
  <2>1. Judged(c, h, row.asked) = FirstOf(t)
    BY <1>1 DEF Judged, Agreed
  <2>2. /\ DOMAIN t \subseteq Nat \ {0} /\ {1, 2, 3} \subseteq DOMAIN t
        /\ t[1] = Users(c, <<h, p>>) /\ t[2] = Users(c, <<h, Legacy>>)
    OBVIOUS
  <2>3. c.label[s] # Blank /\ Users(c, s) = c.label[s]
    BY <1>1 DEF IsUsers, Users
  <2>4. \/ s = <<h, p>>
        \/ c.label[<<h, p>>] = Blank /\ s = <<h, Legacy>>
    <3>1. \/ s = <<h, p>>
          \/ c.label[<<h, p>>] = Blank /\ s = <<h, Legacy>>
          \/ s = <<h, Nobody>>
      BY Shown
    <3>2. s # <<h, Nobody>>
      BY <1>1
    <3> QED
      BY <3>1, <3>2
  <2> HIDE DEF t, s
  <2>5. CASE s = <<h, p>>
    <3>1. t[1] = c.label[s] /\ t[1] # Blank
      BY <2>2, <2>3, <2>5
    <3>2. FirstOf(t) = t[1]
      BY <2>2, <3>1, OneOfThree
    <3> QED
      BY <2>1, <3>1, <3>2 DEF s
  <2>6. CASE c.label[<<h, p>>] = Blank /\ s = <<h, Legacy>>
    <3>1. t[2] = c.label[s] /\ t[2] # Blank
      BY <2>2, <2>3, <2>6
    <3>2. t[1] = Blank
      BY <2>2, <2>6 DEF Users, IsUsers
    <3>3. FirstOf(t) = t[2]
      BY <2>2, <3>1, <3>2, OneOfThree
    <3> QED
      BY <2>1, <3>1, <3>3 DEF s
  <2> QED
    BY <2>4, <2>5, <2>6
<1>2. LInv => ShownDecides
  BY <1>1 DEF ShownDecides
<1> QED
  BY <1>2, Always, PTL
=============================================================================
