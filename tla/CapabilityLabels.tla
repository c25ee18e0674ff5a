--------------------------- MODULE CapabilityLabels ---------------------------
(***************************************************************************)
(* Whether one model takes images: the labels in proxy.json, the commands  *)
(* that write them (models-set, a probe, the dialogue of a start and of    *)
(* "models"), and how they are read, by the service                        *)
(* (CapabilityTable._resolve) and by the matrix on the screen              *)
(* (_lookup_cap).                                                          *)
(*                                                                         *)
(* A label is under a harness and a provider, names which the matrix and   *)
(* the service find each for itself (Rows).  "legacy" stands for the       *)
(* provider in what the dialogue and older versions have written, "?" for  *)
(* one the matrix does not know.  {model: label} and {group: {model:       *)
(* label}} are older forms, which a user may still write; the keys of the  *)
(* first and of the group "global" may be patterns.                        *)
(*                                                                         *)
(* Labels of different models do not meet, so there is one.  Commands      *)
(* follow one another (ConfigStore has them race); the table's memory of   *)
(* its verdicts is in HotReload.                                           *)
(***************************************************************************)
EXTENDS Naturals, Sequences

CONSTANTS
  Harnesses,
  Rows,           \* of the matrix: [harness, provider, asked]; asked is
                  \* the provider the service takes the requests to be for
  Suggestion,     \* suggest(model), or Blank
  UnknownDefault, \* routing.unknown_default
  Files,          \* what proxy.json may hold at first
  MaxSteps        \* bound: commands and edits in a behaviour

Blank  == "blank"
Global == "global"
Legacy == "legacy"
Nobody == "?"

Values  == {"image", "text_only"}
Written == Values \cup {"vision", Blank}
Sources == {"user", "probe", "catalog", Blank}
Keys    == {"model", "pattern"}  \* the model's name, a pattern it matches

Providers == {row.provider : row \in Rows} \cup {row.asked : row \in Rows}
               \cup {Legacy, Nobody}
Slots == (Harnesses \cup {Global}) \X Providers

File == [label   : [Slots -> Written],
         source  : [Slots -> Sources],
         group   : [Harnesses -> Written], \* {harness: {model: label}}
         global  : [Keys -> Written],      \* {"global": {key: label}}
         top     : [Keys -> Written],      \* {key: label}
         probed  : [Providers -> Written],
         confirmed : BOOLEAN]

\* No file says the same twice, in an older form and in a newer; and what
\* finds labels out writes none for "legacy".
ASSUME LabelsAssumption ==
  /\ Global \notin Harnesses
  /\ Rows \subseteq [harness : Harnesses, provider : STRING \ {Legacy, Blank},
                     asked : STRING \ {Legacy, Nobody, Blank}]
  /\ Suggestion \in Values \cup {Blank}
  /\ UnknownDefault \in Values
  /\ Files \subseteq File
  /\ MaxSteps \in Nat
  /\ \A f \in Files :
       /\ \A h \in Harnesses : Blank \in {f.group[h], f.label[<<h, Legacy>>]}
       /\ \A k \in Keys : Blank \in {f.global[k], f.top[k]}
       /\ \A g \in Harnesses \cup {Global} :
            f.source[<<g, Legacy>>] \in {"user", Blank}

VARIABLES
  file,      \* proxy.json
  listed,    \* the harnesses whose own files name the model
  word,      \* history, word[g, p]: the user's last word there
  measured,  \* history, measured[p]: what the last probe of p found
  steps

vars == <<file, listed, word, measured, steps>>

-----------------------------------------------------------------------------
(* Loading *)

Norm(v) == IF v = "vision" THEN "image" ELSE v

Nothing(S) == [x \in S |-> Blank]

\* Faulty: the group "global" goes the way of the others.
ParsedAlike(f) ==
  [f EXCEPT
     !.label = [s \in Slots |->
       Norm(IF s[2] # Legacy THEN f.label[s]
            ELSE IF s[1] = Global /\ f.global["model"] # Blank
            THEN f.global["model"]
            ELSE IF s[1] # Global /\ f.group[s[1]] # Blank THEN f.group[s[1]]
            ELSE f.label[s])],
     !.group  = Nothing(Harnesses),
     !.global = [k \in Keys |-> Norm(f.top[k])],
     !.top    = Nothing(Keys),
     !.probed = [p \in Providers |-> Norm(f.probed[p])]]

\* _parse_capabilities, _parse_probe_results.  What save_config writes is
\* what was parsed.
Parsed(f) ==
  [f EXCEPT
     !.label = [s \in Slots |->
       Norm(IF s[2] = Legacy /\ s[1] # Global /\ f.group[s[1]] # Blank
            THEN f.group[s[1]] ELSE f.label[s])],
     !.group  = Nothing(Harnesses),
     !.global = [k \in Keys |->
       Norm(IF f.top[k] # Blank THEN f.top[k] ELSE f.global[k])],
     !.top    = Nothing(Keys),
     !.probed = [p \in Providers |-> Norm(f.probed[p])]]

-----------------------------------------------------------------------------
(* Reading.  A search is a sequence of labels, the first that is not blank *)
(* is found.                                                               *)

FirstOf(found) ==
  LET here == {i \in DOMAIN found : found[i] # Blank}
  IN  IF here = {} THEN Blank
      ELSE found[CHOOSE i \in here : \A j \in here : i <= j]

\* A label without a source is the user's (_stored, _source_of).
IsUsers(c, s) == c.label[s] # Blank /\ c.source[s] \in {"user", Blank}

Users(c, s) == IF IsUsers(c, s) THEN c.label[s] ELSE Blank

\* CapabilityTable._resolve: what the user has said, what a probe has found,
\* what was written automatically, what is built in, the default.
Judged(c, h, p) ==
  FirstOf(<<Users(c, <<h, p>>), Users(c, <<h, Legacy>>),
            Users(c, <<Global, p>>), Users(c, <<Global, Legacy>>),
            c.global["model"], c.global["pattern"],
            c.probed[p],
            c.label[<<h, p>>], c.label[<<h, Legacy>>],
            c.label[<<Global, p>>], c.label[<<Global, Legacy>>],
            Suggestion, UnknownDefault>>)

\* Faulty: the dialogue's label is looked for first.
ShownLegacyFirst(c, row) ==
  <<row.harness, IF c.label[<<row.harness, Legacy>>] # Blank THEN Legacy
                 ELSE row.provider>>

\* _lookup_cap: where the label is that the matrix shows.
ShownAt(c, row) ==
  LET at == FirstOf([i \in 1..3 |->
              LET p == <<row.provider, Legacy, Nobody>>[i]
              IN  IF c.label[<<row.harness, p>>] = Blank THEN Blank ELSE p])
  IN  <<row.harness, IF at = Blank THEN row.provider ELSE at>>

-----------------------------------------------------------------------------
(* Commands.  Each loads proxy.json, and saves it when it has changed it.  *)

Init ==
  /\ file \in Files
  /\ listed = {}
  /\ word = [s \in Slots |-> Users(Parsed(file), s)]
  /\ measured = Parsed(file).probed
  /\ steps = 0

\* Faulty: the label of the dialogue stays.
SetLeavesShadows(row, v) ==
  LET c == Parsed(file)
      s == <<row.harness, row.provider>>
  IN
  /\ file' = [c EXCEPT !.label[s] = v,
                       !.source[s] = IF v = Blank THEN Blank ELSE "user",
                       !.confirmed = TRUE]
  /\ word' = [t \in Slots |->
                IF t = s THEN v
                ELSE IF t[1] = s[1] /\ t[2] \in {Legacy, Nobody} THEN Blank
                ELSE word[t]]
  /\ UNCHANGED <<listed, measured>>

\* models_set, of one row; Blank for null.  Labels of the harness that stand
\* for unknown providers go.
Set(row, v) ==
  LET c == Parsed(file)
      s == <<row.harness, row.provider>>
      shadows == {<<s[1], Legacy>>, <<s[1], Nobody>>} \ {s}
  IN
  /\ file' = [c EXCEPT
       !.label  = [t \in Slots |-> IF t = s THEN v
                                   ELSE IF t \in shadows THEN Blank ELSE @[t]],
       !.source = [t \in Slots |-> IF t = s /\ v # Blank THEN "user"
                                   ELSE IF t \in shadows \cup {s} THEN Blank
                                   ELSE @[t]],
       !.confirmed = TRUE]
  /\ word' = [t \in Slots |-> IF t = s THEN v
                              ELSE IF t \in shadows THEN Blank ELSE word[t]]
  /\ UNCHANGED <<listed, measured>>

\* _verdict: an answer, or an error that says what the model lacks.  From
\* any other outcome nothing follows, and nothing is written.
Outcomes == {"answer", "modality error", "other error"}

Verdict(outcome) ==
  CASE outcome = "answer"         -> "image"
    [] outcome = "modality error" -> "text_only"
    [] OTHER                      -> Blank

\* run_probe: the result is kept, and is the label unless that is the user's.
Probe(row, outcome) ==
  LET c == Parsed(file)
      s == <<row.harness, row.provider>>
      found == Verdict(outcome)
  IN
  /\ found # Blank
  /\ file' = [c EXCEPT
       !.probed[row.provider] = found,
       !.label[s]  = IF IsUsers(c, s) THEN @ ELSE found,
       !.source[s] = IF IsUsers(c, s) THEN @ ELSE "probe"]
  /\ measured' = [measured EXCEPT ![row.provider] = found]
  /\ UNCHANGED <<listed, word>>

-----------------------------------------------------------------------------
(* The dialogue *)

\* scan_model_groups: the groups the model is in.
Scanned(c) ==
  {h \in Harnesses : \/ h \in listed
                     \/ \E p \in Providers : c.label[<<h, p>>] # Blank}
  \cup {g \in {Global} : c.global["model"] # Blank}

\* _stored_models has it.
Stored(c) ==
  \/ \E s \in Slots : c.label[s] # Blank
  \/ c.global["model"] # Blank

\* confirm_models, whose keys lead to any answer, and _merge.  (With "q"
\* nothing is saved.)
Confirm(c, groups) ==
  \E answer \in [groups -> Values] :
    LET told == [s \in Slots |-> IF s[2] = Legacy /\ s[1] \in groups
                                 THEN answer[s[1]] ELSE Blank]
        Over(old) == [s \in Slots |->
                        IF told[s] # Blank THEN told[s] ELSE old[s]]
    IN  /\ file' = [c EXCEPT !.label = Over(@), !.confirmed = TRUE]
        /\ word' = Over(word)

\* run_onboarding, in every start: all that was scanned the first time, what
\* is new after that.
Onboard ==
  LET c == Parsed(file) IN
  /\ c.confirmed => ~ Stored(c) /\ Scanned(c) # {}
  /\ Confirm(c, Scanned(c))
  /\ UNCHANGED <<listed, measured>>

\* edit_all, the command "models".
EditAll ==
  /\ Confirm(Parsed(file), Scanned(Parsed(file)))
  /\ UNCHANGED <<listed, measured>>

-----------------------------------------------------------------------------
(* The user *)

\* A harness is told to use the model.
List(h) ==
  /\ h \notin listed
  /\ listed' = listed \cup {h}
  /\ UNCHANGED <<file, word, measured>>

\* The user writes a label into proxy.json, in an older form.
WriteTop(k, v) ==
  /\ file.global[k] = Blank
  /\ file' = [file EXCEPT !.top[k] = v]
  /\ UNCHANGED <<listed, word, measured>>

WriteGroup(h, v) ==
  /\ file.label[<<h, Legacy>>] = Blank
  /\ file' = [file EXCEPT !.group[h] = v]
  /\ word' = [word EXCEPT ![<<h, Legacy>>] = Norm(v)]
  /\ UNCHANGED <<listed, measured>>

Next ==
  /\ steps < MaxSteps
  /\ steps' = steps + 1
  /\ \/ \E row \in Rows :
          \/ \E v \in Values \cup {Blank} : Set(row, v)
          \/ \E outcome \in Outcomes : Probe(row, outcome)
     \/ Onboard
     \/ EditAll
     \/ \E h \in Harnesses : List(h)
     \/ \E v \in Written : \/ \E k \in Keys : WriteTop(k, v)
                           \/ \E h \in Harnesses : WriteGroup(h, v)

Spec == Init /\ [][Next]_vars

-----------------------------------------------------------------------------
(* Properties *)

\* The service takes the requests of the row to be for its provider.
Agreed(row) == row.asked = row.provider

\* What was said and measured about a row, in the order in which it counts:
\* the user's words, the more particular first (those in "global" are as
\* they are written), and the probe's result.
Known(row) ==
  LET c == Parsed(file) IN
  FirstOf(<<word[<<row.harness, row.provider>>],
            word[<<row.harness, Legacy>>],
            word[<<Global, row.provider>>], word[<<Global, Legacy>>],
            c.global["model"], c.global["pattern"],
            measured[row.provider]>>)

\* What the user has said is never overridden by what was found out, and
\* what a probe has found by nothing else, in whatever order and form it was
\* said, measured, cleared, loaded and saved (capability.py:3-6).
Precedence ==
  \A row \in Rows :
    Agreed(row) /\ Known(row) # Blank =>
      Judged(Parsed(file), row.harness, row.asked) = Known(row)

\* A label the matrix shows as the user's is the one that decides, unless
\* it is shown for want of a provider.
ShownDecides ==
  \A row \in Rows :
    LET c == Parsed(file)
        s == ShownAt(c, row)
    IN  Agreed(row) /\ s[2] # Nobody /\ IsUsers(c, s) =>
          Judged(c, row.harness, row.asked) = c.label[s]

\* A file that was loaded and saved says what it said (config.py:272): a
\* restart changes no verdict.
LoadIsStable == Parsed(Parsed(file)) = Parsed(file)

\* A label the user has set for a row decides about its requests
\* (capability.py:3).
WordIsUsed ==
  \A row \in Rows :
    LET s == <<row.harness, row.provider>>
    IN  word[s] # Blank =>
          Judged(Parsed(file), row.harness, row.asked) = word[s]
=============================================================================
