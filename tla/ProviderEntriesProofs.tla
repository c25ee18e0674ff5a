------------------------ MODULE ProviderEntriesProofs ------------------------
(***************************************************************************)
(* Theorems about ProviderEntries, for every set of entries, addresses and *)
(* envKeys, every file the harnesses may start with and every number of    *)
(* edits.                                                                  *)
(*                                                                         *)
(* Shapes is the type invariant with what the steps need of it: records    *)
(* have their fields, and a snapshot that is not held records nothing.     *)
(* From it alone follow TypeOK and Settles.                                *)
(*                                                                         *)
(* What a restore gives back is a matter of keys, so the rest of the       *)
(* invariant says what the keys of the snapshot stand for:                 *)
(*   Lists       ids differ, and only entries with a mixed envKey share    *)
(*               one, those that may still come included;                  *)
(*   Keyed       a key with the envKey and the id of an entry is only ever *)
(*               written for a mixed envKey, so it hides no shared one;    *)
(*   UrlsKnown   an entry that is not lost leads where its user wants, or  *)
(*               is taken over and the key it is READ with, not the one it *)
(*               was written with, is recorded with that address;          *)
(*   GatesKnown  the same of gates, and what the program changed is open;  *)
(*   MixedTaken, JustOpened  what a start leaves that dies half way;       *)
(*   Chat        all relays of qwen-code have one protocol, so one that is *)
(*               kept for its address serves the entries that came since.  *)
(* UrlsKnown and GatesKnown are about what will be recorded when the start *)
(* under way has saved what it read, hence Over(fresh.urls, ...).  For an  *)
(* envKey that entries share UrlsKnown must say more (Steady): which key   *)
(* is read depends on the address of the first entry, so nothing may be    *)
(* recorded that an entry would take for its own when the first moves.     *)
(*                                                                         *)
(* The proof goes bottom up: the keys; what each operator makes of a disk; *)
(* what rewriting, restoring, forgetting and editing leave of UrlsKnown    *)
(* and GatesKnown for one entry; then one lemma for each action.           *)
(***************************************************************************)
EXTENDS ProviderEntries, NaturalsInduction, WellFoundedInduction, TLAPS


USE DEF ghosts

\* What may stand as an address, and a relay.
Bases == Urls \cup Ports \cup {Proxy, NoUrl}
Addresses == Urls \cup Ports
Relay == [url : Urls, protocol : Tags \cup {"chat"}, ids : SUBSET Ids]

\* A snapshot has its fields, and records nothing unless it is held.
IsSnap(s) ==
  /\ s \in [held : BOOLEAN, base : Bases, urls : {s.urls}, gates : {s.gates}]
  /\ \A key \in DOMAIN s.urls : s.urls[key] \in Addresses
  /\ \A key \in DOMAIN s.gates : s.gates[key] \in Gates
  /\ ~ s.held => s.urls = Nothing /\ s.gates = Nothing

\* A provider of zcode has a kind.
HasKinds(file) == \A i \in DOMAIN file : ~ Qwen => file[i].tag # NoEnv

IsDisk(d) ==
  /\ d \in [file : Seq(Entry), base : Bases, snap : {d.snap},
            bak : [held : BOOLEAN, file : Seq(Entry), base : Bases],
            relays : SUBSET Relay]
  /\ IsSnap(d.snap)
  /\ HasKinds(d.file) /\ HasKinds(d.bak.file)

\* The type invariant, field by field.
Shapes ==
  /\ harness \in Harnesses
  /\ IsDisk(disk)
  /\ service \in {"down", "starting", "up"}
  /\ \A key \in DOMAIN fresh.urls : fresh.urls[key] \in Addresses
  /\ \A key \in DOMAIN fresh.gates : fresh.gates[key] \in Gates
  /\ fresh.base \in Bases
  /\ service # "starting" => fresh = NoFresh
  /\ on \in BOOLEAN /\ checked \in BOOLEAN
  /\ own \in [Ids -> Entry]
  /\ lostUrl \subseteq Ids /\ lostGate \subseteq Ids
  /\ edits \in 0..MaxEdits

-----------------------------------------------------------------------------
(* Maps, entries and the keys as the program writes them.                  *)

\* The empty map, and maps made by a rule.
LEMMA NothingHas == DOMAIN Nothing = {}
BY DEF Nothing

LEMMA NothingIs ==
  ASSUME NEW S, NEW e(_)
  PROVE  [x \in S |-> e(x)] = Nothing <=> S = {}
BY DEF Nothing

\* The fields of an entry.
LEMMA EntryIs ==
  ASSUME NEW file \in Seq(Entry), NEW i \in DOMAIN file
  PROVE  /\ file[i] \in Entry
         /\ i \in Nat \ {0}
         /\ file[i].id \in Ids /\ file[i].tag \in Tags \cup {NoEnv}
         /\ file[i].url \in Addresses \cup {Proxy}
         /\ file[i].gate \in Gates
         /\ file[i] = [id |-> file[i].id, tag |-> file[i].tag,
                       url |-> file[i].url, gate |-> file[i].gate]
<1>1. file[i] \in Entry /\ i \in 1..Len(file) /\ Len(file) \in Nat
  OBVIOUS
<1>2. i \in Nat \ {0}
  BY <1>1
<1> QED
  BY <1>1, <1>2 DEF Entry, Addresses

\* A file whose entries are replaced one by one is a file.
LEMMA MapIs ==
  ASSUME NEW file \in Seq(Entry), NEW g, DOMAIN g = DOMAIN file,
         g = [i \in DOMAIN file |-> g[i]],
         \A i \in DOMAIN file : g[i] \in Entry
  PROVE  g \in Seq(Entry)
<1> Len(file) \in Nat /\ DOMAIN file = 1..Len(file)
  OBVIOUS
<1> QED
  OBVIOUS

\* To rewrite a file keeps ids and tags.
LEMMA RewrittenIs ==
  ASSUME NEW file \in Seq(Entry)
  PROVE  /\ Rewritten(file) \in Seq(Entry)
         /\ DOMAIN Rewritten(file) = DOMAIN file
         /\ \A i \in DOMAIN file :
              /\ Rewritten(file)[i].id = file[i].id
              /\ Rewritten(file)[i].tag = file[i].tag
              /\ Rewritten(file)[i].url = Proxy
              /\ Rewritten(file)[i].gate =
                   IF Closed(file[i]) THEN "open" ELSE file[i].gate
              /\ ~ Closed(Rewritten(file)[i])
<1>1. \A i \in DOMAIN file :
        /\ Rewritten(file)[i] =
             [file[i] EXCEPT !.url = Proxy,
                             !.gate = IF Closed(file[i]) THEN "open" ELSE @]
        /\ file[i] \in Entry
  BY EntryIs DEF Rewritten
<1>2. DOMAIN Rewritten(file) = DOMAIN file
  BY DEF Rewritten
<1>3. \A i \in DOMAIN file :
              /\ Rewritten(file)[i].id = file[i].id
              /\ Rewritten(file)[i].tag = file[i].tag
              /\ Rewritten(file)[i].url = Proxy
              /\ Rewritten(file)[i].gate =
                   IF Closed(file[i]) THEN "open" ELSE file[i].gate
              /\ Rewritten(file)[i] \in Entry
  <2> SUFFICES ASSUME NEW i \in DOMAIN file
               PROVE  LET e == Rewritten(file)[i] IN
                      /\ e.id = file[i].id /\ e.tag = file[i].tag
                      /\ e.url = Proxy
                      /\ e.gate = IF Closed(file[i]) THEN "open"
                                  ELSE file[i].gate
                      /\ e \in Entry
    OBVIOUS
  <2> DEFINE gate == IF Closed(file[i]) THEN "open" ELSE file[i].gate
  <2>1. file[i] \in Entry
    BY <1>1
  <2>2. gate \in Gates
    BY <2>1 DEF Entry, Gates
  <2>3. Rewritten(file)[i] = [file[i] EXCEPT !.url = Proxy, !.gate = gate]
    BY <1>1, <2>1 DEF Entry
  <2> HIDE DEF gate
  <2>4. LET e == [file[i] EXCEPT !.url = Proxy, !.gate = gate] IN
        /\ e.id = file[i].id /\ e.tag = file[i].tag
        /\ e.url = Proxy /\ e.gate = gate /\ e \in Entry
    BY <2>1, <2>2 DEF Entry
  <2> QED
    BY <2>3, <2>4 DEF gate
<1>4. Rewritten(file) \in Seq(Entry)
  BY <1>2, <1>3, MapIs DEF Rewritten
<1> QED
  BY <1>2, <1>3, <1>4 DEF Closed

\* Under which keys a rewriting records anything.
LEMMA NewUrlsIs ==
  ASSUME NEW file \in Seq(Entry)
  PROVE  /\ DOMAIN NewUrls(file) =
              {WriteKey(file, i) :
                 i \in {j \in DOMAIN file : file[j].url # Proxy}}
         /\ (NewUrls(file) = Nothing)
              <=> (\A i \in DOMAIN file : file[i].url = Proxy)
<1> DEFINE K == {WriteKey(file, i) :
                   i \in {j \in DOMAIN file : file[j].url # Proxy}}
<1>1. (NewUrls(file) = Nothing) <=> (K = {})
  BY NothingIs DEF NewUrls, Originals
<1>2. (K = {}) <=> (\A i \in DOMAIN file : file[i].url = Proxy)
  OBVIOUS
<1>3. DOMAIN NewUrls(file) = K
  BY DEF NewUrls, Originals
<1> QED
  BY <1>1, <1>2, <1>3

LEMMA NewGatesIs ==
  ASSUME NEW file \in Seq(Entry)
  PROVE  /\ DOMAIN NewGates(file) =
              {WriteKey(file, i) :
                 i \in {j \in DOMAIN file : Closed(file[j])}}
         /\ (NewGates(file) = Nothing)
              <=> (\A i \in DOMAIN file : ~ Closed(file[i]))
<1> DEFINE K == {WriteKey(file, i) :
                   i \in {j \in DOMAIN file : Closed(file[j])}}
<1>1. (NewGates(file) = Nothing) <=> (K = {})
  BY NothingIs DEF NewGates, Originals
<1>2. (K = {}) <=> (\A i \in DOMAIN file : ~ Closed(file[i]))
  OBVIOUS
<1>3. DOMAIN NewGates(file) = K
  BY DEF NewGates, Originals
<1> QED
  BY <1>1, <1>2, <1>3

\* Sets of numbers have a least and, if bounded, a greatest element.
LEMMA Least ==
  ASSUME NEW T, T \subseteq Nat, T # {}
  PROVE  \E x \in T : \A y \in T : x <= y
<1> DEFINE R == OpToRel(<, Nat)
<1>1. PICK x \in T : \A y \in T : ~ (<<y, x>> \in R)
  BY NatLessThanWellFounded, WFMin
<1>2. ASSUME NEW y \in T PROVE x <= y
  <2>1. ~ (<<y, x>> \in R)
    BY <1>1
  <2> QED
    BY <2>1 DEF OpToRel
<1> QED
  BY <1>2

LEMMA Greatest ==
  ASSUME NEW n \in Nat, NEW T, T \subseteq 1..n, T # {}
  PROVE  \E x \in T : \A y \in T : y <= x
<1> DEFINE S == {n - x : x \in T}
<1>b. S # {}
  OBVIOUS
<1>0. ASSUME NEW x \in T PROVE n - x \in Nat
  <2>1. x \in 1..n
    OBVIOUS
  <2> QED
    BY <2>1
<1>a. S \subseteq Nat
  BY <1>0
<1>1. PICK m \in S : \A k \in S : m <= k
  BY <1>a, <1>b, Least
<1>2. PICK x \in T : m = n - x
  OBVIOUS
<1>3. ASSUME NEW y \in T PROVE y <= x
  <2>1. m <= n - y
    BY <1>1
  <2> QED
    BY <1>2, <2>1
<1> QED
  BY <1>3

IsFirst(file, tag, j) ==
  /\ j \in DOMAIN file
  /\ file[j].tag = tag
  /\ \A k \in DOMAIN file : file[k].tag = tag => j <= k

\* Of the entries with one envKey there is a first one.
LEMMA FirstIs ==
  ASSUME NEW file \in Seq(Entry), NEW i \in DOMAIN file
  PROVE  \E j \in DOMAIN file :
           /\ IsFirst(file, file[i].tag, j)
           /\ j = CHOOSE k \in DOMAIN file :
                    /\ file[k].tag = file[i].tag
                    /\ \A l \in 1..k - 1 : file[l].tag # file[i].tag
<1> DEFINE T == {k \in DOMAIN file : file[k].tag = file[i].tag}
<1>0. DOMAIN file = 1..Len(file) /\ Len(file) \in Nat
  OBVIOUS
<1>a. i \in T /\ T \subseteq Nat
  BY <1>0
<1>b. T # {}
  BY <1>a
<1>1. PICK j \in T : \A k \in T : j <= k
  BY <1>a, <1>b, Least
<1> DEFINE P(k) == /\ file[k].tag = file[i].tag
                   /\ \A l \in 1..k - 1 : file[l].tag # file[i].tag
<1>2. j \in DOMAIN file /\ P(j)
  BY <1>0, <1>1
<1>3. ASSUME NEW k \in DOMAIN file, P(k) PROVE k = j
  <2>1. j <= k /\ j \in Nat /\ k \in Nat
    BY <1>0, <1>1, <1>3
  <2>2. ~ j \in 1..k - 1
    BY <1>1, <1>3
  <2>3. j >= k
    BY <2>1, <2>2
  <2> QED
    BY <2>1, <2>3
<1>4. j = CHOOSE k \in DOMAIN file : P(k)
  BY <1>2, <1>3
<1> QED
  BY <1>1, <1>4 DEF IsFirst

\* Keys as the program writes them.
LEMMA WriteKeyIs ==
  ASSUME NEW file \in Seq(Entry), NEW i \in DOMAIN file
  PROVE  /\ ~ Qwen => WriteKey(file, i) = Own(file[i])
         /\ Qwen /\ file[i].tag = NoEnv
              => WriteKey(file, i) = Spot(file[i], i)
         /\ Qwen /\ file[i].tag # NoEnv =>
              \A j \in DOMAIN file : IsFirst(file, file[i].tag, j) =>
                WriteKey(file, i) = IF file[i].url = file[j].url
                                    THEN Shared(file[i]) ELSE Own(file[i])
<1> DEFINE first == CHOOSE k \in DOMAIN file :
                    /\ file[k].tag = file[i].tag
                    /\ \A l \in 1..k - 1 : file[l].tag # file[i].tag
<1>1. IsFirst(file, file[i].tag, first)
  BY FirstIs
<1>2. ASSUME NEW j \in DOMAIN file, IsFirst(file, file[i].tag, j)
      PROVE  j = first
  BY <1>1, <1>2 DEF IsFirst
<1>3. WriteKey(file, i) =
        IF ~ Qwen THEN Own(file[i])
        ELSE IF file[i].tag = NoEnv THEN Spot(file[i], i)
        ELSE IF file[i].url = file[first].url THEN Shared(file[i])
        ELSE Own(file[i])
  BY DEF WriteKey
<1> HIDE DEF first
<1> QED
  BY <1>2, <1>3

\* Of the entries with one key there is a last one.
LEMMA LastIs ==
  ASSUME NEW file \in Seq(Entry), NEW I, I \subseteq DOMAIN file,
         NEW k \in {WriteKey(file, i) : i \in I}
  PROVE  \E x \in I : /\ WriteKey(file, x) = k
                      /\ \A j \in I : WriteKey(file, j) = k => j <= x
<1> DEFINE T == {i \in I : WriteKey(file, i) = k}
<1>0. DOMAIN file = 1..Len(file) /\ Len(file) \in Nat
  OBVIOUS
<1>1. T \subseteq 1..Len(file) /\ T # {}
  BY <1>0
<1>2. PICK i \in T : \A j \in T : j <= i
  BY <1>0, <1>1, Greatest
<1> QED
  BY <1>2

\* What is recorded under a key is what some entry with it holds.
LEMMA NewUrlIs ==
  ASSUME NEW file \in Seq(Entry), NEW k \in DOMAIN NewUrls(file)
  PROVE  \E i \in DOMAIN file :
           /\ file[i].url # Proxy
           /\ WriteKey(file, i) = k
           /\ NewUrls(file)[k] = file[i].url
<1> DEFINE I == {i \in DOMAIN file : file[i].url # Proxy}
<1>1. k \in {WriteKey(file, i) : i \in I}
  BY NewUrlsIs
<1> DEFINE P(x) == /\ WriteKey(file, x) = k
                   /\ \A j \in I : WriteKey(file, j) = k => j <= x
<1>2. \E x \in I : P(x)
  BY <1>1, LastIs
<1>3. NewUrls(file)[k] = file[CHOOSE x \in I : P(x)].url
  BY <1>1 DEF NewUrls, Originals
<1> HIDE DEF P
<1>4. (CHOOSE x \in I : P(x)) \in I /\ P(CHOOSE x \in I : P(x))
  BY <1>2
<1> QED
  BY <1>3, <1>4 DEF P

LEMMA NewGateIs ==
  ASSUME NEW file \in Seq(Entry), NEW k \in DOMAIN NewGates(file)
  PROVE  \E i \in DOMAIN file :
           /\ Closed(file[i])
           /\ WriteKey(file, i) = k
           /\ NewGates(file)[k] = file[i].gate
<1> DEFINE I == {i \in DOMAIN file : Closed(file[i])}
<1>1. k \in {WriteKey(file, i) : i \in I}
  BY NewGatesIs
<1> DEFINE P(x) == /\ WriteKey(file, x) = k
                   /\ \A j \in I : WriteKey(file, j) = k => j <= x
<1>2. \E x \in I : P(x)
  BY <1>1, LastIs
<1>3. NewGates(file)[k] = file[CHOOSE x \in I : P(x)].gate
  BY <1>1 DEF NewGates, Originals
<1> HIDE DEF P
<1>4. (CHOOSE x \in I : P(x)) \in I /\ P(CHOOSE x \in I : P(x))
  BY <1>2
<1> QED
  BY <1>3, <1>4 DEF P

-----------------------------------------------------------------------------
(* What each step of the program leaves of a disk.                         *)

\* Only addresses of providers and tools, and gates, are recorded.
LEMMA NewIs ==
  ASSUME NEW file \in Seq(Entry)
  PROVE  /\ \A key \in DOMAIN NewUrls(file) :
              NewUrls(file)[key] \in Addresses
         /\ \A key \in DOMAIN NewGates(file) :
              NewGates(file)[key] \in Gates
<1>1. ASSUME NEW key \in DOMAIN NewUrls(file)
      PROVE  NewUrls(file)[key] \in Addresses
  BY NewUrlIs, EntryIs
<1>2. ASSUME NEW key \in DOMAIN NewGates(file)
      PROVE  NewGates(file)[key] \in Gates
  BY NewGateIs, EntryIs
<1> QED
  BY <1>1, <1>2

LEMMA NoSnapIs == IsSnap(NoSnap)
BY NothingHas DEF IsSnap, NoSnap, Bases

\* A snapshot that learns is a snapshot.
LEMMA MergedIs ==
  ASSUME NEW s, IsSnap(s), NEW urls, NEW gates,
         \A key \in DOMAIN urls : urls[key] \in Addresses,
         \A key \in DOMAIN gates : gates[key] \in Gates
  PROVE  /\ IsSnap(Merged(s, urls, gates))
         /\ Merged(s, urls, gates).held = TRUE
         /\ Merged(s, urls, gates).base = s.base
         /\ Merged(s, urls, gates).urls = Over(urls, s.urls)
         /\ Merged(s, urls, gates).gates = Over(gates, s.gates)
<1>0. s \in [held : BOOLEAN, base : Bases, urls : {s.urls}, gates : {s.gates}]
  BY DEF IsSnap
<1> DEFINE m == Merged(s, urls, gates)
<1>1. /\ m \in [held : BOOLEAN, base : Bases, urls : {m.urls},
                gates : {m.gates}]
      /\ m.held = TRUE /\ m.base = s.base
      /\ m.urls = Over(urls, s.urls) /\ m.gates = Over(gates, s.gates)
  BY <1>0 DEF Merged
<1>2. \A key \in DOMAIN Over(urls, s.urls) :
        Over(urls, s.urls)[key] \in Addresses
  BY DEF IsSnap, Over
<1>3. \A key \in DOMAIN Over(gates, s.gates) :
        Over(gates, s.gates)[key] \in Gates
  BY DEF IsSnap, Over
<1> QED
  BY <1>1, <1>2, <1>3 DEF IsSnap

\* A harness is rewired whole, or nothing of it was left to rewire.
LEMMA RewiredIs ==
  ASSUME NEW d, IsDisk(d)
  PROVE  /\ IsDisk(Rewired(d))
         /\ Rewired(d).base = d.base
         /\ Rewired(d).bak = d.bak
         /\ Rewired(d).relays = d.relays
         /\ \/ /\ \A i \in DOMAIN d.file :
                    IsTaken(d.file[i]) /\ ~ Closed(d.file[i])
               /\ Rewired(d) = d
            \/ /\ Rewired(d).file = Rewritten(d.file)
               /\ Rewired(d).snap.held = TRUE
               /\ Rewired(d).snap.urls =
                    Over(NewUrls(d.file), d.snap.urls)
               /\ Rewired(d).snap.gates =
                    Over(NewGates(d.file), d.snap.gates)
<1> DEFINE urls == NewUrls(d.file)
           gates == NewGates(d.file)
           old == IF d.snap.held THEN d.snap
                  ELSE [NoSnap EXCEPT !.base = Proxy]
           merged == Merged(old, urls, gates)
<1>0. d.file \in Seq(Entry) /\ IsSnap(d.snap)
  BY DEF IsDisk
<1>1. CASE urls = Nothing /\ gates = Nothing
  <2>1. Rewired(d) = d
    BY <1>1 DEF Rewired
  <2>2. \A i \in DOMAIN d.file : IsTaken(d.file[i]) /\ ~ Closed(d.file[i])
    BY <1>0, <1>1, NewUrlsIs, NewGatesIs DEF IsTaken
  <2> QED
    BY <2>1, <2>2
<1>2. CASE ~ (urls = Nothing /\ gates = Nothing)
  <2>1. Rewired(d) = [d EXCEPT !.file = Rewritten(d.file),
                               !.snap = merged]
    BY <1>2 DEF Rewired
  <2>2. /\ IsSnap(old)
        /\ old.urls = d.snap.urls /\ old.gates = d.snap.gates
    <3>1. CASE d.snap.held
      BY <1>0, <3>1
    <3>2. CASE ~ d.snap.held
      BY <1>0, <3>2, NothingHas DEF IsSnap, NoSnap, Bases
    <3> QED
      BY <3>1, <3>2
  <2> HIDE DEF old, urls, gates, merged
  <2>3. /\ IsSnap(merged)
        /\ merged.held = TRUE
        /\ merged.urls = Over(urls, old.urls)
        /\ merged.gates = Over(gates, old.gates)
    <3>1. /\ \A key \in DOMAIN urls : urls[key] \in Addresses
          /\ \A key \in DOMAIN gates : gates[key] \in Gates
      BY <1>0, NewIs DEF urls, gates
    <3>2. IsSnap(old)
      BY <2>2
    <3>3. /\ IsSnap(merged) /\ merged.held = TRUE
          /\ merged.urls = Over(urls, old.urls)
          /\ merged.gates = Over(gates, old.gates)
      BY <3>1, <3>2, MergedIs DEF merged
    <3> QED
      BY <3>3
  <2>4. Rewired(d) = [file |-> Rewritten(d.file), base |-> d.base,
                      snap |-> merged, bak |-> d.bak,
                      relays |-> d.relays]
    BY <2>1 DEF IsDisk
  <2>5. Rewritten(d.file) \in Seq(Entry) /\ HasKinds(Rewritten(d.file))
    <3>1. HasKinds(d.file)
      BY DEF IsDisk
    <3> QED
      BY <1>0, <3>1, RewrittenIs DEF HasKinds
  <2>6. IsDisk(Rewired(d))
    BY <2>3, <2>4, <2>5 DEF IsDisk
  <2> QED
    BY <2>2, <2>3, <2>4, <2>6 DEF urls, gates
<1> QED
  BY <1>1, <1>2

\* After it everything is taken over, and a second time changes nothing.
LEMMA RewiredWhole ==
  ASSUME NEW d, IsDisk(d)
  PROVE  /\ \A i \in DOMAIN Rewired(d).file :
              /\ IsTaken(Rewired(d).file[i])
              /\ ~ Closed(Rewired(d).file[i])
         /\ Rewired(Rewired(d)) = Rewired(d)
<1>0. d.file \in Seq(Entry) /\ IsDisk(Rewired(d))
  BY RewiredIs DEF IsDisk
<1>1. \A i \in DOMAIN Rewired(d).file :
        /\ IsTaken(Rewired(d).file[i])
        /\ ~ Closed(Rewired(d).file[i])
  <2>1. CASE Rewired(d) = d
    <3>1. CASE Rewired(d).file = Rewritten(d.file)
      BY <3>1, <1>0, RewrittenIs DEF IsTaken
    <3>2. CASE Rewired(d).file # Rewritten(d.file)
      BY <2>1, <3>2, RewiredIs
    <3> QED
      BY <3>1, <3>2
  <2>2. CASE Rewired(d).file = Rewritten(d.file)
    BY <2>2, <1>0, RewrittenIs DEF IsTaken
  <2> QED
    BY <2>1, <2>2, RewiredIs
<1>2. /\ NewUrls(Rewired(d).file) = Nothing
      /\ NewGates(Rewired(d).file) = Nothing
  <2>1. Rewired(d).file \in Seq(Entry)
    BY <1>0 DEF IsDisk
  <2> QED
    BY <1>1, <2>1, NewUrlsIs, NewGatesIs DEF IsTaken
<1>3. \A e : NewUrls(e.file) = Nothing /\ NewGates(e.file) = Nothing
               => Rewired(e) = e
  BY DEF Rewired
<1> QED
  BY <1>1, <1>2, <1>3

\* The relays wanted are relays.
LEMMA DesiredIs ==
  ASSUME NEW d, IsDisk(d)
  PROVE  /\ Desired(d) \subseteq Relay
         /\ Qwen => \A w \in Desired(d) : w.protocol = "chat"
<1>0. d.file \in Seq(Entry)
  BY DEF IsDisk
<1>1. ASSUME NEW i \in DOMAIN d.file, IsDirect(Origin(d, i)),
             NEW ids, ids = {d.file[j].id : j \in {k \in DOMAIN d.file :
                      k = i \/ (Qwen /\ Origin(d, k) = Origin(d, i))}}
      PROVE  [url |-> Origin(d, i), protocol |-> Protocol(d.file[i]),
              ids |-> ids] \in Relay
  <2>1. ids \subseteq Ids
    BY <1>0, <1>1, EntryIs
  <2>2. Origin(d, i) \in Urls
    BY <1>1 DEF IsDirect
  <2>3. Protocol(d.file[i]) \in Tags \cup {"chat"}
    BY <1>0, EntryIs DEF Protocol, IsDisk, HasKinds
  <2> QED
    BY <2>1, <2>2, <2>3 DEF Relay
<1>2. Desired(d) \subseteq Relay
  BY <1>1 DEF Desired
<1>3. Qwen => \A w \in Desired(d) : w.protocol = "chat"
  BY DEF Desired, Protocol
<1> QED
  BY <1>2, <1>3

\* What is wanted follows from the file and the snapshot.
LEMMA DesiredOf ==
  ASSUME NEW d, NEW e, d.file = e.file, d.snap = e.snap
  PROVE  Desired(d) = Desired(e)
<1>1. \A i : Origin(d, i) = Origin(e, i)
  BY DEF Origin
<1> QED
  BY <1>1 DEF Desired

\* To make sure of the relays changes nothing else, leaves a relay for
\* each one wanted, and twice does no more than once.
LEMMA EnsuredIs ==
  ASSUME NEW d, IsDisk(d)
  PROVE  /\ IsDisk(Ensured(d))
         /\ Ensured(d).file = d.file /\ Ensured(d).base = d.base
         /\ Ensured(d).snap = d.snap /\ Ensured(d).bak = d.bak
         /\ Ensured(d).relays \subseteq d.relays \cup Desired(d)
         /\ \A w \in Desired(d) : \E r \in Ensured(d).relays :
              /\ r.url = w.url
              /\ r = w \/ (Qwen /\ r \in d.relays)
         /\ Ensured(Ensured(d)) = Ensured(d)
<1> DEFINE kept == {r \in d.relays :
                      Qwen /\ \E w \in Desired(d) : w.url = r.url}
           all == kept \cup {w \in Desired(d) : \A r \in kept : w.url # r.url}
           e == Ensured(d)
<1>1. /\ e.file = d.file /\ e.base = d.base /\ e.snap = d.snap
      /\ e.bak = d.bak /\ e.relays = all
      /\ e = [d EXCEPT !.relays = all]
  BY DEF Ensured, IsDisk
<1>2. all \subseteq d.relays \cup Desired(d)
  OBVIOUS
<1>3. IsDisk(e)
  <2>1. all \subseteq Relay
    BY <1>2, DesiredIs DEF IsDisk
  <2> HIDE DEF e, all
  <2> QED
    BY <1>1, <2>1 DEF IsDisk
<1>4. \A w \in Desired(d) : \E r \in all :
        r.url = w.url /\ (r = w \/ (Qwen /\ r \in d.relays))
  OBVIOUS
<1>5. Desired(e) = Desired(d)
  <2> HIDE DEF e, all
  <2> QED
    BY <1>1, DesiredOf
<1>6. Ensured(e) = e
  <2> DEFINE kept2 == {r \in e.relays :
                         Qwen /\ \E w \in Desired(e) : w.url = r.url}
             all2 == kept2 \cup
                       {w \in Desired(e) : \A r \in kept2 : w.url # r.url}
  <2>1. e.relays = all
    BY <1>1
  <2>2. all2 = all
    <3>1. CASE Qwen
      <4>1. kept2 = all
        BY <2>1, <1>5, <3>1
      <4>2. \A w \in Desired(d) : \E r \in all : w.url = r.url
        BY <1>4
      <4> HIDE DEF kept2, all, e
      <4> QED
        BY <1>5, <4>1, <4>2
    <3>2. CASE ~ Qwen
      BY <1>5, <3>2
    <3> QED
      BY <3>1, <3>2
  <2>3. Ensured(e) = [e EXCEPT !.relays = all2]
    BY DEF Ensured
  <2> HIDE DEF all, all2, e
  <2> QED
    BY <1>1, <2>2, <2>3
<1> QED
  BY <1>1, <1>2, <1>3, <1>4, <1>6

-----------------------------------------------------------------------------
(* What a reconciliation and a restore leave of a disk.                    *)

\* A reconciliation rewires the entries, or takes over the global address
\* and leaves the entries for the next time; relays follow.
LEMMA ReconciledIs ==
  ASSUME NEW d, IsDisk(d)
  PROVE  \E e :
           /\ IsDisk(e)
           /\ Reconciled(d) = Ensured(e)
           /\ e.bak = d.bak /\ e.relays = d.relays
           /\ \/ (~ Qwen \/ d.base = Proxy) /\ e = Rewired(d)
              \/ /\ Qwen /\ d.base # Proxy
                 /\ e.base = Proxy /\ e.file = d.file
                 /\ IF Reclaimed(d.base) THEN e.snap = d.snap
                    ELSE e.snap.urls = Nothing /\ e.snap.gates = Nothing
<1>1. CASE ~ Qwen \/ d.base = Proxy
  <2>1. Reconciled(d) = Ensured(Rewired(d))
    BY <1>1 DEF Reconciled
  <2> QED
    BY <1>1, <2>1, RewiredIs
<1>2. CASE (Qwen /\ d.base # Proxy) /\ Reclaimed(d.base)
  <2> DEFINE e == [d EXCEPT !.base = Proxy]
  <2>1. Reconciled(d) = Ensured(e)
    BY <1>2 DEF Reconciled
  <2>2. /\ e.base = Proxy /\ e.file = d.file /\ e.snap = d.snap
        /\ e.bak = d.bak /\ e.relays = d.relays
        /\ IsDisk(e)
    BY DEF IsDisk, Bases
  <2> HIDE DEF e
  <2> QED
    BY <1>2, <2>1, <2>2
<1>3. CASE (Qwen /\ d.base # Proxy) /\ ~ Reclaimed(d.base)
  <2> DEFINE s == [NoSnap EXCEPT !.held = TRUE, !.base = d.base]
             e == [d EXCEPT !.base = Proxy, !.snap = s]
  <2>1. Reconciled(d) = Ensured(e)
    BY <1>3 DEF Reconciled
  <2>2. IsSnap(s) /\ s.urls = Nothing /\ s.gates = Nothing
    <3>1. d.base \in Bases
      BY DEF IsDisk
    <3> QED
      BY <3>1, NothingHas DEF IsSnap, NoSnap
  <2> HIDE DEF s
  <2>3. /\ e.base = Proxy /\ e.file = d.file /\ e.snap = s
        /\ e.bak = d.bak /\ e.relays = d.relays
        /\ IsDisk(e)
    BY <2>2 DEF IsDisk, Bases
  <2> HIDE DEF e
  <2> QED
    BY <1>3, <2>1, <2>2, <2>3
<1> QED
  BY <1>1, <1>2, <1>3

\* A reconciliation leaves a disk, with the global address taken over.
LEMMA ReconciledDisk ==
  ASSUME NEW d, IsDisk(d)
  PROVE  /\ IsDisk(Reconciled(d))
         /\ Qwen => Reconciled(d).base = Proxy
         /\ Reconciled(d).bak = d.bak
<1>1. PICK e : /\ IsDisk(e)
               /\ Reconciled(d) = Ensured(e)
               /\ e.bak = d.bak
               /\ \/ (~ Qwen \/ d.base = Proxy) /\ e = Rewired(d)
                  \/ e.base = Proxy
  BY ReconciledIs
<1>2. Qwen => e.base = Proxy
  BY <1>1, RewiredIs
<1> QED
  BY <1>1, <1>2, EnsuredIs

\* To make sure of the relays twice does no more than once, whatever else
\* becomes of the disk in between; and rewiring does not look at relays.
LEMMA RewiredKeepsRelays ==
  ASSUME NEW d, IsDisk(d),
         \A i \in DOMAIN d.file : IsTaken(d.file[i]) /\ ~ Closed(d.file[i])
  PROVE  Rewired(d) = d
<1>1. d.file \in Seq(Entry)
  BY DEF IsDisk
<1>2. NewUrls(d.file) = Nothing /\ NewGates(d.file) = Nothing
  BY <1>1, NewUrlsIs, NewGatesIs DEF IsTaken
<1> QED
  BY <1>2 DEF Rewired

\* Two reconciliations settle every disk.
LEMMA SettlesHolds ==
  ASSUME NEW d, IsDisk(d)
  PROVE  LET e == Reconciled(Reconciled(d))
         IN  /\ Reconciled(e) = e
             /\ Qwen => e.base = Proxy
             /\ \A x \in Range(e.file) : IsTaken(x) /\ ~ Closed(x)
<1> DEFINE c == Reconciled(d)
           e == Reconciled(c)
<1>1. IsDisk(c) /\ (Qwen => c.base = Proxy)
  BY ReconciledDisk
<1> HIDE DEF c
<1>2. e = Ensured(Rewired(c))
  BY <1>1 DEF Reconciled
<1>3. /\ IsDisk(Rewired(c))
      /\ \A i \in DOMAIN Rewired(c).file :
           IsTaken(Rewired(c).file[i]) /\ ~ Closed(Rewired(c).file[i])
      /\ Qwen => Rewired(c).base = Proxy
  BY <1>1, RewiredIs, RewiredWhole
<1>4. /\ IsDisk(e) /\ e.file = Rewired(c).file /\ e.base = Rewired(c).base
      /\ Ensured(e) = e
  BY <1>2, <1>3, EnsuredIs
<1> HIDE DEF e
<1>5. Rewired(e) = e
  BY <1>3, <1>4, RewiredKeepsRelays
<1>6. Reconciled(e) = e
  BY <1>3, <1>4, <1>5 DEF Reconciled
<1>7. \A x \in Range(e.file) : IsTaken(x) /\ ~ Closed(x)
  BY <1>3, <1>4 DEF Range
<1> QED
  BY <1>3, <1>4, <1>6, <1>7 DEF c, e

\* A restore replaces addresses and gates, entry by entry.
LEMMA RestoredEntriesIs ==
  ASSUME NEW d, IsDisk(d)
  PROVE  LET f == RestoredEntries(d.file, d.snap) IN
         /\ f \in Seq(Entry)
         /\ DOMAIN f = DOMAIN d.file
         /\ HasKinds(f)
         /\ \A i \in DOMAIN d.file :
              LET e == d.file[i]
                  k == ReadKey(d.snap.urls, d.file, i) IN
              /\ f[i].id = e.id /\ f[i].tag = e.tag
              /\ e.url # Proxy => f[i] = e
              /\ e.url = Proxy =>
                   /\ f[i].url = IF k \in DOMAIN d.snap.urls
                                 THEN d.snap.urls[k] ELSE Proxy
                   /\ f[i].gate =
                        IF k \in DOMAIN d.snap.gates
                           /\ (Qwen \/ e.gate # "none")
                        THEN d.snap.gates[k] ELSE e.gate
<1> DEFINE f == RestoredEntries(d.file, d.snap)
<1>0. d.file \in Seq(Entry) /\ IsSnap(d.snap) /\ HasKinds(d.file)
  BY DEF IsDisk
<1>1. DOMAIN f = DOMAIN d.file /\ f = [i \in DOMAIN d.file |-> f[i]]
  BY DEF RestoredEntries
<1>2. ASSUME NEW i \in DOMAIN d.file
      PROVE  LET e == d.file[i]
                 k == ReadKey(d.snap.urls, d.file, i) IN
             /\ f[i].id = e.id /\ f[i].tag = e.tag
             /\ e.url # Proxy => f[i] = e
             /\ e.url = Proxy =>
                  /\ f[i].url = IF k \in DOMAIN d.snap.urls
                                THEN d.snap.urls[k] ELSE Proxy
                  /\ f[i].gate =
                       IF k \in DOMAIN d.snap.gates
                          /\ (Qwen \/ e.gate # "none")
                       THEN d.snap.gates[k] ELSE e.gate
             /\ f[i] \in Entry
  <2> DEFINE e == d.file[i]
             k == ReadKey(d.snap.urls, d.file, i)
  <2>1. e \in Entry
    BY <1>0, EntryIs
  <2>2. CASE e.url # Proxy
    BY <2>1, <2>2 DEF RestoredEntries
  <2>3. CASE e.url = Proxy
    <3> DEFINE u == IF k \in DOMAIN d.snap.urls THEN d.snap.urls[k] ELSE Proxy
               g == IF k \in DOMAIN d.snap.gates
                       /\ (Qwen \/ e.gate # "none")
                    THEN d.snap.gates[k] ELSE e.gate
    <3>1. f[i] = [e EXCEPT !.url = u, !.gate = g]
      BY <2>3 DEF RestoredEntries
    <3>2. u \in Urls \cup Ports \cup {Proxy} /\ g \in Gates
      BY <1>0, <2>1 DEF IsSnap, Addresses, Entry
    <3> HIDE DEF u, g, e, k, f
    <3>3. /\ f[i].id = e.id /\ f[i].tag = e.tag
          /\ f[i].url = u /\ f[i].gate = g
          /\ f[i] \in Entry
      BY <2>1, <3>1, <3>2 DEF Entry
    <3> QED
      BY <2>3, <3>3 DEF u, g, e, k
  <2> QED
    BY <2>2, <2>3
<1> HIDE DEF f
<1>3. f \in Seq(Entry)
  BY <1>0, <1>1, <1>2, MapIs
<1>4. HasKinds(f)
  BY <1>0, <1>1, <1>2 DEF HasKinds
<1> QED
  BY <1>1, <1>2, <1>3, <1>4 DEF f

\* The two sources of a restore.
LEMMA FromSnapshotIs ==
  ASSUME NEW d, IsDisk(d)
  PROVE  /\ IsDisk(FromSnapshot(d))
         /\ FromSnapshot(d).file = RestoredEntries(d.file, d.snap)
         /\ FromSnapshot(d).snap = d.snap
         /\ FromSnapshot(d).relays = d.relays
         /\ FromSnapshot(d).bak = NoBak
<1> DEFINE f == RestoredEntries(d.file, d.snap)
           b == IF Qwen THEN d.snap.base ELSE d.base
<1>1. f \in Seq(Entry) /\ HasKinds(f)
  BY RestoredEntriesIs
<1>2. b \in Bases
  BY DEF IsDisk, IsSnap
<1>3. /\ NoBak \in [held : BOOLEAN, file : Seq(Entry), base : Bases]
      /\ HasKinds(NoBak.file)
  BY DEF NoBak, Bases, HasKinds
<1>4. FromSnapshot(d) = [d EXCEPT !.file = f, !.base = b, !.bak = NoBak]
  BY DEF FromSnapshot
<1> HIDE DEF f, b
<1> QED
  BY <1>1, <1>2, <1>3, <1>4 DEF IsDisk, f

LEMMA FromBackupIs ==
  ASSUME NEW d, IsDisk(d)
  PROVE  /\ IsDisk(FromBackup(d))
         /\ FromBackup(d).file = d.bak.file
         /\ FromBackup(d).snap = d.snap
         /\ FromBackup(d).relays = d.relays
         /\ FromBackup(d).bak = NoBak
<1>1. /\ NoBak \in [held : BOOLEAN, file : Seq(Entry), base : Bases]
      /\ HasKinds(NoBak.file)
  BY DEF NoBak, Bases, HasKinds
<1>2. /\ d.bak.file \in Seq(Entry) /\ HasKinds(d.bak.file)
      /\ d.bak.base \in Bases
  BY DEF IsDisk
<1> QED
  BY <1>1, <1>2 DEF IsDisk, FromBackup

\* A stop restores from the snapshot, or else from the whole-file backup.
LEMMA RestoredIs ==
  ASSUME NEW d, IsDisk(d)
  PROVE  /\ IsDisk(Restored(d))
         /\ Restored(d).relays = d.relays
         /\ \/ Restored(d) = d /\ (~ d.snap.held \/ (Qwen /\ d.base # Proxy))
            \/ Restored(d) = FromSnapshot(d) /\ d.snap.held
            \/ Restored(d) = FromBackup(d) /\ ~ d.snap.held
BY FromSnapshotIs, FromBackupIs DEF Restored

-----------------------------------------------------------------------------
(* Form of the disk at first and after edits.                              *)

LEMMA InitShapes == Init => Shapes
<1> SUFFICES ASSUME Init PROVE Shapes
  OBVIOUS
<1>1. harness \in Harnesses
  BY DEF Init
<1>2. PICK f \in Files[harness] :
        /\ disk = [file |-> f.file, base |-> f.base, snap |-> NoSnap,
                   bak |-> NoBak, relays |-> {}]
        /\ own = [id \in Ids |->
                   IF \E e \in Range(f.file) : e.id = id
                   THEN CHOOSE e \in Range(f.file) : e.id = id
                   ELSE [id |-> id, tag |-> NoEnv, url |-> Proxy,
                         gate |-> "none"]]
  BY DEF Init
<1>3. f.file \in Seq(Entry) /\ f.base \in Bases
  <2>1. f \in [file : Seq(Entry), base : Globals \cup {NoUrl}]
    BY <1>1, <1>2, EntriesAssumption
  <2> QED
    BY <2>1, EntriesAssumption DEF Bases
<1>4. HasKinds(f.file)
  <2>1. CASE Qwen
    BY <2>1 DEF HasKinds
  <2>2. CASE ~ Qwen
    <3>1. harness = "zcode"
      BY <1>1, <2>2, EntriesAssumption DEF Qwen
    <3> QED
      BY <1>1, <1>2, <3>1, FilesAssumption DEF HasKinds
  <2> QED
    BY <2>1, <2>2
<1>5. IsDisk(disk)
  <2>1. NoBak \in [held : BOOLEAN, file : Seq(Entry), base : Bases]
    BY DEF NoBak, Bases
  <2>2. HasKinds(NoBak.file)
    BY DEF HasKinds, NoBak
  <2>3. /\ disk \in [file : Seq(Entry), base : Bases, snap : {NoSnap},
              bak : [held : BOOLEAN, file : Seq(Entry), base : Bases],
              relays : SUBSET Relay]
        /\ disk.file = f.file /\ disk.snap = NoSnap /\ disk.bak = NoBak
    BY <1>2, <1>3, <2>1
  <2> QED
    BY <1>4, <2>2, <2>3, NoSnapIs DEF IsDisk
<1>6. own \in [Ids -> Entry]
  <2>1. ASSUME NEW id \in Ids PROVE own[id] \in Entry
    <3>1. CASE \E e \in Range(f.file) : e.id = id
      <4>1. own[id] \in Range(f.file)
        BY <1>2, <3>1
      <4> QED
        BY <1>3, <4>1, EntryIs DEF Range
    <3>2. CASE ~ \E e \in Range(f.file) : e.id = id
      BY <1>2, <3>2 DEF Entry, Gates
    <3> QED
      BY <3>1, <3>2
  <2> QED
    BY <1>2, <2>1
<1>7. /\ service = "down" /\ fresh = NoFresh /\ on = FALSE /\ checked = TRUE
      /\ lostUrl = {} /\ lostGate = {} /\ edits = 0
  BY DEF Init
<1>8. /\ DOMAIN fresh.urls = {} /\ DOMAIN fresh.gates = {}
      /\ fresh.base \in Bases
  BY <1>7, NothingHas DEF NoFresh, Bases
<1>9. edits \in 0..MaxEdits
  BY <1>7, EntriesAssumption
<1>10. /\ \A key \in DOMAIN fresh.urls : fresh.urls[key] \in Addresses
       /\ \A key \in DOMAIN fresh.gates : fresh.gates[key] \in Gates
  BY <1>8
<1> QED
  BY <1>1, <1>5, <1>6, <1>7, <1>8, <1>9, <1>10 DEF Shapes

LEMMA NoFreshIs ==
  /\ DOMAIN NoFresh.urls = {} /\ DOMAIN NoFresh.gates = {}
  /\ NoFresh.base \in Bases
BY NothingHas DEF NoFresh, Bases

\* Only ids are ever lost.
LEMMA LostIs ==
  ASSUME Shapes, Shapes => IsDisk(disk')
  PROVE  /\ Learn \/ Lose \/ Overwrite =>
              lostUrl' \subseteq Ids /\ lostGate' \subseteq Ids
         /\ \A e : Group(e) \subseteq Ids
<1>1. /\ \A i \in DOMAIN disk.file : disk.file[i].id \in Ids
      /\ \A i \in DOMAIN disk'.file : disk'.file[i].id \in Ids
      /\ lostUrl \subseteq Ids /\ lostGate \subseteq Ids
  BY EntryIs DEF Shapes, IsDisk
<1>2. Learn => lostUrl' \subseteq Ids /\ lostGate' \subseteq Ids
  BY <1>1 DEF Learn
<1>3. Lose => lostUrl' \subseteq Ids /\ lostGate' \subseteq Ids
  BY <1>1 DEF Lose, At
<1>4. Overwrite => lostUrl' \subseteq Ids /\ lostGate' \subseteq Ids
  BY <1>1 DEF Overwrite, At
<1>5. \A e : Group(e) \subseteq Ids
  BY <1>1 DEF Group, At
<1> QED
  BY <1>2, <1>3, <1>4, <1>5

\* Files with one entry changed, removed or added.
LEMMA SetUrlIs ==
  ASSUME NEW file \in Seq(Entry), NEW i \in DOMAIN file, NEW v \in Addresses
  PROVE  LET f == [file EXCEPT ![i].url = v] IN
         /\ f \in Seq(Entry) /\ DOMAIN f = DOMAIN file
         /\ \A j \in DOMAIN file \ {i} : f[j] = file[j]
         /\ f[i].id = file[i].id /\ f[i].tag = file[i].tag
         /\ f[i].url = v /\ f[i].gate = file[i].gate
<1> DEFINE f == [file EXCEPT ![i].url = v]
<1>1. /\ DOMAIN f = DOMAIN file
      /\ f = [j \in DOMAIN file |-> f[j]]
      /\ \A j \in DOMAIN file \ {i} : f[j] = file[j]
      /\ f[i] = [file[i] EXCEPT !.url = v]
  OBVIOUS
<1>2. \A j \in DOMAIN file : file[j] \in Entry
  BY EntryIs
<1> HIDE DEF f
<1>3. /\ f[i] \in Entry
      /\ f[i].id = file[i].id /\ f[i].tag = file[i].tag
      /\ f[i].url = v /\ f[i].gate = file[i].gate
  BY <1>1, <1>2 DEF Entry, Addresses
<1>4. \A j \in DOMAIN file : f[j] \in Entry
  BY <1>1, <1>2, <1>3
<1>5. f \in Seq(Entry)
  BY <1>1, <1>4, MapIs
<1> QED
  BY <1>1, <1>3, <1>5 DEF f

LEMMA SetGateIs ==
  ASSUME NEW file \in Seq(Entry), NEW i \in DOMAIN file, NEW v \in Gates
  PROVE  LET f == [file EXCEPT ![i].gate = v] IN
         /\ f \in Seq(Entry) /\ DOMAIN f = DOMAIN file
         /\ \A j \in DOMAIN file \ {i} : f[j] = file[j]
         /\ f[i].id = file[i].id /\ f[i].tag = file[i].tag
         /\ f[i].url = file[i].url /\ f[i].gate = v
<1> DEFINE f == [file EXCEPT ![i].gate = v]
<1>1. /\ DOMAIN f = DOMAIN file
      /\ f = [j \in DOMAIN file |-> f[j]]
      /\ \A j \in DOMAIN file \ {i} : f[j] = file[j]
      /\ f[i] = [file[i] EXCEPT !.gate = v]
  OBVIOUS
<1>2. \A j \in DOMAIN file : file[j] \in Entry
  BY EntryIs
<1> HIDE DEF f
<1>3. /\ f[i] \in Entry
      /\ f[i].id = file[i].id /\ f[i].tag = file[i].tag
      /\ f[i].url = file[i].url /\ f[i].gate = v
  BY <1>1, <1>2 DEF Entry, Addresses
<1>4. \A j \in DOMAIN file : f[j] \in Entry
  BY <1>1, <1>2, <1>3
<1>5. f \in Seq(Entry)
  BY <1>1, <1>4, MapIs
<1> QED
  BY <1>1, <1>3, <1>5 DEF f

LEMMA SetTagIs ==
  ASSUME NEW file \in Seq(Entry), NEW i \in DOMAIN file, NEW v \in Tags
  PROVE  LET f == [file EXCEPT ![i].tag = v] IN
         /\ f \in Seq(Entry) /\ DOMAIN f = DOMAIN file
         /\ \A j \in DOMAIN file \ {i} : f[j] = file[j]
         /\ f[i].id = file[i].id /\ f[i].tag = v
         /\ f[i].url = file[i].url /\ f[i].gate = file[i].gate
<1> DEFINE f == [file EXCEPT ![i].tag = v]
<1>1. /\ DOMAIN f = DOMAIN file
      /\ f = [j \in DOMAIN file |-> f[j]]
      /\ \A j \in DOMAIN file \ {i} : f[j] = file[j]
      /\ f[i] = [file[i] EXCEPT !.tag = v]
  OBVIOUS
<1>2. \A j \in DOMAIN file : file[j] \in Entry
  BY EntryIs
<1> HIDE DEF f
<1>3. /\ f[i] \in Entry
      /\ f[i].id = file[i].id /\ f[i].tag = v
      /\ f[i].url = file[i].url /\ f[i].gate = file[i].gate
  BY <1>1, <1>2 DEF Entry, Addresses
<1>4. \A j \in DOMAIN file : f[j] \in Entry
  BY <1>1, <1>2, <1>3
<1>5. f \in Seq(Entry)
  BY <1>1, <1>4, MapIs
<1> QED
  BY <1>1, <1>3, <1>5 DEF f

LEMMA RemovedIs ==
  ASSUME NEW file \in Seq(Entry), NEW i \in DOMAIN file
  PROVE  LET f == [j \in 1..Len(file) - 1 |->
                     file[IF j < i THEN j ELSE j + 1]] IN
         /\ f \in Seq(Entry)
         /\ \A j \in DOMAIN f :
              LET k == IF j < i THEN j ELSE j + 1 IN
              /\ k \in DOMAIN file \ {i}
              /\ f[j] = file[k]
              /\ k # j => k > i
<1> DEFINE f == [j \in 1..Len(file) - 1 |->
                   file[IF j < i THEN j ELSE j + 1]]
<1>1. Len(file) \in Nat /\ DOMAIN file = 1..Len(file) /\ i \in 1..Len(file)
  OBVIOUS
<1>2. ASSUME NEW j \in 1..Len(file) - 1
      PROVE  LET k == IF j < i THEN j ELSE j + 1 IN
             /\ k \in DOMAIN file \ {i}
             /\ k # j => k > i
  BY <1>1
<1>3. \A j \in 1..Len(file) - 1 : f[j] \in Entry
  BY <1>2, EntryIs
<1>4. f \in [1..Len(file) - 1 -> Entry] /\ Len(file) - 1 \in Nat
  BY <1>1, <1>3
<1>5. f \in Seq(Entry) /\ DOMAIN f = 1..Len(file) - 1
  BY <1>4
<1> QED
  BY <1>2, <1>5

LEMMA AddedIs ==
  ASSUME NEW file \in Seq(Entry), NEW e \in Entry
  PROVE  LET f == Append(file, e) IN
         /\ f \in Seq(Entry)
         /\ Len(file) + 1 \in DOMAIN f
         /\ DOMAIN f = DOMAIN file \cup {Len(file) + 1}
         /\ Len(file) + 1 \notin DOMAIN file
         /\ f[Len(file) + 1] = e
         /\ \A j \in DOMAIN file : f[j] = file[j]
OBVIOUS

-----------------------------------------------------------------------------
(* What the commands and the edits make of the disk.                       *)

\* The same keys with the same values.
SameMap(f, g) ==
  DOMAIN f = DOMAIN g /\ \A key \in DOMAIN f : f[key] = g[key]

\* The end of a start saves what it has learned, and reconciles.
LEMMA FinishIs ==
  ASSUME Shapes, FinishStart
  PROVE  \E d :
           /\ IsDisk(d)
           /\ disk' = Reconciled(Ensured(d))
           /\ d.file = disk.file /\ d.bak = disk.bak
           /\ d.relays = disk.relays
           /\ Qwen => d.base = Proxy
           /\ SameMap(d.snap.urls, Over(fresh.urls, disk.snap.urls))
           /\ SameMap(d.snap.gates, Over(fresh.gates, disk.snap.gates))
<1> DEFINE moved == fresh.base \notin {NoUrl, Proxy}
           news == moved \/ fresh.urls # Nothing \/ fresh.gates # Nothing
           base == IF moved THEN fresh.base
                   ELSE IF disk.snap.held THEN disk.snap.base ELSE fresh.base
           old == [disk.snap EXCEPT !.base = base]
           snap == IF news THEN Merged(old, fresh.urls, fresh.gates)
                   ELSE disk.snap
           d == [disk EXCEPT !.base = IF Qwen THEN Proxy ELSE disk.base,
                             !.snap = snap]
<1>1. disk' = Reconciled(Ensured(d))
  BY DEF FinishStart
<1>2. IsDisk(disk) /\ IsSnap(disk.snap)
  BY DEF Shapes, IsDisk
<1>3. IsSnap(old) /\ old.urls = disk.snap.urls /\ old.gates = disk.snap.gates
  <2>1. base \in Bases
    BY <1>2 DEF Shapes, IsSnap
  <2> HIDE DEF base
  <2> QED
    BY <1>2, <2>1 DEF IsSnap
<1> HIDE DEF old
<1>4. /\ IsSnap(snap)
      /\ SameMap(snap.urls, Over(fresh.urls, disk.snap.urls))
      /\ SameMap(snap.gates, Over(fresh.gates, disk.snap.gates))
  <2>1. CASE news
    <3>1. /\ \A key \in DOMAIN fresh.urls : fresh.urls[key] \in Addresses
          /\ \A key \in DOMAIN fresh.gates : fresh.gates[key] \in Gates
      BY DEF Shapes
    <3>2. /\ IsSnap(Merged(old, fresh.urls, fresh.gates))
          /\ Merged(old, fresh.urls, fresh.gates).urls =
               Over(fresh.urls, old.urls)
          /\ Merged(old, fresh.urls, fresh.gates).gates =
               Over(fresh.gates, old.gates)
      <4> DEFINE urls == fresh.urls
                 gates == fresh.gates
      <4>1. /\ IsSnap(old)
            /\ \A key \in DOMAIN urls : urls[key] \in Addresses
            /\ \A key \in DOMAIN gates : gates[key] \in Gates
        BY <1>3, <3>1
      <4> HIDE DEF urls, gates
      <4>2. /\ IsSnap(Merged(old, urls, gates))
            /\ Merged(old, urls, gates).urls = Over(urls, old.urls)
            /\ Merged(old, urls, gates).gates = Over(gates, old.gates)
        BY <4>1, MergedIs
      <4> QED
        BY <4>2 DEF urls, gates
    <3>3. snap = Merged(old, fresh.urls, fresh.gates)
      BY <2>1
    <3> HIDE DEF snap
    <3> QED
      BY <1>3, <3>2, <3>3 DEF SameMap
  <2>2. CASE ~ news
    <3>1. DOMAIN fresh.urls = {} /\ DOMAIN fresh.gates = {}
      BY <2>2, NothingHas
    <3>2. /\ SameMap(disk.snap.urls, Over(fresh.urls, disk.snap.urls))
          /\ SameMap(disk.snap.gates, Over(fresh.gates, disk.snap.gates))
      BY <3>1 DEF SameMap, Over
    <3> QED
      BY <1>2, <2>2, <3>2
  <2> QED
    BY <2>1, <2>2
<1> HIDE DEF snap
<1>5. /\ d.file = disk.file /\ d.bak = disk.bak /\ d.relays = disk.relays
      /\ d.snap = snap
      /\ Qwen => d.base = Proxy
      /\ d \in [file : Seq(Entry), base : Bases, snap : {snap},
                bak : [held : BOOLEAN, file : Seq(Entry), base : Bases],
                relays : SUBSET Relay]
  BY <1>2 DEF IsDisk, Bases
<1> HIDE DEF d
<1>6. IsDisk(d)
  BY <1>2, <1>4, <1>5 DEF IsDisk
<1> QED
  BY <1>1, <1>4, <1>5, <1>6

\* What the other commands make of the disk.
LEMMA CommandDisk ==
  ASSUME Shapes
  PROVE  /\ BeginStart => /\ IsDisk(disk')
                          /\ disk'.file = Rewritten(disk.file)
                          /\ disk'.snap = disk.snap
                          /\ disk'.relays = disk.relays
                          /\ disk'.bak.file = disk.bak.file
                               \/ disk'.bak.file = disk.file
         /\ FinishStart => IsDisk(disk')
         /\ Stop => /\ IsDisk(disk')
                    /\ \E d \in {disk, Restored(disk)} :
                         /\ checked => d = Restored(disk)
                         /\ disk'.file = d.file /\ disk'.snap = d.snap
                         /\ disk'.bak = d.bak
                    /\ disk'.relays = {}
         /\ Uncheck => /\ IsDisk(disk')
                       /\ disk'.file = Restored(disk).file
                       /\ disk'.snap = Restored(disk).snap
                       /\ disk'.bak = Restored(disk).bak
                       /\ disk'.relays \subseteq disk.relays
         /\ Reconcile => IsDisk(disk')
         /\ RestoreBySnapshot => IsDisk(disk')
<1>0. IsDisk(disk) /\ IsDisk(Restored(disk))
      /\ Restored(disk).relays = disk.relays
  BY RestoredIs DEF Shapes
<1>1. ASSUME BeginStart
      PROVE  /\ IsDisk(disk')
             /\ disk'.file = Rewritten(disk.file)
             /\ disk'.snap = disk.snap
             /\ disk'.relays = disk.relays
             /\ disk'.bak.file = disk.bak.file \/ disk'.bak.file = disk.file
  <2> DEFINE b == IF disk.bak.held THEN disk.bak
                  ELSE [held |-> TRUE, file |-> disk.file, base |-> disk.base]
  <2>1. disk' = [disk EXCEPT !.file = Rewritten(disk.file), !.bak = b]
    BY <1>1 DEF BeginStart
  <2>2. Rewritten(disk.file) \in Seq(Entry) /\ HasKinds(Rewritten(disk.file))
    <3>1. disk.file \in Seq(Entry) /\ HasKinds(disk.file)
      BY <1>0 DEF IsDisk
    <3> QED
      BY <3>1, RewrittenIs DEF HasKinds
  <2>3. /\ b \in [held : BOOLEAN, file : Seq(Entry), base : Bases]
        /\ b.file = disk.bak.file \/ b.file = disk.file
    BY <1>0 DEF IsDisk
  <2> HIDE DEF b
  <2>4. /\ disk'.file = Rewritten(disk.file) /\ disk'.bak = b
        /\ disk'.snap = disk.snap /\ disk'.relays = disk.relays
        /\ disk' \in [file : Seq(Entry), base : Bases, snap : {disk.snap},
                bak : [held : BOOLEAN, file : Seq(Entry), base : Bases],
                relays : SUBSET Relay]
    BY <1>0, <2>1, <2>2, <2>3 DEF IsDisk
  <2>5. HasKinds(b.file)
    BY <1>0, <2>3 DEF IsDisk
  <2>6. IsDisk(disk')
    BY <1>0, <2>2, <2>4, <2>5 DEF IsDisk
  <2> QED
    BY <2>3, <2>4, <2>6
<1>2. ASSUME FinishStart PROVE IsDisk(disk')
  BY <1>2, FinishIs, EnsuredIs, ReconciledDisk
<1>3. ASSUME Stop
      PROVE  /\ IsDisk(disk')
             /\ \E d \in {disk, Restored(disk)} :
                         /\ checked => d = Restored(disk)
                  /\ disk'.file = d.file /\ disk'.snap = d.snap
                  /\ disk'.bak = d.bak
             /\ disk'.relays = {}
  <2>1. PICK d \in {disk, Restored(disk)} :
          /\ checked => d = Restored(disk)
          /\ disk' = [d EXCEPT !.relays = {}]
    BY <1>3 DEF Stop
  <2>2. IsDisk(d)
    BY <1>0, <2>1
  <2> QED
    BY <2>1, <2>2 DEF IsDisk
<1>4. ASSUME Uncheck
      PROVE  /\ IsDisk(disk')
             /\ disk'.file = Restored(disk).file
             /\ disk'.snap = Restored(disk).snap
             /\ disk'.bak = Restored(disk).bak
             /\ disk'.relays \subseteq disk.relays
  <2>1. disk' = [Restored(disk) EXCEPT !.relays =
                   IF Qwen THEN Restored(disk).relays ELSE {}]
    BY <1>4 DEF Uncheck
  <2> QED
    BY <1>0, <2>1 DEF IsDisk
<1>5. ASSUME Reconcile PROVE IsDisk(disk')
  BY <1>0, <1>5, ReconciledDisk DEF Reconcile
<1>6. ASSUME RestoreBySnapshot PROVE IsDisk(disk')
  BY <1>0, <1>6, FromSnapshotIs DEF RestoreBySnapshot
<1> QED
  BY <1>1, <1>2, <1>3, <1>4, <1>5, <1>6

\* An edit leaves another file and the rest of the disk.
LEMMA EditDisk ==
  ASSUME Shapes, NEW file \in Seq(Entry), HasKinds(file), Edit(file)
  PROVE  /\ IsDisk(disk')
         /\ disk'.file = file /\ disk'.snap = disk.snap
         /\ disk'.bak = disk.bak /\ disk'.relays = disk.relays
         /\ edits' \in 0..MaxEdits
         /\ UNCHANGED <<harness, service, fresh, on, checked>>
<1>1. disk' = [disk EXCEPT !.file = file] /\ IsDisk(disk)
  BY DEF Edit, Shapes
<1>2. /\ disk'.file = file /\ disk'.snap = disk.snap
      /\ disk'.bak = disk.bak /\ disk'.relays = disk.relays
      /\ disk' \in [file : Seq(Entry), base : Bases, snap : {disk.snap},
                bak : [held : BOOLEAN, file : Seq(Entry), base : Bases],
                relays : SUBSET Relay]
  BY <1>1 DEF IsDisk
<1>3. IsDisk(disk')
  BY <1>1, <1>2 DEF IsDisk
<1>4. edits' \in 0..MaxEdits
  BY EntriesAssumption DEF Edit, Shapes
<1> QED
  BY <1>2, <1>3, <1>4 DEF Edit

\* Each of the user's edits of an entry.
LEMMA UrlSet ==
  ASSUME Shapes, NEW i \in DOMAIN disk.file, NEW url \in Addresses,
         SetUrl(i, url)
  PROVE  /\ IsDisk(disk')
         /\ disk'.snap = disk.snap /\ disk'.bak = disk.bak
         /\ disk'.relays = disk.relays
         /\ edits' \in 0..MaxEdits
         /\ UNCHANGED <<harness, service, fresh, on, checked, lostGate>>
         /\ DOMAIN disk'.file = DOMAIN disk.file
         /\ \A j \in DOMAIN disk.file \ {i} : disk'.file[j] = disk.file[j]
         /\ disk'.file[i].id = disk.file[i].id
         /\ disk'.file[i].tag = disk.file[i].tag
         /\ disk'.file[i].url = url
         /\ disk'.file[i].gate = disk.file[i].gate
         /\ lostUrl' = lostUrl \cup Group(disk.file[i])
         /\ own' = [own EXCEPT ![disk.file[i].id].url = url]
<1> DEFINE f == [disk.file EXCEPT ![i].url = url]
<1>0. disk.file \in Seq(Entry) /\ HasKinds(disk.file)
  BY DEF Shapes, IsDisk
<1>1. /\ f \in Seq(Entry) /\ DOMAIN f = DOMAIN disk.file
      /\ \A j \in DOMAIN disk.file \ {i} : f[j] = disk.file[j]
      /\ f[i].id = disk.file[i].id /\ f[i].tag = disk.file[i].tag
      /\ f[i].url = url /\ f[i].gate = disk.file[i].gate
  BY <1>0, SetUrlIs
<1>2. /\ Edit(f) /\ lostUrl' = lostUrl \cup Group(disk.file[i])
      /\ own' = [own EXCEPT ![disk.file[i].id].url = url]
      /\ UNCHANGED lostGate
  BY DEF SetUrl
<1> HIDE DEF f
<1>3. HasKinds(f)
  BY <1>0, <1>1 DEF HasKinds
<1>4. /\ IsDisk(disk')
      /\ disk'.file = f /\ disk'.snap = disk.snap
      /\ disk'.bak = disk.bak /\ disk'.relays = disk.relays
      /\ edits' \in 0..MaxEdits
      /\ UNCHANGED <<harness, service, fresh, on, checked>>
  BY <1>1, <1>2, <1>3, EditDisk
<1> QED
  BY <1>1, <1>2, <1>4

LEMMA GateSet ==
  ASSUME Shapes, NEW i \in DOMAIN disk.file, NEW gate \in Gates,
         SetGate(i, gate)
  PROVE  /\ IsDisk(disk')
         /\ disk'.snap = disk.snap /\ disk'.bak = disk.bak
         /\ disk'.relays = disk.relays
         /\ edits' \in 0..MaxEdits
         /\ UNCHANGED <<harness, service, fresh, on, checked, lostUrl>>
         /\ DOMAIN disk'.file = DOMAIN disk.file
         /\ \A j \in DOMAIN disk.file \ {i} : disk'.file[j] = disk.file[j]
         /\ disk'.file[i].id = disk.file[i].id
         /\ disk'.file[i].tag = disk.file[i].tag
         /\ disk'.file[i].url = disk.file[i].url
         /\ disk'.file[i].gate = gate
         /\ own' = [own EXCEPT ![disk.file[i].id].gate = gate]
         /\ lostGate' = IF Recording THEN lostGate \cup {disk.file[i].id}
                                     ELSE lostGate
<1> DEFINE f == [disk.file EXCEPT ![i].gate = gate]
<1>0. disk.file \in Seq(Entry) /\ HasKinds(disk.file)
  BY DEF Shapes, IsDisk
<1>1. /\ f \in Seq(Entry) /\ DOMAIN f = DOMAIN disk.file
      /\ \A j \in DOMAIN disk.file \ {i} : f[j] = disk.file[j]
      /\ f[i].id = disk.file[i].id /\ f[i].tag = disk.file[i].tag
      /\ f[i].url = disk.file[i].url /\ f[i].gate = gate
  BY <1>0, SetGateIs
<1>2. /\ Edit(f)
      /\ own' = [own EXCEPT ![disk.file[i].id].gate = gate]
      /\ lostGate' = IF Recording THEN lostGate \cup {disk.file[i].id}
                                     ELSE lostGate
      /\ UNCHANGED lostUrl
  BY DEF SetGate
<1> HIDE DEF f
<1>3. HasKinds(f)
  BY <1>0, <1>1 DEF HasKinds
<1>4. /\ IsDisk(disk')
      /\ disk'.file = f /\ disk'.snap = disk.snap
      /\ disk'.bak = disk.bak /\ disk'.relays = disk.relays
      /\ edits' \in 0..MaxEdits
      /\ UNCHANGED <<harness, service, fresh, on, checked>>
  BY <1>1, <1>2, <1>3, EditDisk
<1> QED
  BY <1>1, <1>2, <1>4

LEMMA KindSet ==
  ASSUME Shapes, NEW i \in DOMAIN disk.file, NEW kind \in Tags,
         SetKind(i, kind)
  PROVE  /\ IsDisk(disk')
         /\ disk'.snap = disk.snap /\ disk'.bak = disk.bak
         /\ disk'.relays = disk.relays
         /\ edits' \in 0..MaxEdits
         /\ UNCHANGED <<harness, service, fresh, on, checked, own>>
         /\ DOMAIN disk'.file = DOMAIN disk.file
         /\ \A j \in DOMAIN disk.file \ {i} : disk'.file[j] = disk.file[j]
         /\ disk'.file[i].id = disk.file[i].id
         /\ disk'.file[i].tag = kind
         /\ disk'.file[i].url = disk.file[i].url
         /\ disk'.file[i].gate = disk.file[i].gate
         /\ ~ Qwen
         /\ lostUrl' = IF IsTaken(disk.file[i])
                       THEN lostUrl \cup {disk.file[i].id} ELSE lostUrl
         /\ lostGate' = IF Recording THEN lostGate \cup {disk.file[i].id}
                                     ELSE lostGate
<1> DEFINE f == [disk.file EXCEPT ![i].tag = kind]
<1>0. disk.file \in Seq(Entry) /\ HasKinds(disk.file)
  BY DEF Shapes, IsDisk
<1>1. /\ f \in Seq(Entry) /\ DOMAIN f = DOMAIN disk.file
      /\ \A j \in DOMAIN disk.file \ {i} : f[j] = disk.file[j]
      /\ f[i].id = disk.file[i].id /\ f[i].tag = kind
      /\ f[i].url = disk.file[i].url /\ f[i].gate = disk.file[i].gate
  BY <1>0, SetTagIs
<1>2. /\ Edit(f)
      /\ ~ Qwen
      /\ lostUrl' = IF IsTaken(disk.file[i])
                       THEN lostUrl \cup {disk.file[i].id} ELSE lostUrl
      /\ lostGate' = IF Recording THEN lostGate \cup {disk.file[i].id}
                                     ELSE lostGate
      /\ UNCHANGED own
  BY DEF SetKind
<1> HIDE DEF f
<1>3. HasKinds(f)
  BY <1>0, <1>1, EntriesAssumption DEF HasKinds
<1>4. /\ IsDisk(disk')
      /\ disk'.file = f /\ disk'.snap = disk.snap
      /\ disk'.bak = disk.bak /\ disk'.relays = disk.relays
      /\ edits' \in 0..MaxEdits
      /\ UNCHANGED <<harness, service, fresh, on, checked>>
  BY <1>1, <1>2, <1>3, EditDisk
<1> QED
  BY <1>1, <1>2, <1>4

LEMMA EntryAdded ==
  ASSUME Shapes, NEW e \in News[harness], Add(e)
  PROVE  /\ IsDisk(disk')
         /\ disk'.snap = disk.snap /\ disk'.bak = disk.bak
         /\ disk'.relays = disk.relays
         /\ edits' \in 0..MaxEdits
         /\ UNCHANGED <<harness, service, fresh, on, checked>>
         /\ \A i \in DOMAIN disk.file : disk.file[i].id # e.id
         /\ \E n \in DOMAIN disk'.file \ DOMAIN disk.file :
              /\ DOMAIN disk'.file = DOMAIN disk.file \cup {n}
              /\ disk'.file[n] = e
         /\ \A j \in DOMAIN disk.file : disk'.file[j] = disk.file[j]
         /\ own' = [own EXCEPT ![e.id] = e]
         /\ lostUrl' = (lostUrl \ {e.id}) \cup Group(e)
                       \cup (IF e.tag \in Mixed THEN {e.id} ELSE {})
         /\ lostGate' = IF Recording THEN lostGate \cup {e.id} ELSE lostGate
         /\ e \in Entry /\ e.url # Proxy
<1> DEFINE f == Append(disk.file, e)
           n == Len(disk.file) + 1
<1>0. disk.file \in Seq(Entry) /\ HasKinds(disk.file) /\ harness \in Harnesses
  BY DEF Shapes, IsDisk
<1>1. e \in Entry /\ e.url # Proxy
  BY <1>0, EntriesAssumption, FilesAssumption
<1>2. ~ Qwen => e.tag # NoEnv
  <2>1. ~ Qwen => harness = "zcode"
    BY <1>0, EntriesAssumption DEF Qwen
  <2> QED
    BY <1>0, <2>1, FilesAssumption
<1>3. /\ f \in Seq(Entry)
      /\ n \in DOMAIN f \ DOMAIN disk.file
      /\ DOMAIN f = DOMAIN disk.file \cup {n}
      /\ f[n] = e
      /\ \A j \in DOMAIN disk.file : f[j] = disk.file[j]
  BY <1>0, <1>1, AddedIs
<1>4. /\ Edit(f)
      /\ \A i \in DOMAIN disk.file : disk.file[i].id # e.id
      /\ own' = [own EXCEPT ![e.id] = e]
      /\ lostUrl' = (lostUrl \ {e.id}) \cup Group(e)
                    \cup (IF e.tag \in Mixed THEN {e.id} ELSE {})
      /\ lostGate' = IF Recording THEN lostGate \cup {e.id} ELSE lostGate
  BY DEF Add
<1> HIDE DEF f, n
<1>5. HasKinds(f)
  BY <1>0, <1>2, <1>3 DEF HasKinds
<1>6. /\ IsDisk(disk')
      /\ disk'.file = f /\ disk'.snap = disk.snap
      /\ disk'.bak = disk.bak /\ disk'.relays = disk.relays
      /\ edits' \in 0..MaxEdits
      /\ UNCHANGED <<harness, service, fresh, on, checked>>
  BY <1>3, <1>4, <1>5, EditDisk
<1> QED
  BY <1>1, <1>3, <1>4, <1>6

\* The entries after the one removed move up.
LEMMA EntryRemoved ==
  ASSUME Shapes, NEW i \in DOMAIN disk.file, Remove(i)
  PROVE  /\ IsDisk(disk')
         /\ disk'.snap = disk.snap /\ disk'.bak = disk.bak
         /\ disk'.relays = disk.relays
         /\ edits' \in 0..MaxEdits
         /\ UNCHANGED <<harness, service, fresh, on, checked, own>>
         /\ \A j \in DOMAIN disk'.file :
              \E k \in DOMAIN disk.file \ {i} :
                /\ disk'.file[j] = disk.file[k]
                /\ k # j => k > i
                /\ k = IF j < i THEN j ELSE j + 1
         /\ \E after \in SUBSET Ids :
              /\ \A k \in DOMAIN disk.file :
                   Qwen /\ k > i /\ disk.file[k].tag = NoEnv
                     => disk.file[k].id \in after
              /\ lostUrl' = lostUrl \cup Group(disk.file[i])
                            \cup (after \cap At(disk, IsTaken))
              /\ lostGate' = IF Recording THEN lostGate \cup after
                             ELSE lostGate
<1> DEFINE f == [j \in 1..Len(disk.file) - 1 |->
                   disk.file[IF j < i THEN j ELSE j + 1]]
           after == {disk.file[j].id : j \in {j \in DOMAIN disk.file :
                       Qwen /\ j > i /\ disk.file[j].tag = NoEnv}}
<1>0. disk.file \in Seq(Entry) /\ HasKinds(disk.file)
  BY DEF Shapes, IsDisk
<1>1. /\ f \in Seq(Entry)
      /\ \A j \in DOMAIN f :
           \E k \in DOMAIN disk.file \ {i} :
             /\ f[j] = disk.file[k]
             /\ k # j => k > i
             /\ k = IF j < i THEN j ELSE j + 1
  <2>1. /\ f \in Seq(Entry)
        /\ \A j \in DOMAIN f :
             LET k == IF j < i THEN j ELSE j + 1 IN
             /\ k \in DOMAIN disk.file \ {i}
             /\ f[j] = disk.file[k]
             /\ k # j => k > i
    BY <1>0, RemovedIs
  <2> QED
    BY <2>1
<1>2. after \in SUBSET Ids
  BY <1>0, EntryIs
<1>3. \A k \in DOMAIN disk.file :
        Qwen /\ k > i /\ disk.file[k].tag = NoEnv => disk.file[k].id \in after
  OBVIOUS
<1>4. /\ Edit(f)
      /\ lostUrl' = lostUrl \cup Group(disk.file[i])
                    \cup (after \cap At(disk, IsTaken))
      /\ lostGate' = IF Recording THEN lostGate \cup after
                             ELSE lostGate
      /\ own' = own
  BY DEF Remove
<1> HIDE DEF f, after
<1>5. HasKinds(f)
  BY <1>0, <1>1 DEF HasKinds
<1>6. /\ IsDisk(disk')
      /\ disk'.file = f /\ disk'.snap = disk.snap
      /\ disk'.bak = disk.bak /\ disk'.relays = disk.relays
      /\ edits' \in 0..MaxEdits
      /\ UNCHANGED <<harness, service, fresh, on, checked>>
  BY <1>1, <1>4, <1>5, EditDisk
<1> QED
  BY <1>1, <1>2, <1>3, <1>4, <1>6

-----------------------------------------------------------------------------
(* Type correctness, and Settles.                                          *)

\* The harness of a behaviour does not change.
LEMMA SameHarness ==
  ASSUME harness' = harness
  PROVE  /\ IsDisk(disk') => IsDisk(disk)'
         /\ Qwen' <=> Qwen
         /\ Mixed' = Mixed
BY DEF IsDisk, IsSnap, HasKinds, Qwen, Mixed

\* Every step keeps the shapes.
LEMMA StepShapes ==
  ASSUME Shapes, [Next]_vars
  PROVE  Shapes'
<1>0. /\ harness \in Harnesses /\ IsDisk(disk)
      /\ service \in {"down", "starting", "up"}
      /\ \A key \in DOMAIN fresh.urls : fresh.urls[key] \in Addresses
      /\ \A key \in DOMAIN fresh.gates : fresh.gates[key] \in Gates
      /\ fresh.base \in Bases
      /\ service # "starting" => fresh = NoFresh
      /\ on \in BOOLEAN /\ checked \in BOOLEAN
      /\ own \in [Ids -> Entry]
      /\ lostUrl \subseteq Ids /\ lostGate \subseteq Ids
      /\ edits \in 0..MaxEdits
      /\ disk.file \in Seq(Entry)
  BY DEF Shapes, IsDisk
<1>d. /\ \A key \in DOMAIN NoFresh.urls : NoFresh.urls[key] \in Addresses
      /\ \A key \in DOMAIN NoFresh.gates : NoFresh.gates[key] \in Gates
      /\ NoFresh.base \in Bases
  BY NoFreshIs
<1>e. \A i \in DOMAIN disk.file :
        /\ disk.file[i] \in Entry
        /\ disk.file[i].id \in Ids
  BY <1>0, EntryIs
<1>1. CASE BeginStart
  <2>1. IsDisk(disk') /\ lostUrl' \subseteq Ids /\ lostGate' \subseteq Ids
    BY <1>1, CommandDisk, LostIs DEF BeginStart
  <2>2. /\ fresh' = [urls |-> NewUrls(disk.file),
                     gates |-> NewGates(disk.file),
                     base |-> disk.base]
        /\ service' = "starting"
        /\ UNCHANGED <<harness, on, checked, own, edits>>
    BY <1>1 DEF BeginStart
  <2>3. /\ \A key \in DOMAIN fresh'.urls : fresh'.urls[key] \in Addresses
        /\ \A key \in DOMAIN fresh'.gates : fresh'.gates[key] \in Gates
        /\ fresh'.base \in Bases
    BY <1>0, <2>2, NewIs DEF IsDisk
  <2> QED
    BY <1>0, <2>1, <2>2, <2>3, SameHarness DEF Shapes
<1>2. CASE FinishStart
  <2>1. IsDisk(disk') /\ lostUrl' \subseteq Ids /\ lostGate' \subseteq Ids
    BY <1>2, CommandDisk, LostIs DEF FinishStart
  <2>2. /\ fresh' = NoFresh /\ service' = "up" /\ on' = TRUE
        /\ UNCHANGED <<harness, checked, own, edits>>
    BY <1>2 DEF FinishStart
  <2> QED
    BY <1>0, <1>d, <2>1, <2>2, SameHarness DEF Shapes
<1>3. CASE StartOthers
  <2>1. /\ service' = "up" /\ on' = TRUE /\ service = "down"
        /\ UNCHANGED <<harness, disk, fresh, checked, ghosts, edits>>
    BY <1>3 DEF StartOthers
  <2> QED
    BY <1>0, <2>1, SameHarness DEF Shapes
<1>4. CASE Crash
  <2>1. /\ fresh' = NoFresh /\ service' = "down"
        /\ UNCHANGED <<harness, disk, on, checked, own, edits>>
        /\ Lose \/ UNCHANGED <<lostUrl, lostGate>>
    BY <1>4 DEF Crash
  <2>2. lostUrl' \subseteq Ids /\ lostGate' \subseteq Ids
    BY <1>0, <2>1, LostIs
  <2> QED
    BY <1>0, <1>d, <2>1, <2>2, SameHarness DEF Shapes
<1>5. CASE Stop
  <2>1. IsDisk(disk')
    BY <1>5, CommandDisk
  <2>2. lostUrl' \subseteq Ids /\ lostGate' \subseteq Ids
    BY <1>5, <2>1, LostIs DEF Stop
  <2>3. /\ service' = "down" /\ on' = FALSE /\ service = "up"
        /\ UNCHANGED <<harness, fresh, checked, own, edits>>
    BY <1>5 DEF Stop
  <2> QED
    BY <1>0, <2>1, <2>2, <2>3, SameHarness DEF Shapes
<1>6. CASE Reconcile
  <2>1. IsDisk(disk')
    BY <1>6, CommandDisk
  <2>2. /\ Lose \/ Learn \/ UNCHANGED <<lostUrl, lostGate>>
        /\ UNCHANGED <<harness, service, fresh, on, checked, own, edits>>
    BY <1>6 DEF Reconcile
  <2>3. lostUrl' \subseteq Ids /\ lostGate' \subseteq Ids
    BY <1>0, <2>1, <2>2, LostIs
  <2> QED
    BY <1>0, <2>1, <2>2, <2>3, SameHarness DEF Shapes
<1>7. CASE RestoreBySnapshot
  <2>1. IsDisk(disk')
    BY <1>7, CommandDisk
  <2>2. UNCHANGED <<harness, service, fresh, on, checked, ghosts, edits>>
    BY <1>7 DEF RestoreBySnapshot
  <2> QED
    BY <1>0, <2>1, <2>2, SameHarness DEF Shapes
<1>8. CASE Uncheck
  <2>1. IsDisk(disk')
    BY <1>8, CommandDisk
  <2>2. lostUrl' \subseteq Ids /\ lostGate' \subseteq Ids
    BY <1>8, <2>1, LostIs DEF Uncheck
  <2>3. /\ checked' = FALSE
        /\ UNCHANGED <<harness, service, fresh, on, own, edits>>
    BY <1>8 DEF Uncheck
  <2> QED
    BY <1>0, <2>1, <2>2, <2>3, SameHarness DEF Shapes
<1>9. CASE Check
  <2>1. /\ checked' = TRUE
        /\ UNCHANGED <<harness, disk, service, fresh, on, ghosts, edits>>
    BY <1>9 DEF Check
  <2> QED
    BY <1>0, <2>1, SameHarness DEF Shapes
<1>10. ASSUME NEW i \in DOMAIN disk.file, NEW url \in Urls \cup Ports,
              SetUrl(i, url)
       PROVE  Shapes'
  <2>1. /\ IsDisk(disk') /\ edits' \in 0..MaxEdits
        /\ UNCHANGED <<harness, service, fresh, on, checked, lostGate>>
        /\ lostUrl' = lostUrl \cup Group(disk.file[i])
        /\ own' = [own EXCEPT ![disk.file[i].id].url = url]
    BY <1>10, UrlSet DEF Addresses
  <2>2. own' \in [Ids -> Entry]
    <3>1. disk.file[i].id \in Ids /\ own[disk.file[i].id] \in Entry
      BY <1>0, <1>e
    <3>2. [own[disk.file[i].id] EXCEPT !.url = url] \in Entry
      BY <3>1 DEF Entry
    <3> QED
      BY <1>0, <2>1, <3>1, <3>2
  <2>3. lostUrl' \subseteq Ids
    BY <1>0, <2>1, LostIs
  <2> QED
    BY <1>0, <2>1, <2>2, <2>3, SameHarness DEF Shapes
<1>11. ASSUME NEW i \in DOMAIN disk.file, NEW gate \in Gates,
              SetGate(i, gate)
       PROVE  Shapes'
  <2>1. /\ IsDisk(disk') /\ edits' \in 0..MaxEdits
        /\ UNCHANGED <<harness, service, fresh, on, checked, lostUrl>>
        /\ lostGate' \in {lostGate, lostGate \cup {disk.file[i].id}}
        /\ own' = [own EXCEPT ![disk.file[i].id].gate = gate]
    BY <1>11, GateSet
  <2>2. own' \in [Ids -> Entry]
    <3>1. disk.file[i].id \in Ids /\ own[disk.file[i].id] \in Entry
      BY <1>0, <1>e
    <3>2. [own[disk.file[i].id] EXCEPT !.gate = gate] \in Entry
      BY <3>1 DEF Entry
    <3> QED
      BY <1>0, <2>1, <3>1, <3>2
  <2>3. lostGate' \subseteq Ids
    BY <1>0, <1>e, <2>1
  <2> QED
    BY <1>0, <2>1, <2>2, <2>3, SameHarness DEF Shapes
<1>12. ASSUME NEW i \in DOMAIN disk.file, NEW kind \in Tags,
              SetKind(i, kind)
       PROVE  Shapes'
  <2>1. /\ IsDisk(disk') /\ edits' \in 0..MaxEdits
        /\ UNCHANGED <<harness, service, fresh, on, checked, own>>
        /\ lostUrl' \in {lostUrl, lostUrl \cup {disk.file[i].id}}
        /\ lostGate' \in {lostGate, lostGate \cup {disk.file[i].id}}
    BY <1>12, KindSet
  <2>2. lostGate' \subseteq Ids /\ lostUrl' \subseteq Ids
    BY <1>0, <1>e, <2>1
  <2> QED
    BY <1>0, <2>1, <2>2, SameHarness DEF Shapes
<1>13. ASSUME NEW i \in DOMAIN disk.file, Remove(i)
       PROVE  Shapes'
  <2>1. PICK after \in SUBSET Ids :
        /\ IsDisk(disk') /\ edits' \in 0..MaxEdits
        /\ UNCHANGED <<harness, service, fresh, on, checked, own>>
        /\ lostUrl' = lostUrl \cup Group(disk.file[i])
                      \cup (after \cap At(disk, IsTaken))
        /\ lostGate' = IF Recording THEN lostGate \cup after
                             ELSE lostGate
    BY <1>13, EntryRemoved
  <2>2. lostGate' \subseteq Ids /\ lostUrl' \subseteq Ids
    BY <1>0, <2>1, LostIs
  <2> QED
    BY <1>0, <2>1, <2>2, SameHarness DEF Shapes
<1>14. ASSUME NEW e \in News[harness], Add(e)
       PROVE  Shapes'
  <2>1. /\ IsDisk(disk') /\ edits' \in 0..MaxEdits
        /\ UNCHANGED <<harness, service, fresh, on, checked>>
        /\ own' = [own EXCEPT ![e.id] = e]
        /\ lostUrl' = (lostUrl \ {e.id}) \cup Group(e)
                      \cup (IF e.tag \in Mixed THEN {e.id} ELSE {})
        /\ lostGate' = IF Recording THEN lostGate \cup {e.id} ELSE lostGate
        /\ e \in Entry
    BY <1>14, EntryAdded
  <2>2. e.id \in Ids
    BY <2>1 DEF Entry
  <2>3. own' \in [Ids -> Entry]
    BY <1>0, <2>1, <2>2
  <2>4. lostGate' \subseteq Ids /\ lostUrl' \subseteq Ids
    BY <1>0, <2>1, <2>2, LostIs
  <2> QED
    BY <1>0, <2>1, <2>3, <2>4, SameHarness DEF Shapes
<1>15. ASSUME NEW url \in Globals, SetGlobal(url)
       PROVE  Shapes'
  <2>1. /\ disk' = [disk EXCEPT !.base = url] /\ edits < MaxEdits
        /\ edits' = edits + 1
        /\ UNCHANGED <<harness, service, fresh, on, checked, ghosts>>
    BY <1>15 DEF SetGlobal
  <2>2. url \in Bases
    BY EntriesAssumption DEF Bases
  <2>3. IsDisk(disk')
    BY <1>0, <2>1, <2>2 DEF IsDisk
  <2>4. edits' \in 0..MaxEdits
    BY <1>0, <2>1, EntriesAssumption
  <2> QED
    BY <1>0, <2>1, <2>3, <2>4, SameHarness DEF Shapes
<1>16. CASE UNCHANGED vars
  <2>1. UNCHANGED <<harness, disk, service, fresh, on, checked, own, lostUrl,
                    lostGate, edits>>
    BY <1>16 DEF vars
  <2> QED
    BY <1>0, <2>1, SameHarness DEF Shapes
<1>17. CASE User
  BY <1>10, <1>11, <1>12, <1>13, <1>14, <1>15, <1>17 DEF User
<1> QED
  BY <1>1, <1>2, <1>3, <1>4, <1>5, <1>6, <1>7, <1>8, <1>9, <1>16, <1>17
     DEF Next

\* The shapes hold always.
THEOREM ShapesInvariance == Spec => []Shapes
<1> QED
  BY InitShapes, StepShapes, PTL DEF Spec

\* The file, the snapshot, the backup and the relays keep their form: no
\* proxy address and no gate unknown to the program is ever recorded, and
\* no relay leads to the proxy or to a tool (qwen_providers.py,
\* zcode_providers.py).
THEOREM Types == Spec => []TypeOK
<1>1. Shapes => TypeOK
  BY DEF Shapes, TypeOK, IsDisk, IsSnap, Bases, Addresses, Relay
<1> QED
  BY ShapesInvariance, <1>1, PTL

\* Two reconciliations take everything over, and after them one more
\* changes nothing, whatever was edited before (reconcile.py:3-4).
THEOREM Settling == Spec => []Settles
<1>1. Shapes => Settles
  BY SettlesHolds DEF Shapes, Settles
<1> QED
  BY ShapesInvariance, <1>1, PTL

-----------------------------------------------------------------------------
(* Keys.                                                                   *)

\* What of(o) the user wants is said by o, which is own, now or next.  The
\* entries of a file differ, lead elsewhere than to the proxy if the user
\* has a say, and of those of qwen-code only mixed ones share an envKey,
\* in the file or with one that may come.
IsFile(o, file) ==
  /\ file \in Seq(Entry)
  /\ \A i, j \in DOMAIN file : file[i].id = file[j].id => i = j
  /\ \A i \in DOMAIN file : o[file[i].id].url # Proxy
  /\ Qwen => \A i \in DOMAIN file : file[i].tag \in Tags \ Mixed =>
       /\ \A j \in DOMAIN file : file[i].tag = file[j].tag => i = j
       /\ \A e \in News[harness] :
            file[i].tag = e.tag => file[i].id = e.id

\* A snapshot has a key of its own for an entry with an envKey only if that
\* is mixed, and none for unknown entries.
IsKey(key) ==
  Qwen /\ key.at = 0 =>
    key.tag \in Tags /\ (key.id # NoId => key.tag \in Mixed)

KeysFit(map) == \A key \in DOMAIN map : IsKey(key)

\* The key of an entry whose envKey is not mixed.
Key(file, i) ==
  IF ~ Qwen THEN Own(file[i])
  ELSE IF file[i].tag = NoEnv THEN Spot(file[i], i)
  ELSE Shared(file[i])

\* zcode has no mixed envKeys.
LEMMA MixedIs ==
  /\ Mixed \subseteq Tags
  /\ Mixed # {} => Qwen
BY DEF Mixed

LEMMA NamesDiffer ==
  /\ NoId \notin Ids /\ NoEnv \notin Tags
  /\ Proxy \notin Addresses
BY EntriesAssumption DEF Addresses

\* Keys of different makes differ.
LEMMA KeysDiffer ==
  ASSUME NEW file \in Seq(Entry), NEW i \in DOMAIN file, NEW j \in DOMAIN file
  PROVE  /\ Own(file[i]) = Own(file[j]) =>
              file[i].id = file[j].id /\ file[i].tag = file[j].tag
         /\ Shared(file[i]) = Shared(file[j]) <=> file[i].tag = file[j].tag
         /\ Own(file[i]) # Shared(file[j])
         /\ Spot(file[i], i) # Own(file[j])
         /\ Spot(file[i], i) # Shared(file[j])
         /\ Spot(file[i], i) = Spot(file[j], j) => i = j
         /\ Own(file[i]).at = 0 /\ Own(file[i]).tag = file[i].tag
         /\ Own(file[i]).id # NoId
         /\ Shared(file[i]).at = 0 /\ Shared(file[i]).tag = file[i].tag
         /\ Spot(file[i], i).at # 0
<1>1. /\ file[i].id \in Ids /\ file[j].id \in Ids
      /\ i \in Nat \ {0} /\ j \in Nat \ {0}
  BY EntryIs
<1> QED
  BY <1>1, NamesDiffer DEF Own, Shared, Spot

\* Entries with one key lead to one address.
LEMMA SameKey ==
  ASSUME NEW o, NEW file, IsFile(o, file),
         NEW i \in DOMAIN file, NEW j \in DOMAIN file,
         WriteKey(file, i) = WriteKey(file, j)
  PROVE  /\ file[i].url = file[j].url
         /\ i # j => /\ Qwen /\ file[i].tag = file[j].tag
                     /\ file[i].tag \in Mixed
<1>0. file \in Seq(Entry)
  BY DEF IsFile
<1>1. CASE ~ Qwen
  <2>1. Own(file[i]) = Own(file[j])
    BY <1>0, <1>1, WriteKeyIs
  <2>2. i = j
    BY <1>0, <2>1, KeysDiffer DEF IsFile
  <2> QED
    BY <2>2
<1>2. CASE Qwen /\ (file[i].tag = NoEnv \/ file[j].tag = NoEnv)
  <2>1. PICK x \in {i, j}, y \in {i, j} :
          /\ {x, y} = {i, j}
          /\ file[x].tag = NoEnv
    BY <1>2
  <2>2. WriteKey(file, x) = Spot(file[x], x) /\ x \in DOMAIN file
    BY <1>0, <1>2, <2>1, WriteKeyIs
  <2>3. WriteKey(file, x) = WriteKey(file, y) /\ y \in DOMAIN file
    BY <2>1
  <2>4. PICK f \in DOMAIN file : IsFirst(file, file[y].tag, f)
    BY <1>0, <2>3, FirstIs
  <2>5. \/ WriteKey(file, y) = Spot(file[y], y)
        \/ WriteKey(file, y) = Own(file[y])
        \/ WriteKey(file, y) = Shared(file[y])
    BY <1>0, <1>2, <2>3, <2>4, WriteKeyIs
  <2>6. x = y
    <3>1. /\ Spot(file[x], x) # Own(file[y])
          /\ Spot(file[x], x) # Shared(file[y])
          /\ Spot(file[x], x) = Spot(file[y], y) => x = y
      BY <1>0, <2>2, <2>3, KeysDiffer
    <3> QED
      BY <2>2, <2>3, <2>5, <3>1
  <2> QED
    BY <2>1, <2>6
<1>3. CASE Qwen /\ file[i].tag # NoEnv /\ file[j].tag # NoEnv
  <2>1. PICK f \in DOMAIN file : IsFirst(file, file[i].tag, f)
    BY <1>0, FirstIs
  <2>2. PICK g \in DOMAIN file : IsFirst(file, file[j].tag, g)
    BY <1>0, FirstIs
  <2>3. /\ WriteKey(file, i) = IF file[i].url = file[f].url
                               THEN Shared(file[i]) ELSE Own(file[i])
        /\ WriteKey(file, j) = IF file[j].url = file[g].url
                               THEN Shared(file[j]) ELSE Own(file[j])
    BY <1>0, <1>3, <2>1, <2>2, WriteKeyIs
  <2>a. /\ Own(file[i]) = Own(file[j]) => file[i].id = file[j].id
        /\ Shared(file[i]) = Shared(file[j]) => file[i].tag = file[j].tag
        /\ Own(file[i]) # Shared(file[j])
        /\ Own(file[j]) # Shared(file[i])
    BY <1>0, KeysDiffer
  <2>4. CASE WriteKey(file, i) = Own(file[i])
    <3>1. file[i].id = file[j].id
      BY <2>3, <2>4, <2>a
    <3> QED
      BY <3>1 DEF IsFile
  <2>5. CASE WriteKey(file, i) # Own(file[i])
    <3>1. /\ file[i].tag = file[j].tag
          /\ file[i].url = file[f].url /\ file[j].url = file[g].url
      BY <2>3, <2>5, <2>a
    <3>2. f = g
      <4>1. f \in Nat /\ g \in Nat
        BY <1>0, EntryIs
      <4> QED
        BY <2>1, <2>2, <3>1, <4>1 DEF IsFirst
    <3>3. file[i].tag \in Tags
      BY <1>0, <1>3, EntryIs
    <3> QED
      BY <1>3, <3>1, <3>2, <3>3 DEF IsFile
  <2> QED
    BY <2>4, <2>5
<1> QED
  BY <1>1, <1>2, <1>3

\* What is recorded of an entry under its key.
LEMMA UrlRecorded ==
  ASSUME NEW o, NEW file, IsFile(o, file), NEW i \in DOMAIN file
  PROVE  /\ file[i].url # Proxy =>
              /\ WriteKey(file, i) \in DOMAIN NewUrls(file)
              /\ NewUrls(file)[WriteKey(file, i)] = file[i].url
         /\ file[i].tag \notin Mixed =>
              (WriteKey(file, i) \in DOMAIN NewUrls(file)
                 <=> file[i].url # Proxy)
<1>0. file \in Seq(Entry)
  BY DEF IsFile
<1>1. ASSUME file[i].url # Proxy
      PROVE  /\ WriteKey(file, i) \in DOMAIN NewUrls(file)
             /\ NewUrls(file)[WriteKey(file, i)] = file[i].url
  <2>1. WriteKey(file, i) \in DOMAIN NewUrls(file)
    BY <1>0, <1>1, NewUrlsIs
  <2>2. PICK j \in DOMAIN file :
          /\ WriteKey(file, j) = WriteKey(file, i)
          /\ NewUrls(file)[WriteKey(file, i)] = file[j].url
    BY <1>0, <2>1, NewUrlIs
  <2> QED
    BY <2>1, <2>2, SameKey
<1>2. ASSUME file[i].tag \notin Mixed,
             WriteKey(file, i) \in DOMAIN NewUrls(file)
      PROVE  file[i].url # Proxy
  <2>1. PICK j \in DOMAIN file :
          /\ file[j].url # Proxy
          /\ WriteKey(file, j) = WriteKey(file, i)
    BY <1>0, <1>2, NewUrlIs
  <2> QED
    BY <1>2, <2>1, SameKey
<1> QED
  BY <1>1, <1>2

LEMMA GateRecorded ==
  ASSUME NEW o, NEW file, IsFile(o, file), NEW i \in DOMAIN file,
         file[i].tag \notin Mixed
  PROVE  /\ WriteKey(file, i) \in DOMAIN NewGates(file) <=> Closed(file[i])
         /\ Closed(file[i]) =>
              NewGates(file)[WriteKey(file, i)] = file[i].gate
<1>0. file \in Seq(Entry)
  BY DEF IsFile
<1>1. Closed(file[i]) => WriteKey(file, i) \in DOMAIN NewGates(file)
  BY <1>0, NewGatesIs
<1>2. ASSUME WriteKey(file, i) \in DOMAIN NewGates(file)
      PROVE  /\ Closed(file[i])
             /\ NewGates(file)[WriteKey(file, i)] = file[i].gate
  <2>1. PICK j \in DOMAIN file :
          /\ Closed(file[j])
          /\ WriteKey(file, j) = WriteKey(file, i)
          /\ NewGates(file)[WriteKey(file, i)] = file[j].gate
    BY <1>0, <1>2, NewGateIs
  <2>2. i = j
    BY <2>1, SameKey
  <2> QED
    BY <2>1, <2>2
<1> QED
  BY <1>1, <1>2

\* The keys the program writes fit.
LEMMA WrittenKey ==
  ASSUME NEW o, NEW file, IsFile(o, file), NEW i \in DOMAIN file
  PROVE  /\ IsKey(WriteKey(file, i))
         /\ file[i].tag \notin Mixed => WriteKey(file, i) = Key(file, i)
<1>0. file \in Seq(Entry)
  BY DEF IsFile
<1>1. CASE ~ Qwen
  BY <1>0, <1>1, WriteKeyIs DEF IsKey, Key
<1>2. CASE Qwen /\ file[i].tag = NoEnv
  BY <1>0, <1>2, WriteKeyIs, KeysDiffer DEF IsKey, Key
<1>3. CASE Qwen /\ file[i].tag # NoEnv
  <2>1. PICK f \in DOMAIN file : IsFirst(file, file[i].tag, f)
    BY <1>0, FirstIs
  <2>2. WriteKey(file, i) = IF file[i].url = file[f].url
                            THEN Shared(file[i]) ELSE Own(file[i])
    BY <1>0, <1>3, <2>1, WriteKeyIs
  <2>3. file[i].tag \in Tags
    BY <1>0, <1>3, EntryIs
  <2>4. CASE file[i].tag \in Mixed
    <3>1. WriteKey(file, i).tag = file[i].tag
      BY <1>0, <2>2, KeysDiffer
    <3> QED
      BY <2>3, <2>4, <3>1 DEF IsKey
  <2>5. CASE file[i].tag \notin Mixed
    <3>1. f = i
      BY <1>3, <2>1, <2>3, <2>5 DEF IsFile, IsFirst
    <3>2. WriteKey(file, i) = Shared(file[i])
      BY <2>2, <3>1
    <3>3. Shared(file[i]).id = NoId /\ Shared(file[i]).tag = file[i].tag
      BY DEF Shared
    <3> QED
      BY <1>3, <2>3, <3>2, <3>3 DEF IsKey, Key
  <2> QED
    BY <2>4, <2>5
<1> QED
  BY <1>1, <1>2, <1>3

\* So all that is recorded fits.
LEMMA WrittenKeys ==
  ASSUME NEW o, NEW file, IsFile(o, file)
  PROVE  KeysFit(NewUrls(file)) /\ KeysFit(NewGates(file))
<1>0. file \in Seq(Entry)
  BY DEF IsFile
<1>1. ASSUME NEW key \in DOMAIN NewUrls(file) PROVE IsKey(key)
  BY <1>0, NewUrlIs, WrittenKey
<1>2. ASSUME NEW key \in DOMAIN NewGates(file) PROVE IsKey(key)
  BY <1>0, NewGateIs, WrittenKey
<1> QED
  BY <1>1, <1>2 DEF KeysFit

\* The key an entry is read with, if there is one.
LEMMA ReadKeyIs ==
  ASSUME NEW file \in Seq(Entry), NEW i \in DOMAIN file, NEW urls,
         KeysFit(urls)
  PROVE  /\ ~ Qwen => ReadKey(urls, file, i) = Own(file[i])
         /\ Qwen /\ file[i].tag = NoEnv =>
              ReadKey(urls, file, i) =
                IF Spot(file[i], i) \in DOMAIN urls
                THEN Spot(file[i], i) ELSE Unknown
         /\ Qwen /\ file[i].tag # NoEnv =>
              ReadKey(urls, file, i) =
                IF Own(file[i]) \in DOMAIN urls THEN Own(file[i])
                ELSE IF Shared(file[i]) \in DOMAIN urls THEN Shared(file[i])
                ELSE Unknown
         /\ file[i].tag \notin Mixed =>
              ReadKey(urls, file, i) =
                IF Key(file, i) \in DOMAIN urls \/ ~ Qwen
                THEN Key(file, i) ELSE Unknown
<1>1. ~ Qwen => ReadKey(urls, file, i) = Own(file[i])
  BY DEF ReadKey
<1>2. Qwen /\ file[i].tag = NoEnv =>
        ReadKey(urls, file, i) = IF Spot(file[i], i) \in DOMAIN urls
                                 THEN Spot(file[i], i) ELSE Unknown
  BY DEF ReadKey, Shared, Unknown
<1>3. Qwen /\ file[i].tag # NoEnv =>
              ReadKey(urls, file, i) =
                IF Own(file[i]) \in DOMAIN urls THEN Own(file[i])
                ELSE IF Shared(file[i]) \in DOMAIN urls THEN Shared(file[i])
                ELSE Unknown
  BY DEF ReadKey
<1>4. Qwen /\ file[i].tag \notin Mixed => Own(file[i]) \notin DOMAIN urls
  BY KeysDiffer DEF KeysFit, IsKey
<1> QED
  BY <1>1, <1>2, <1>3, <1>4 DEF Key

\* Nothing is recorded under the key of unknown entries.
LEMMA UnknownIs ==
  ASSUME NEW map, KeysFit(map), Qwen
  PROVE  Unknown \notin DOMAIN map
<1>1. Unknown.at = 0 /\ Unknown.tag = NoEnv
  BY DEF Unknown
<1> QED
  BY <1>1, NamesDiffer DEF KeysFit, IsKey

-----------------------------------------------------------------------------
(* Addresses: the snapshot knows where every entry leads that is taken     *)
(* over and not lost.                                                      *)

AddressKnown(o, file, urls, i) ==
  LET e == file[i]
      k == ReadKey(urls, file, i)
  IN  IF e.url = Proxy THEN k \in DOMAIN urls /\ urls[k] = o[e.id].url
      ELSE e.url = o[e.id].url

\* Of entries with one envKey nothing is recorded that one of them could
\* take for its own: a key of its own has its address, the first entry has
\* none, and the shared key has the address of the first.
Steady(o, file, urls, i) ==
  LET e == file[i] IN
  /\ Own(e) \in DOMAIN urls => urls[Own(e)] = o[e.id].url
  /\ \A f \in DOMAIN file : IsFirst(file, e.tag, f) =>
       /\ Own(file[f]) \notin DOMAIN urls
       /\ Shared(e) \in DOMAIN urls /\ file[f].url # Proxy =>
            urls[Shared(e)] = file[f].url

SoundUrl(o, file, urls, i) ==
  /\ AddressKnown(o, file, urls, i)
  /\ file[i].tag \in Mixed => Steady(o, file, urls, i)

SoundUrls(o, file, urls, lost) ==
  \A i \in DOMAIN file : file[i].id \notin lost => SoundUrl(o, file, urls, i)

\* Keys, first entries and mixed envKeys survive a change of addresses and
\* gates.
LEMMA KeysStay ==
  ASSUME NEW file \in Seq(Entry), NEW f \in Seq(Entry),
         DOMAIN f = DOMAIN file,
         \A i \in DOMAIN file : f[i].id = file[i].id /\ f[i].tag = file[i].tag,
         NEW i \in DOMAIN file
  PROVE  /\ Own(f[i]) = Own(file[i])
         /\ Shared(f[i]) = Shared(file[i])
         /\ Key(f, i) = Key(file, i)
         /\ \A urls : ReadKey(urls, f, i) = ReadKey(urls, file, i)
         /\ \A tag, j : IsFirst(f, tag, j) <=> IsFirst(file, tag, j)
         /\ \A o : IsFile(o, file) => IsFile(o, f)
<1>1. /\ Own(f[i]) = Own(file[i])
      /\ Shared(f[i]) = Shared(file[i])
      /\ Spot(f[i], i) = Spot(file[i], i)
  BY DEF Own, Shared, Spot
<1>2. Key(f, i) = Key(file, i)
  BY <1>1 DEF Key
<1>3. \A urls : ReadKey(urls, f, i) = ReadKey(urls, file, i)
  BY <1>1 DEF ReadKey
<1>4. \A tag, j : IsFirst(f, tag, j) <=> IsFirst(file, tag, j)
  BY DEF IsFirst
<1>5. \A o : IsFile(o, file) => IsFile(o, f)
  BY DEF IsFile
<1> QED
  BY <1>1, <1>2, <1>3, <1>4, <1>5

\* To rewrite the file and to record what was in it leaves every address
\* known, those that were lost and are recorded again as well.
LEMMA RewriteSound ==
  ASSUME NEW o, NEW file, IsFile(o, file), NEW urls, KeysFit(urls),
         NEW lost, SoundUrls(o, file, urls, lost),
         NEW lost2,
         \A i \in DOMAIN file : file[i].id \in lost \ lost2 =>
           file[i].url = o[file[i].id].url /\ file[i].tag \notin Mixed,
         NEW urls2, SameMap(urls2, Over(NewUrls(file), urls))
  PROVE  /\ SoundUrls(o, Rewritten(file), urls2, lost2)
         /\ KeysFit(urls2)
<1> DEFINE r == Rewritten(file)
<1>0. file \in Seq(Entry)
  BY DEF IsFile
<1>1. /\ r \in Seq(Entry) /\ DOMAIN r = DOMAIN file
      /\ \A i \in DOMAIN file :
           /\ r[i].id = file[i].id /\ r[i].tag = file[i].tag
           /\ r[i].url = Proxy
  BY <1>0, RewrittenIs
<1> HIDE DEF r
<1>2. /\ DOMAIN urls2 = DOMAIN NewUrls(file) \cup DOMAIN urls
      /\ \A k \in DOMAIN NewUrls(file) : urls2[k] = NewUrls(file)[k]
      /\ \A k \in DOMAIN urls \ DOMAIN NewUrls(file) : urls2[k] = urls[k]
  BY DEF Over, SameMap
<1>3. KeysFit(urls2)
  BY <1>2, WrittenKeys DEF KeysFit
\* Nobody else writes the key of its own of an entry.
<1>4. ASSUME NEW i \in DOMAIN file, Own(file[i]) \in DOMAIN NewUrls(file)
      PROVE  file[i].url # Proxy /\ WriteKey(file, i) = Own(file[i])
  <2>1. PICK j \in DOMAIN file :
          file[j].url # Proxy /\ WriteKey(file, j) = Own(file[i])
    BY <1>0, <1>4, NewUrlIs
  <2>2. PICK f \in DOMAIN file : IsFirst(file, file[j].tag, f)
    BY <1>0, FirstIs
  <2>3. \/ WriteKey(file, j) = Own(file[j])
        \/ WriteKey(file, j) = Spot(file[j], j)
        \/ WriteKey(file, j) = Shared(file[j])
    BY <1>0, <2>2, WriteKeyIs
  <2>4. /\ Own(file[i]) = Own(file[j]) => file[i].id = file[j].id
        /\ Spot(file[j], j) # Own(file[i])
        /\ Own(file[i]) # Shared(file[j])
    BY <1>0, KeysDiffer
  <2>5. file[i].id = file[j].id
    BY <2>1, <2>3, <2>4
  <2>6. i = j
    BY <2>5 DEF IsFile
  <2> QED
    BY <2>1, <2>6
<1>5. ASSUME NEW i \in DOMAIN file, Spot(file[i], i) \in DOMAIN NewUrls(file)
      PROVE  file[i].url # Proxy
  <2>1. PICK j \in DOMAIN file :
          file[j].url # Proxy /\ WriteKey(file, j) = Spot(file[i], i)
    BY <1>0, <1>5, NewUrlIs
  <2>2. PICK f \in DOMAIN file : IsFirst(file, file[j].tag, f)
    BY <1>0, FirstIs
  <2>3. \/ WriteKey(file, j) = Own(file[j])
        \/ WriteKey(file, j) = Spot(file[j], j)
        \/ WriteKey(file, j) = Shared(file[j])
    BY <1>0, <2>2, WriteKeyIs
  <2>4. /\ Spot(file[i], i) # Own(file[j])
        /\ Spot(file[i], i) # Shared(file[j])
        /\ Spot(file[i], i) = Spot(file[j], j) => i = j
    BY <1>0, KeysDiffer
  <2> QED
    BY <2>1, <2>3, <2>4
\* Who writes the shared key leads to where the first entry leads.
<1>6. ASSUME NEW i \in DOMAIN file, Shared(file[i]) \in DOMAIN NewUrls(file)
      PROVE  \E j \in DOMAIN file :
               /\ WriteKey(file, j) = Shared(file[i])
               /\ file[j].tag = file[i].tag /\ file[j].url # Proxy
               /\ NewUrls(file)[Shared(file[i])] = file[j].url
               /\ \A f \in DOMAIN file : IsFirst(file, file[i].tag, f) =>
                    file[f].url = file[j].url
  <2>1. PICK j \in DOMAIN file :
          /\ file[j].url # Proxy /\ WriteKey(file, j) = Shared(file[i])
          /\ NewUrls(file)[Shared(file[i])] = file[j].url
    BY <1>0, <1>6, NewUrlIs
  <2>2. PICK f \in DOMAIN file : IsFirst(file, file[j].tag, f)
    BY <1>0, FirstIs
  <2>3. /\ Own(file[j]) # Shared(file[i])
        /\ Spot(file[j], j) # Shared(file[i])
        /\ Shared(file[j]) = Shared(file[i]) => file[j].tag = file[i].tag
    BY <1>0, KeysDiffer
  <2>4. \/ WriteKey(file, j) = Own(file[j])
        \/ WriteKey(file, j) = Spot(file[j], j)
        \/ WriteKey(file, j) = Shared(file[j])
    BY <1>0, <2>2, WriteKeyIs
  <2>5. file[j].tag = file[i].tag /\ WriteKey(file, j) = Shared(file[j])
    BY <2>1, <2>3, <2>4
  <2>6. /\ Qwen /\ file[j].tag # NoEnv
        /\ \A g \in DOMAIN file : IsFirst(file, file[j].tag, g) =>
             file[g].url = file[j].url
    <3>1. Shared(file[j]) # Own(file[j]) /\ Spot(file[j], j) # Shared(file[j])
      BY <1>0, KeysDiffer
    <3> QED
      BY <1>0, <2>5, <3>1, WriteKeyIs
  <2> QED
    BY <2>1, <2>5, <2>6
\* Of which entries the address was known before.
<1>7. ASSUME NEW i \in DOMAIN file, file[i].id \notin lost2
      PROVE  /\ file[i].url # Proxy => file[i].url = o[file[i].id].url
             /\ file[i].url = Proxy =>
                  AddressKnown(o, file, urls, i) /\ file[i].id \notin lost
             /\ file[i].tag \in Mixed => Steady(o, file, urls, i)
  <2>1. CASE file[i].id \in lost
    BY <1>7, <2>1 DEF IsFile
  <2>2. CASE file[i].id \notin lost
    BY <2>2 DEF SoundUrls, SoundUrl, AddressKnown
  <2> QED
    BY <2>1, <2>2
<1>8. ASSUME NEW i \in DOMAIN file, file[i].id \notin lost2
      PROVE  Own(file[i]) \in DOMAIN urls2 /\ file[i].tag \in Mixed =>
               urls2[Own(file[i])] = o[file[i].id].url
  <2> SUFFICES ASSUME Own(file[i]) \in DOMAIN urls2, file[i].tag \in Mixed
               PROVE  urls2[Own(file[i])] = o[file[i].id].url
    OBVIOUS
  <2>1. CASE Own(file[i]) \in DOMAIN NewUrls(file)
    <3>1. file[i].url # Proxy /\ WriteKey(file, i) = Own(file[i])
      BY <1>4, <2>1
    <3>2. NewUrls(file)[Own(file[i])] = file[i].url
      BY <3>1, UrlRecorded
    <3> QED
      BY <1>2, <1>7, <1>8, <2>1, <3>1, <3>2
  <2>2. CASE Own(file[i]) \notin DOMAIN NewUrls(file)
    <3>1. Own(file[i]) \in DOMAIN urls
      BY <1>2, <2>2
    <3> QED
      BY <1>2, <1>7, <1>8, <2>2, <3>1 DEF Steady
  <2> QED
    BY <2>1, <2>2
<1>9. ASSUME NEW i \in DOMAIN file, file[i].id \notin lost2
      PROVE  LET k == ReadKey(urls2, file, i)
             IN  k \in DOMAIN urls2 /\ urls2[k] = o[file[i].id].url
  <2> DEFINE w == WriteKey(file, i)
             k == ReadKey(urls, file, i)
  <2>1. CASE file[i].url # Proxy
    <3>1. /\ w \in DOMAIN NewUrls(file)
          /\ NewUrls(file)[w] = file[i].url
      BY <2>1, UrlRecorded
    <3>2. w \in DOMAIN urls2 /\ urls2[w] = o[file[i].id].url
      BY <1>2, <1>7, <1>9, <2>1, <3>1
    <3>3. CASE ~ Qwen
      BY <1>0, <1>3, <3>2, <3>3, WriteKeyIs, ReadKeyIs
    <3>4. CASE Qwen /\ file[i].tag = NoEnv
      BY <1>0, <1>3, <3>2, <3>4, WriteKeyIs, ReadKeyIs
    <3>5. CASE Qwen /\ file[i].tag # NoEnv
      <4>1. PICK f \in DOMAIN file : IsFirst(file, file[i].tag, f)
        BY <1>0, FirstIs
      <4>2. w = Own(file[i]) \/ w = Shared(file[i])
        BY <1>0, <3>5, <4>1, WriteKeyIs
      <4>3. CASE Own(file[i]) \in DOMAIN urls2
        <5>1. file[i].tag \in Mixed \/ w = Own(file[i])
          <6>1. IsKey(Own(file[i]))
            BY <1>3, <4>3 DEF KeysFit
          <6>2. Own(file[i]).at = 0 /\ Own(file[i]).tag = file[i].tag
                /\ Own(file[i]).id # NoId
            BY <1>0, KeysDiffer
          <6> QED
            BY <3>5, <6>1, <6>2 DEF IsKey
        <5>2. urls2[Own(file[i])] = o[file[i].id].url
          BY <1>8, <1>9, <3>2, <4>3, <5>1
        <5>3. ReadKey(urls2, file, i) = Own(file[i])
          BY <1>0, <1>3, <3>5, <4>3, ReadKeyIs
        <5> QED
          BY <4>3, <5>2, <5>3
      <4>4. CASE Own(file[i]) \notin DOMAIN urls2
        <5>1. w = Shared(file[i])
          BY <3>2, <4>2, <4>4
        <5>2. ReadKey(urls2, file, i) = Shared(file[i])
          BY <1>0, <1>3, <3>2, <3>5, <4>4, <5>1, ReadKeyIs
        <5> QED
          BY <3>2, <5>1, <5>2
      <4> QED
        BY <4>3, <4>4
    <3> QED
      BY <3>3, <3>4, <3>5
  <2>2. CASE file[i].url = Proxy
    <3>1. k \in DOMAIN urls /\ urls[k] = o[file[i].id].url
      BY <1>7, <1>9, <2>2 DEF AddressKnown
    <3>2. Qwen => k # Unknown
      BY <3>1, UnknownIs
    <3>3. /\ Own(file[i]) \notin DOMAIN NewUrls(file)
          /\ Spot(file[i], i) \notin DOMAIN NewUrls(file)
      BY <1>4, <1>5, <2>2
    <3>4. CASE ~ Qwen
      <4>1. k = Own(file[i]) /\ ReadKey(urls2, file, i) = Own(file[i])
        BY <1>0, <1>3, <3>4, ReadKeyIs
      <4> QED
        BY <1>2, <3>1, <3>3, <4>1
    <3>5. CASE Qwen /\ file[i].tag = NoEnv
      <4>1. k = Spot(file[i], i)
        BY <1>0, <3>2, <3>5, ReadKeyIs
      <4>2. ReadKey(urls2, file, i) = Spot(file[i], i)
        BY <1>0, <1>2, <1>3, <3>1, <3>5, <4>1, ReadKeyIs
      <4> QED
        BY <1>2, <3>1, <3>3, <4>1, <4>2
    <3>6. CASE (Qwen /\ file[i].tag # NoEnv) /\ Own(file[i]) \in DOMAIN urls
      <4>1. k = Own(file[i])
        BY <1>0, <3>6, ReadKeyIs
      <4>2. ReadKey(urls2, file, i) = Own(file[i])
        BY <1>0, <1>2, <1>3, <3>6, ReadKeyIs
      <4> QED
        BY <1>2, <3>1, <3>3, <4>1, <4>2
    <3>7. CASE (Qwen /\ file[i].tag # NoEnv) /\ Own(file[i]) \notin DOMAIN urls
      <4>1. k = Shared(file[i])
        BY <1>0, <3>2, <3>7, ReadKeyIs
      <4>2. ReadKey(urls2, file, i) = Shared(file[i])
        BY <1>0, <1>2, <1>3, <3>1, <3>3, <3>7, <4>1, ReadKeyIs
      <4>3. urls2[Shared(file[i])] = urls[Shared(file[i])]
        <5>1. CASE Shared(file[i]) \in DOMAIN NewUrls(file)
          <6>1. PICK j \in DOMAIN file :
               /\ file[j].tag = file[i].tag /\ file[j].url # Proxy
               /\ NewUrls(file)[Shared(file[i])] = file[j].url
               /\ \A f \in DOMAIN file : IsFirst(file, file[i].tag, f) =>
                    file[f].url = file[j].url
            BY <1>6, <5>1
          <6>2. file[i].tag \in Mixed
            <7>1. file[i].tag \in Tags
              BY <1>0, <3>7, EntryIs
            <7> QED
              BY <2>2, <3>7, <6>1, <7>1 DEF IsFile
          <6>3. PICK f \in DOMAIN file : IsFirst(file, file[i].tag, f)
            BY <1>0, FirstIs
          <6>4. urls[Shared(file[i])] = file[f].url
            <7>1. Steady(o, file, urls, i)
              BY <1>7, <1>9, <6>2
            <7> QED
              BY <3>1, <4>1, <6>1, <6>3, <7>1 DEF Steady
          <6> QED
            BY <1>2, <5>1, <6>1, <6>3, <6>4
        <5>2. CASE Shared(file[i]) \notin DOMAIN NewUrls(file)
          BY <1>2, <3>1, <4>1, <5>2
        <5> QED
          BY <5>1, <5>2
      <4> QED
        BY <1>2, <3>1, <4>1, <4>2, <4>3
    <3> QED
      BY <3>4, <3>5, <3>6, <3>7
  <2> QED
    BY <2>1, <2>2
<1>10. ASSUME NEW i \in DOMAIN file, file[i].id \notin lost2,
              file[i].tag \in Mixed,
              NEW f \in DOMAIN file, IsFirst(file, file[i].tag, f)
       PROVE  Own(file[f]) \notin DOMAIN urls2
  <2>1. Own(file[f]) \notin DOMAIN urls
    BY <1>7, <1>10 DEF Steady
  <2>2. Own(file[f]) \notin DOMAIN NewUrls(file)
    <3> SUFFICES ASSUME Own(file[f]) \in DOMAIN NewUrls(file) PROVE FALSE
      OBVIOUS
    <3>1. WriteKey(file, f) = Own(file[f])
      BY <1>4
    <3>2. file[f].tag = file[i].tag
      BY <1>10 DEF IsFirst
    <3>3. Qwen /\ file[f].tag # NoEnv
      BY <1>10, <3>2, MixedIs, NamesDiffer
    <3>4. WriteKey(file, f) = Shared(file[f])
      <4>1. IsFirst(file, file[f].tag, f)
        BY <1>10, <3>2
      <4> QED
        BY <1>0, <3>3, <4>1, WriteKeyIs
    <3>5. Own(file[f]) # Shared(file[f])
      BY <1>0, KeysDiffer
    <3> QED
      BY <3>1, <3>4, <3>5
  <2> QED
    BY <1>2, <2>1, <2>2
<1>11. ASSUME NEW i \in DOMAIN r, r[i].id \notin lost2
       PROVE  SoundUrl(o, r, urls2, i)
  <2>1. i \in DOMAIN file /\ file[i].id \notin lost2
    BY <1>1, <1>11
  <2>2. /\ Own(r[i]) = Own(file[i]) /\ Shared(r[i]) = Shared(file[i])
        /\ ReadKey(urls2, r, i) = ReadKey(urls2, file, i)
        /\ \A tag, j : IsFirst(r, tag, j) <=> IsFirst(file, tag, j)
        /\ \A j \in DOMAIN file : Own(r[j]) = Own(file[j])
    BY <1>0, <1>1, <2>1, KeysStay
  <2>3. AddressKnown(o, r, urls2, i)
    BY <1>1, <1>9, <2>1, <2>2 DEF AddressKnown
  <2>4. ASSUME r[i].tag \in Mixed PROVE Steady(o, r, urls2, i)
    <3>1. file[i].tag \in Mixed
      BY <1>1, <2>1, <2>4
    <3>2. Own(r[i]) \in DOMAIN urls2 => urls2[Own(r[i])] = o[r[i].id].url
      BY <1>1, <1>8, <2>1, <2>2, <3>1
    <3>3. \A f \in DOMAIN r : IsFirst(r, r[i].tag, f) =>
            Own(r[f]) \notin DOMAIN urls2 /\ r[f].url = Proxy
      BY <1>1, <1>10, <2>1, <2>2, <3>1
    <3> QED
      BY <3>2, <3>3 DEF Steady
  <2> QED
    BY <2>3, <2>4 DEF SoundUrl
<1> QED
  BY <1>3, <1>11 DEF SoundUrls, r

-----------------------------------------------------------------------------
(* Restores, blank snapshots and entries that stay.                        *)

\* Maps that are alike are alike for everything said of them.
LEMMA SameUrls ==
  ASSUME NEW o, NEW file, NEW urls, NEW urls2, SameMap(urls, urls2), NEW lost,
         SoundUrls(o, file, urls, lost)
  PROVE  SoundUrls(o, file, urls2, lost)
<1>1. /\ DOMAIN urls = DOMAIN urls2
      /\ \A key \in DOMAIN urls : urls[key] = urls2[key]
  BY DEF SameMap
<1>2. \A i : ReadKey(urls, file, i) = ReadKey(urls2, file, i)
  BY <1>1 DEF ReadKey
<1>3. ASSUME NEW i \in DOMAIN file, SoundUrl(o, file, urls, i)
      PROVE  SoundUrl(o, file, urls2, i)
  <2>1. AddressKnown(o, file, urls2, i)
    BY <1>1, <1>2, <1>3 DEF SoundUrl, AddressKnown
  <2>2. Steady(o, file, urls, i) => Steady(o, file, urls2, i)
    BY <1>1 DEF Steady
  <2> QED
    BY <1>3, <2>1, <2>2 DEF SoundUrl
<1> QED
  BY <1>3 DEF SoundUrls

\* To restore the file from the snapshot gives back every address that is
\* not lost, and leaves the snapshot sound.
LEMMA RestoreSound ==
  ASSUME NEW o, NEW d, IsDisk(d), IsFile(o, d.file), KeysFit(d.snap.urls),
         NEW lost, SoundUrls(o, d.file, d.snap.urls, lost)
  PROVE  /\ SoundUrls(o, RestoredEntries(d.file, d.snap), d.snap.urls, lost)
         /\ \A i \in DOMAIN d.file : d.file[i].id \notin lost =>
              RestoredEntries(d.file, d.snap)[i].url = o[d.file[i].id].url
<1> DEFINE f == RestoredEntries(d.file, d.snap)
           urls == d.snap.urls
           file == d.file
<1>1. /\ f \in Seq(Entry) /\ DOMAIN f = DOMAIN file
      /\ \A i \in DOMAIN file :
           /\ f[i].id = file[i].id /\ f[i].tag = file[i].tag
           /\ file[i].url # Proxy => f[i].url = file[i].url
           /\ file[i].url = Proxy =>
                f[i].url = IF ReadKey(urls, file, i) \in DOMAIN urls
                           THEN urls[ReadKey(urls, file, i)] ELSE Proxy
  BY RestoredEntriesIs
<1>0. file \in Seq(Entry) /\ IsFile(o, file) /\ KeysFit(urls)
      /\ SoundUrls(o, file, urls, lost)
  BY DEF IsFile
<1> HIDE DEF f, urls, file
<1>2. ASSUME NEW i \in DOMAIN file, file[i].id \notin lost
      PROVE  f[i].url = o[file[i].id].url
  BY <1>0, <1>1, <1>2 DEF SoundUrls, SoundUrl, AddressKnown
<1>3. ASSUME NEW i \in DOMAIN f, f[i].id \notin lost
      PROVE  SoundUrl(o, f, urls, i)
  <2>1. i \in DOMAIN file /\ file[i].id \notin lost
    BY <1>1, <1>3
  <2>2. /\ Own(f[i]) = Own(file[i]) /\ Shared(f[i]) = Shared(file[i])
        /\ \A tag, j : IsFirst(f, tag, j) <=> IsFirst(file, tag, j)
        /\ \A j \in DOMAIN file : Own(f[j]) = Own(file[j])
    BY <1>0, <1>1, <2>1, KeysStay
  <2>3. f[i].url = o[f[i].id].url /\ f[i].url # Proxy
    BY <1>0, <1>1, <1>2, <2>1 DEF IsFile
  <2>4. AddressKnown(o, f, urls, i)
    BY <2>3 DEF AddressKnown
  <2>5. ASSUME f[i].tag \in Mixed PROVE Steady(o, f, urls, i)
    <3>1. Steady(o, file, urls, i) /\ file[i].tag \in Mixed
      BY <1>0, <1>1, <2>1, <2>5 DEF SoundUrls, SoundUrl
    <3>2. Own(f[i]) \in DOMAIN urls => urls[Own(f[i])] = o[f[i].id].url
      BY <1>1, <2>1, <2>2, <3>1 DEF Steady
    <3>3. ASSUME NEW g \in DOMAIN f, IsFirst(f, f[i].tag, g)
          PROVE  /\ Own(f[g]) \notin DOMAIN urls
                 /\ Shared(f[i]) \in DOMAIN urls /\ f[g].url # Proxy =>
                      urls[Shared(f[i])] = f[g].url
      <4>1. g \in DOMAIN file /\ IsFirst(file, file[i].tag, g)
        BY <1>1, <2>1, <2>2, <3>3
      <4>2. /\ Own(file[g]) \notin DOMAIN urls
            /\ Shared(file[i]) \in DOMAIN urls /\ file[g].url # Proxy =>
                 urls[Shared(file[i])] = file[g].url
        BY <3>1, <4>1 DEF Steady
      <4>3. ASSUME Shared(file[i]) \in DOMAIN urls, file[g].url = Proxy
            PROVE  f[g].url = urls[Shared(file[i])]
        <5>1. file[g].tag = file[i].tag
          BY <4>1 DEF IsFirst
        <5>2. Shared(file[g]) = Shared(file[i])
          BY <5>1 DEF Shared
        <5>3. Qwen /\ file[g].tag # NoEnv
          BY <3>1, <5>1, MixedIs, NamesDiffer
        <5>4. ReadKey(urls, file, g) = Shared(file[i])
          BY <1>0, <4>1, <4>2, <4>3, <5>2, <5>3, ReadKeyIs
        <5> QED
          BY <1>1, <4>1, <4>3, <5>4
      <4> QED
        BY <1>1, <2>1, <2>2, <4>1, <4>2, <4>3
    <3> QED
      BY <3>2, <3>3 DEF Steady
  <2> QED
    BY <2>4, <2>5 DEF SoundUrl
<1>4. SoundUrls(o, f, urls, lost)
  BY <1>3 DEF SoundUrls
<1> QED
  BY <1>2, <1>4 DEF f, urls, file

\* With nothing recorded it is enough to call lost what is not there.
LEMMA BlankSound ==
  ASSUME NEW o, NEW file, IsFile(o, file), NEW urls, DOMAIN urls = {},
         NEW lost,
         \A i \in DOMAIN file : file[i].url # o[file[i].id].url =>
           file[i].id \in lost
  PROVE  SoundUrls(o, file, urls, lost)
<1>1. ASSUME NEW i \in DOMAIN file, file[i].id \notin lost
      PROVE  SoundUrl(o, file, urls, i)
  <2>1. AddressKnown(o, file, urls, i)
    BY <1>1 DEF AddressKnown, IsFile
  <2>2. Steady(o, file, urls, i)
    BY DEF Steady
  <2> QED
    BY <2>1, <2>2 DEF SoundUrl
<1> QED
  BY <1>1 DEF SoundUrls

\* The first entry with an envKey is, in file2, the one it was.
FirstStays(file, file2, tag) ==
  \A g \in DOMAIN file2 : IsFirst(file2, tag, g) =>
    \E f \in DOMAIN file :
      /\ IsFirst(file, tag, f)
      /\ file[f].id = file2[g].id /\ file[f].tag = file2[g].tag
      /\ file[f].url = file2[g].url

\* Whatever else becomes of a file, an entry stays sound whose own address
\* and key are the same and whose envKey has, if it is mixed, the same
\* first entry.
LEMMA EntrySound ==
  ASSUME NEW o, NEW file \in Seq(Entry), NEW urls, KeysFit(urls),
         NEW i \in DOMAIN file, SoundUrl(o, file, urls, i),
         NEW o2, NEW file2 \in Seq(Entry), NEW j \in DOMAIN file2,
         file2[j].id = file[i].id, file2[j].tag = file[i].tag,
         file2[j].url = file[i].url,
         o2[file[i].id].url = o[file[i].id].url,
         Qwen /\ file[i].tag = NoEnv /\ file[i].url = Proxy => i = j,
         file[i].tag \in Mixed => FirstStays(file, file2, file[i].tag)
  PROVE  SoundUrl(o2, file2, urls, j)
<1>1. Own(file2[j]) = Own(file[i]) /\ Shared(file2[j]) = Shared(file[i])
  BY DEF Own, Shared
<1>2. file[i].url = Proxy => ReadKey(urls, file2, j) = ReadKey(urls, file, i)
  <2>1. CASE Qwen /\ file[i].tag = NoEnv
    BY <1>1, <2>1 DEF ReadKey, Spot
  <2>2. CASE ~ (Qwen /\ file[i].tag = NoEnv)
    BY <1>1, <2>2 DEF ReadKey
  <2> QED
    BY <2>1, <2>2
<1>3. AddressKnown(o2, file2, urls, j)
  BY <1>2 DEF SoundUrl, AddressKnown
<1>4. ASSUME file2[j].tag \in Mixed PROVE Steady(o2, file2, urls, j)
  <2>1. Steady(o, file, urls, i)
    BY <1>4 DEF SoundUrl
  <2>2. Own(file2[j]) \in DOMAIN urls =>
          urls[Own(file2[j])] = o2[file2[j].id].url
    BY <1>1, <2>1 DEF Steady
  <2>3. ASSUME NEW g \in DOMAIN file2, IsFirst(file2, file2[j].tag, g)
        PROVE  /\ Own(file2[g]) \notin DOMAIN urls
               /\ Shared(file2[j]) \in DOMAIN urls /\ file2[g].url # Proxy =>
                    urls[Shared(file2[j])] = file2[g].url
    <3>1. PICK f \in DOMAIN file :
               /\ IsFirst(file, file[i].tag, f)
               /\ file[f].id = file2[g].id /\ file[f].tag = file2[g].tag
               /\ file[f].url = file2[g].url
      BY <1>4, <2>3 DEF FirstStays
    <3>2. Own(file2[g]) = Own(file[f])
      BY <3>1 DEF Own
    <3> QED
      BY <1>1, <2>1, <3>1, <3>2 DEF Steady
  <2> QED
    BY <2>2, <2>3 DEF Steady
<1> QED
  BY <1>3, <1>4 DEF SoundUrl

-----------------------------------------------------------------------------
(* Gates: the snapshot knows the gate of every entry that is not lost and  *)
(* whose envKey is not mixed, unless the entry has it still; and a gate    *)
(* the program has changed is open.                                        *)

GateKnown(o, file, gates, i) ==
  LET e == file[i]
      k == Key(file, i)
  IN  /\ IF k \in DOMAIN gates /\ (Qwen \/ e.gate # "none")
         THEN gates[k] = o[e.id].gate ELSE e.gate = o[e.id].gate
      /\ e.gate # o[e.id].gate => e.gate = "open"

SoundGates(o, file, gates, lost) ==
  \A i \in DOMAIN file :
    file[i].id \notin lost /\ file[i].tag \notin Mixed =>
      GateKnown(o, file, gates, i)

\* A gate that was opened just now is another than the user wants.
Opened(o, file, gates, lost) ==
  \A i \in DOMAIN file :
    /\ file[i].id \notin lost /\ file[i].tag \notin Mixed
    /\ Key(file, i) \in DOMAIN gates
    => file[i].gate = "open" /\ o[file[i].id].gate # "open"

\* To rewrite the file and to record what was in it leaves every gate
\* known.
LEMMA RewriteGates ==
  ASSUME NEW o, NEW file, IsFile(o, file), NEW gates, KeysFit(gates),
         NEW lost, SoundGates(o, file, gates, lost),
         NEW lost2,
         \A i \in DOMAIN file : file[i].id \in lost \ lost2 =>
           Closed(file[i]) /\ file[i].gate = o[file[i].id].gate,
         NEW gates2, SameMap(gates2, Over(NewGates(file), gates))
  PROVE  /\ SoundGates(o, Rewritten(file), gates2, lost2)
         /\ Opened(o, Rewritten(file), NewGates(file), lost2)
         /\ KeysFit(gates2)
<1> DEFINE r == Rewritten(file)
<1>0. file \in Seq(Entry)
  BY DEF IsFile
<1>1. /\ r \in Seq(Entry) /\ DOMAIN r = DOMAIN file
      /\ \A i \in DOMAIN file :
           /\ r[i].id = file[i].id /\ r[i].tag = file[i].tag
           /\ r[i].gate = IF Closed(file[i]) THEN "open" ELSE file[i].gate
  BY <1>0, RewrittenIs
<1> HIDE DEF r
<1>2. /\ DOMAIN gates2 = DOMAIN NewGates(file) \cup DOMAIN gates
      /\ \A k \in DOMAIN NewGates(file) : gates2[k] = NewGates(file)[k]
      /\ \A k \in DOMAIN gates \ DOMAIN NewGates(file) : gates2[k] = gates[k]
  BY DEF Over, SameMap
<1>3. KeysFit(gates2)
  BY <1>2, WrittenKeys DEF KeysFit
<1>4. ASSUME NEW i \in DOMAIN r, r[i].id \notin lost2, r[i].tag \notin Mixed
      PROVE  /\ GateKnown(o, r, gates2, i)
             /\ Key(r, i) \in DOMAIN NewGates(file) =>
                  r[i].gate = "open" /\ o[r[i].id].gate # "open"
  <2>1. i \in DOMAIN file /\ file[i].tag \notin Mixed
        /\ file[i].id \notin lost2
    BY <1>1, <1>4
  <2>2. Key(r, i) = Key(file, i)
    BY <1>0, <1>1, <2>1, KeysStay
  <2>3. WriteKey(file, i) = Key(file, i)
    BY <2>1, WrittenKey
  <2>4. /\ Key(file, i) \in DOMAIN NewGates(file) <=> Closed(file[i])
        /\ Closed(file[i]) => NewGates(file)[Key(file, i)] = file[i].gate
    BY <2>1, <2>3, GateRecorded
  <2>5. CASE Closed(file[i])
    <3>1. file[i].gate # "open"
      BY <2>5 DEF Closed
    <3>2. file[i].gate = o[file[i].id].gate
      BY <2>1, <3>1 DEF SoundGates, GateKnown
    <3>3. r[i].gate = "open" /\ r[i].id = file[i].id
      BY <1>1, <2>1, <2>5
    <3>4. Key(r, i) \in DOMAIN gates2 /\ gates2[Key(r, i)] = o[r[i].id].gate
      BY <1>2, <2>2, <2>4, <2>5, <3>2, <3>3
    <3> QED
      BY <3>1, <3>2, <3>3, <3>4 DEF GateKnown
  <2>6. CASE ~ Closed(file[i])
    <3>1. GateKnown(o, file, gates, i)
      BY <2>1, <2>6 DEF SoundGates
    <3>2. r[i].gate = file[i].gate /\ r[i].id = file[i].id
      BY <1>1, <2>1, <2>6
    <3>3. /\ Key(r, i) \in DOMAIN gates2 <=> Key(file, i) \in DOMAIN gates
          /\ Key(file, i) \in DOMAIN gates =>
               gates2[Key(r, i)] = gates[Key(file, i)]
      BY <1>2, <2>2, <2>4, <2>6
    <3> QED
      BY <2>2, <2>4, <2>6, <3>1, <3>2, <3>3 DEF GateKnown
  <2> QED
    BY <2>5, <2>6
<1>5. SoundGates(o, r, gates2, lost2)
  BY <1>4 DEF SoundGates
<1>6. Opened(o, r, NewGates(file), lost2)
  BY <1>4 DEF Opened
<1> QED
  BY <1>3, <1>5, <1>6 DEF r

\* To restore the file from the snapshot leaves the snapshot sound, and
\* gives back the gate of what was taken over and is not lost.
LEMMA RestoreGates ==
  ASSUME NEW o, NEW d, IsDisk(d), KeysFit(d.snap.urls), KeysFit(d.snap.gates),
         NEW lost, SoundGates(o, d.file, d.snap.gates, lost)
  PROVE  /\ SoundGates(o, RestoredEntries(d.file, d.snap), d.snap.gates, lost)
         /\ \A i \in DOMAIN d.file :
              LET e == d.file[i] IN
              /\ IsTaken(e) /\ e.id \notin lost /\ e.tag \notin Mixed
              /\ AddressKnown(o, d.file, d.snap.urls, i)
              => RestoredEntries(d.file, d.snap)[i].gate = o[e.id].gate
<1> DEFINE f == RestoredEntries(d.file, d.snap)
           urls == d.snap.urls
           gates == d.snap.gates
           file == d.file
<1>1. /\ f \in Seq(Entry) /\ DOMAIN f = DOMAIN file
      /\ \A i \in DOMAIN file :
           /\ f[i].id = file[i].id /\ f[i].tag = file[i].tag
           /\ file[i].url # Proxy => f[i].gate = file[i].gate
           /\ file[i].url = Proxy =>
                f[i].gate = IF ReadKey(urls, file, i) \in DOMAIN gates
                               /\ (Qwen \/ file[i].gate # "none")
                            THEN gates[ReadKey(urls, file, i)]
                            ELSE file[i].gate
  BY RestoredEntriesIs
<1>0. file \in Seq(Entry) /\ KeysFit(urls) /\ KeysFit(gates)
      /\ SoundGates(o, file, gates, lost)
  BY DEF IsDisk
<1> HIDE DEF f, urls, file, gates
<1>2. ASSUME NEW i \in DOMAIN file, file[i].id \notin lost,
             file[i].tag \notin Mixed
      PROVE  /\ GateKnown(o, f, gates, i)
             /\ IsTaken(file[i]) /\ AddressKnown(o, file, urls, i) =>
                  f[i].gate = o[file[i].id].gate
  <2> DEFINE k == ReadKey(urls, file, i)
  <2>1. GateKnown(o, file, gates, i)
    BY <1>0, <1>2 DEF SoundGates
  <2>2. Key(f, i) = Key(file, i) /\ f[i].id = file[i].id
    BY <1>0, <1>1, KeysStay
  <2>3. k = IF Key(file, i) \in DOMAIN urls \/ ~ Qwen
            THEN Key(file, i) ELSE Unknown
    BY <1>0, <1>2, ReadKeyIs
  <2>4. Qwen => Unknown \notin DOMAIN gates /\ Unknown \notin DOMAIN urls
    BY <1>0, UnknownIs
  <2>5. AddressKnown(o, file, urls, i) /\ IsTaken(file[i]) =>
          k \in DOMAIN urls
    BY DEF AddressKnown, IsTaken
  <2> HIDE DEF k
  <2>6. AddressKnown(o, file, urls, i) /\ IsTaken(file[i]) =>
          k = Key(file, i)
    BY <2>3, <2>4, <2>5
  <2>7. file[i].url = Proxy =>
          f[i].gate = IF k \in DOMAIN gates /\ (Qwen \/ file[i].gate # "none")
                      THEN gates[k] ELSE file[i].gate
    BY <1>1 DEF k
  <2>8. CASE \/ file[i].url # Proxy
             \/ ~ (k \in DOMAIN gates /\ (Qwen \/ file[i].gate # "none"))
    <3>1. f[i].gate = file[i].gate
      BY <1>1, <2>7, <2>8
    <3>2. GateKnown(o, f, gates, i)
      BY <2>1, <2>2, <3>1 DEF GateKnown
    <3>3. ASSUME IsTaken(file[i]), AddressKnown(o, file, urls, i)
          PROVE  f[i].gate = o[file[i].id].gate
      BY <2>1, <2>6, <2>8, <3>1, <3>3 DEF GateKnown, IsTaken
    <3> QED
      BY <3>2, <3>3
  <2>9. CASE file[i].url = Proxy /\ k \in DOMAIN gates
             /\ (Qwen \/ file[i].gate # "none")
    <3>1. k = Key(file, i)
      BY <2>3, <2>4, <2>9
    <3>2. f[i].gate = o[file[i].id].gate
      BY <2>1, <2>7, <2>9, <3>1 DEF GateKnown
    <3>3. Key(file, i) \in DOMAIN gates
          /\ gates[Key(file, i)] = o[file[i].id].gate
      BY <2>1, <2>9, <3>1 DEF GateKnown
    <3> QED
      BY <2>2, <3>2, <3>3 DEF GateKnown
  <2> QED
    BY <2>8, <2>9
<1>3. SoundGates(o, f, gates, lost)
  BY <1>1, <1>2 DEF SoundGates
<1> QED
  BY <1>2, <1>3 DEF f, urls, file, gates

\* With nothing recorded it is enough to call lost what differs.
LEMMA BlankGates ==
  ASSUME NEW o, NEW file, NEW gates, DOMAIN gates = {}, NEW lost,
         \A i \in DOMAIN file : file[i].gate # o[file[i].id].gate =>
           file[i].id \in lost
  PROVE  SoundGates(o, file, gates, lost)
BY DEF SoundGates, GateKnown

\* Maps that are alike are alike for gates as well.
LEMMA SameGates ==
  ASSUME NEW o, NEW file, NEW gates, NEW gates2, SameMap(gates, gates2),
         NEW lost, SoundGates(o, file, gates, lost)
  PROVE  SoundGates(o, file, gates2, lost)
BY DEF SoundGates, GateKnown, SameMap

\* The gate of an entry stays known while it, its key and what the user
\* wants of it are the same.
LEMMA EntryGate ==
  ASSUME NEW o, NEW file, NEW gates, NEW i \in DOMAIN file,
         GateKnown(o, file, gates, i),
         NEW o2, NEW file2, NEW j \in DOMAIN file2,
         file2[j].id = file[i].id, file2[j].gate = file[i].gate,
         o2[file[i].id].gate = o[file[i].id].gate,
         DOMAIN gates = {} \/ Key(file2, j) = Key(file, i)
  PROVE  GateKnown(o2, file2, gates, j)
BY DEF GateKnown

-----------------------------------------------------------------------------
(* The inductive invariant.                                                *)

\* What will be known once the start under way has saved what it read.
KnownUrls  == Over(fresh.urls, disk.snap.urls)
KnownGates == Over(fresh.gates, disk.snap.gates)

Lists ==
  /\ Files[harness] # {}
  /\ IsFile(own, disk.file) /\ IsFile(own, disk.bak.file)

Keyed ==
  /\ KeysFit(fresh.urls) /\ KeysFit(fresh.gates)
  /\ KeysFit(disk.snap.urls) /\ KeysFit(disk.snap.gates)

Chat == Qwen => \A r \in disk.relays : r.protocol = "chat"

UrlsKnown  == SoundUrls(own, disk.file, KnownUrls, lostUrl)
GatesKnown == SoundGates(own, disk.file, KnownGates, lostGate)

\* While the start is under way every mixed entry is taken over or lost:
\* if it dies, all of them are lost.
MixedTaken ==
  service = "starting" =>
    \A i \in DOMAIN disk.file :
      disk.file[i].id \notin lostUrl /\ disk.file[i].tag \in Mixed =>
        disk.file[i].url = Proxy

JustOpened ==
  service = "starting" => Opened(own, disk.file, fresh.gates, lostGate)

Inv ==
  /\ Shapes /\ Lists /\ Keyed /\ Chat
  /\ UrlsKnown /\ GatesKnown /\ MixedTaken /\ JustOpened

\* The conjuncts after a step, said with the harness before it.
LEMMA ListsNext ==
  ASSUME harness' = harness, Files[harness] # {},
         IsFile(own', disk'.file), IsFile(own', disk'.bak.file)
  PROVE  Lists'
<1>1. Mixed' = Mixed /\ (Qwen' <=> Qwen)
  BY SameHarness
<1>2. IsFile(own, disk.file)'
  BY <1>1 DEF IsFile
<1>3. IsFile(own, disk.bak.file)'
  BY <1>1 DEF IsFile
<1> QED
  BY <1>2, <1>3 DEF Lists

LEMMA KeyedNext ==
  ASSUME harness' = harness, KeysFit(fresh'.urls), KeysFit(fresh'.gates),
         KeysFit(disk'.snap.urls), KeysFit(disk'.snap.gates)
  PROVE  Keyed'
<1>1. Mixed' = Mixed /\ (Qwen' <=> Qwen)
  BY SameHarness
<1> QED
  BY <1>1 DEF Keyed, KeysFit, IsKey

LEMMA UrlsNext ==
  ASSUME harness' = harness,
         SoundUrls(own', disk'.file, Over(fresh'.urls, disk'.snap.urls),
                   lostUrl')
  PROVE  UrlsKnown'
<1>1. Mixed' = Mixed /\ (Qwen' <=> Qwen)
  BY SameHarness
<1> DEFINE urls == Over(fresh'.urls, disk'.snap.urls)
           file == disk'.file
<1>0. KnownUrls' = urls /\ SoundUrls(own', file, urls, lostUrl')
  BY DEF KnownUrls, Over
<1> HIDE DEF urls, file
<1>2. ASSUME NEW i
      PROVE  ReadKey(KnownUrls, disk.file, i)' = ReadKey(urls, file, i)
  BY <1>0, <1>1 DEF ReadKey, file
<1>3. ASSUME NEW i \in DOMAIN file, SoundUrl(own', file, urls, i)
      PROVE  SoundUrl(own, disk.file, KnownUrls, i)'
  <2>1. AddressKnown(own, disk.file, KnownUrls, i)'
    BY <1>0, <1>2, <1>3 DEF SoundUrl, AddressKnown, file
  <2>2. Steady(own', file, urls, i) => Steady(own, disk.file, KnownUrls, i)'
    BY <1>0 DEF Steady, IsFirst, file
  <2> QED
    BY <1>1, <1>3, <2>1, <2>2 DEF SoundUrl, file
<1> QED
  BY <1>0, <1>3 DEF UrlsKnown, SoundUrls, file

LEMMA GatesNext ==
  ASSUME harness' = harness,
         SoundGates(own', disk'.file, Over(fresh'.gates, disk'.snap.gates),
                    lostGate')
  PROVE  GatesKnown'
<1>1. Mixed' = Mixed /\ (Qwen' <=> Qwen)
  BY SameHarness
<1>2. KnownGates' = Over(fresh'.gates, disk'.snap.gates)
  BY DEF KnownGates, Over
<1>3. \A i : Key(disk.file, i)' = Key(disk'.file, i)
  BY <1>1 DEF Key
<1> QED
  BY <1>1, <1>2, <1>3 DEF GatesKnown, SoundGates, GateKnown

LEMMA OpenedNext ==
  ASSUME harness' = harness,
         service' = "starting" =>
           Opened(own', disk'.file, fresh'.gates, lostGate')
  PROVE  JustOpened'
<1>1. Mixed' = Mixed /\ (Qwen' <=> Qwen)
  BY SameHarness
<1>3. \A i : Key(disk.file, i)' = Key(disk'.file, i)
  BY <1>1 DEF Key
<1> QED
  BY <1>1, <1>3 DEF JustOpened, Opened

\* Without a start under way only the snapshot counts.
LEMMA AtRest ==
  ASSUME Shapes, service # "starting"
  PROVE  /\ SameMap(KnownUrls, disk.snap.urls)
         /\ SameMap(KnownGates, disk.snap.gates)
         /\ SameMap(disk.snap.urls, KnownUrls)
         /\ SameMap(disk.snap.gates, KnownGates)
         /\ DOMAIN fresh.urls = {} /\ DOMAIN fresh.gates = {}
<1>1. DOMAIN fresh.urls = {} /\ DOMAIN fresh.gates = {}
  BY NoFreshIs DEF Shapes
<1> QED
  BY <1>1 DEF KnownUrls, KnownGates, Over, SameMap

LEMMA NothingOver ==
  ASSUME NEW f, DOMAIN f = {}, NEW g
  PROVE  SameMap(Over(f, g), g) /\ SameMap(g, Over(f, g))
BY DEF Over, SameMap

-----------------------------------------------------------------------------
(* The first state, and the first half of a start.                         *)

\* What a step has to show.
LEMMA InvNext ==
  ASSUME Inv, Shapes', harness' = harness,
         IsFile(own', disk'.file), IsFile(own', disk'.bak.file),
         KeysFit(fresh'.urls), KeysFit(fresh'.gates),
         KeysFit(disk'.snap.urls), KeysFit(disk'.snap.gates),
         SoundUrls(own', disk'.file, Over(fresh'.urls, disk'.snap.urls),
                   lostUrl'),
         SoundGates(own', disk'.file, Over(fresh'.gates, disk'.snap.gates),
                    lostGate'),
         service' = "starting" =>
           /\ \A i \in DOMAIN disk'.file :
                /\ disk'.file[i].id \notin lostUrl'
                /\ disk'.file[i].tag \in Mixed
                => disk'.file[i].url = Proxy
           /\ Opened(own', disk'.file, fresh'.gates, lostGate'),
         Qwen => \A r \in disk'.relays : r.protocol = "chat"
  PROVE  Inv'
<1>1. Mixed' = Mixed /\ (Qwen' <=> Qwen)
  BY SameHarness
<1>2. Lists'
  BY ListsNext DEF Inv, Lists
<1>3. Keyed'
  BY KeyedNext
<1>4. Chat'
  BY <1>1 DEF Chat
<1>5. UrlsKnown' /\ GatesKnown'
  BY UrlsNext, GatesNext
<1>6. MixedTaken'
  BY <1>1 DEF MixedTaken
<1>7. JustOpened'
  BY OpenedNext
<1> QED
  BY <1>2, <1>3, <1>4, <1>5, <1>6, <1>7 DEF Inv

\* It holds at first: nothing is taken over and nothing lost.
LEMMA InitInv == Init => Inv
<1> SUFFICES ASSUME Init PROVE Inv
  OBVIOUS
<1>0. Shapes
  BY InitShapes
<1>1. PICK f \in Files[harness] :
        /\ disk = [file |-> f.file, base |-> f.base, snap |-> NoSnap,
                   bak |-> NoBak, relays |-> {}]
        /\ own = [id \in Ids |->
                   IF \E e \in Range(f.file) : e.id = id
                   THEN CHOOSE e \in Range(f.file) : e.id = id
                   ELSE [id |-> id, tag |-> NoEnv, url |-> Proxy,
                         gate |-> "none"]]
  BY DEF Init
<1>2. /\ harness \in Harnesses /\ service = "down" /\ fresh = NoFresh
      /\ lostUrl = {} /\ lostGate = {}
  BY DEF Init
<1>3. /\ disk.file = f.file /\ disk.relays = {}
      /\ disk.bak.file = <<>>
      /\ DOMAIN disk.snap.urls = {} /\ DOMAIN disk.snap.gates = {}
      /\ DOMAIN fresh.urls = {} /\ DOMAIN fresh.gates = {}
  BY <1>1, <1>2, NothingHas, NoFreshIs DEF NoSnap, NoBak
<1>4. f.file \in Seq(Entry)
  BY <1>0, <1>3 DEF Shapes, IsDisk
<1>5. \A i \in DOMAIN f.file :
        /\ f.file[i].url # Proxy
        /\ \A j \in DOMAIN f.file : f.file[i].id = f.file[j].id => i = j
  BY <1>2, FilesAssumption
<1>6. ASSUME NEW i \in DOMAIN f.file PROVE own[f.file[i].id] = f.file[i]
  <2>1. f.file[i] \in Range(f.file)
    BY DEF Range
  <2>2. \A e \in Range(f.file) : e.id = f.file[i].id => e = f.file[i]
    BY <1>5 DEF Range
  <2>3. f.file[i].id \in Ids
    BY <1>4, EntryIs
  <2> QED
    BY <1>1, <2>1, <2>2, <2>3
<1>7. IsFile(own, disk.file)
  <2>1. ASSUME Qwen, NEW i \in DOMAIN f.file, f.file[i].tag \in Tags \ Mixed
        PROVE  /\ \A j \in DOMAIN f.file :
                    f.file[i].tag = f.file[j].tag => i = j
               /\ \A e \in News[harness] :
                    f.file[i].tag = e.tag => f.file[i].id = e.id
    <3>1. \A d, e \in News[harness] \cup Range(f.file) :
            d.tag = f.file[i].tag /\ e.tag = f.file[i].tag => d.id = e.id
      BY <2>1 DEF Mixed
    <3>2. \A j \in DOMAIN f.file : f.file[j] \in Range(f.file)
      BY DEF Range
    <3> QED
      BY <1>5, <2>1, <3>1, <3>2
  <2> QED
    BY <1>3, <1>4, <1>5, <1>6, <2>1 DEF IsFile
<1>8. IsFile(own, disk.bak.file)
  <2>1. DOMAIN disk.bak.file = {} /\ disk.bak.file \in Seq(Entry)
    BY <1>3
  <2> QED
    BY <2>1 DEF IsFile
<1>9. Lists
  BY <1>1, <1>7, <1>8 DEF Lists
<1>10. Keyed
  BY <1>3 DEF Keyed, KeysFit
<1>11. DOMAIN KnownUrls = {} /\ DOMAIN KnownGates = {}
  BY <1>3 DEF KnownUrls, KnownGates, Over
<1>12. UrlsKnown
  BY <1>3, <1>6, <1>7, <1>11, BlankSound DEF UrlsKnown
<1>13. GatesKnown
  BY <1>3, <1>6, <1>11, BlankGates DEF GatesKnown
<1>14. Chat /\ MixedTaken /\ JustOpened
  BY <1>2, <1>3 DEF Chat, MixedTaken, JustOpened
<1> QED
  BY <1>0, <1>9, <1>10, <1>12, <1>13, <1>14 DEF Inv

\* Steps that leave the entries, what is known of them and the relays.
LEMMA QuietInv ==
  ASSUME Inv, Shapes', harness' = harness,
         disk'.file = disk.file, disk'.bak = disk.bak,
         disk'.snap = disk.snap, disk'.relays = disk.relays,
         fresh' = fresh, service' = "starting" => service = "starting",
         own' = own, lostUrl' = lostUrl, lostGate' = lostGate
  PROVE  Inv'
<1>1. /\ IsFile(own', disk'.file) /\ IsFile(own', disk'.bak.file)
      /\ KeysFit(fresh'.urls) /\ KeysFit(fresh'.gates)
      /\ KeysFit(disk'.snap.urls) /\ KeysFit(disk'.snap.gates)
  BY DEF Inv, Lists, Keyed
<1>2. SoundUrls(own', disk'.file, Over(fresh'.urls, disk'.snap.urls),
                lostUrl')
  BY DEF Inv, UrlsKnown, KnownUrls
<1>3. SoundGates(own', disk'.file, Over(fresh'.gates, disk'.snap.gates),
                 lostGate')
  BY DEF Inv, GatesKnown, KnownGates
<1>4. service' = "starting" =>
           /\ \A i \in DOMAIN disk'.file :
                /\ disk'.file[i].id \notin lostUrl'
                /\ disk'.file[i].tag \in Mixed
                => disk'.file[i].url = Proxy
           /\ Opened(own', disk'.file, fresh'.gates, lostGate')
  BY DEF Inv, MixedTaken, JustOpened
<1>5. Qwen => \A r \in disk'.relays : r.protocol = "chat"
  BY DEF Inv, Chat
<1> QED
  BY <1>1, <1>2, <1>3, <1>4, <1>5, InvNext

\* What is recorded again is not lost any longer, and was as its user
\* wants.
LEMMA LearnIs ==
  ASSUME Learn
  PROVE  /\ \A i \in DOMAIN disk.file :
              disk.file[i].id \in lostUrl \ lostUrl' =>
                \E j \in DOMAIN disk.file :
                  /\ disk.file[j].id = disk.file[i].id
                  /\ disk.file[j].url = own[disk.file[j].id].url
                  /\ disk.file[j].tag \notin Mixed
         /\ \A i \in DOMAIN disk.file :
              disk.file[i].id \in lostGate \ lostGate' =>
                \E j \in DOMAIN disk.file :
                  /\ disk.file[j].id = disk.file[i].id
                  /\ Closed(disk.file[j])
                  /\ disk.file[j].gate = own[disk.file[j].id].gate
BY DEF Learn, At, IsForced

LEMMA LearnOne ==
  ASSUME Learn, IsFile(own, disk.file)
  PROVE  /\ \A i \in DOMAIN disk.file :
              disk.file[i].id \in lostUrl \ lostUrl' =>
                /\ disk.file[i].url = own[disk.file[i].id].url
                /\ disk.file[i].tag \notin Mixed
         /\ \A i \in DOMAIN disk.file :
              disk.file[i].id \in lostGate \ lostGate' =>
                /\ Closed(disk.file[i])
                /\ disk.file[i].gate = own[disk.file[i].id].gate
BY LearnIs DEF IsFile

\* The first half of a start,
LEMMA BeginInv ==
  ASSUME Inv, Shapes', BeginStart
  PROVE  Inv'
<1>0. Shapes /\ IsFile(own, disk.file) /\ disk.file \in Seq(Entry)
  BY DEF Inv, Lists, IsFile
<1>1. /\ service = "down" /\ harness' = harness /\ own' = own
      /\ fresh'.urls = NewUrls(disk.file)
      /\ fresh'.gates = NewGates(disk.file)
      /\ Learn
  BY DEF BeginStart
<1>2. /\ disk'.file = Rewritten(disk.file) /\ disk'.snap = disk.snap
      /\ disk'.relays = disk.relays
      /\ disk'.bak.file = disk.bak.file \/ disk'.bak.file = disk.file
  BY <1>0, CommandDisk DEF BeginStart
<1>3. /\ SoundUrls(own, disk.file, disk.snap.urls, lostUrl)
      /\ SoundGates(own, disk.file, disk.snap.gates, lostGate)
      /\ KeysFit(disk.snap.urls) /\ KeysFit(disk.snap.gates)
  <2>1. /\ SameMap(KnownUrls, disk.snap.urls)
        /\ SameMap(KnownGates, disk.snap.gates)
    BY <1>0, <1>1, AtRest
  <2> QED
    BY <2>1, SameUrls, SameGates DEF Inv, UrlsKnown, GatesKnown, Keyed
<1>4. /\ \A i \in DOMAIN disk.file :
              disk.file[i].id \in lostUrl \ lostUrl' =>
                /\ disk.file[i].url = own[disk.file[i].id].url
                /\ disk.file[i].tag \notin Mixed
      /\ \A i \in DOMAIN disk.file :
              disk.file[i].id \in lostGate \ lostGate' =>
                /\ Closed(disk.file[i])
                /\ disk.file[i].gate = own[disk.file[i].id].gate
  BY <1>0, <1>1, LearnOne
<1>5. SoundUrls(own, Rewritten(disk.file),
                Over(NewUrls(disk.file), disk.snap.urls), lostUrl')
  <2>1. SameMap(Over(NewUrls(disk.file), disk.snap.urls),
                Over(NewUrls(disk.file), disk.snap.urls))
    BY DEF SameMap
  <2> QED
    BY <1>0, <1>3, <1>4, <2>1, RewriteSound
<1>6. /\ SoundGates(own, Rewritten(disk.file),
                    Over(NewGates(disk.file), disk.snap.gates), lostGate')
      /\ Opened(own, Rewritten(disk.file), NewGates(disk.file), lostGate')
  <2>1. SameMap(Over(NewGates(disk.file), disk.snap.gates),
                Over(NewGates(disk.file), disk.snap.gates))
    BY DEF SameMap
  <2> QED
    BY <1>0, <1>3, <1>4, <2>1, RewriteGates
<1>7. IsFile(own, Rewritten(disk.file))
      /\ \A i \in DOMAIN Rewritten(disk.file) :
           Rewritten(disk.file)[i].url = Proxy
  <2>1. /\ Rewritten(disk.file) \in Seq(Entry)
        /\ DOMAIN Rewritten(disk.file) = DOMAIN disk.file
        /\ \A i \in DOMAIN disk.file :
              /\ Rewritten(disk.file)[i].id = disk.file[i].id
              /\ Rewritten(disk.file)[i].tag = disk.file[i].tag
              /\ Rewritten(disk.file)[i].url = Proxy
    BY <1>0, RewrittenIs
  <2> QED
    BY <1>0, <2>1 DEF IsFile
<1>8. KeysFit(NewUrls(disk.file)) /\ KeysFit(NewGates(disk.file))
  BY <1>0, WrittenKeys
<1>9. IsFile(own', disk'.bak.file)
  BY <1>0, <1>1, <1>2 DEF Inv, Lists
<1>10. Qwen => \A r \in disk'.relays : r.protocol = "chat"
  BY <1>2 DEF Inv, Chat
<1> QED
  BY <1>1, <1>2, <1>3, <1>5, <1>6, <1>7, <1>8, <1>9, <1>10, InvNext

-----------------------------------------------------------------------------
(* The second half.                                                        *)

\* To rewire a disk is to rewrite and to record, even where nothing is
\* left to do.
LEMMA RewiredLike ==
  ASSUME NEW d, IsDisk(d)
  PROVE  /\ Rewired(d).file = Rewritten(d.file)
         /\ SameMap(Rewired(d).snap.urls, Over(NewUrls(d.file), d.snap.urls))
         /\ SameMap(Rewired(d).snap.gates,
                    Over(NewGates(d.file), d.snap.gates))
<1>0. d.file \in Seq(Entry)
  BY DEF IsDisk
<1>1. CASE /\ \A i \in DOMAIN d.file :
                IsTaken(d.file[i]) /\ ~ Closed(d.file[i])
           /\ Rewired(d) = d
  <2>1. DOMAIN NewUrls(d.file) = {} /\ DOMAIN NewGates(d.file) = {}
    BY <1>0, <1>1, NewUrlsIs, NewGatesIs DEF IsTaken
  <2>2. /\ SameMap(d.snap.urls, Over(NewUrls(d.file), d.snap.urls))
        /\ SameMap(d.snap.gates, Over(NewGates(d.file), d.snap.gates))
    BY <2>1, NothingOver
  <2>3. d.file = Rewritten(d.file)
    <3>1. \A i \in DOMAIN d.file :
            [d.file[i] EXCEPT !.url = Proxy,
                              !.gate = IF Closed(d.file[i]) THEN "open" ELSE @]
              = d.file[i]
      <4> SUFFICES ASSUME NEW i \in DOMAIN d.file
          PROVE [d.file[i] EXCEPT !.url = Proxy,
                              !.gate = IF Closed(d.file[i]) THEN "open" ELSE @]
                  = d.file[i]
        OBVIOUS
      <4>1. d.file[i].url = Proxy /\ ~ Closed(d.file[i]) /\ d.file[i] \in Entry
        BY <1>0, <1>1, EntryIs DEF IsTaken
      <4> QED
        BY <4>1 DEF Entry
    <3>2. d.file = [i \in DOMAIN d.file |-> d.file[i]]
      BY <1>0
    <3> QED
      BY <3>1, <3>2 DEF Rewritten
  <2> QED
    BY <1>1, <2>2, <2>3
<1>2. CASE /\ Rewired(d).file = Rewritten(d.file)
           /\ Rewired(d).snap.urls = Over(NewUrls(d.file), d.snap.urls)
           /\ Rewired(d).snap.gates = Over(NewGates(d.file), d.snap.gates)
  BY <1>2 DEF SameMap
<1> QED
  BY <1>1, <1>2, RewiredIs

\* The relays of qwen-code have one protocol.
LEMMA EnsuredChat ==
  ASSUME NEW d, IsDisk(d), Qwen, \A r \in d.relays : r.protocol = "chat"
  PROVE  \A r \in Ensured(d).relays : r.protocol = "chat"
BY EnsuredIs, DesiredIs

\* To rewire the entries keeps everything known.
LEMMA RewiredKnown ==
  ASSUME NEW d, IsDisk(d), NEW o, IsFile(o, d.file),
         KeysFit(d.snap.urls), KeysFit(d.snap.gates),
         NEW lostU, SoundUrls(o, d.file, d.snap.urls, lostU),
         NEW lostG, SoundGates(o, d.file, d.snap.gates, lostG),
         NEW lostU2,
         \A i \in DOMAIN d.file : d.file[i].id \in lostU \ lostU2 =>
           d.file[i].url = o[d.file[i].id].url /\ d.file[i].tag \notin Mixed,
         NEW lostG2,
         \A i \in DOMAIN d.file : d.file[i].id \in lostG \ lostG2 =>
           Closed(d.file[i]) /\ d.file[i].gate = o[d.file[i].id].gate
  PROVE  /\ IsFile(o, Rewired(d).file)
         /\ KeysFit(Rewired(d).snap.urls) /\ KeysFit(Rewired(d).snap.gates)
         /\ SoundUrls(o, Rewired(d).file, Rewired(d).snap.urls, lostU2)
         /\ SoundGates(o, Rewired(d).file, Rewired(d).snap.gates, lostG2)
<1>1. /\ Rewired(d).file = Rewritten(d.file)
      /\ SameMap(Rewired(d).snap.urls, Over(NewUrls(d.file), d.snap.urls))
      /\ SameMap(Rewired(d).snap.gates, Over(NewGates(d.file), d.snap.gates))
  BY RewiredLike
<1>2. /\ SoundUrls(o, Rewritten(d.file), Rewired(d).snap.urls, lostU2)
      /\ KeysFit(Rewired(d).snap.urls)
  BY <1>1, RewriteSound
<1>3. /\ SoundGates(o, Rewritten(d.file), Rewired(d).snap.gates, lostG2)
      /\ KeysFit(Rewired(d).snap.gates)
  BY <1>1, RewriteGates
<1>4. IsFile(o, Rewritten(d.file))
  <2>1. d.file \in Seq(Entry)
    BY DEF IsDisk
  <2>2. /\ Rewritten(d.file) \in Seq(Entry)
        /\ DOMAIN Rewritten(d.file) = DOMAIN d.file
        /\ \A i \in DOMAIN d.file :
              /\ Rewritten(d.file)[i].id = d.file[i].id
              /\ Rewritten(d.file)[i].tag = d.file[i].tag
    BY <2>1, RewrittenIs
  <2> QED
    BY <2>2 DEF IsFile
<1> QED
  BY <1>1, <1>2, <1>3, <1>4

\* the second half,
LEMMA FinishInv ==
  ASSUME Inv, Shapes', FinishStart
  PROVE  Inv'
<1>0. Shapes /\ IsFile(own, disk.file)
  BY DEF Inv, Lists
<1>1. /\ harness' = harness /\ own' = own /\ service' = "up"
      /\ fresh' = NoFresh /\ Learn
  BY DEF FinishStart
<1>2. PICK d :
           /\ IsDisk(d)
           /\ disk' = Reconciled(Ensured(d))
           /\ d.file = disk.file /\ d.bak = disk.bak
           /\ d.relays = disk.relays
           /\ Qwen => d.base = Proxy
           /\ SameMap(d.snap.urls, Over(fresh.urls, disk.snap.urls))
           /\ SameMap(d.snap.gates, Over(fresh.gates, disk.snap.gates))
  BY <1>0, FinishIs
<1> DEFINE e == Ensured(d)
<1>3. /\ IsDisk(e) /\ e.file = disk.file /\ e.bak = disk.bak
      /\ e.snap = d.snap
      /\ Qwen => e.base = Proxy
      /\ Qwen => \A r \in e.relays : r.protocol = "chat"
  BY <1>2, EnsuredIs, EnsuredChat DEF Inv, Chat
<1>4. disk' = Reconciled(e)
  BY <1>2
<1>5. /\ SoundUrls(own, e.file, e.snap.urls, lostUrl)
      /\ SoundGates(own, e.file, e.snap.gates, lostGate)
  <2>1. /\ SameMap(KnownUrls, d.snap.urls)
        /\ SameMap(KnownGates, d.snap.gates)
    BY <1>2 DEF SameMap, KnownUrls, KnownGates
  <2>2. SoundUrls(own, disk.file, d.snap.urls, lostUrl)
    BY <2>1, SameUrls DEF Inv, UrlsKnown
  <2>3. SoundGates(own, disk.file, d.snap.gates, lostGate)
    BY <2>1, SameGates DEF Inv, GatesKnown
  <2> QED
    BY <1>3, <2>2, <2>3
<1>6. KeysFit(e.snap.urls) /\ KeysFit(e.snap.gates)
  <2>1. KeysFit(d.snap.urls) /\ KeysFit(d.snap.gates)
    BY <1>2 DEF SameMap, Over, KeysFit, Inv, Keyed
  <2> QED
    BY <1>3, <2>1
<1>7. IsFile(own, e.file)
  BY <1>0, <1>3
<1> HIDE DEF e
<1>8. /\ \A i \in DOMAIN e.file : e.file[i].id \in lostUrl \ lostUrl' =>
           e.file[i].url = own[e.file[i].id].url /\ e.file[i].tag \notin Mixed
      /\ \A i \in DOMAIN e.file : e.file[i].id \in lostGate \ lostGate' =>
           Closed(e.file[i]) /\ e.file[i].gate = own[e.file[i].id].gate
  <2>1. e.file = disk.file
    BY <1>3
  <2> QED
    BY <1>0, <1>1, <2>1, LearnOne
<1>9. /\ IsFile(own, Rewired(e).file)
      /\ KeysFit(Rewired(e).snap.urls) /\ KeysFit(Rewired(e).snap.gates)
      /\ SoundUrls(own, Rewired(e).file, Rewired(e).snap.urls, lostUrl')
      /\ SoundGates(own, Rewired(e).file, Rewired(e).snap.gates, lostGate')
  <2>1. IsDisk(e)
    BY <1>3
  <2> QED
    BY <2>1, <1>5, <1>6, <1>7, <1>8, RewiredKnown
<1>10. disk' = Ensured(Rewired(e))
  <2>1. ~ Qwen \/ e.base = Proxy
    BY <1>3
  <2> QED
    BY <1>4, <2>1 DEF Reconciled
<1>11. /\ IsDisk(Rewired(e)) /\ Rewired(e).bak = disk.bak
       /\ Rewired(e).relays = e.relays
  BY <1>3, RewiredIs
<1>12. /\ disk'.file = Rewired(e).file /\ disk'.snap = Rewired(e).snap
       /\ disk'.bak = disk.bak
       /\ Qwen => \A r \in disk'.relays : r.protocol = "chat"
  BY <1>3, <1>10, <1>11, EnsuredIs, EnsuredChat
<1>13. DOMAIN fresh'.urls = {} /\ DOMAIN fresh'.gates = {}
  BY <1>1, NoFreshIs
<1>14. KeysFit(fresh'.urls) /\ KeysFit(fresh'.gates)
  BY <1>13 DEF KeysFit
<1>15. /\ SoundUrls(own', disk'.file, Over(fresh'.urls, disk'.snap.urls),
                    lostUrl')
       /\ SoundGates(own', disk'.file, Over(fresh'.gates, disk'.snap.gates),
                     lostGate')
  <2>1. /\ SameMap(disk'.snap.urls, Over(fresh'.urls, disk'.snap.urls))
        /\ SameMap(disk'.snap.gates, Over(fresh'.gates, disk'.snap.gates))
    BY <1>13, NothingOver
  <2>2. /\ SoundUrls(own', disk'.file, disk'.snap.urls, lostUrl')
        /\ SoundGates(own', disk'.file, disk'.snap.gates, lostGate')
    BY <1>1, <1>9, <1>12
  <2> QED
    BY <2>1, <2>2, SameUrls, SameGates
<1>16. IsFile(own', disk'.bak.file)
  BY <1>1, <1>12 DEF Inv, Lists
<1> QED
  BY <1>1, <1>9, <1>12, <1>14, <1>15, <1>16, InvNext

-----------------------------------------------------------------------------
(* Commands while no start is under way.                                   *)

\* With no start under way only the snapshot counts, after the step
LEMMA RestInv ==
  ASSUME Inv, Shapes', harness' = harness, own' = own,
         service' # "starting", fresh' = NoFresh,
         IsFile(own, disk'.file), IsFile(own, disk'.bak.file),
         KeysFit(disk'.snap.urls), KeysFit(disk'.snap.gates),
         SoundUrls(own, disk'.file, disk'.snap.urls, lostUrl'),
         SoundGates(own, disk'.file, disk'.snap.gates, lostGate'),
         Qwen => \A r \in disk'.relays : r.protocol = "chat"
  PROVE  Inv'
<1>1. DOMAIN fresh'.urls = {} /\ DOMAIN fresh'.gates = {}
  BY NoFreshIs
<1>2. KeysFit(fresh'.urls) /\ KeysFit(fresh'.gates)
  BY <1>1 DEF KeysFit
<1>3. /\ SoundUrls(own', disk'.file, Over(fresh'.urls, disk'.snap.urls),
                   lostUrl')
      /\ SoundGates(own', disk'.file, Over(fresh'.gates, disk'.snap.gates),
                    lostGate')
  <2>1. /\ SameMap(disk'.snap.urls, Over(fresh'.urls, disk'.snap.urls))
        /\ SameMap(disk'.snap.gates, Over(fresh'.gates, disk'.snap.gates))
    BY <1>1, NothingOver
  <2>2. /\ SoundUrls(own', disk'.file, disk'.snap.urls, lostUrl')
        /\ SoundGates(own', disk'.file, disk'.snap.gates, lostGate')
    OBVIOUS
  <2> QED
    BY <2>1, <2>2, SameUrls, SameGates
<1> QED
  BY <1>2, <1>3, InvNext

\* and before it.
LEMMA SnapshotKnown ==
  ASSUME Inv, service # "starting"
  PROVE  /\ Shapes /\ IsDisk(disk) /\ fresh = NoFresh
         /\ IsFile(own, disk.file) /\ IsFile(own, disk.bak.file)
         /\ disk.file \in Seq(Entry)
         /\ KeysFit(disk.snap.urls) /\ KeysFit(disk.snap.gates)
         /\ SoundUrls(own, disk.file, disk.snap.urls, lostUrl)
         /\ SoundGates(own, disk.file, disk.snap.gates, lostGate)
<1>1. Shapes /\ IsDisk(disk) /\ fresh = NoFresh
  BY DEF Inv, Shapes
<1>2. /\ SameMap(KnownUrls, disk.snap.urls)
      /\ SameMap(KnownGates, disk.snap.gates)
  BY <1>1, AtRest
<1> QED
  BY <1>1, <1>2, SameUrls, SameGates
    DEF Inv, UrlsKnown, GatesKnown, Keyed, Lists, IsFile

\* A reconciliation: rewire, take the global address back, or absorb it
\* and forget the entries.
LEMMA ReconcileInv ==
  ASSUME Inv, Shapes', Reconcile
  PROVE  Inv'
<1>1. /\ service = "up" /\ service' = "up" /\ harness' = harness
      /\ own' = own /\ fresh' = fresh
      /\ disk' = Reconciled(disk)
      /\ IF Qwen /\ disk.base \in Urls THEN Lose
         ELSE IF Qwen /\ disk.base # Proxy
              THEN lostUrl' = lostUrl /\ lostGate' = lostGate
         ELSE Learn
  BY DEF Reconcile
<1>0. /\ Shapes /\ IsDisk(disk) /\ fresh = NoFresh
      /\ IsFile(own, disk.file) /\ IsFile(own, disk.bak.file)
      /\ disk.file \in Seq(Entry)
      /\ KeysFit(disk.snap.urls) /\ KeysFit(disk.snap.gates)
      /\ SoundUrls(own, disk.file, disk.snap.urls, lostUrl)
      /\ SoundGates(own, disk.file, disk.snap.gates, lostGate)
  BY <1>1, SnapshotKnown
<1>2. PICK e :
           /\ IsDisk(e)
           /\ Reconciled(disk) = Ensured(e)
           /\ e.bak = disk.bak /\ e.relays = disk.relays
           /\ \/ (~ Qwen \/ disk.base = Proxy) /\ e = Rewired(disk)
              \/ /\ Qwen /\ disk.base # Proxy
                 /\ e.base = Proxy /\ e.file = disk.file
                 /\ IF Reclaimed(disk.base) THEN e.snap = disk.snap
                    ELSE e.snap.urls = Nothing /\ e.snap.gates = Nothing
  BY <1>0, ReconciledIs
<1>3. /\ disk'.file = e.file /\ disk'.snap = e.snap /\ disk'.bak = disk.bak
      /\ Qwen => \A r \in disk'.relays : r.protocol = "chat"
  <2>1. Qwen => \A r \in e.relays : r.protocol = "chat"
    BY <1>2 DEF Inv, Chat
  <2> QED
    BY <1>1, <1>2, <2>1, EnsuredIs, EnsuredChat
<1>4. Proxy \notin Urls
  BY EntriesAssumption
<1>5. disk.base \in Urls \cup Ports \cup {Proxy, NoUrl}
  BY <1>0 DEF IsDisk, Bases
<1>6. CASE (~ Qwen \/ disk.base = Proxy) /\ e = Rewired(disk)
  <2>1. Learn
    BY <1>1, <1>4, <1>6
  <2>2. /\ \A i \in DOMAIN disk.file :
              disk.file[i].id \in lostUrl \ lostUrl' =>
                /\ disk.file[i].url = own[disk.file[i].id].url
                /\ disk.file[i].tag \notin Mixed
        /\ \A i \in DOMAIN disk.file :
              disk.file[i].id \in lostGate \ lostGate' =>
                /\ Closed(disk.file[i])
                /\ disk.file[i].gate = own[disk.file[i].id].gate
    BY <1>0, <2>1, LearnOne
  <2>3. /\ IsFile(own, Rewired(disk).file)
        /\ KeysFit(Rewired(disk).snap.urls)
        /\ KeysFit(Rewired(disk).snap.gates)
        /\ SoundUrls(own, Rewired(disk).file, Rewired(disk).snap.urls,
                     lostUrl')
        /\ SoundGates(own, Rewired(disk).file, Rewired(disk).snap.gates,
                      lostGate')
    <3>1. IsDisk(disk) /\ IsFile(own, disk.file)
      BY <1>0
    <3>2. KeysFit(disk.snap.urls) /\ KeysFit(disk.snap.gates)
      BY <1>0
    <3>3. /\ SoundUrls(own, disk.file, disk.snap.urls, lostUrl)
          /\ SoundGates(own, disk.file, disk.snap.gates, lostGate)
      BY <1>0
    <3>4. \A i \in DOMAIN disk.file :
            disk.file[i].id \in lostUrl \ lostUrl' =>
              /\ disk.file[i].url = own[disk.file[i].id].url
              /\ disk.file[i].tag \notin Mixed
      BY <2>2
    <3>5. \A i \in DOMAIN disk.file :
            disk.file[i].id \in lostGate \ lostGate' =>
              /\ Closed(disk.file[i])
              /\ disk.file[i].gate = own[disk.file[i].id].gate
      BY <2>2
    <3> QED
      BY <3>1, <3>2, <3>3, <3>4, <3>5, RewiredKnown, SMTT(20)
  <2>4. /\ IsFile(own, e.file)
        /\ KeysFit(e.snap.urls) /\ KeysFit(e.snap.gates)
        /\ SoundUrls(own, e.file, e.snap.urls, lostUrl')
        /\ SoundGates(own, e.file, e.snap.gates, lostGate')
    BY <1>6, <2>3
  <2> QED
    BY <1>0, <1>1, <1>3, <2>4, RestInv
<1>7. CASE (Qwen /\ disk.base # Proxy) /\ Reclaimed(disk.base)
  <2>1. e.file = disk.file /\ e.snap = disk.snap
    BY <1>2, <1>7
  <2>2. disk.base \notin Urls
    BY <1>7, EntriesAssumption DEF Reclaimed
  <2>3. lostUrl' = lostUrl /\ lostGate' = lostGate
    BY <1>1, <1>7, <2>2
  <2> QED
    BY <1>0, <1>1, <1>3, <2>1, <2>3, RestInv
<1>8. CASE (Qwen /\ disk.base # Proxy) /\ ~ Reclaimed(disk.base)
  <2>1. e.file = disk.file
        /\ DOMAIN e.snap.urls = {} /\ DOMAIN e.snap.gates = {}
    BY <1>2, <1>8, NothingHas
  <2>2. disk.base \in Urls
    BY <1>5, <1>8 DEF Reclaimed
  <2>3. Lose
    BY <1>1, <1>8, <2>2
  <2>4. SoundUrls(own, disk.file, e.snap.urls, lostUrl')
    <3>1. \A i \in DOMAIN disk.file :
            disk.file[i].url # own[disk.file[i].id].url =>
              disk.file[i].id \in lostUrl'
      BY <1>0, <2>3
         DEF Lose, At, IsTaken, SoundUrls, SoundUrl, AddressKnown
    <3> QED
      BY <1>0, <2>1, <3>1, BlankSound
  <2>5. SoundGates(own, disk.file, e.snap.gates, lostGate')
    <3>1. \A i \in DOMAIN disk.file :
            disk.file[i].gate # own[disk.file[i].id].gate =>
              disk.file[i].id \in lostGate'
      BY <2>3 DEF Lose, At, IsForced
    <3> QED
      BY <2>1, <3>1, BlankGates
  <2>6. KeysFit(e.snap.urls) /\ KeysFit(e.snap.gates)
    BY <2>1 DEF KeysFit
  <2> QED
    BY <1>0, <1>1, <1>3, <2>1, <2>4, <2>5, <2>6, RestInv
<1> QED
  BY <1>2, <1>6, <1>7, <1>8

\* A start that dies leaves the entries taken over and the snapshot as it
\* was.
LEMMA CrashInv ==
  ASSUME Inv, Shapes', Crash
  PROVE  Inv'
<1>1. /\ service' = "down" /\ harness' = harness /\ disk' = disk
      /\ own' = own /\ fresh' = NoFresh
      /\ IF service = "starting" THEN Lose
         ELSE lostUrl' = lostUrl /\ lostGate' = lostGate
  BY DEF Crash
<1>2. CASE service # "starting"
  BY <1>1, <1>2, SnapshotKnown, RestInv DEF Inv, Chat
<1>3. CASE service = "starting"
  <2>0. /\ IsFile(own, disk.file) /\ IsFile(own, disk.bak.file)
        /\ KeysFit(disk.snap.urls) /\ KeysFit(disk.snap.gates)
        /\ SoundUrls(own, disk.file, KnownUrls, lostUrl)
        /\ SoundGates(own, disk.file, KnownGates, lostGate)
        /\ Opened(own, disk.file, fresh.gates, lostGate)
        /\ \A i \in DOMAIN disk.file :
             disk.file[i].id \notin lostUrl /\ disk.file[i].tag \in Mixed =>
               disk.file[i].url = Proxy
    BY <1>3 DEF Inv, Lists, Keyed, UrlsKnown, GatesKnown, MixedTaken,
                JustOpened
  <2>1. /\ lostUrl' = lostUrl \cup At(disk, IsTaken)
        /\ lostGate' = lostGate \cup At(disk, IsForced)
    BY <1>1, <1>3 DEF Lose
  <2>2. ASSUME NEW i \in DOMAIN disk.file, disk.file[i].id \notin lostUrl'
        PROVE  SoundUrl(own, disk.file, disk.snap.urls, i)
    <3>1. disk.file[i].id \notin lostUrl /\ disk.file[i].url # Proxy
      BY <2>1, <2>2 DEF At, IsTaken
    <3>2. disk.file[i].tag \notin Mixed
      BY <2>0, <3>1
    <3>3. disk.file[i].url = own[disk.file[i].id].url
      BY <2>0, <3>1 DEF SoundUrls, SoundUrl, AddressKnown
    <3> QED
      BY <3>1, <3>2, <3>3 DEF SoundUrl, AddressKnown
  <2>3. SoundUrls(own, disk.file, disk.snap.urls, lostUrl')
    BY <2>2 DEF SoundUrls
  <2>4. ASSUME NEW i \in DOMAIN disk.file, disk.file[i].id \notin lostGate',
               disk.file[i].tag \notin Mixed
        PROVE  GateKnown(own, disk.file, disk.snap.gates, i)
    <3>1. /\ disk.file[i].id \notin lostGate
          /\ disk.file[i].gate = own[disk.file[i].id].gate
      BY <2>1, <2>4 DEF At, IsForced
    <3>2. GateKnown(own, disk.file, KnownGates, i)
      BY <2>0, <2>4, <3>1 DEF SoundGates
    <3>3. Key(disk.file, i) \notin DOMAIN fresh.gates
      BY <2>0, <2>4, <3>1 DEF Opened
    <3>4. Key(disk.file, i) \in DOMAIN disk.snap.gates =>
            /\ Key(disk.file, i) \in DOMAIN KnownGates
            /\ KnownGates[Key(disk.file, i)]
                 = disk.snap.gates[Key(disk.file, i)]
      BY <3>3 DEF KnownGates, Over
    <3> QED
      BY <3>1, <3>2, <3>4 DEF GateKnown
  <2>5. SoundGates(own, disk.file, disk.snap.gates, lostGate')
    BY <2>4 DEF SoundGates
  <2>6. Qwen => \A r \in disk'.relays : r.protocol = "chat"
    BY <1>1 DEF Inv, Chat
  <2> QED
    BY <1>1, <2>0, <2>3, <2>5, <2>6, RestInv
<1> QED
  BY <1>2, <1>3

\* What a restore leaves.
LEMMA BackFromSnapshot ==
  ASSUME Inv, service # "starting"
  PROVE  LET f == RestoredEntries(disk.file, disk.snap) IN
         /\ IsFile(own, f)
         /\ SoundUrls(own, f, disk.snap.urls, lostUrl)
         /\ SoundGates(own, f, disk.snap.gates, lostGate)
         /\ \A i \in DOMAIN disk.file :
              LET e == disk.file[i] IN
              /\ e.id \notin lostUrl => f[i].url = own[e.id].url
              /\ /\ IsTaken(e) /\ e.id \notin lostUrl \cup lostGate
                 /\ e.tag \notin Mixed
                 => f[i].gate = own[e.id].gate
<1>0. /\ IsDisk(disk)
      /\ IsFile(own, disk.file) /\ disk.file \in Seq(Entry)
      /\ KeysFit(disk.snap.urls) /\ KeysFit(disk.snap.gates)
      /\ SoundUrls(own, disk.file, disk.snap.urls, lostUrl)
      /\ SoundGates(own, disk.file, disk.snap.gates, lostGate)
  BY SnapshotKnown
<1> DEFINE f == RestoredEntries(disk.file, disk.snap)
<1>1. /\ f \in Seq(Entry) /\ DOMAIN f = DOMAIN disk.file
      /\ \A i \in DOMAIN disk.file :
           f[i].id = disk.file[i].id /\ f[i].tag = disk.file[i].tag
  BY <1>0, RestoredEntriesIs
<1>2. IsFile(own, f)
  <2> HIDE DEF f
  <2> QED
    BY <1>0, <1>1 DEF IsFile
<1>3. /\ SoundUrls(own, f, disk.snap.urls, lostUrl)
      /\ \A i \in DOMAIN disk.file : disk.file[i].id \notin lostUrl =>
              f[i].url = own[disk.file[i].id].url
  BY <1>0, RestoreSound
<1>4. /\ SoundGates(own, f, disk.snap.gates, lostGate)
      /\ \A i \in DOMAIN disk.file :
              LET e == disk.file[i] IN
              /\ IsTaken(e) /\ e.id \notin lostGate /\ e.tag \notin Mixed
              /\ AddressKnown(own, disk.file, disk.snap.urls, i)
              => f[i].gate = own[e.id].gate
  <2>1. IsDisk(disk)
    BY <1>0
  <2>2. KeysFit(disk.snap.urls) /\ KeysFit(disk.snap.gates)
    BY <1>0
  <2>3. SoundGates(own, disk.file, disk.snap.gates, lostGate)
    BY <1>0
  <2> QED
    BY <2>1, <2>2, <2>3, RestoreGates
<1>5. \A i \in DOMAIN disk.file : disk.file[i].id \notin lostUrl =>
        AddressKnown(own, disk.file, disk.snap.urls, i)
  BY <1>0 DEF SoundUrls, SoundUrl
<1> HIDE DEF f
<1>6. \A i \in DOMAIN disk.file :
              LET e == disk.file[i] IN
              /\ e.id \notin lostUrl => f[i].url = own[e.id].url
              /\ /\ IsTaken(e) /\ e.id \notin lostUrl \cup lostGate
                 /\ e.tag \notin Mixed
                 => f[i].gate = own[e.id].gate
  BY <1>3, <1>4, <1>5
<1> QED
  BY <1>2, <1>3, <1>4, <1>6 DEF f

-----------------------------------------------------------------------------
(* Giving back.                                                            *)

\* Whatever a stop makes of the disk, it leaves what is known.
LEMMA GiveBackInv ==
  ASSUME Inv, Shapes', harness' = harness, own' = own,
         service # "starting", service' # "starting", fresh' = fresh,
         Overwrite,
         NEW d, d = disk \/ d = Restored(disk),
         disk'.file = d.file, disk'.snap = d.snap, disk'.bak = d.bak,
         disk'.relays \subseteq disk.relays
  PROVE  Inv'
<1>0. /\ Shapes /\ IsDisk(disk) /\ fresh = NoFresh
      /\ IsFile(own, disk.file) /\ IsFile(own, disk.bak.file)
      /\ disk.file \in Seq(Entry)
      /\ KeysFit(disk.snap.urls) /\ KeysFit(disk.snap.gates)
      /\ SoundUrls(own, disk.file, disk.snap.urls, lostUrl)
      /\ SoundGates(own, disk.file, disk.snap.gates, lostGate)
  BY SnapshotKnown
<1>1. IsFile(own, NoBak.file)
  <2>1. NoBak.file \in Seq(Entry) /\ DOMAIN NoBak.file = {}
    BY DEF NoBak
  <2> QED
    BY <2>1 DEF IsFile
<1>2. /\ disk'.snap = disk.snap
      /\ disk'.bak.file = disk.bak.file \/ disk'.bak.file = NoBak.file
      /\ \/ disk'.file = disk.file
         \/ /\ disk.snap.held
            /\ disk'.file = RestoredEntries(disk.file, disk.snap)
         \/ ~ disk.snap.held /\ disk'.file = disk.bak.file
  <2>1. CASE d = disk
    BY <2>1
  <2>2. CASE d = Restored(disk)
    <3>1. \/ Restored(disk) = disk
          \/ Restored(disk) = FromSnapshot(disk) /\ disk.snap.held
          \/ Restored(disk) = FromBackup(disk) /\ ~ disk.snap.held
      BY <1>0, RestoredIs
    <3>2. /\ FromSnapshot(disk).file = RestoredEntries(disk.file, disk.snap)
          /\ FromSnapshot(disk).snap = disk.snap
          /\ FromSnapshot(disk).bak = NoBak
      BY <1>0, FromSnapshotIs
    <3>3. /\ FromBackup(disk).file = disk.bak.file
          /\ FromBackup(disk).snap = disk.snap
          /\ FromBackup(disk).bak = NoBak
      BY <1>0, FromBackupIs
    <3> QED
      BY <2>2, <3>1, <3>2, <3>3
  <2> QED
    BY <2>1, <2>2
<1>3. IsFile(own, disk'.bak.file)
  BY <1>0, <1>1, <1>2
<1>4. KeysFit(disk'.snap.urls) /\ KeysFit(disk'.snap.gates)
  BY <1>0, <1>2
<1>5. Qwen => \A r \in disk'.relays : r.protocol = "chat"
  BY DEF Inv, Chat
<1>6. /\ IsFile(own, disk'.file)
      /\ SoundUrls(own, disk'.file, disk'.snap.urls, lostUrl')
      /\ SoundGates(own, disk'.file, disk'.snap.gates, lostGate')
  <2>1. CASE disk.snap.held
    <3>1. lostUrl' = lostUrl /\ lostGate' = lostGate
      BY <2>1 DEF Overwrite
    <3>2. CASE disk'.file = disk.file
      BY <1>0, <1>2, <3>1, <3>2
    <3>3. CASE disk'.file = RestoredEntries(disk.file, disk.snap)
      BY <1>2, <3>1, <3>3, BackFromSnapshot
    <3> QED
      BY <1>2, <2>1, <3>2, <3>3
  <2>2. CASE ~ disk.snap.held
    <3>1. IsFile(own, disk'.file)
      BY <1>0, <1>2, <2>2
    <3>2. DOMAIN disk'.snap.urls = {} /\ DOMAIN disk'.snap.gates = {}
      BY <1>0, <1>2, <2>2, NothingHas DEF IsDisk, IsSnap
    <3>3. /\ lostUrl' = lostUrl \cup
               At(disk', LAMBDA e : e.url # own[e.id].url)
          /\ lostGate' = lostGate \cup At(disk', IsForced)
      BY <2>2 DEF Overwrite
    <3>4. \A i \in DOMAIN disk'.file :
            disk'.file[i].url # own[disk'.file[i].id].url =>
              disk'.file[i].id \in lostUrl'
      BY <3>3 DEF At
    <3>5. \A i \in DOMAIN disk'.file :
            disk'.file[i].gate # own[disk'.file[i].id].gate =>
              disk'.file[i].id \in lostGate'
      BY <3>3 DEF At, IsForced
    <3>6. SoundUrls(own, disk'.file, disk'.snap.urls, lostUrl')
      BY <3>1, <3>2, <3>4, BlankSound
    <3>7. SoundGates(own, disk'.file, disk'.snap.gates, lostGate')
      BY <3>2, <3>5, BlankGates
    <3> QED
      BY <3>1, <3>6, <3>7
  <2> QED
    BY <2>1, <2>2
<1>7. fresh' = NoFresh
  BY <1>0
<1> QED
  BY <1>3, <1>4, <1>5, <1>6, <1>7, RestInv

\* So a stop, an unchecking and a restore from the snapshot do.
LEMMA StopInv ==
  ASSUME Inv, Shapes', Stop
  PROVE  Inv'
<1>1. /\ service = "up" /\ service' = "down" /\ harness' = harness
      /\ own' = own /\ fresh' = fresh /\ Overwrite
  BY DEF Stop
<1>2. PICK d \in {disk, Restored(disk)} :
        /\ disk'.file = d.file /\ disk'.snap = d.snap
        /\ disk'.bak = d.bak
  BY CommandDisk DEF Inv
<1>3. disk'.relays = {}
  BY CommandDisk DEF Inv
<1> QED
  BY <1>1, <1>2, <1>3, GiveBackInv

LEMMA UncheckInv ==
  ASSUME Inv, Shapes', Uncheck
  PROVE  Inv'
<1>1. /\ service # "starting" /\ service' = service /\ harness' = harness
      /\ own' = own /\ fresh' = fresh /\ Overwrite
  BY DEF Uncheck
<1>2. /\ disk'.file = Restored(disk).file
      /\ disk'.snap = Restored(disk).snap
      /\ disk'.bak = Restored(disk).bak
      /\ disk'.relays \subseteq disk.relays
  BY CommandDisk DEF Inv
<1> QED
  BY <1>1, <1>2, GiveBackInv

LEMMA RestoreInv ==
  ASSUME Inv, Shapes', RestoreBySnapshot
  PROVE  Inv'
<1>1. /\ service = "down" /\ service' = service /\ harness' = harness
      /\ own' = own /\ fresh' = fresh /\ disk' = FromSnapshot(disk)
      /\ lostUrl' = lostUrl /\ lostGate' = lostGate
  BY DEF RestoreBySnapshot, ghosts
<1>0. /\ IsDisk(disk) /\ fresh = NoFresh
      /\ KeysFit(disk.snap.urls) /\ KeysFit(disk.snap.gates)
  BY <1>1, SnapshotKnown
<1>2. /\ disk'.file = RestoredEntries(disk.file, disk.snap)
      /\ disk'.snap = disk.snap /\ disk'.relays = disk.relays
      /\ disk'.bak = NoBak
  BY <1>0, <1>1, FromSnapshotIs
<1>3. IsFile(own, disk'.bak.file)
  <2>1. disk'.bak.file \in Seq(Entry) /\ DOMAIN disk'.bak.file = {}
    BY <1>2 DEF NoBak
  <2> QED
    BY <2>1 DEF IsFile
<1>4. /\ IsFile(own, disk'.file)
      /\ SoundUrls(own, disk'.file, disk'.snap.urls, lostUrl')
      /\ SoundGates(own, disk'.file, disk'.snap.gates, lostGate')
  BY <1>1, <1>2, BackFromSnapshot
<1>5. Qwen => \A r \in disk'.relays : r.protocol = "chat"
  BY <1>2 DEF Inv, Chat
<1> QED
  BY <1>0, <1>1, <1>2, <1>3, <1>4, <1>5, RestInv

-----------------------------------------------------------------------------
(* Edits.                                                                  *)

\* What an edit has to show, entry by entry.
LEMMA EditInv ==
  ASSUME Inv, Shapes', harness' = harness, service' = service,
         fresh' = fresh, disk'.snap = disk.snap, disk'.bak = disk.bak,
         disk'.relays = disk.relays,
         IsFile(own', disk'.file),
         \A id \in Ids : own[id].url # Proxy => own'[id].url # Proxy,
         \A j \in DOMAIN disk'.file :
           disk'.file[j].id \notin lostUrl' =>
             /\ SoundUrl(own', disk'.file, KnownUrls, j)
             /\ service = "starting" /\ disk'.file[j].tag \in Mixed =>
                  disk'.file[j].url = Proxy,
         \A j \in DOMAIN disk'.file :
           /\ disk'.file[j].id \notin lostGate'
           /\ disk'.file[j].tag \notin Mixed
           =>
             /\ GateKnown(own', disk'.file, KnownGates, j)
             /\ /\ service = "starting"
                /\ Key(disk'.file, j) \in DOMAIN fresh.gates
                => /\ disk'.file[j].gate = "open"
                   /\ own'[disk'.file[j].id].gate # "open"
  PROVE  Inv'
<1>1. IsFile(own', disk'.bak.file)
  <2>1. IsFile(own, disk.bak.file)
    BY DEF Inv, Lists
  <2>2. \A i \in DOMAIN disk.bak.file : disk.bak.file[i].id \in Ids
    BY <2>1, EntryIs DEF IsFile
  <2> QED
    BY <2>1, <2>2 DEF IsFile
<1>2. /\ KeysFit(fresh'.urls) /\ KeysFit(fresh'.gates)
      /\ KeysFit(disk'.snap.urls) /\ KeysFit(disk'.snap.gates)
  BY DEF Inv, Keyed
<1>3. /\ KnownUrls = Over(fresh'.urls, disk'.snap.urls)
      /\ KnownGates = Over(fresh'.gates, disk'.snap.gates)
  BY DEF KnownUrls, KnownGates
<1>4. SoundUrls(own', disk'.file, Over(fresh'.urls, disk'.snap.urls), lostUrl')
  BY <1>3 DEF SoundUrls
<1>5. SoundGates(own', disk'.file, Over(fresh'.gates, disk'.snap.gates),
                 lostGate')
  BY <1>3 DEF SoundGates
<1>6. service' = "starting" =>
           /\ \A i \in DOMAIN disk'.file :
                /\ disk'.file[i].id \notin lostUrl'
                /\ disk'.file[i].tag \in Mixed
                => disk'.file[i].url = Proxy
           /\ Opened(own', disk'.file, fresh'.gates, lostGate')
  BY DEF Opened
<1>7. Qwen => \A r \in disk'.relays : r.protocol = "chat"
  BY DEF Inv, Chat
<1> QED
  BY <1>1, <1>2, <1>4, <1>5, <1>6, <1>7, InvNext

\* Whoever shares a mixed envKey is in its group.
LEMMA GroupIs ==
  ASSUME NEW j \in DOMAIN disk.file, NEW e,
         disk.file[j].tag = e.tag, e.tag \in Mixed
  PROVE  disk.file[j].id \in Group(e)
BY DEF Group, At

\* What the edits need of the invariant.
LEMMA InvFacts ==
  ASSUME Inv
  PROVE  /\ Shapes /\ IsFile(own, disk.file) /\ disk.file \in Seq(Entry)
         /\ own \in [Ids -> Entry]
         /\ KeysFit(KnownUrls)
         /\ DOMAIN fresh.gates \subseteq DOMAIN KnownGates
         /\ ~ Recording => DOMAIN KnownGates = {}
<1>1. Shapes /\ IsFile(own, disk.file) /\ disk.file \in Seq(Entry)
      /\ own \in [Ids -> Entry] /\ IsSnap(disk.snap)
  BY DEF Inv, Lists, Shapes, IsDisk
<1>2. KeysFit(KnownUrls)
  BY DEF Inv, Keyed, KeysFit, KnownUrls, Over
<1>3. DOMAIN fresh.gates \subseteq DOMAIN KnownGates
  BY DEF KnownGates, Over
<1>4. ASSUME ~ Recording PROVE DOMAIN KnownGates = {}
  <2>1. service # "starting" /\ ~ disk.snap.held
    BY <1>4 DEF Recording
  <2>2. DOMAIN fresh.gates = {} /\ DOMAIN disk.snap.gates = {}
    BY <1>1, <2>1, AtRest, NothingHas DEF IsSnap
  <2> QED
    BY <2>2 DEF KnownGates, Over
<1> QED
  BY <1>1, <1>2, <1>3, <1>4

\* An entry that only moved, if at all: its address
LEMMA UrlStays ==
  ASSUME Inv, NEW i \in DOMAIN disk.file, disk.file[i].id \notin lostUrl,
         NEW o2, NEW file2 \in Seq(Entry), NEW j \in DOMAIN file2,
         file2[j].id = disk.file[i].id, file2[j].tag = disk.file[i].tag,
         file2[j].url = disk.file[i].url,
         o2[disk.file[i].id].url = own[disk.file[i].id].url,
         Qwen /\ disk.file[i].tag = NoEnv /\ disk.file[i].url = Proxy => i = j,
         disk.file[i].tag \in Mixed =>
           FirstStays(disk.file, file2, disk.file[i].tag)
  PROVE  /\ SoundUrl(o2, file2, KnownUrls, j)
         /\ service = "starting" /\ file2[j].tag \in Mixed =>
              file2[j].url = Proxy
<1>1. SoundUrl(own, disk.file, KnownUrls, i)
  BY DEF Inv, UrlsKnown, SoundUrls
<1>2. disk.file \in Seq(Entry) /\ KeysFit(KnownUrls)
  BY InvFacts
<1>3. SoundUrl(o2, file2, KnownUrls, j)
  <2>1. disk.file \in Seq(Entry)
    BY <1>2
  <2>2. KeysFit(KnownUrls)
    BY <1>2
  <2> QED
    BY <1>1, <2>1, <2>2, EntrySound
<1>4. service = "starting" /\ disk.file[i].tag \in Mixed =>
        disk.file[i].url = Proxy
  BY DEF Inv, MixedTaken
<1> QED
  BY <1>3, <1>4

\* and its gate.
LEMMA GateStays ==
  ASSUME Inv, NEW i \in DOMAIN disk.file, disk.file[i].id \notin lostGate,
         disk.file[i].tag \notin Mixed,
         NEW o2, NEW file2, NEW j \in DOMAIN file2,
         file2[j].id = disk.file[i].id, file2[j].gate = disk.file[i].gate,
         o2[disk.file[i].id].gate = own[disk.file[i].id].gate,
         DOMAIN KnownGates = {} \/ Key(file2, j) = Key(disk.file, i)
  PROVE  /\ GateKnown(o2, file2, KnownGates, j)
         /\ service = "starting" /\ Key(file2, j) \in DOMAIN fresh.gates
            => file2[j].gate = "open" /\ o2[file2[j].id].gate # "open"
<1>1. GateKnown(own, disk.file, KnownGates, i)
  BY DEF Inv, GatesKnown, SoundGates
<1>2. DOMAIN fresh.gates \subseteq DOMAIN KnownGates
  BY InvFacts
<1>3. GateKnown(o2, file2, KnownGates, j)
  BY <1>1, EntryGate
<1>4. service = "starting" /\ Key(disk.file, i) \in DOMAIN fresh.gates
            => disk.file[i].gate = "open" /\ own[disk.file[i].id].gate # "open"
  BY DEF Inv, JustOpened, Opened
<1> QED
  BY <1>2, <1>3, <1>4

\* The user sets an address,
LEMMA SetUrlInv ==
  ASSUME Inv, Shapes', NEW i \in DOMAIN disk.file, NEW url \in Addresses,
         SetUrl(i, url)
  PROVE  Inv'
<1> DEFINE e == disk.file[i]
<1>0. /\ Shapes /\ IsFile(own, disk.file) /\ disk.file \in Seq(Entry)
      /\ own \in [Ids -> Entry]
  BY InvFacts
<1>1. /\ disk'.snap = disk.snap /\ disk'.bak = disk.bak
      /\ disk'.relays = disk.relays
      /\ harness' = harness /\ service' = service /\ fresh' = fresh
      /\ lostGate' = lostGate
      /\ DOMAIN disk'.file = DOMAIN disk.file
      /\ \A j \in DOMAIN disk.file \ {i} : disk'.file[j] = disk.file[j]
      /\ disk'.file[i].id = e.id /\ disk'.file[i].tag = e.tag
      /\ disk'.file[i].url = url /\ disk'.file[i].gate = e.gate
      /\ lostUrl' = lostUrl \cup Group(e)
      /\ own' = [own EXCEPT ![e.id].url = url]
  BY <1>0, UrlSet
<1>2. disk'.file \in Seq(Entry)
  BY <1>0, UrlSet DEF IsDisk
<1>3. e.id \in Ids /\ \A j \in DOMAIN disk.file : disk.file[j].id \in Ids
  BY <1>0, EntryIs
<1>4. /\ own'[e.id].url = url /\ own'[e.id].gate = own[e.id].gate
      /\ \A id \in Ids \ {e.id} : own'[id] = own[id]
  BY <1>0, <1>1, <1>3 DEF Entry
<1>5. \A j \in DOMAIN disk.file \ {i} : disk.file[j].id # e.id
  BY <1>0 DEF IsFile
<1>6. url # Proxy
  BY NamesDiffer
<1>7. \A id \in Ids : own[id].url # Proxy => own'[id].url # Proxy
  BY <1>4, <1>6
<1> HIDE DEF e
<1>8. IsFile(own', disk'.file)
  <2>1. \A j \in DOMAIN disk.file : own'[disk.file[j].id].url # Proxy
    BY <1>0, <1>3, <1>7 DEF IsFile
  <2>2. \A j \in DOMAIN disk.file :
          disk'.file[j].id = disk.file[j].id
          /\ disk'.file[j].tag = disk.file[j].tag
    BY <1>1 DEF e
  <2> QED
    BY <1>0, <1>1, <1>2, <2>1, <2>2 DEF IsFile
<1>9. ASSUME NEW j \in DOMAIN disk'.file, disk'.file[j].id \notin lostUrl'
      PROVE  /\ SoundUrl(own', disk'.file, KnownUrls, j)
             /\ service = "starting" /\ disk'.file[j].tag \in Mixed =>
                  disk'.file[j].url = Proxy
  <2>1. CASE j = i
    <3>1. e.tag \notin Mixed
      BY <1>1, <1>9, <2>1, GroupIs DEF e
    <3>2. AddressKnown(own', disk'.file, KnownUrls, j)
      BY <1>1, <1>4, <1>6, <2>1 DEF AddressKnown
    <3> QED
      BY <1>1, <2>1, <3>1, <3>2 DEF SoundUrl
  <2>2. CASE j # i
    <3>1. /\ j \in DOMAIN disk.file /\ disk'.file[j] = disk.file[j]
          /\ disk.file[j].id \notin lostUrl
          /\ own'[disk.file[j].id].url = own[disk.file[j].id].url
      BY <1>1, <1>3, <1>4, <1>5, <1>9, <2>2
    <3>2. disk.file[j].tag \in Mixed => disk.file[j].tag # e.tag
      BY <1>1, <1>9, <3>1, GroupIs
    <3>3. ASSUME disk.file[j].tag \in Mixed,
                 NEW g \in DOMAIN disk'.file,
                 IsFirst(disk'.file, disk.file[j].tag, g)
          PROVE  \E f \in DOMAIN disk.file :
                   /\ IsFirst(disk.file, disk.file[j].tag, f)
                   /\ disk.file[f].id = disk'.file[g].id
                   /\ disk.file[f].tag = disk'.file[g].tag
                   /\ disk.file[f].url = disk'.file[g].url
      <4>1. g # i
        BY <1>1, <3>2, <3>3 DEF IsFirst
      <4>2. IsFirst(disk.file, disk.file[j].tag, g)
        BY <1>1, <3>3, <4>1 DEF IsFirst, e
      <4> QED
        BY <1>1, <4>1, <4>2
    <3>4. disk.file[j].tag \in Mixed =>
            FirstStays(disk.file, disk'.file, disk.file[j].tag)
      BY <3>3 DEF FirstStays
    <3> QED
      BY <1>2, <3>1, <3>4, UrlStays
  <2> QED
    BY <2>1, <2>2
<1>10. ASSUME NEW j \in DOMAIN disk'.file, disk'.file[j].id \notin lostGate',
              disk'.file[j].tag \notin Mixed
       PROVE  /\ GateKnown(own', disk'.file, KnownGates, j)
              /\ /\ service = "starting"
                 /\ Key(disk'.file, j) \in DOMAIN fresh.gates
                 => /\ disk'.file[j].gate = "open"
                    /\ own'[disk'.file[j].id].gate # "open"
  <2>1. /\ j \in DOMAIN disk.file /\ disk.file[j].id \notin lostGate
        /\ disk'.file[j].id = disk.file[j].id
        /\ disk'.file[j].tag = disk.file[j].tag
        /\ disk'.file[j].gate = disk.file[j].gate
    BY <1>1, <1>10 DEF e
  <2>2. own'[disk.file[j].id].gate = own[disk.file[j].id].gate
    BY <1>3, <1>4, <2>1
  <2>3. Key(disk'.file, j) = Key(disk.file, j)
    BY <2>1 DEF Key, Own, Spot, Shared
  <2> QED
    BY <1>10, <2>1, <2>2, <2>3, GateStays
<1> QED
  BY <1>1, <1>7, <1>8, <1>9, <1>10, EditInv

\* a gate,
LEMMA SetGateInv ==
  ASSUME Inv, Shapes', NEW i \in DOMAIN disk.file, NEW gate \in Gates,
         SetGate(i, gate)
  PROVE  Inv'
<1> DEFINE e == disk.file[i]
<1>0. /\ Shapes /\ IsFile(own, disk.file) /\ disk.file \in Seq(Entry)
      /\ own \in [Ids -> Entry]
      /\ ~ Recording => DOMAIN KnownGates = {}
      /\ DOMAIN fresh.gates \subseteq DOMAIN KnownGates
  BY InvFacts
<1>1. /\ disk'.snap = disk.snap /\ disk'.bak = disk.bak
      /\ disk'.relays = disk.relays
      /\ harness' = harness /\ service' = service /\ fresh' = fresh
      /\ lostUrl' = lostUrl
      /\ DOMAIN disk'.file = DOMAIN disk.file
      /\ \A j \in DOMAIN disk.file \ {i} : disk'.file[j] = disk.file[j]
      /\ disk'.file[i].id = e.id /\ disk'.file[i].tag = e.tag
      /\ disk'.file[i].url = e.url /\ disk'.file[i].gate = gate
      /\ own' = [own EXCEPT ![e.id].gate = gate]
      /\ lostGate' = IF Recording THEN lostGate \cup {e.id} ELSE lostGate
  BY <1>0, GateSet
<1>2. disk'.file \in Seq(Entry)
  BY <1>0, GateSet DEF IsDisk
<1>3. e.id \in Ids /\ \A j \in DOMAIN disk.file : disk.file[j].id \in Ids
  BY <1>0, EntryIs
<1>4. /\ own'[e.id].gate = gate
      /\ \A id \in Ids : own'[id].url = own[id].url
      /\ \A id \in Ids \ {e.id} : own'[id] = own[id]
  <2> DEFINE new == [own[e.id] EXCEPT !.gate = gate]
  <2>1. own' = [own EXCEPT ![e.id] = new]
    BY <1>1
  <2>2. new.gate = gate /\ new.url = own[e.id].url
    BY <1>0, <1>3 DEF Entry
  <2> HIDE DEF new
  <2>3. own'[e.id] = new /\ \A id \in Ids \ {e.id} : own'[id] = own[id]
    BY <1>0, <1>3, <2>1
  <2> QED
    BY <2>2, <2>3
<1>5. \A j \in DOMAIN disk.file \ {i} : disk.file[j].id # e.id
  BY <1>0 DEF IsFile
<1> HIDE DEF e
<1>6. \A j \in DOMAIN disk.file :
        /\ disk'.file[j].id = disk.file[j].id
        /\ disk'.file[j].tag = disk.file[j].tag
        /\ disk'.file[j].url = disk.file[j].url
  BY <1>1 DEF e
<1>8. IsFile(own', disk'.file)
  <2>1. \A j \in DOMAIN disk.file : own'[disk.file[j].id].url # Proxy
    BY <1>0, <1>3, <1>4 DEF IsFile
  <2>2. DOMAIN disk'.file = DOMAIN disk.file
    BY <1>1
  <2>3. \A j, k \in DOMAIN disk'.file :
          disk'.file[j].id = disk'.file[k].id => j = k
    BY <1>0, <1>6, <2>2 DEF IsFile
  <2>4. \A j \in DOMAIN disk'.file : own'[disk'.file[j].id].url # Proxy
    BY <1>6, <2>1, <2>2
  <2>5. Qwen => \A j \in DOMAIN disk'.file :
          disk'.file[j].tag \in Tags \ Mixed =>
            /\ \A k \in DOMAIN disk'.file :
                 disk'.file[j].tag = disk'.file[k].tag => j = k
            /\ \A new \in News[harness] :
                 disk'.file[j].tag = new.tag => disk'.file[j].id = new.id
    BY <1>0, <1>6, <2>2 DEF IsFile
  <2> QED
    BY <1>2, <2>3, <2>4, <2>5 DEF IsFile
<1>9. ASSUME NEW j \in DOMAIN disk'.file, disk'.file[j].id \notin lostUrl'
      PROVE  /\ SoundUrl(own', disk'.file, KnownUrls, j)
             /\ service = "starting" /\ disk'.file[j].tag \in Mixed =>
                  disk'.file[j].url = Proxy
  <2>1. /\ j \in DOMAIN disk.file
        /\ disk'.file[j].id = disk.file[j].id
        /\ disk'.file[j].tag = disk.file[j].tag
        /\ disk'.file[j].url = disk.file[j].url
        /\ disk.file[j].id \notin lostUrl
        /\ own'[disk.file[j].id].url = own[disk.file[j].id].url
    <3>1. j \in DOMAIN disk.file
      BY <1>1
    <3> QED
      BY <1>1, <1>3, <1>4, <1>6, <1>9, <3>1
  <2>2. ASSUME NEW g \in DOMAIN disk'.file,
               IsFirst(disk'.file, disk.file[j].tag, g)
        PROVE  \E f \in DOMAIN disk.file :
                 /\ IsFirst(disk.file, disk.file[j].tag, f)
                 /\ disk.file[f].id = disk'.file[g].id
                 /\ disk.file[f].tag = disk'.file[g].tag
                 /\ disk.file[f].url = disk'.file[g].url
    <3>1. IsFirst(disk.file, disk.file[j].tag, g)
      BY <1>1, <1>6, <2>2 DEF IsFirst
    <3> QED
      BY <1>1, <1>6, <3>1
  <2>3. FirstStays(disk.file, disk'.file, disk.file[j].tag)
    BY <2>2 DEF FirstStays
  <2> QED
    BY <1>2, <2>1, <2>3, UrlStays
<1>10. ASSUME NEW j \in DOMAIN disk'.file, disk'.file[j].id \notin lostGate',
              disk'.file[j].tag \notin Mixed
       PROVE  /\ GateKnown(own', disk'.file, KnownGates, j)
              /\ /\ service = "starting"
                 /\ Key(disk'.file, j) \in DOMAIN fresh.gates
                 => /\ disk'.file[j].gate = "open"
                    /\ own'[disk'.file[j].id].gate # "open"
  <2>1. CASE j = i
    <3>1. DOMAIN KnownGates = {} /\ DOMAIN fresh.gates = {}
      BY <1>0, <1>1, <1>10, <2>1
    <3>2. disk'.file[j].gate = own'[disk'.file[j].id].gate
      BY <1>1, <1>4, <2>1
    <3> QED
      BY <3>1, <3>2 DEF GateKnown
  <2>2. CASE j # i
    <3>1. /\ j \in DOMAIN disk.file /\ disk'.file[j] = disk.file[j]
          /\ disk.file[j].id \notin lostGate
          /\ own'[disk.file[j].id].gate = own[disk.file[j].id].gate
      BY <1>1, <1>3, <1>4, <1>5, <1>10, <2>2
    <3>2. Key(disk'.file, j) = Key(disk.file, j)
      BY <3>1 DEF Key
    <3> QED
      BY <1>10, <3>1, <3>2, GateStays
  <2> QED
    BY <2>1, <2>2
<1>11. \A id \in Ids : own[id].url # Proxy => own'[id].url # Proxy
  BY <1>4
<1> QED
  BY <1>1, <1>8, <1>9, <1>10, <1>11, EditInv

-----------------------------------------------------------------------------

\* a kind,
LEMMA SetKindInv ==
  ASSUME Inv, Shapes', NEW i \in DOMAIN disk.file, NEW kind \in Tags,
         SetKind(i, kind)
  PROVE  Inv'
<1> DEFINE e == disk.file[i]
<1>0. /\ Shapes /\ IsFile(own, disk.file) /\ disk.file \in Seq(Entry)
      /\ own \in [Ids -> Entry]
      /\ ~ Recording => DOMAIN KnownGates = {}
      /\ DOMAIN fresh.gates \subseteq DOMAIN KnownGates
  BY InvFacts
<1>1. /\ disk'.snap = disk.snap /\ disk'.bak = disk.bak
      /\ disk'.relays = disk.relays
      /\ harness' = harness /\ service' = service /\ fresh' = fresh
      /\ own' = own
      /\ DOMAIN disk'.file = DOMAIN disk.file
      /\ \A j \in DOMAIN disk.file \ {i} : disk'.file[j] = disk.file[j]
      /\ disk'.file[i].id = e.id
      /\ disk'.file[i].url = e.url /\ disk'.file[i].gate = e.gate
      /\ ~ Qwen
      /\ lostUrl' = IF IsTaken(e) THEN lostUrl \cup {e.id} ELSE lostUrl
      /\ lostGate' = IF Recording THEN lostGate \cup {e.id} ELSE lostGate
  BY <1>0, KindSet
<1>2. disk'.file \in Seq(Entry)
  BY <1>0, KindSet DEF IsDisk
<1>3. Mixed = {}
  BY <1>1, MixedIs
<1>4. \A j \in DOMAIN disk.file \ {i} : disk.file[j].id # e.id
  BY <1>0 DEF IsFile
<1> HIDE DEF e
<1>5. \A j \in DOMAIN disk.file :
        /\ disk'.file[j].id = disk.file[j].id
        /\ disk'.file[j].url = disk.file[j].url
        /\ disk'.file[j].gate = disk.file[j].gate
  BY <1>1 DEF e
<1>8. IsFile(own', disk'.file)
  <2>1. DOMAIN disk'.file = DOMAIN disk.file /\ own' = own /\ ~ Qwen
    BY <1>1
  <2> QED
    BY <1>0, <1>2, <1>5, <2>1 DEF IsFile
<1>9. ASSUME NEW j \in DOMAIN disk'.file, disk'.file[j].id \notin lostUrl'
      PROVE  /\ SoundUrl(own', disk'.file, KnownUrls, j)
             /\ service = "starting" /\ disk'.file[j].tag \in Mixed =>
                  disk'.file[j].url = Proxy
  <2>0. j \in DOMAIN disk.file /\ disk.file[j].id \notin lostUrl
    BY <1>1, <1>5, <1>9
  <2>1. CASE j = i
    <3>1. disk.file[j].url # Proxy
      BY <1>1, <1>5, <1>9, <2>0, <2>1 DEF IsTaken, e
    <3>2. disk.file[j].url = own[disk.file[j].id].url
      BY <2>0, <3>1
         DEF Inv, UrlsKnown, SoundUrls, SoundUrl, AddressKnown
    <3>3. AddressKnown(own', disk'.file, KnownUrls, j)
      BY <1>1, <1>5, <2>0, <3>1, <3>2 DEF AddressKnown
    <3> QED
      BY <1>3, <3>3 DEF SoundUrl
  <2>2. CASE j # i
    <3>1. disk'.file[j] = disk.file[j]
      BY <1>1, <2>0, <2>2
    <3>2. own'[disk.file[j].id].url = own[disk.file[j].id].url
      BY <1>1
    <3>3. disk.file[j].tag \notin Mixed
      BY <1>3
    <3> QED
      BY <1>2, <1>9, <2>0, <3>1, <3>2, <3>3, UrlStays
  <2> QED
    BY <2>1, <2>2
<1>10. ASSUME NEW j \in DOMAIN disk'.file, disk'.file[j].id \notin lostGate',
              disk'.file[j].tag \notin Mixed
       PROVE  /\ GateKnown(own', disk'.file, KnownGates, j)
              /\ /\ service = "starting"
                 /\ Key(disk'.file, j) \in DOMAIN fresh.gates
                 => /\ disk'.file[j].gate = "open"
                    /\ own'[disk'.file[j].id].gate # "open"
  <2>1. /\ j \in DOMAIN disk.file /\ disk.file[j].id \notin lostGate
        /\ disk'.file[j].id = disk.file[j].id
        /\ disk'.file[j].gate = disk.file[j].gate
    BY <1>1, <1>5, <1>10
  <2>2. /\ own'[disk.file[j].id].gate = own[disk.file[j].id].gate
        /\ disk.file[j].tag \notin Mixed
    BY <1>1, <1>3
  <2>3. DOMAIN KnownGates = {} \/ Key(disk'.file, j) = Key(disk.file, j)
    <3>1. CASE j = i
      BY <1>0, <1>1, <1>10, <2>1, <3>1 DEF e
    <3>2. CASE j # i
      <4>1. disk'.file[j] = disk.file[j]
        BY <1>1, <2>1, <3>2
      <4> QED
        BY <4>1 DEF Key
    <3> QED
      BY <3>1, <3>2
  <2> QED
    BY <1>10, <2>1, <2>2, <2>3, GateStays
<1>11. \A id \in Ids : own[id].url # Proxy => own'[id].url # Proxy
  BY <1>1
<1> QED
  BY <1>1, <1>8, <1>9, <1>10, <1>11, EditInv

\* adds an entry
LEMMA AddInv ==
  ASSUME Inv, Shapes', NEW e \in News[harness], Add(e)
  PROVE  Inv'
<1>0. /\ Shapes /\ IsFile(own, disk.file) /\ disk.file \in Seq(Entry)
      /\ own \in [Ids -> Entry]
      /\ ~ Recording => DOMAIN KnownGates = {}
      /\ DOMAIN fresh.gates \subseteq DOMAIN KnownGates
  BY InvFacts
<1>a. /\ disk'.snap = disk.snap /\ disk'.bak = disk.bak
      /\ disk'.relays = disk.relays
      /\ harness' = harness /\ service' = service /\ fresh' = fresh
      /\ \A i \in DOMAIN disk.file : disk.file[i].id # e.id
      /\ \A j \in DOMAIN disk.file : disk'.file[j] = disk.file[j]
      /\ own' = [own EXCEPT ![e.id] = e]
      /\ lostUrl' = (lostUrl \ {e.id}) \cup Group(e)
                    \cup (IF e.tag \in Mixed THEN {e.id} ELSE {})
      /\ lostGate' = IF Recording THEN lostGate \cup {e.id} ELSE lostGate
      /\ e \in Entry /\ e.url # Proxy
  BY <1>0, EntryAdded
<1>b. PICK n \in DOMAIN disk'.file \ DOMAIN disk.file :
        /\ DOMAIN disk'.file = DOMAIN disk.file \cup {n}
        /\ disk'.file[n] = e
  BY <1>0, EntryAdded
<1>2. disk'.file \in Seq(Entry)
  BY <1>0, EntryAdded DEF IsDisk
<1>3. e.id \in Ids /\ \A j \in DOMAIN disk.file : disk.file[j].id \in Ids
  BY <1>0, <1>a, EntryIs DEF Entry
<1>4. own'[e.id] = e /\ \A id \in Ids \ {e.id} : own'[id] = own[id]
  BY <1>0, <1>a, <1>3
<1>5. \A j \in DOMAIN disk'.file :
        j = n \/ (j \in DOMAIN disk.file /\ disk'.file[j] = disk.file[j]
                  /\ disk.file[j].id # e.id
                  /\ own'[disk.file[j].id] = own[disk.file[j].id])
  BY <1>a, <1>b, <1>3, <1>4
<1>6. \A id \in Ids : own[id].url # Proxy => own'[id].url # Proxy
  BY <1>a, <1>4
<1>7. harness \in Harnesses /\ Files[harness] # {}
  BY DEF Inv, Shapes, Lists
<1>8. IsFile(own', disk'.file)
  <2>1. \A i, j \in DOMAIN disk'.file :
          disk'.file[i].id = disk'.file[j].id => i = j
    BY <1>0, <1>b, <1>5 DEF IsFile
  <2>2. \A i \in DOMAIN disk'.file : own'[disk'.file[i].id].url # Proxy
    BY <1>0, <1>a, <1>b, <1>4, <1>5 DEF IsFile
  <2>3. ASSUME Qwen, e.tag \in Tags \ Mixed, NEW d \in News[harness],
               d.tag = e.tag
        PROVE  d.id = e.id
    <3>1. PICK f \in Files[harness] : TRUE
      BY <1>7
    <3>2. d \in News[harness] \cup Range(f.file)
          /\ e \in News[harness] \cup Range(f.file)
      OBVIOUS
    <3> QED
      BY <2>3, <3>1, <3>2 DEF Mixed
  <2>4. ASSUME Qwen, NEW i \in DOMAIN disk'.file,
               disk'.file[i].tag \in Tags \ Mixed
        PROVE  /\ \A j \in DOMAIN disk'.file :
                    disk'.file[i].tag = disk'.file[j].tag => i = j
               /\ \A d \in News[harness] :
                    disk'.file[i].tag = d.tag => disk'.file[i].id = d.id
    <3>1. \A k \in DOMAIN disk.file : disk.file[k].tag \in Tags \ Mixed =>
            /\ \A j \in DOMAIN disk.file :
                 disk.file[k].tag = disk.file[j].tag => k = j
            /\ \A d \in News[harness] :
                 disk.file[k].tag = d.tag => disk.file[k].id = d.id
      BY <1>0, <2>4 DEF IsFile
    <3>2. \A k \in DOMAIN disk.file : disk.file[k].tag \in Tags \ Mixed =>
            disk.file[k].tag # e.tag
      BY <1>a, <3>1
    <3>3. CASE i = n
      BY <1>b, <1>5, <2>3, <2>4, <3>2, <3>3
    <3>4. CASE i # n
      BY <1>b, <1>5, <2>4, <3>1, <3>2, <3>4
    <3> QED
      BY <3>3, <3>4
  <2> QED
    BY <1>2, <2>1, <2>2, <2>4 DEF IsFile
<1>9. ASSUME NEW j \in DOMAIN disk'.file, disk'.file[j].id \notin lostUrl'
      PROVE  /\ SoundUrl(own', disk'.file, KnownUrls, j)
             /\ service = "starting" /\ disk'.file[j].tag \in Mixed =>
                  disk'.file[j].url = Proxy
  <2>1. CASE j = n
    <3>1. e.tag \notin Mixed
      BY <1>a, <1>b, <1>9, <2>1
    <3>2. AddressKnown(own', disk'.file, KnownUrls, j)
      BY <1>a, <1>b, <1>4, <2>1 DEF AddressKnown
    <3> QED
      BY <1>b, <2>1, <3>1, <3>2 DEF SoundUrl
  <2>2. CASE j # n
    <3>1. /\ j \in DOMAIN disk.file /\ disk'.file[j] = disk.file[j]
          /\ disk.file[j].id # e.id
          /\ own'[disk.file[j].id].url = own[disk.file[j].id].url
      BY <1>5, <2>2
    <3>a. disk.file[j].id \notin lostUrl
      BY <1>a, <1>9, <3>1
    <3>2. disk.file[j].tag \in Mixed => disk.file[j].tag # e.tag
      BY <1>a, <1>9, <3>1, GroupIs
    <3>3. ASSUME disk.file[j].tag \in Mixed,
                 NEW g \in DOMAIN disk'.file,
                 IsFirst(disk'.file, disk.file[j].tag, g)
          PROVE  \E f \in DOMAIN disk.file :
                   /\ IsFirst(disk.file, disk.file[j].tag, f)
                   /\ disk.file[f].id = disk'.file[g].id
                   /\ disk.file[f].tag = disk'.file[g].tag
                   /\ disk.file[f].url = disk'.file[g].url
      <4>1. g # n
        BY <1>b, <3>2, <3>3 DEF IsFirst
      <4>2. g \in DOMAIN disk.file /\ disk'.file[g] = disk.file[g]
        BY <1>5, <4>1
      <4>3. IsFirst(disk.file, disk.file[j].tag, g)
        BY <1>a, <1>b, <3>3, <4>2 DEF IsFirst
      <4> QED
        BY <4>2, <4>3
    <3>4. disk.file[j].tag \in Mixed =>
            FirstStays(disk.file, disk'.file, disk.file[j].tag)
      BY <3>3 DEF FirstStays
    <3> QED
      BY <1>2, <3>1, <3>a, <3>4, UrlStays
  <2> QED
    BY <2>1, <2>2
<1>10. ASSUME NEW j \in DOMAIN disk'.file, disk'.file[j].id \notin lostGate',
              disk'.file[j].tag \notin Mixed
       PROVE  /\ GateKnown(own', disk'.file, KnownGates, j)
              /\ /\ service = "starting"
                 /\ Key(disk'.file, j) \in DOMAIN fresh.gates
                 => /\ disk'.file[j].gate = "open"
                    /\ own'[disk'.file[j].id].gate # "open"
  <2>1. CASE j = n
    <3>1. DOMAIN KnownGates = {} /\ DOMAIN fresh.gates = {}
      BY <1>0, <1>a, <1>b, <1>10, <2>1
    <3>2. disk'.file[j].gate = own'[disk'.file[j].id].gate
      BY <1>b, <1>4, <2>1
    <3> QED
      BY <3>1, <3>2 DEF GateKnown
  <2>2. CASE j # n
    <3>1. /\ j \in DOMAIN disk.file /\ disk'.file[j] = disk.file[j]
          /\ own'[disk.file[j].id].gate = own[disk.file[j].id].gate
      BY <1>5, <2>2
    <3>2. disk.file[j].id \notin lostGate
      BY <1>a, <1>10, <3>1
    <3>3. Key(disk'.file, j) = Key(disk.file, j)
      BY <3>1 DEF Key
    <3> QED
      BY <1>10, <3>1, <3>2, <3>3, GateStays
  <2> QED
    BY <2>1, <2>2
<1> QED
  BY <1>a, <1>6, <1>8, <1>9, <1>10, EditInv

-----------------------------------------------------------------------------

\* All entries but the one removed are there still, in their order.
LEMMA AllButOne ==
  ASSUME Shapes, NEW i \in DOMAIN disk.file, Remove(i)
  PROVE  /\ \A l \in DOMAIN disk.file \ {i} :
              \E m \in DOMAIN disk'.file :
                /\ disk'.file[m] = disk.file[l]
                /\ l = IF m < i THEN m ELSE m + 1
         /\ \A j \in DOMAIN disk'.file : j \in Nat
         /\ i \in Nat
<1>0. disk.file \in Seq(Entry)
  BY DEF Shapes, IsDisk
<1>1. /\ DOMAIN disk.file = 1..Len(disk.file) /\ Len(disk.file) \in Nat
      /\ i \in Nat
  BY <1>0
<1>2. disk'.file = [j \in 1..Len(disk.file) - 1 |->
                      disk.file[IF j < i THEN j ELSE j + 1]]
  BY DEF Remove, Edit, Shapes, IsDisk
<1>3. ASSUME NEW l \in DOMAIN disk.file \ {i}
      PROVE  \E m \in DOMAIN disk'.file :
                /\ disk'.file[m] = disk.file[l]
                /\ l = IF m < i THEN m ELSE m + 1
  <2> DEFINE m == IF l < i THEN l ELSE l - 1
  <2>1. /\ m \in 1..Len(disk.file) - 1
        /\ l = IF m < i THEN m ELSE m + 1
    BY <1>1
  <2> HIDE DEF m
  <2>2. disk'.file[m] = disk.file[l] /\ m \in DOMAIN disk'.file
    BY <1>2, <2>1
  <2> QED
    BY <2>1, <2>2
<1>4. \A j \in DOMAIN disk'.file : j \in Nat
  BY <1>1, <1>2
<1> QED
  BY <1>1, <1>3, <1>4

\* or removes one.
LEMMA RemoveInv ==
  ASSUME Inv, Shapes', NEW i \in DOMAIN disk.file, Remove(i)
  PROVE  Inv'
<1>0. /\ Shapes /\ IsFile(own, disk.file) /\ disk.file \in Seq(Entry)
      /\ own \in [Ids -> Entry]
      /\ ~ Recording => DOMAIN KnownGates = {}
  BY InvFacts
<1>1. /\ disk'.snap = disk.snap /\ disk'.bak = disk.bak
      /\ disk'.relays = disk.relays
      /\ harness' = harness /\ service' = service /\ fresh' = fresh
      /\ own' = own
      /\ \A j \in DOMAIN disk'.file :
              \E k \in DOMAIN disk.file \ {i} :
                /\ disk'.file[j] = disk.file[k]
                /\ k # j => k > i
                /\ k = IF j < i THEN j ELSE j + 1
  BY <1>0, EntryRemoved
<1>2. PICK after \in SUBSET Ids :
              /\ \A k \in DOMAIN disk.file :
                   Qwen /\ k > i /\ disk.file[k].tag = NoEnv
                     => disk.file[k].id \in after
              /\ lostUrl' = lostUrl \cup Group(disk.file[i])
                            \cup (after \cap At(disk, IsTaken))
              /\ lostGate' = IF Recording THEN lostGate \cup after
                             ELSE lostGate
  BY <1>0, EntryRemoved
<1>3. disk'.file \in Seq(Entry)
  BY <1>0, EntryRemoved DEF IsDisk
<1>4. /\ \A l \in DOMAIN disk.file \ {i} :
              \E m \in DOMAIN disk'.file :
                /\ disk'.file[m] = disk.file[l]
                /\ l = IF m < i THEN m ELSE m + 1
      /\ \A j \in DOMAIN disk'.file : j \in Nat
      /\ i \in Nat
  BY <1>0, AllButOne
<1>5. IsFile(own', disk'.file)
  <2>1. ASSUME NEW j \in DOMAIN disk'.file, NEW m \in DOMAIN disk'.file,
               NEW k \in DOMAIN disk.file, NEW l \in DOMAIN disk.file,
               k = IF j < i THEN j ELSE j + 1,
               l = IF m < i THEN m ELSE m + 1,
               k = l
        PROVE  j = m
    <3>1. j \in Nat /\ m \in Nat /\ i \in Nat
      BY <1>4
    <3> QED
      BY <2>1, <3>1
  <2>2. ASSUME NEW j \in DOMAIN disk'.file, NEW m \in DOMAIN disk'.file,
               disk'.file[j].id = disk'.file[m].id
        PROVE  j = m
    <3>1. PICK k \in DOMAIN disk.file : /\ disk'.file[j] = disk.file[k]
                                        /\ k = IF j < i THEN j ELSE j + 1
      BY <1>1
    <3>2. PICK l \in DOMAIN disk.file : /\ disk'.file[m] = disk.file[l]
                                        /\ l = IF m < i THEN m ELSE m + 1
      BY <1>1
    <3>3. k = l
      BY <1>0, <2>2, <3>1, <3>2 DEF IsFile
    <3> QED
      BY <2>1, <3>1, <3>2, <3>3
  <2>3. \A j \in DOMAIN disk'.file : own'[disk'.file[j].id].url # Proxy
    BY <1>0, <1>1 DEF IsFile
  <2>4. ASSUME Qwen, NEW j \in DOMAIN disk'.file,
               disk'.file[j].tag \in Tags \ Mixed
        PROVE  /\ \A m \in DOMAIN disk'.file :
                    disk'.file[j].tag = disk'.file[m].tag => j = m
               /\ \A e \in News[harness] :
                    disk'.file[j].tag = e.tag => disk'.file[j].id = e.id
    <3>1. PICK k \in DOMAIN disk.file : disk'.file[j] = disk.file[k]
      BY <1>1
    <3>2. /\ \A l \in DOMAIN disk.file :
               disk.file[k].tag = disk.file[l].tag => k = l
          /\ \A e \in News[harness] :
               disk.file[k].tag = e.tag => disk.file[k].id = e.id
      BY <1>0, <2>4, <3>1 DEF IsFile
    <3>3. ASSUME NEW m \in DOMAIN disk'.file,
                 disk'.file[j].tag = disk'.file[m].tag
          PROVE  j = m
      <4>1. PICK l \in DOMAIN disk.file : disk'.file[m] = disk.file[l]
        BY <1>1
      <4>2. disk'.file[j].id = disk'.file[m].id
        BY <3>1, <3>2, <3>3, <4>1
      <4> QED
        BY <2>2, <4>2
    <3> QED
      BY <3>1, <3>2, <3>3
  <2> QED
    BY <1>1, <1>3, <2>2, <2>3, <2>4 DEF IsFile
<1>6. ASSUME NEW j \in DOMAIN disk'.file, disk'.file[j].id \notin lostUrl'
      PROVE  /\ SoundUrl(own', disk'.file, KnownUrls, j)
             /\ service = "starting" /\ disk'.file[j].tag \in Mixed =>
                  disk'.file[j].url = Proxy
  <2>1. PICK k \in DOMAIN disk.file \ {i} :
                /\ disk'.file[j] = disk.file[k]
                /\ k # j => k > i
                /\ k = IF j < i THEN j ELSE j + 1
    BY <1>1
  <2>2. /\ disk.file[k].id \notin lostUrl
        /\ disk.file[k].id \notin Group(disk.file[i])
        /\ disk.file[k].id \notin after \cap At(disk, IsTaken)
    BY <1>2, <1>6, <2>1
  <2>3. Qwen /\ disk.file[k].tag = NoEnv /\ disk.file[k].url = Proxy => k = j
    BY <1>2, <2>1, <2>2 DEF At, IsTaken
  <2>4. disk.file[k].tag \in Mixed => disk.file[k].tag # disk.file[i].tag
    BY <2>2, GroupIs
  <2>5. ASSUME disk.file[k].tag \in Mixed,
               NEW g \in DOMAIN disk'.file,
               IsFirst(disk'.file, disk.file[k].tag, g)
        PROVE  \E f \in DOMAIN disk.file :
                 /\ IsFirst(disk.file, disk.file[k].tag, f)
                 /\ disk.file[f].id = disk'.file[g].id
                 /\ disk.file[f].tag = disk'.file[g].tag
                 /\ disk.file[f].url = disk'.file[g].url
    <3>1. PICK h \in DOMAIN disk.file \ {i} :
            /\ disk'.file[g] = disk.file[h]
            /\ h = IF g < i THEN g ELSE g + 1
      BY <1>1
    <3>2. ASSUME NEW l \in DOMAIN disk.file,
                 disk.file[l].tag = disk.file[k].tag
          PROVE  h <= l
      <4>1. l # i
        BY <2>4, <2>5, <3>2
      <4>2. PICK m \in DOMAIN disk'.file :
              /\ disk'.file[m] = disk.file[l]
              /\ l = IF m < i THEN m ELSE m + 1
        BY <1>4, <4>1
      <4>3. g <= m
        BY <2>5, <3>2, <4>2 DEF IsFirst
      <4>4. g \in Nat /\ m \in Nat /\ i \in Nat
        BY <1>4
      <4> QED
        BY <3>1, <4>2, <4>3, <4>4
    <3>3. IsFirst(disk.file, disk.file[k].tag, h)
      BY <2>5, <3>1, <3>2 DEF IsFirst
    <3> QED
      BY <3>1, <3>3
  <2>6. disk.file[k].tag \in Mixed =>
          FirstStays(disk.file, disk'.file, disk.file[k].tag)
    BY <2>5 DEF FirstStays
  <2>7. own'[disk.file[k].id].url = own[disk.file[k].id].url
    BY <1>1
  <2>8. /\ k \in DOMAIN disk.file
        /\ disk'.file[j].id = disk.file[k].id
        /\ disk'.file[j].tag = disk.file[k].tag
        /\ disk'.file[j].url = disk.file[k].url
    BY <2>1
  <2>9. disk.file[k].id \notin lostUrl
    BY <2>2
  <2>10. Qwen /\ disk.file[k].tag = NoEnv /\ disk.file[k].url = Proxy
           => k = j
    BY <2>3
  <2>11. /\ SoundUrl(own', disk'.file, KnownUrls, j)
         /\ service = "starting" /\ disk'.file[j].tag \in Mixed =>
              disk'.file[j].url = Proxy
    BY <1>3, <2>6, <2>7, <2>8, <2>9, <2>10, UrlStays
  <2> QED
    BY <2>11
<1>7. ASSUME NEW j \in DOMAIN disk'.file, disk'.file[j].id \notin lostGate',
              disk'.file[j].tag \notin Mixed
       PROVE  /\ GateKnown(own', disk'.file, KnownGates, j)
              /\ /\ service = "starting"
                 /\ Key(disk'.file, j) \in DOMAIN fresh.gates
                 => /\ disk'.file[j].gate = "open"
                    /\ own'[disk'.file[j].id].gate # "open"
  <2>1. PICK k \in DOMAIN disk.file \ {i} :
                /\ disk'.file[j] = disk.file[k]
                /\ k # j => k > i
    BY <1>1
  <2>2. disk.file[k].id \notin lostGate
    BY <1>2, <1>7, <2>1
  <2>3. DOMAIN KnownGates = {} \/ Key(disk'.file, j) = Key(disk.file, k)
    <3>1. CASE ~ Recording
      BY <1>0, <3>1
    <3>2. CASE Recording
      <4>1. Qwen /\ disk.file[k].tag = NoEnv => k = j
        BY <1>2, <1>7, <2>1, <3>2
      <4> QED
        BY <2>1, <4>1 DEF Key
    <3> QED
      BY <3>1, <3>2
  <2>4. own'[disk.file[k].id].gate = own[disk.file[k].id].gate
    BY <1>1
  <2>5. /\ k \in DOMAIN disk.file
        /\ disk'.file[j].id = disk.file[k].id
        /\ disk'.file[j].gate = disk.file[k].gate
        /\ disk.file[k].tag \notin Mixed
    BY <1>7, <2>1
  <2> QED
    BY <1>7, <2>2, <2>3, <2>4, <2>5, GateStays
<1>8. \A id \in Ids : own[id].url # Proxy => own'[id].url # Proxy
  BY <1>1
<1> QED
  BY <1>1, <1>5, <1>6, <1>7, <1>8, EditInv

-----------------------------------------------------------------------------
(* The invariant, and what is given back.                                  *)

\* Every step keeps the invariant.
LEMMA StepInv ==
  ASSUME Inv, [Next]_vars
  PROVE  Inv'
<1>0. Shapes /\ Shapes'
  BY StepShapes DEF Inv
<1>1. CASE BeginStart
  BY <1>0, <1>1, BeginInv
<1>2. CASE FinishStart
  BY <1>0, <1>2, FinishInv
<1>3. CASE Crash
  BY <1>0, <1>3, CrashInv
<1>4. CASE Stop
  BY <1>0, <1>4, StopInv
<1>5. CASE Reconcile
  BY <1>0, <1>5, ReconcileInv
<1>6. CASE RestoreBySnapshot
  BY <1>0, <1>6, RestoreInv
<1>7. CASE Uncheck
  BY <1>0, <1>7, UncheckInv
<1>8. CASE StartOthers \/ Check
  <2>1. /\ harness' = harness /\ disk' = disk /\ fresh' = fresh
        /\ own' = own /\ lostUrl' = lostUrl /\ lostGate' = lostGate
        /\ service' = "starting" => service = "starting"
    BY <1>8 DEF StartOthers, Check
  <2> QED
    BY <1>0, <2>1, QuietInv
<1>9. CASE UNCHANGED vars
  <2>1. /\ harness' = harness /\ disk' = disk /\ fresh' = fresh
        /\ own' = own /\ lostUrl' = lostUrl /\ lostGate' = lostGate
        /\ service' = service
    BY <1>9 DEF vars
  <2> QED
    BY <1>0, <2>1, QuietInv
<1>10. ASSUME NEW url \in Globals, SetGlobal(url) PROVE Inv'
  <2>1. /\ harness' = harness /\ disk' = [disk EXCEPT !.base = url]
        /\ fresh' = fresh /\ service' = service
        /\ own' = own /\ lostUrl' = lostUrl /\ lostGate' = lostGate
    BY <1>10 DEF SetGlobal
  <2>2. /\ disk'.file = disk.file /\ disk'.bak = disk.bak
        /\ disk'.snap = disk.snap /\ disk'.relays = disk.relays
    BY <1>0, <2>1 DEF Shapes, IsDisk
  <2> QED
    BY <1>0, <2>1, <2>2, QuietInv
<1>11. ASSUME NEW i \in DOMAIN disk.file, NEW url \in Urls \cup Ports,
              SetUrl(i, url)
       PROVE  Inv'
  <2>1. url \in Addresses
    BY DEF Addresses
  <2> QED
    BY <1>0, <1>11, <2>1, SetUrlInv
<1>12. ASSUME NEW i \in DOMAIN disk.file, NEW gate \in Gates,
              SetGate(i, gate)
       PROVE  Inv'
  BY <1>0, <1>12, SetGateInv
<1>13. ASSUME NEW i \in DOMAIN disk.file, NEW kind \in Tags,
              SetKind(i, kind)
       PROVE  Inv'
  BY <1>0, <1>13, SetKindInv
<1>14. ASSUME NEW i \in DOMAIN disk.file, Remove(i) PROVE Inv'
  BY <1>0, <1>14, RemoveInv
<1>15. ASSUME NEW e \in News[harness], Add(e) PROVE Inv'
  BY <1>0, <1>15, AddInv
<1>16. CASE User
  BY <1>10, <1>11, <1>12, <1>13, <1>14, <1>15, <1>16 DEF User
<1> QED
  BY <1>1, <1>2, <1>3, <1>4, <1>5, <1>6, <1>7, <1>8, <1>9, <1>16 DEF Next

\* Of every entry that is not lost the snapshot and the file together
\* know the address and the gate its user wants, always.
THEOREM Invariance == Spec => []Inv
<1> QED
  BY InitInv, StepInv, PTL DEF Spec

\* A step that gives the entries back does so from the snapshot.
LEMMA GivesBackIs ==
  ASSUME Inv, GivesBack
  PROVE  /\ service # "starting"
         /\ disk'.file = RestoredEntries(disk.file, disk.snap)
<1>0. Shapes /\ IsDisk(disk)
  BY DEF Inv, Shapes
<1>1. /\ checked /\ disk.snap.held
      /\ Qwen => disk.base = Proxy
  BY DEF GivesBack
<1>2. Restored(disk) = FromSnapshot(disk)
  BY <1>1 DEF Restored
<1>3. FromSnapshot(disk).file = RestoredEntries(disk.file, disk.snap)
  BY <1>0, FromSnapshotIs
<1>4. CASE Stop
  <2>1. disk'.file = Restored(disk).file
    BY <1>0, <1>1, <1>4, CommandDisk
  <2> QED
    BY <1>2, <1>3, <1>4, <2>1 DEF Stop
<1>5. CASE Uncheck
  <2>1. disk'.file = Restored(disk).file
    BY <1>0, <1>5, CommandDisk
  <2> QED
    BY <1>2, <1>3, <1>5, <2>1 DEF Uncheck
<1>6. CASE RestoreBySnapshot
  BY <1>3, <1>6 DEF RestoreBySnapshot
<1> QED
  BY <1>4, <1>5, <1>6 DEF GivesBack

\* When the entries are given back from the snapshot, every one that is
\* not lost leads where its user wants it to, through any number of starts,
\* crashes, edits and reconciliations (snapshot.py:3-5).
THEOREM AddressesAreBack == Spec => AddressesComeBack
<1>1. Inv /\ [Next]_vars =>
        [GivesBack => \A i \in DOMAIN disk.file :
           disk.file[i].id \notin lostUrl =>
             disk'.file[i].url = own[disk.file[i].id].url]_vars
  <2> SUFFICES ASSUME Inv, GivesBack,
                      NEW i \in DOMAIN disk.file,
                      disk.file[i].id \notin lostUrl
               PROVE  disk'.file[i].url = own[disk.file[i].id].url
    OBVIOUS
  <2> QED
    BY GivesBackIs, BackFromSnapshot
<1> QED
  BY <1>1, Invariance, PTL DEF Spec, AddressesComeBack

\* And every one that was taken over and is not lost has its gate
\* (modalities.py:26).
THEOREM GatesAreBack == Spec => GatesComeBack
<1>1. Inv /\ [Next]_vars =>
        [GivesBack => \A i \in DOMAIN disk.file :
           LET e == disk.file[i] IN
           IsTaken(e) /\ e.id \notin lostUrl \cup lostGate /\
             e.tag \notin Mixed
             => disk'.file[i].gate = own[e.id].gate]_vars
  <2> SUFFICES ASSUME Inv, GivesBack,
                      NEW i \in DOMAIN disk.file,
                      IsTaken(disk.file[i]),
                      disk.file[i].id \notin lostUrl \cup lostGate,
                      disk.file[i].tag \notin Mixed
               PROVE  disk'.file[i].gate = own[disk.file[i].id].gate
    OBVIOUS
  <2> QED
    BY GivesBackIs, BackFromSnapshot
<1> QED
  BY <1>1, Invariance, PTL DEF Spec, GatesComeBack

-----------------------------------------------------------------------------
(* Relays.                                                                 *)

\* Where the address of an entry is known it gets a relay.
LEMMA ServedBy ==
  ASSUME NEW d, IsDisk(d), Qwen => \A r \in d.relays : r.protocol = "chat",
         NEW o, NEW i \in DOMAIN d.file,
         AddressKnown(o, d.file, d.snap.urls, i),
         IsTaken(d.file[i]), o[d.file[i].id].url \in Urls
  PROVE  \E r \in Ensured(d).relays :
           /\ r.url = o[d.file[i].id].url
           /\ r.protocol = Protocol(d.file[i])
           /\ Qwen \/ r.ids = {d.file[i].id}
<1>1. Origin(d, i) = o[d.file[i].id].url
  BY DEF Origin, AddressKnown, IsTaken
<1> DEFINE w == [url |-> Origin(d, i), protocol |-> Protocol(d.file[i]),
                 ids |-> {d.file[j].id : j \in {k \in DOMAIN d.file :
                   k = i \/ (Qwen /\ Origin(d, k) = Origin(d, i))}}]
<1>2. w \in Desired(d)
  BY <1>1 DEF Desired, IsDirect
<1>3. ~ Qwen => w.ids = {d.file[i].id}
  OBVIOUS
<1>4. w.url = o[d.file[i].id].url /\ w.protocol = Protocol(d.file[i])
  BY <1>1
<1> HIDE DEF w
<1>5. PICK r \in Ensured(d).relays :
        r.url = w.url /\ (r = w \/ (Qwen /\ r \in d.relays))
  BY <1>2, EnsuredIs
<1>6. r.protocol = Protocol(d.file[i])
  BY <1>4, <1>5 DEF Protocol
<1> QED
  BY <1>3, <1>4, <1>5, <1>6

\* What is known after a step that saves all it read.
LEMMA AddressKnownNext ==
  ASSUME harness' = harness, UrlsKnown', fresh' = NoFresh,
         NEW i \in DOMAIN disk'.file, disk'.file[i].id \notin lostUrl'
  PROVE  AddressKnown(own', disk'.file, disk'.snap.urls, i)
<1>1. Qwen' <=> Qwen
  BY SameHarness
<1>2. SoundUrl(own, disk.file, KnownUrls, i)'
  BY DEF UrlsKnown, SoundUrls
<1>3. AddressKnown(own, disk.file, KnownUrls, i)'
  BY <1>2 DEF SoundUrl
<1>4. SameMap(KnownUrls', disk'.snap.urls)
  <2>1. DOMAIN fresh'.urls = {}
    BY NoFreshIs
  <2>2. KnownUrls' = Over(fresh'.urls, disk'.snap.urls)
    BY DEF KnownUrls, Over
  <2> QED
    BY <2>1, <2>2, NothingOver
<1>5. ReadKey(KnownUrls, disk.file, i)'
        = ReadKey(disk'.snap.urls, disk'.file, i)
  BY <1>1, <1>4 DEF ReadKey, SameMap
<1> QED
  BY <1>3, <1>4, <1>5 DEF AddressKnown, SameMap

\* The relays are made from the disk the step leaves.
LEMMA EnsuredLast ==
  ASSUME Inv, FinishStart \/ Reconcile
  PROVE  /\ harness' = harness /\ fresh' = NoFresh
         /\ \E d : /\ IsDisk(d) /\ disk' = Ensured(d)
                   /\ disk'.file = d.file /\ disk'.snap = d.snap
                   /\ Qwen => \A r \in d.relays : r.protocol = "chat"
<1>0. /\ Shapes /\ IsDisk(disk)
      /\ Qwen => \A r \in disk.relays : r.protocol = "chat"
  BY DEF Inv, Shapes, Chat
<1>1. \E d : /\ IsDisk(d) /\ disk' = Reconciled(d)
             /\ Qwen => \A r \in d.relays : r.protocol = "chat"
  <2>1. CASE FinishStart
    <3>1. PICK d : /\ IsDisk(d) /\ disk' = Reconciled(Ensured(d))
                   /\ d.relays = disk.relays
      BY <1>0, <2>1, FinishIs
    <3> QED
      BY <1>0, <3>1, EnsuredIs, EnsuredChat
  <2>2. CASE Reconcile
    BY <1>0, <2>2 DEF Reconcile
  <2> QED
    BY <2>1, <2>2
<1>2. PICK d : /\ IsDisk(d) /\ disk' = Reconciled(d)
               /\ Qwen => \A r \in d.relays : r.protocol = "chat"
  BY <1>1
<1>3. PICK e : IsDisk(e) /\ Reconciled(d) = Ensured(e) /\ e.relays = d.relays
  BY <1>2, ReconciledIs
<1>4. Ensured(e).file = e.file /\ Ensured(e).snap = e.snap
  BY <1>3, EnsuredIs
<1>5. harness' = harness /\ fresh' = NoFresh
  BY <1>0 DEF FinishStart, Reconcile, Shapes
<1> QED
  BY <1>2, <1>3, <1>4, <1>5

\* After every start and every reconciliation each taken-over entry that is
\* not lost has a relay to its own address (qwen_providers.py:203-206).
THEOREM Serving == Spec => EntriesAreServed
<1>1. Inv /\ [Next]_vars => [FinishStart \/ Reconcile => Served']_vars
  <2> SUFFICES ASSUME Inv, [Next]_vars, FinishStart \/ Reconcile
               PROVE  Served'
    OBVIOUS
  <2>1. harness' = harness /\ fresh' = NoFresh
    BY EnsuredLast
  <2>2. PICK d : /\ IsDisk(d) /\ disk' = Ensured(d)
                 /\ disk'.file = d.file /\ disk'.snap = d.snap
                 /\ Qwen => \A r \in d.relays : r.protocol = "chat"
    BY EnsuredLast
  <2>3. UrlsKnown'
    BY StepInv DEF Inv
  <2>4. (Qwen' <=> Qwen)
    BY <2>1, SameHarness
  <2>5. ASSUME NEW i \in DOMAIN disk'.file,
               IsTaken(disk'.file[i]), disk'.file[i].id \notin lostUrl',
               own'[disk'.file[i].id].url \in Urls
        PROVE  \E r \in disk'.relays :
                 /\ r.url = own'[disk'.file[i].id].url
                 /\ r.protocol = Protocol(disk'.file[i])
                 /\ Qwen \/ r.ids = {disk'.file[i].id}
    <3>1. AddressKnown(own', disk'.file, disk'.snap.urls, i)
      BY <2>1, <2>3, <2>5, AddressKnownNext
    <3>2. AddressKnown(own', d.file, d.snap.urls, i)
      BY <2>2, <3>1
    <3>3. /\ i \in DOMAIN d.file /\ IsTaken(d.file[i])
          /\ own'[d.file[i].id].url \in Urls
      BY <2>2, <2>5
    <3> QED
      BY <2>2, <3>2, <3>3, ServedBy
  <2>6. \A e \in Range(disk'.file) : \E i \in DOMAIN disk'.file :
          e = disk'.file[i]
    BY DEF Range
  <2> QED
    BY <2>4, <2>5, <2>6 DEF Served, Protocol, IsTaken
<1> QED
  BY <1>1, Invariance, PTL DEF Spec, EntriesAreServed

=============================================================================
