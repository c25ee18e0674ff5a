--------------------------- MODULE HotReloadProofs ---------------------------
(***************************************************************************)
(* Proofs about HotReload when requests do not overlap, for any commands,  *)
(* with locks or without, any edits and any number of connections.  (When  *)
(* they overlap, TLC finds the recorded time untrue.)                      *)
(*                                                                         *)
(* MarkIsTrue is not inductive.  It needs that a time names one text for   *)
(* good: what is renamed into place carries a time nobody has recorded or  *)
(* read yet (NewTmp), though it may be older than the file it replaces, so *)
(* that a text that came between stat and load is noticed by the next      *)
(* request.  And it needs what a request that found a change knows at each *)
(* step of the reload (Knows).                                             *)
(***************************************************************************)
EXTENDS HotReload, ConfigStoreProofs

\* No time lies in the future.
Clock ==
  /\ \A i \in Inodes : inode[i].time <= now
  /\ mark <= now
  /\ \A t \in Clients : req[t].seen <= now

\* The time of the temporary file is nobody's.
NewTmp ==
  tmp # None =>
    /\ inode[tmp].time > 0
    /\ inode[tmp].time # Disk.time
    /\ inode[tmp].time # mark
    /\ \A t \in Clients : inode[tmp].time # req[t].seen

Alone == \A t, u \in Clients : Busy(t) /\ Busy(u) => t = u

\* The recorded time is true, but for the moment between assignment and
\* record.
Truth ==
  (\A t \in Clients : req[t].pc # "mark") /\ Readable(Disk) /\ mark = Disk.time
    => served = Disk

\* What t's request knows: the text it saw at its look at the time, that the
\* file has changed since the last record, and that what it loaded is a text
\* of the file if the file could be read.
Knows(t) ==
  /\ Busy(t) => Disk \in req[t].since
  /\ req[t].pc = "compare" =>
       /\ mark = Disk.time => req[t].seen = mark
       /\ \E text \in req[t].since :
            /\ req[t].seen = text.time
            /\ Readable(text) /\ mark = text.time => served = text
  /\ req[t].pc \in {"load", "assign", "mark"} => mark # Disk.time
  /\ req[t].pc = "assign" =>
       /\ req[t].copy \in Configuration
       /\ Readable(Disk) /\ req[t].seen = Disk.time => req[t].copy = Disk
       /\ req[t].copy \in req[t].since
  /\ req[t].pc = "mark" =>
       (Readable(Disk) /\ req[t].seen = Disk.time => served = Disk)
  /\ req[t].pc \in {"mark", "route"} =>
       \E text \in req[t].since : served = text \/ ~ Readable(text)

HInv ==
  /\ TypeOK
  /\ Names
  /\ Clock
  /\ NewTmp
  /\ Alone
  /\ Truth
  /\ \A t \in Clients : Knows(t)

-----------------------------------------------------------------------------
(* What a step of ConfigStore does to the file.                            *)

Stays ==
  UNCHANGED <<inode, main, tmp, now>>

Writes(i) ==
  /\ main' = main /\ now' = now + 1
  /\ inode' \in [Inodes -> Text]
  /\ \A j \in Inodes \ {i} : inode'[j] = inode[j]
  /\ i \in Inodes => inode'[i].time = now + 1
  /\ tmp' = tmp \/ (tmp' = i /\ i \in Inodes /\ i # main)

Renames ==
  main' = tmp /\ tmp # None /\ tmp' = None /\ UNCHANGED <<inode, now>>

LEMMA StoreEffect ==
  ASSUME StoreTypeOK, Names, StoreNext
  PROVE  Stays \/ Renames \/ \E i : Writes(i)
<1>a. StoreTypeOK'
  BY StepStoreTypes
<1>1. CASE HandEdit
  <2>1. Writes(main)
    BY <1>1, <1>a DEF HandEdit, Writes, StoreTypeOK, Text
  <2> QED
    BY <2>1
<1>2. ASSUME NEW c \in Commands, CommandStep(c) \/ Crash(c)
      PROVE  Stays \/ Renames \/ \E i : Writes(i)
  <2>1. CASE OpenTmp(c)
    <3> DEFINE i == IF tmp = None THEN c ELSE tmp
    <3>1. i \in Inodes /\ i # main
      BY <2>1, InodeNames DEF OpenTmp, MayWrite, Names, StoreTypeOK
    <3>2. /\ main' = main /\ now' = now + 1 /\ tmp' = i
          /\ \A j \in Inodes \ {i} : inode'[j] = inode[j]
          /\ inode'[i].time = now + 1
      BY <2>1, <3>1 DEF OpenTmp, StoreTypeOK
    <3>3. Writes(i)
      BY <1>a, <3>1, <3>2 DEF Writes, StoreTypeOK
    <3> QED
      BY <3>3
  <2>2. CASE Fill(c)
    <3> DEFINE i == cmd[c].open
    <3>1. /\ main' = main /\ now' = now + 1 /\ tmp' = tmp
          /\ \A j \in Inodes \ {i} : inode'[j] = inode[j]
          /\ i \in Inodes => inode'[i].time = now + 1
      BY <2>2 DEF Fill, StoreTypeOK
    <3>2. Writes(i)
      BY <1>a, <3>1 DEF Writes, StoreTypeOK
    <3> QED
      BY <3>2
  <2>3. CASE Replace(c)
    BY <2>3 DEF Replace, Renames
  <2>4. CASE Load(c) \/ Enter(c) \/ TimeOut(c) \/ ReplaceFails(c) \/ Crash(c)
    BY <2>4 DEF Load, Enter, TimeOut, ReplaceFails, Crash, Stays
  <2> QED
    BY <1>2, <2>1, <2>2, <2>3, <2>4 DEF CommandStep
<1> QED
  BY <1>1, <1>2 DEF StoreNext

\* proxy.json is as before, or has a time nobody has recorded or read.
NewsOrNone ==
  \/ Disk' = Disk
  \/ /\ Disk'.time # mark
     /\ \A t \in Clients : Disk'.time # req[t].seen

\* What a write leaves of a request: everything but its history.
SameRequests ==
  /\ mark' = mark /\ served' = served
  /\ \A t \in Clients :
       /\ req'[t].pc = req[t].pc /\ req'[t].seen = req[t].seen
       /\ req'[t].copy = req[t].copy
       /\ req[t].since \subseteq req'[t].since
       /\ Busy(t) => Disk' \in req'[t].since

LEMMA WriteRequests ==
  ASSUME TypeOK, Write
  PROVE  SameRequests
<1> SUFFICES ASSUME NEW t \in Clients
             PROVE  /\ req'[t].pc = req[t].pc /\ req'[t].seen = req[t].seen
                    /\ req'[t].copy = req[t].copy
                    /\ req[t].since \subseteq req'[t].since
                    /\ Busy(t) => Disk' \in req'[t].since
  BY DEF SameRequests, Write
<1>1. req[t] \in ReqState
  BY DEF TypeOK
<1>2. req'[t] = IF Busy(t) THEN [req[t] EXCEPT !.since = @ \cup {Disk'}]
                           ELSE req[t]
  BY DEF Write
<1> QED
  BY <1>1, <1>2 DEF ReqState

LEMMA WriteClock ==
  ASSUME TypeOK, TypeOK', Names, Names', Clock, NewTmp, Write
  PROVE  Clock' /\ NewTmp' /\ NewsOrNone
<1>1. SameRequests
  BY WriteRequests
<1>2. /\ \A i \in Inodes : inode[i].time \in Nat /\ inode[i].time <= now
      /\ now \in Nat /\ mark \in Nat /\ mark <= now
      /\ \A t \in Clients : req[t].seen \in Nat /\ req[t].seen <= now
      /\ main \in Inodes /\ main' \in Inodes
      /\ tmp \in Inodes \cup {None} /\ tmp' \in Inodes \cup {None}
      /\ tmp # main
  BY DEF TypeOK, StoreTypeOK, Text, ReqState, Clock, Names
<1>3. CASE Stays
  BY <1>1, <1>3 DEF Stays, SameRequests, Clock, NewTmp, NewsOrNone, Disk
<1>4. CASE Renames
  <2>1. Disk' = inode[tmp]
    BY <1>4 DEF Renames, Disk
  <2>2. NewsOrNone
    BY <1>4, <2>1 DEF Renames, NewTmp, NewsOrNone
  <2> QED
    BY <1>1, <1>4, <2>2 DEF Renames, SameRequests, Clock, NewTmp
<1>5. ASSUME NEW i, Writes(i)
      PROVE  Clock' /\ NewTmp' /\ NewsOrNone
  <2>1. \A j \in Inodes :
          \/ j # i /\ inode'[j] = inode[j]
          \/ j = i /\ inode'[j].time = now + 1
    BY <1>5 DEF Writes
  <2>2. now' = now + 1 /\ main' = main
    BY <1>5 DEF Writes
  <2>3. Clock'
    BY <1>1, <1>2, <2>1, <2>2 DEF Clock, SameRequests
  <2>4. NewsOrNone
    BY <1>2, <2>1, <2>2 DEF NewsOrNone, Disk
  <2>5. NewTmp'
    <3> SUFFICES ASSUME tmp' # None
                 PROVE  /\ inode'[tmp'].time > 0
                        /\ inode'[tmp'].time # Disk'.time
                        /\ inode'[tmp'].time # mark'
                        /\ \A t \in Clients :
                             inode'[tmp'].time # req'[t].seen
      BY DEF NewTmp
    <3>1. tmp' # main /\ tmp' \in Inodes
      BY <1>2, <1>5, <2>2 DEF Names
    <3>2. CASE tmp' = i
      <4>1. inode'[tmp'].time = now + 1 /\ Disk' = Disk
        BY <2>1, <2>2, <1>2, <3>1, <3>2 DEF Disk
      <4>2. Disk.time <= now
        BY <1>2 DEF Disk
      <4> QED
        BY <1>1, <1>2, <4>1, <4>2 DEF SameRequests, Disk
    <3>3. CASE tmp' # i
      <4>1. tmp' = tmp /\ inode'[tmp'] = inode[tmp]
        BY <1>5, <2>1, <3>1, <3>3 DEF Writes
      <4>2. Disk' = Disk \/ Disk'.time = now + 1
        BY <1>2, <2>1, <2>2 DEF Disk
      <4> QED
        BY <1>1, <1>2, <4>1, <4>2, <3>1 DEF SameRequests, NewTmp
    <3> QED
      BY <3>2, <3>3
  <2> QED
    BY <2>3, <2>4, <2>5
<1>6. StoreNext
  BY DEF Write
<1> QED
  BY <1>3, <1>4, <1>5, <1>6, StoreEffect DEF TypeOK

-----------------------------------------------------------------------------
(* Types                                                                   *)

LEMMA InitTypes == Init => TypeOK
<1> SUFFICES ASSUME Init PROVE TypeOK
  OBVIOUS
<1>1. StoreTypeOK
  BY StoreInitTypes DEF Init
<1>2. Disk \in Configuration
  BY <1>1, InodeNames
     DEF Init, StoreInit, StoreTypeOK, Disk, Configuration, Readable
<1>3. NoReq \in ReqState
  BY DEF NoReq, ReqState
<1> QED
  BY <1>1, <1>2, <1>3, ReloadAssumption DEF Init, TypeOK

LEMMA RequestTypes ==
  ASSUME TypeOK, NEW t \in Clients, Knows(t),
         Open(t) \/ Close(t) \/ Arrive(t) \/ RequestStep(t)
  PROVE  TypeOK'
<1>a. /\ req \in [Clients -> ReqState] /\ req[t] \in ReqState
      /\ NoReq \in ReqState
      /\ Disk \in Text /\ Disk.time \in Nat
  BY DEF TypeOK, StoreTypeOK, Disk, Text, NoReq, ReqState
<1>b. UNCHANGED storeVars
  BY DEF RequestStep, Open, Close, Arrive, Stat, Compare, LoadConfig, Assign,
         Mark, Route, Status, Judge
<1>c. StoreTypeOK'
  BY <1>b DEF TypeOK, StoreTypeOK, storeVars
<1>1. CASE Open(t) \/ Close(t)
  BY <1>c, <1>1 DEF Open, Close, TypeOK
<1>2. CASE Arrive(t)
  <2>1. [req[t] EXCEPT !.pc = "stat", !.since = {Disk}] \in ReqState
    BY <1>a DEF ReqState
  <2>2. req' \in [Clients -> ReqState]
    BY <1>a, <1>2, <2>1 DEF Arrive
  <2>3. requests' \in 0..MaxRequests
    BY <1>2, ReloadAssumption DEF Arrive, TypeOK
  <2> QED
    BY <1>c, <1>2, <2>2, <2>3 DEF Arrive, TypeOK
<1>3. CASE Stat(t)
  <2>1. [req[t] EXCEPT !.pc = "compare", !.seen = Disk.time] \in ReqState
    BY <1>a DEF ReqState
  <2>2. req' \in [Clients -> ReqState]
    BY <1>a, <1>3, <2>1 DEF Stat
  <2> QED
    BY <1>c, <1>3, <2>2 DEF Stat, TypeOK
<1>4. CASE Compare(t)
  <2>1. \A pc \in {"load", "route"} : [req[t] EXCEPT !.pc = pc] \in ReqState
    BY <1>a DEF ReqState
  <2>2. req' \in [Clients -> ReqState]
    BY <1>a, <1>4, <2>1 DEF Compare
  <2> QED
    BY <1>c, <1>4, <2>2 DEF Compare, TypeOK
<1>5. CASE LoadConfig(t)
  <2>1. Readable(Disk) =>
          [req[t] EXCEPT !.pc = "assign", !.copy = Disk] \in ReqState
    BY <1>a DEF ReqState, Configuration
  <2>2. [req[t] EXCEPT !.pc = "mark"] \in ReqState
    BY <1>a DEF ReqState
  <2>3. req' \in [Clients -> ReqState]
    BY <1>a, <1>5, <2>1, <2>2 DEF LoadConfig
  <2> QED
    BY <1>c, <1>5, <2>3 DEF LoadConfig, TypeOK
<1>6. CASE Assign(t)
  <2>1. [req[t] EXCEPT !.pc = "mark", !.copy = Closed] \in ReqState
    BY <1>a DEF ReqState
  <2>2. req' \in [Clients -> ReqState]
    BY <1>a, <1>6, <2>1 DEF Assign
  <2>3. req[t].copy \in Configuration
    BY <1>6 DEF Assign, Knows
  <2> QED
    BY <1>c, <1>6, <2>2, <2>3 DEF Assign, TypeOK
<1>7. CASE Mark(t)
  <2>1. [req[t] EXCEPT !.pc = "route"] \in ReqState
    BY <1>a DEF ReqState
  <2>2. req' \in [Clients -> ReqState] /\ req[t].seen \in Nat
    BY <1>a, <1>7, <2>1 DEF Mark, ReqState
  <2> QED
    BY <1>c, <1>7, <2>2 DEF Mark, TypeOK
<1>8. CASE Route(t)
  <2>1. [req[t] EXCEPT !.pc = "process", !.route = served] \in ReqState
    BY <1>a DEF ReqState, TypeOK
  <2>2. req' \in [Clients -> ReqState]
    BY <1>a, <1>8, <2>1 DEF Route
  <2> QED
    BY <1>c, <1>8, <2>2 DEF Route, TypeOK
<1>9. CASE Status(t) \/ Judge(t)
  <2>1. req' \in [Clients -> ReqState]
    BY <1>a, <1>9 DEF Status, Judge
  <2>2. verdict' \in Configuration \cup {Unjudged}
    BY <1>9 DEF Status, Judge, TypeOK, Unjudged
  <2> QED
    BY <1>c, <1>9, <2>1, <2>2 DEF Status, Judge, TypeOK
<1> QED
  BY <1>1, <1>2, <1>3, <1>4, <1>5, <1>6, <1>7, <1>8, <1>9 DEF RequestStep

LEMMA WriteTypes == TypeOK /\ Write => TypeOK'
<1> SUFFICES ASSUME TypeOK, Write PROVE TypeOK'
  OBVIOUS
<1>1. StoreTypeOK'
  BY StepStoreTypes DEF TypeOK, Write
<1>2. Disk' \in Text
  BY <1>1 DEF StoreTypeOK, Disk
<1>3. ASSUME NEW t \in Clients
      PROVE  [req[t] EXCEPT !.since = @ \cup {Disk'}] \in ReqState
  <2>1. req[t] \in ReqState
    BY DEF TypeOK
  <2>2. req[t].since \cup {Disk'} \in SUBSET Text
    BY <1>2, <2>1 DEF ReqState
  <2>3. [req[t] EXCEPT !.since = req[t].since \cup {Disk'}] \in ReqState
    BY <2>1, <2>2 DEF ReqState
  <2> QED
    BY <2>3
<1>4. req' \in [Clients -> ReqState]
  BY <1>3 DEF Write, TypeOK
<1> QED
  BY <1>1, <1>4 DEF Write, TypeOK

-----------------------------------------------------------------------------
(* The inductive invariant                                                 *)

LEMMA InitHInv == Init => HInv
<1> SUFFICES ASSUME Init PROVE HInv
  OBVIOUS
<1>1. TypeOK /\ Names
  BY InitTypes, InitNames DEF Init
<1>2. /\ \A t \in Clients : req[t] = NoReq
      /\ mark = 0 /\ served = Disk /\ tmp = None /\ now = 1
      /\ \A i \in Inodes : inode[i].time \in {0, 1}
  BY DEF Init, StoreInit
<1>3. Clock /\ NewTmp
  BY <1>2 DEF Clock, NewTmp, NoReq
<1>4. Alone /\ Truth /\ \A t \in Clients : Knows(t)
  BY <1>2 DEF Alone, Busy, Truth, Knows, NoReq
<1> QED
  BY <1>1, <1>3, <1>4 DEF HInv

LEMMA WriteKnows ==
  ASSUME HInv, Write, NewsOrNone, SameRequests
  PROVE  Alone' /\ Truth' /\ \A t \in Clients : Knows(t)'
<1> USE DEF HInv
<1>1. Alone'
  BY DEF Alone, Busy, SameRequests
<1>2. Truth'
  BY DEF Truth, NewsOrNone, SameRequests
<1>3. ASSUME NEW t \in Clients PROVE Knows(t)'
  <2>1. Knows(t)
    OBVIOUS
  <2>2. /\ req'[t].pc = req[t].pc /\ req'[t].seen = req[t].seen
        /\ req'[t].copy = req[t].copy
        /\ req[t].since \subseteq req'[t].since
        /\ Busy(t) => Disk' \in req'[t].since
        /\ mark' = mark /\ served' = served
    BY DEF SameRequests
  <2>3. Disk' = Disk \/ (Disk'.time # mark /\ Disk'.time # req[t].seen)
    BY DEF NewsOrNone
  <2>4. Busy(t)' = Busy(t)
    BY <2>2 DEF Busy
  <2> QED
    BY <2>1, <2>2, <2>3, <2>4 DEF Knows, Readable
<1> QED
  BY <1>1, <1>2, <1>3

\* A step of t's request leaves the file alone and finds nobody else busy.
LEMMA RequestAlone ==
  ASSUME HInv, NEW t \in Clients, RequestStep(t)
  PROVE  /\ UNCHANGED storeVars
         /\ Disk' = Disk
         /\ Busy(t)
         /\ \A u \in Clients \ {t} : ~ Busy(u) /\ req'[u] = req[u]
<1>1. UNCHANGED storeVars
  BY DEF RequestStep, Stat, Compare, LoadConfig, Assign, Mark, Route, Status,
         Judge
<1>2. Busy(t)
  BY DEF RequestStep, Stat, Compare, LoadConfig, Assign, Mark, Route, Status,
         Judge, Busy
<1>3. \A u \in Clients \ {t} : req'[u] = req[u]
  BY DEF HInv, TypeOK, RequestStep, Stat, Compare, LoadConfig, Assign, Mark,
         Route, Status, Judge
<1> QED
  BY <1>1, <1>2, <1>3 DEF HInv, Alone, storeVars, Disk

\* What the actions do to the request that takes them.
LEMMA RequestMoves ==
  ASSUME TypeOK, NEW t \in Clients
  PROVE  /\ Stat(t) => /\ req'[t].pc = "compare" /\ req'[t].seen = Disk.time
                       /\ req'[t].since = req[t].since
         /\ Compare(t) =>
              /\ req'[t].pc = IF req[t].seen # mark THEN "load" ELSE "route"
              /\ req'[t].since = req[t].since /\ req'[t].seen = req[t].seen
         /\ LoadConfig(t) =>
              /\ req'[t].since = req[t].since /\ req'[t].seen = req[t].seen
              /\ IF Readable(Disk)
                 THEN req'[t].pc = "assign" /\ req'[t].copy = Disk
                 ELSE req'[t].pc = "mark"
         /\ Assign(t) =>
              /\ req'[t].pc = "mark" /\ req'[t].seen = req[t].seen
              /\ req'[t].since = req[t].since
         /\ Mark(t) =>
              /\ req'[t].pc = "route" /\ req'[t].seen = req[t].seen
              /\ req'[t].since = req[t].since
         /\ Route(t) =>
              /\ req'[t].pc = "process" /\ req'[t].seen = req[t].seen
              /\ req'[t].since = req[t].since
<1>1. req[t] \in ReqState /\ req \in [Clients -> ReqState]
  BY DEF TypeOK
<1>2. ASSUME Stat(t)
      PROVE  /\ req'[t].pc = "compare" /\ req'[t].seen = Disk.time
             /\ req'[t].since = req[t].since
  <2>1. req'[t] = [req[t] EXCEPT !.pc = "compare", !.seen = Disk.time]
    BY <1>1, <1>2 DEF Stat
  <2> QED
    BY <1>1, <2>1 DEF ReqState
<1>3. ASSUME Compare(t)
      PROVE  /\ req'[t].pc = IF req[t].seen # mark THEN "load" ELSE "route"
             /\ req'[t].since = req[t].since /\ req'[t].seen = req[t].seen
  <2>1. req'[t] = [req[t] EXCEPT !.pc = IF req[t].seen # mark THEN "load"
                                                             ELSE "route"]
    BY <1>1, <1>3 DEF Compare
  <2> QED
    BY <1>1, <2>1 DEF ReqState
<1>4. ASSUME LoadConfig(t)
      PROVE  /\ req'[t].since = req[t].since /\ req'[t].seen = req[t].seen
             /\ IF Readable(Disk)
                THEN req'[t].pc = "assign" /\ req'[t].copy = Disk
                ELSE req'[t].pc = "mark"
  <2>1. CASE Readable(Disk)
    <3>1. req'[t] = [req[t] EXCEPT !.pc = "assign", !.copy = Disk]
      BY <1>1, <1>4, <2>1 DEF LoadConfig
    <3> QED
      BY <1>1, <2>1, <3>1 DEF ReqState
  <2>2. CASE ~ Readable(Disk)
    <3>1. req'[t] = [req[t] EXCEPT !.pc = "mark"]
      BY <1>1, <1>4, <2>2 DEF LoadConfig
    <3> QED
      BY <1>1, <2>2, <3>1 DEF ReqState
  <2> QED
    BY <2>1, <2>2
<1>5. ASSUME Assign(t)
      PROVE  /\ req'[t].pc = "mark" /\ req'[t].seen = req[t].seen
             /\ req'[t].since = req[t].since
  <2>1. req'[t] = [req[t] EXCEPT !.pc = "mark", !.copy = Closed]
    BY <1>1, <1>5 DEF Assign
  <2> QED
    BY <1>1, <2>1 DEF ReqState
<1>6. ASSUME Mark(t)
      PROVE  /\ req'[t].pc = "route" /\ req'[t].seen = req[t].seen
             /\ req'[t].since = req[t].since
  BY <1>1, <1>6 DEF Mark, ReqState
<1>7. ASSUME Route(t)
      PROVE  /\ req'[t].pc = "process" /\ req'[t].seen = req[t].seen
             /\ req'[t].since = req[t].since
  <2>1. req'[t] = [req[t] EXCEPT !.pc = "process", !.route = served]
    BY <1>1, <1>7 DEF Route
  <2> QED
    BY <1>1, <2>1 DEF ReqState
<1> QED
  BY <1>2, <1>3, <1>4, <1>5, <1>6, <1>7

LEMMA RequestClock ==
  ASSUME HInv, NEW t \in Clients,
         Open(t) \/ Close(t) \/ Arrive(t) \/ RequestStep(t)
  PROVE  Clock' /\ NewTmp'
<1>1. UNCHANGED storeVars /\ Disk' = Disk
  BY DEF RequestStep, Open, Close, Arrive, Stat, Compare, LoadConfig, Assign,
         Mark, Route, Status, Judge, Disk, storeVars
<1>2. mark' \in {mark, req[t].seen}
  BY DEF RequestStep, Open, Close, Arrive, Stat, Compare, LoadConfig, Assign,
         Mark, Route, Status, Judge
<1>3. \A u \in Clients : \/ req'[u].seen = req[u].seen
                          \/ req'[u].seen = Disk.time
                          \/ req'[u].seen = 0
  <2>1. req[t] \in ReqState /\ req \in [Clients -> ReqState]
    BY DEF HInv, TypeOK
  <2>2. CASE Open(t) \/ Close(t)
    BY <2>2 DEF Open, Close
  <2>3. CASE Arrive(t) \/ RequestStep(t)
    <3>1. \A u \in Clients \ {t} : req'[u] = req[u]
      BY <2>1, <2>3
         DEF RequestStep, Arrive, Stat, Compare, LoadConfig, Assign, Mark,
             Route, Status, Judge
    <3>2. CASE Arrive(t)
      BY <2>1, <3>1, <3>2 DEF Arrive, ReqState
    <3>3. CASE Stat(t)
      BY <3>1, <3>3, RequestMoves DEF HInv
    <3>4. CASE Compare(t) \/ LoadConfig(t) \/ Assign(t) \/ Mark(t) \/ Route(t)
      BY <3>1, <3>4, RequestMoves DEF HInv
    <3>5. CASE Status(t) \/ Judge(t)
      BY <3>1, <3>5, <2>1 DEF Status, Judge, NoReq
    <3> QED
      BY <2>3, <3>2, <3>3, <3>4, <3>5 DEF RequestStep
  <2> QED
    BY <2>2, <2>3
<1>4. /\ \A i \in Inodes : inode[i].time \in Nat
      /\ main \in Inodes /\ now \in Nat
      /\ tmp # None => inode[tmp].time > 0
  BY DEF HInv, TypeOK, StoreTypeOK, Text, NewTmp
<1>5. /\ Disk.time <= now /\ 0 <= now
      /\ tmp # None => inode[tmp].time # 0
  BY <1>4 DEF HInv, Clock, Disk, StoreTypeOK, TypeOK, Text
<1> QED
  BY <1>1, <1>2, <1>3, <1>5 DEF HInv, Clock, NewTmp, storeVars

LEMMA StepKnows ==
  ASSUME HInv, NEW t \in Clients, RequestStep(t)
  PROVE  Truth' /\ Knows(t)'
<1> USE DEF HInv
<1>1. Disk' = Disk /\ Busy(t) /\ \A u \in Clients \ {t} : req'[u].pc = "idle"
  BY RequestAlone DEF Busy
<1>2. Knows(t) /\ Disk \in req[t].since
  BY <1>1 DEF Knows
<1>3. CASE Stat(t)
  <2>1. /\ req'[t].pc = "compare" /\ req'[t].seen = Disk.time
        /\ req'[t].since = req[t].since
        /\ mark' = mark /\ served' = served
    BY <1>3, RequestMoves DEF Stat
  <2>2. \A u \in Clients : req[u].pc # "mark"
    BY <1>1, <1>3, RequestAlone DEF Stat, Busy
  <2>3. Readable(Disk) /\ mark = Disk.time => served = Disk
    BY <2>2 DEF Truth
  <2> QED
    BY <1>1, <1>2, <2>1, <2>3 DEF Truth, Knows, Busy, Readable
<1>4. CASE Compare(t)
  <2>1. /\ req'[t].pc = IF req[t].seen # mark THEN "load" ELSE "route"
        /\ req'[t].since = req[t].since /\ req'[t].seen = req[t].seen
        /\ mark' = mark /\ served' = served /\ req[t].pc = "compare"
    BY <1>4, RequestMoves DEF Compare
  <2>2. \A u \in Clients : req[u].pc # "mark"
    BY <1>1, <2>1, RequestAlone DEF Busy
  <2> QED
    BY <1>1, <1>2, <2>1, <2>2 DEF Truth, Knows, Busy, Readable
<1>5. CASE LoadConfig(t)
  <2>1. /\ req'[t].since = req[t].since /\ req'[t].seen = req[t].seen
        /\ IF Readable(Disk)
           THEN req'[t].pc = "assign" /\ req'[t].copy = Disk
           ELSE req'[t].pc = "mark"
        /\ mark' = mark /\ served' = served /\ req[t].pc = "load"
    BY <1>5, RequestMoves DEF LoadConfig
  <2>2. Disk \in Text
    BY DEF TypeOK, StoreTypeOK, Disk
  <2>3. mark # Disk.time
    BY <1>2, <2>1 DEF Knows
  <2> QED
    BY <1>1, <1>2, <2>1, <2>2, <2>3
       DEF Truth, Knows, Busy, Readable, Configuration
<1>6. CASE Assign(t)
  <2>1. /\ req'[t].pc = "mark" /\ req'[t].seen = req[t].seen
        /\ req'[t].since = req[t].since
        /\ mark' = mark /\ served' = req[t].copy /\ req[t].pc = "assign"
    BY <1>6, RequestMoves DEF Assign
  <2> QED
    BY <1>1, <1>2, <2>1 DEF Truth, Knows, Busy, Readable
<1>7. CASE Mark(t)
  <2>1. /\ req'[t].pc = "route" /\ req'[t].since = req[t].since
        /\ mark' = req[t].seen /\ served' = served /\ req[t].pc = "mark"
    BY <1>7, RequestMoves DEF Mark
  <2> QED
    BY <1>1, <1>2, <2>1 DEF Truth, Knows, Busy, Readable
<1>8. CASE Route(t) \/ Status(t) \/ Judge(t)
  <2>1. /\ \/ req'[t].pc = "process" /\ req'[t].since = req[t].since
           \/ req'[t].pc = "idle"
        /\ mark' = mark /\ served' = served
        /\ req[t].pc # "mark"
    <3>1. CASE Route(t)
      BY <3>1, RequestMoves DEF Route
    <3>2. CASE Status(t) \/ Judge(t)
      BY <3>2 DEF Status, Judge, NoReq, TypeOK
    <3> QED
      BY <1>8, <3>1, <3>2
  <2>2. \A u \in Clients : req[u].pc # "mark"
    BY <1>1, <2>1, RequestAlone DEF Busy
  <2> QED
    BY <1>1, <1>2, <2>1, <2>2 DEF Truth, Knows, Busy, Readable
<1> QED
  BY <1>3, <1>4, <1>5, <1>6, <1>7, <1>8 DEF RequestStep

LEMMA StepHInv ==
  ASSUME Overlap = FALSE
  PROVE  HInv /\ [Next]_vars => HInv'
<1> SUFFICES ASSUME HInv, [Next]_vars PROVE HInv'
  OBVIOUS
<1> USE DEF HInv
<1>1. CASE UNCHANGED vars
  BY <1>1
     DEF vars, storeVars, serverVars, TypeOK, StoreTypeOK, Names, Clock,
         NewTmp, Alone, Truth, Knows, Busy, Disk, Readable
<1>2. CASE Write
  <2>1. TypeOK' /\ Names'
    BY <1>2, WriteTypes, StepNames DEF Write, TypeOK
  <2>2. Clock' /\ NewTmp' /\ NewsOrNone /\ SameRequests
    BY <1>2, <2>1, WriteClock, WriteRequests
  <2> QED
    BY <1>2, <2>1, <2>2, WriteKnows
<1>3. ASSUME NEW t \in Clients,
             Open(t) \/ Close(t) \/ Arrive(t) \/ RequestStep(t)
      PROVE  HInv'
  <2>1. TypeOK'
    BY <1>3, RequestTypes
  <2>2. UNCHANGED storeVars /\ Disk' = Disk
    BY <1>3
       DEF RequestStep, Open, Close, Arrive, Stat, Compare, LoadConfig,
           Assign, Mark, Route, Status, Judge, Disk, storeVars
  <2>3. Names' /\ Clock' /\ NewTmp'
    BY <1>3, <2>2, RequestClock DEF Names, storeVars
  <2>4. CASE Open(t) \/ Close(t)
    <3>1. UNCHANGED <<served, mark, req>>
      BY <2>4 DEF Open, Close
    <3> QED
      BY <2>1, <2>2, <2>3, <3>1 DEF Alone, Truth, Knows, Busy, Readable
  <2>5. CASE Arrive(t)
    <3>1. \A u \in Clients : ~ Busy(u)
      BY <2>5 DEF Arrive
    <3>2. /\ req'[t].pc = "stat" /\ req'[t].since = {Disk}
          /\ \A u \in Clients \ {t} : req'[u] = req[u]
          /\ mark' = mark /\ served' = served
      <4>1. req[t] \in ReqState
        BY DEF TypeOK
      <4>2. req'[t] = [req[t] EXCEPT !.pc = "stat", !.since = {Disk}]
        BY <2>5 DEF Arrive, TypeOK
      <4>3. req'[t].pc = "stat" /\ req'[t].since = {Disk}
        BY <4>1, <4>2 DEF ReqState
      <4> QED
        BY <2>5, <4>3 DEF Arrive, TypeOK
    <3>3. Alone' /\ Truth'
      BY <2>2, <3>1, <3>2 DEF Alone, Truth, Busy, Readable
    <3>4. \A u \in Clients : Knows(u)'
      BY <2>2, <3>1, <3>2 DEF Knows, Busy
    <3> QED
      BY <2>1, <2>3, <3>3, <3>4
  <2>6. CASE RequestStep(t)
    <3>1. \A u \in Clients \ {t} : ~ Busy(u) /\ req'[u] = req[u]
      BY <2>6, RequestAlone
    <3>2. Alone'
      BY <3>1 DEF Alone, Busy
    <3>3. \A u \in Clients \ {t} : Knows(u)'
      BY <3>1 DEF Knows, Busy
    <3> QED
      BY <2>1, <2>3, <2>6, <3>2, <3>3, StepKnows
  <2> QED
    BY <1>3, <2>4, <2>5, <2>6
<1> QED
  BY <1>1, <1>2, <1>3 DEF Next

\* The server's state keeps its shape, and server.cfg is always something
\* that could be read, when requests come one at a time.
THEOREM ServerTypes ==
  ASSUME Overlap = FALSE
  PROVE  Spec => []TypeOK
<1>1. HInv => TypeOK
  BY DEF HInv
<1> QED
  BY InitHInv, StepHInv, <1>1, PTL DEF Spec

\* With requests one at a time, a recorded time that is the file's means
\* that nothing has changed (server.py:233-239), whoever writes the file and
\* wherever between the request's own steps.
THEOREM TrueMark ==
  ASSUME Overlap = FALSE
  PROVE  Spec => []MarkIsTrue
<1>1. HInv => MarkIsTrue
  BY DEF HInv, Truth, MarkIsTrue, Settled
<1> QED
  BY InitHInv, StepHInv, <1>1, PTL DEF Spec

\* With requests one at a time, every request is routed by a configuration
\* of its own time, or the file was broken meanwhile.
THEOREM Freshness ==
  ASSUME Overlap = FALSE
  PROVE  Spec => FreshRoute
<1>1. HInv /\ [Next]_vars =>
        [\A t \in Clients :
           Route(t) => \E text \in req[t].since :
                          served = text \/ ~ Readable(text)]_vars
  BY DEF HInv, Knows, Route
<1> QED
  BY InitHInv, StepHInv, <1>1, PTL DEF Spec, FreshRoute
=============================================================================
