--------------------------- MODULE TakeoverProofs ---------------------------
(***************************************************************************)
(* Proofs about Takeover, for any harnesses, tools, upstreams, services    *)
(* and commands, with edits, crashes and commands at any moment.           *)
(*                                                                         *)
(* None of the three properties is inductive by itself.  Types and         *)
(* snapshots need to know that a process that is between two writes for    *)
(* one harness works on a harness, and that the address it is about to     *)
(* absorb is still the provider's address it observed (Cursors).  That the *)
(* lock and the critical section agree needs to know that a service        *)
(* reconciles only while its start is at that point (OneRole), so that no  *)
(* start, exit or kill puts a process into or out of the section unseen.   *)
(*                                                                         *)
(* The second part assumes Serial, that commands follow one another, and   *)
(* proves what only holds then.  It needs to know which two processes may  *)
(* be active together and whom the pid file names meanwhile (Places), that *)
(* what a start or a reconciliation has read is still what is there        *)
(* (Seen), that an absorbed address keeps a relay (Relayed), and that the  *)
(* record a stop restores from leads to where the tool pointed             *)
(* (Recoverable).                                                          *)
(***************************************************************************)
EXTENDS Takeover, TLAPS

\* Between two writes for one harness, a start knows which one it is, and so
\* does a reconciliation, which also has the provider's address to absorb.
BootCursor(s) ==
  boot[s].pc \in {"snapshot", "rewrite"} => boot[s].at \in Harnesses

RecCursor(p) ==
  rec[p].pc \in {"relay", "adopt"} =>
    rec[p].at \in Harnesses /\ rec[p].cur[rec[p].at] \in Upstreams

Cursors ==
  /\ \A s \in Services : BootCursor(s)
  /\ \A p \in Procs : RecCursor(p)

\* A service process is inside reconcile() only at that point of its start.
OneRole ==
  \A s \in Services : rec[s].pc # "idle" => boot[s].pc = "reconcile"

IInv ==
  /\ TypeOK
  /\ Cursors
  /\ OneRole
  /\ LockDiscipline
  /\ SnapshotNeverOurs

USE DEF wired, files, flags, ghosts

-----------------------------------------------------------------------------
(* What the idle states and the file operations leave behind.              *)

LEMMA IdleTypes ==
  /\ Off \in BootState
  /\ NotRec \in RecState
  /\ NotStop \in StopState
  /\ NoCfg \in Relays
BY DEF Off, NotRec, NotStop, NoCfg, BootState, RecState, StopState, Relays,
       Content, NoUrl, NoFile, None

\* Changes of a process's record.
LEMMA RecMoves ==
  ASSUME NEW r \in RecState,
         NEW pc \in {"idle", "wait", "act", "relay", "adopt", "restart",
                     "port"}
  PROVE  [r EXCEPT !.pc = pc] \in RecState
BY DEF RecState

LEMMA RecTurns ==
  ASSUME NEW r \in RecState, NEW h \in Harnesses
  PROVE  [r EXCEPT !.pc = "relay", !.at = h] \in RecState
BY DEF RecState

LEMMA RecHandles ==
  ASSUME NEW r \in RecState, NEW h, NEW acted \in BOOLEAN,
         NEW restart \in BOOLEAN
  PROVE  [r EXCEPT !.pc = "act", !.at = None, !.todo = r.todo \ {h},
                   !.acted = r.acted \/ acted,
                   !.restart = r.restart \/ restart] \in RecState
<1>1. /\ r.todo \ {h} \in SUBSET Harnesses
      /\ (r.acted \/ acted) \in BOOLEAN
      /\ (r.restart \/ restart) \in BOOLEAN
  BY DEF RecState
<1> QED
  BY <1>1 DEF RecState

LEMMA BootMoves ==
  ASSUME NEW b \in BootState,
         NEW pc \in {"off", "begin", "activate", "wire", "snapshot", "rewrite",
                     "intent", "reconcile", "listen", "up"}
  PROVE  [b EXCEPT !.pc = pc] \in BootState
BY DEF BootState

LEMMA TakeOverTypes ==
  ASSUME TypeOK, NEW H, NEW P, TakeOver(H, P)
  PROVE  /\ live' \in [Harnesses -> Content \cup {NoFile}]
         /\ catalog' \in [Codex -> {"text", "image"}]
         /\ catBak' \in [Codex -> BOOLEAN]
BY DEF TypeOK, TakeOver, Content

LEMMA GiveBackTypes ==
  ASSUME TypeOK, NEW H, NEW to,
         \A h \in Harnesses \cap H : to[h] \in Content \cup {NoFile},
         GiveBack(H, to)
  PROVE  /\ live' \in [Harnesses -> Content \cup {NoFile}]
         /\ bak' \in [Harnesses -> Content \cup {None}]
         /\ absorbed' \in [Harnesses -> BOOLEAN]
BY DEF TypeOK, GiveBack

LEMMA RestoreCatalogTypes ==
  ASSUME TypeOK, NEW H, RestoreCatalog(H)
  PROVE  /\ catalog' \in [Codex -> {"text", "image"}]
         /\ catBak' \in [Codex -> BOOLEAN]
BY DEF TypeOK, RestoreCatalog

LEMMA RecDoneTypes ==
  ASSUME TypeOK, NEW p \in Procs, RecDone(p)
  PROVE  /\ rec' \in [Procs -> RecState]
         /\ boot' \in [Services -> BootState]
         /\ cfg' \in [Procs -> Relays]
<1>1. rec' \in [Procs -> RecState]
  BY IdleTypes DEF TypeOK, RecDone
<1>2. CASE p \in Services
  <2>1. boot' = [boot EXCEPT ![p].pc = "listen"] /\ cfg' = cfg
    BY <1>2 DEF RecDone
  <2>2. boot \in [Services -> BootState] /\ cfg \in [Procs -> Relays]
    BY DEF TypeOK
  <2>3. [boot[p] EXCEPT !.pc = "listen"] \in BootState
    BY <1>2, <2>2, BootMoves
  <2>4. boot' \in [Services -> BootState]
    BY <2>1, <2>2, <2>3
  <2> QED
    BY <1>1, <2>1, <2>2, <2>4
<1>3. CASE p \notin Services
  <2>1. boot' = boot /\ cfg' = [cfg EXCEPT ![p] = NoCfg]
    BY <1>3 DEF RecDone
  <2> QED
    BY <1>1, <2>1, IdleTypes DEF TypeOK
<1> QED
  BY <1>2, <1>3

LEMMA DiesTypes ==
  ASSUME TypeOK, NEW s \in Services, Dies(s)
  PROVE  /\ boot' \in [Services -> BootState]
         /\ rec' \in [Procs -> RecState]
         /\ cfg' \in [Procs -> Relays]
         /\ lock' \in Procs \cup {Free}
         /\ pidFile' \in Services \cup {None, Stale}
BY IdleTypes DEF TypeOK, Dies, Procs

-----------------------------------------------------------------------------
(* Type correctness, action by action.                                     *)

LEMMA StartTypes ==
  ASSUME TypeOK, NEW s \in Services, Start(s) \/ Interrupt(s) \/ StartStep(s)
  PROVE  TypeOK'
<1> s \in Procs
  BY DEF Procs
<1>a. /\ boot \in [Services -> BootState]
      /\ rec \in [Procs -> RecState]
      /\ cfg \in [Procs -> Relays]
      /\ direct \in Relays
  BY DEF TypeOK
<1>1. CASE Start(s)
  <2>1. boot' \in [Services -> BootState]
    BY <1>a, <1>1 DEF Start, BootState
  <2>2. cfg' \in [Procs -> Relays]
    BY <1>a, <1>1 DEF Start
  <2> QED
    BY <1>1, <2>1, <2>2 DEF Start, TypeOK
<1>2. CASE StartRefused(s)
  BY <1>2, IdleTypes DEF StartRefused, TypeOK
<1>3. CASE StartBegins(s)
  <2>1. boot' \in [Services -> BootState]
    BY <1>a, <1>3 DEF StartBegins, BootState
  <2> QED
    BY <1>3, <2>1 DEF StartBegins, TypeOK
<1>4. CASE RelaysActivate(s)
  <2>1. boot' \in [Services -> BootState]
    <3>1. [boot[s] EXCEPT !.pc = "wire", !.todo = Harnesses] \in BootState
      BY <1>a DEF BootState
    <3>2. boot' = [boot EXCEPT ![s] =
                     [boot[s] EXCEPT !.pc = "wire", !.todo = Harnesses]]
      BY <1>4 DEF RelaysActivate
    <3> QED
      BY <1>a, <3>1, <3>2
  <2>2. direct' \in Relays
    BY <1>4 DEF RelaysActivate, TypeOK
  <2> QED
    BY <1>4, <2>1, <2>2 DEF RelaysActivate, TypeOK
<1>5. ASSUME NEW h \in Harnesses, WireSkip(s, h) PROVE TypeOK'
  <2>1. boot' \in [Services -> BootState]
    BY <1>a, <1>5 DEF WireSkip, BootState
  <2> QED
    BY <1>5, <2>1 DEF WireSkip, TypeOK
<1>6. ASSUME NEW h \in Harnesses, WireBackup(s, h) PROVE TypeOK'
  <2>1. live[h] \in Content
    BY <1>6 DEF WireBackup, TypeOK
  <2>2. boot' \in [Services -> BootState]
    <3>1. [boot[s] EXCEPT !.pc = "snapshot", !.at = h,
                          !.original = live[h]] \in BootState
      BY <1>a, <2>1 DEF BootState
    <3> QED
      BY <1>a, <1>6, <3>1 DEF WireBackup
  <2>3. bak' \in [Harnesses -> Content \cup {None}]
    BY <1>6, <2>1 DEF WireBackup, TypeOK
  <2> QED
    BY <1>6, <2>2, <2>3 DEF WireBackup, TypeOK
<1>7. CASE WireSnapshot(s)
  <2>1. boot[s].original \in Content
    BY DEF BootState, TypeOK
  <2>2. boot' \in [Services -> BootState]
    BY <1>a, <1>7 DEF WireSnapshot, BootState
  <2>3. snap' \in [Harnesses -> Content \cup {None}]
    BY <1>7, <2>1 DEF WireSnapshot, TypeOK
  <2> QED
    BY <1>7, <2>2, <2>3 DEF WireSnapshot, TypeOK
<1>8. CASE WireRewrite(s)
  <2>1. boot' \in [Services -> BootState]
    <3>1. [boot[s] EXCEPT !.pc = "wire", !.todo = boot[s].todo \ {boot[s].at},
                          !.at = None, !.original = NoUrl] \in BootState
      BY <1>a DEF BootState, Content
    <3> QED
      BY <1>a, <1>8, <3>1 DEF WireRewrite
  <2>2. TakeOver({boot[s].at}, {boot[s].at})
    BY <1>8 DEF WireRewrite, TypeOK
  <2> QED
    BY <1>8, <2>1, <2>2, TakeOverTypes DEF WireRewrite, TypeOK
<1>9. CASE WritePid(s)
  <2>1. boot' \in [Services -> BootState]
    BY <1>a, <1>9 DEF WritePid, BootState
  <2> QED
    BY <1>9, <2>1 DEF WritePid, TypeOK
<1>10. CASE StartIntent(s)
  <2>1. boot' \in [Services -> BootState]
    BY <1>a, <1>10 DEF StartIntent, BootState
  <2>2. rec' \in [Procs -> RecState]
    <3>1. rec' = [rec EXCEPT ![s] = [@ EXCEPT !.pc = "wait"]]
      BY <1>10 DEF StartIntent
    <3>2. [rec[s] EXCEPT !.pc = "wait"] \in RecState
      BY <1>a DEF RecState
    <3> QED
      BY <1>a, <3>1, <3>2
  <2> QED
    BY <1>10, <2>1, <2>2 DEF StartIntent, TypeOK
<1>11. CASE Listen(s)
  <2>1. boot' \in [Services -> BootState]
    <3>1. [boot[s] EXCEPT !.pc = "up"] \in BootState
      BY <1>a DEF BootState
    <3>2. CASE Serving = {}
      BY <1>a, <1>11, <3>1, <3>2 DEF Listen
    <3>3. CASE Serving # {}
      BY <1>a, <1>11, <3>3, IdleTypes DEF Listen
    <3> QED
      BY <3>2, <3>3
  <2>2. cfg' \in [Procs -> Relays]
    BY <1>a, <1>11, IdleTypes DEF Listen
  <2> QED
    BY <1>11, <2>1, <2>2 DEF Listen, TypeOK
<1>12. CASE Interrupt(s)
  BY <1>12, IdleTypes DEF Interrupt, TypeOK
<1> QED
  BY <1>1, <1>2, <1>3, <1>4, <1>5, <1>6, <1>7, <1>8, <1>9, <1>10, <1>11, <1>12
     DEF StartStep

LEMMA HandledTypes ==
  ASSUME TypeOK, NEW p \in Procs, NEW h, NEW acted \in BOOLEAN,
         NEW restart \in BOOLEAN, Handled(p, h, acted, restart)
  PROVE  rec' \in [Procs -> RecState]
<1>1. rec \in [Procs -> RecState]
  BY DEF TypeOK
<1>2. [rec[p] EXCEPT !.pc = "act", !.at = None,
                     !.todo = rec[p].todo \ {h},
                     !.acted = rec[p].acted \/ acted,
                     !.restart = rec[p].restart \/ restart] \in RecState
  BY <1>1, RecHandles
<1> QED
  BY <1>1, <1>2 DEF Handled

LEMMA RecTypes ==
  ASSUME TypeOK, Cursors, NEW p \in Procs, RecStep(p)
  PROVE  TypeOK'
<1>a. /\ boot \in [Services -> BootState]
      /\ rec \in [Procs -> RecState]
      /\ cfg \in [Procs -> Relays]
      /\ direct \in Relays
      /\ live \in [Harnesses -> Content \cup {NoFile}]
  BY DEF TypeOK
<1>r. rec[p] \in RecState
  BY <1>a
<1>1. CASE RecTimeout(p)
  BY <1>1, RecDoneTypes DEF RecTimeout, TypeOK
<1>2. CASE Observe(p)
  <2>1. ServiceAlive \in BOOLEAN /\ intent \in BOOLEAN
    BY DEF ServiceAlive, TypeOK
  <2>2. [NotRec EXCEPT !.pc = "act", !.todo = Harnesses, !.cur = live,
                       !.alive = ServiceAlive, !.on = intent] \in RecState
    BY <1>a, <2>1, IdleTypes DEF RecState
  <2>3. rec' \in [Procs -> RecState]
    BY <1>a, <1>2, <2>2 DEF Observe
  <2> QED
    BY <1>2, <2>3 DEF Observe, TypeOK
<1>3. ASSUME NEW h \in Harnesses, KeepOurs(p, h) PROVE TypeOK'
  <2> DEFINE stale == snap[h] \in Tools /\ cfg[p][h] # None
  <2>1. rec' \in [Procs -> RecState]
    <3>1. Handled(p, h, stale, FALSE)
      BY <1>3 DEF KeepOurs
    <3> QED
      BY <3>1, HandledTypes
  <2>2. cfg' \in [Procs -> Relays]
    <3>1. [cfg[p] EXCEPT ![h] = IF stale THEN None ELSE cfg[p][h]] \in Relays
      BY <1>a DEF Relays
    <3>2. cfg' = [cfg EXCEPT ![p] =
                    [cfg[p] EXCEPT ![h] = IF stale THEN None ELSE cfg[p][h]]]
      BY <1>3 DEF KeepOurs
    <3> QED
      BY <1>a, <3>1, <3>2
  <2> QED
    BY <1>3, <2>1, <2>2 DEF KeepOurs, TypeOK
<1>4. ASSUME NEW h \in Harnesses, Reclaim(p, h) PROVE TypeOK'
  <2>1. Handled(p, h, live[h] # NoFile, FALSE) /\ TakeOver({h}, {})
    BY <1>4 DEF Reclaim
  <2>2. rec' \in [Procs -> RecState]
    BY <2>1, HandledTypes
  <2> QED
    BY <1>4, <2>1, <2>2, TakeOverTypes DEF Reclaim, TypeOK
<1>5. ASSUME NEW h \in Harnesses, NoConfigFile(p, h) PROVE TypeOK'
  BY <1>5, HandledTypes DEF NoConfigFile, TypeOK
<1>6. ASSUME NEW h \in Harnesses, AbsorbSnapshot(p, h) PROVE TypeOK'
  <2>1. [rec[p] EXCEPT !.pc = "relay", !.at = h] \in RecState
    BY <1>a, RecTurns
  <2>2. rec' \in [Procs -> RecState]
    BY <1>6, <1>a, <2>1 DEF AbsorbSnapshot
  <2>3. snap' \in [Harnesses -> Content \cup {None}]
    BY <1>6 DEF AbsorbSnapshot, TypeOK, Content, Foreign
  <2> QED
    BY <1>6, <2>2, <2>3 DEF AbsorbSnapshot, TypeOK
<1>7. ASSUME NEW h \in Harnesses,
             ZombieRestart(p, h) \/ ZombieUnresolved(p, h) \/ LeaveAlone(p, h)
      PROVE  TypeOK'
  BY <1>7, HandledTypes
     DEF ZombieRestart, ZombieUnresolved, LeaveAlone, TypeOK
<1>8. ASSUME NEW h \in Harnesses, ZombieRestore(p, h) PROVE TypeOK'
  <2> DEFINE H == {g \in Harnesses : live[g] = Ours /\ snap[g] # None}
  <2>1. /\ Handled(p, h, TRUE, FALSE)
        /\ RestoreCatalog(H)
        /\ GiveBack(H, snap)
    BY <1>8 DEF ZombieRestore
  <2>2. \A g \in Harnesses \cap H : snap[g] \in Content \cup {NoFile}
    BY DEF TypeOK
  <2>3. rec' \in [Procs -> RecState]
    BY <2>1, HandledTypes
  <2>4. /\ live' \in [Harnesses -> Content \cup {NoFile}]
        /\ bak' \in [Harnesses -> Content \cup {None}]
        /\ absorbed' \in [Harnesses -> BOOLEAN]
    BY <2>1, <2>2, GiveBackTypes
  <2>5. /\ catalog' \in [Codex -> {"text", "image"}]
        /\ catBak' \in [Codex -> BOOLEAN]
    BY <2>1, RestoreCatalogTypes
  <2> QED
    BY <1>8, <2>3, <2>4, <2>5 DEF ZombieRestore, TypeOK
<1>9. CASE RecFinish(p)
  <2>1. direct' \in Relays
    BY <1>a, <1>9 DEF RecFinish
  <2>2. [rec[p] EXCEPT !.pc = "restart"] \in RecState
    BY <1>r, RecMoves
  <2>3. /\ rec' \in [Procs -> RecState]
        /\ boot' \in [Services -> BootState]
        /\ cfg' \in [Procs -> Relays]
    BY <1>a, <1>9, <2>2, RecDoneTypes DEF RecFinish
  <2> QED
    BY <1>9, <2>1, <2>3 DEF RecFinish, TypeOK
<1>10. ASSUME NEW s \in Services, RestartService(p, s) PROVE TypeOK'
  <2>1. [rec[p] EXCEPT !.pc = "port"] \in RecState
    BY <1>r, RecMoves
  <2>2. rec' \in [Procs -> RecState]
    BY <1>a, <1>10, <2>1 DEF RestartService
  <2>3. boot' \in [Services -> BootState]
    <3>1. [boot[s] EXCEPT !.pc = "begin"] \in BootState
      BY <1>a, BootMoves
    <3>2. boot' = [boot EXCEPT ![s].pc = "begin"]
      BY <1>10 DEF RestartService
    <3> QED
      BY <1>a, <3>1, <3>2
  <2>4. cfg' \in [Procs -> Relays]
    BY <1>a, <1>10 DEF RestartService
  <2> QED
    BY <1>10, <2>2, <2>3, <2>4 DEF RestartService, TypeOK
<1>11. CASE RestartFails(p) \/ PortWaitEnds(p)
  BY <1>11, RecDoneTypes DEF RestartFails, PortWaitEnds, TypeOK
<1>12. CASE AbsorbRelay(p)
  <2> DEFINE h == rec[p].at
             to == rec[p].cur[h]
  <2>1. h \in Harnesses /\ to \in Upstreams
    BY <1>12 DEF AbsorbRelay, Cursors, RecCursor
  <2>2. [cfg[p] EXCEPT ![h] = to] \in Relays
    BY <1>a, <2>1 DEF Relays
  <2>3. cfg' = [cfg EXCEPT ![p] = [cfg[p] EXCEPT ![h] = to]]
    BY <1>12 DEF AbsorbRelay
  <2>4. cfg' \in [Procs -> Relays] /\ direct' \in Relays
    BY <1>a, <1>12, <2>2, <2>3 DEF AbsorbRelay
  <2>5. [rec[p] EXCEPT !.pc = "adopt"] \in RecState
    BY <1>r, RecMoves
  <2>6. rec' \in [Procs -> RecState]
    BY <1>a, <1>12, <2>5 DEF AbsorbRelay
  <2> QED
    BY <1>12, <2>4, <2>6 DEF AbsorbRelay, TypeOK
<1>13. CASE AbsorbAdopt(p)
  <2> DEFINE h == rec[p].at
  <2>1. Handled(p, h, TRUE, FALSE) /\ TakeOver({h}, {h})
    BY <1>13 DEF AbsorbAdopt
  <2>2. rec' \in [Procs -> RecState]
    BY <2>1, HandledTypes
  <2>3. absorbed' \in [Harnesses -> BOOLEAN]
    BY <1>13 DEF AbsorbAdopt, TypeOK
  <2> QED
    BY <1>13, <2>1, <2>2, <2>3, TakeOverTypes DEF AbsorbAdopt, TypeOK
<1> QED
  BY <1>1, <1>2, <1>3, <1>4, <1>5, <1>6, <1>7, <1>8, <1>9, <1>10, <1>11, <1>12,
     <1>13
     DEF RecStep

LEMMA StopTypes ==
  ASSUME TypeOK, StopStep \/ StopNotRunning \/ StopTerminate \/ CrashStop
  PROVE  TypeOK'
<1>1. CASE StopUnlink
  BY <1>1 DEF StopUnlink, TypeOK, StopState
<1>2. ASSUME NEW h \in Harnesses, StopRestore(h) PROVE TypeOK'
  <2> DEFINE to == IF stp.snaps[h] # None THEN stp.snaps[h] ELSE bak[h]
             H == IF live[h] = Ours /\ to # None THEN {h} ELSE {}
             C == IF live[h] = Ours THEN {h} ELSE {}
  <2>1. to \in Content \cup {None}
    BY DEF TypeOK, StopState
  <2>2. \A g \in Harnesses \cap H :
          [k \in Harnesses |-> to][g] \in Content \cup {NoFile}
    BY <2>1
  <2>3. RestoreCatalog(C) /\ GiveBack(H, [g \in Harnesses |-> to])
    BY <1>2 DEF StopRestore
  <2>4. /\ live' \in [Harnesses -> Content \cup {NoFile}]
        /\ bak' \in [Harnesses -> Content \cup {None}]
        /\ absorbed' \in [Harnesses -> BOOLEAN]
    BY <2>2, <2>3, GiveBackTypes
  <2>5. /\ catalog' \in [Codex -> {"text", "image"}]
        /\ catBak' \in [Codex -> BOOLEAN]
    BY <2>3, RestoreCatalogTypes
  <2>6. stp' \in StopState
    BY <1>2 DEF StopRestore, TypeOK, StopState
  <2> QED
    BY <1>2, <2>4, <2>5, <2>6 DEF StopRestore, TypeOK
<1>3. CASE StopRelays
  <2>1. stp' \in StopState /\ direct' \in Relays
    BY <1>3, IdleTypes DEF StopRelays, TypeOK, StopState
  <2> QED
    BY <1>3, <2>1 DEF StopRelays, TypeOK
<1>4. CASE StopIntent \/ StopNotRunning \/ CrashStop
  BY <1>4, IdleTypes DEF StopIntent, StopNotRunning, CrashStop, TypeOK
<1>5. CASE StopTerminate
  <2>1. pidFile \in Services /\ Dies(pidFile)
    BY <1>5 DEF StopTerminate
  <2>2. stp' \in StopState
    BY <1>5 DEF StopTerminate, TypeOK, StopState
  <2> QED
    BY <1>5, <2>1, <2>2, DiesTypes DEF StopTerminate, TypeOK
<1> QED
  BY <1>1, <1>2, <1>3, <1>4, <1>5 DEF StopStep

LEMMA WorldTypes ==
  ASSUME TypeOK,
         \/ \E s \in Services : CrashService(s)
         \/ \E c \in Commands : Refresh(c) \/ CrashCommand(c)
         \/ \E h \in Harnesses :
              \/ \E v \in EditValues : UserEdit(h, v)
              \/ \E t \in Tools : ToolEdit(h, t)
  PROVE  TypeOK'
<1>1. ASSUME NEW s \in Services, CrashService(s) PROVE TypeOK'
  BY <1>1, DiesTypes DEF CrashService, TypeOK
<1>2. ASSUME NEW c \in Commands, Refresh(c) PROVE TypeOK'
  <2>1. /\ c \in Procs
        /\ rec \in [Procs -> RecState]
    BY DEF Procs, TypeOK
  <2>2. [rec[c] EXCEPT !.pc = "wait"] \in RecState
    BY <2>1 DEF RecState
  <2>3. rec' \in [Procs -> RecState]
    BY <1>2, <2>1, <2>2 DEF Refresh
  <2>4. cfg' \in [Procs -> Relays]
    BY <1>2 DEF Refresh, TypeOK
  <2> QED
    BY <1>2, <2>3, <2>4 DEF Refresh, TypeOK
<1>3. ASSUME NEW c \in Commands, CrashCommand(c) PROVE TypeOK'
  <2>1. /\ rec' \in [Procs -> RecState]
        /\ cfg' \in [Procs -> Relays]
    BY <1>3, IdleTypes DEF CrashCommand, TypeOK
  <2> QED
    BY <1>3, <2>1 DEF CrashCommand, TypeOK
<1>4. ASSUME NEW h \in Harnesses, NEW v \in EditValues, UserEdit(h, v)
      PROVE  TypeOK'
  <2>1. v \in Content \cup {NoFile}
    BY TakeoverAssumption DEF Content
  <2> QED
    BY <1>4, <2>1 DEF UserEdit, TypeOK
<1>5. ASSUME NEW h \in Harnesses, NEW t \in Tools, ToolEdit(h, t)
      PROVE  TypeOK'
  <2>1. t \in Content
    BY DEF Content, Foreign
  <2> QED
    BY <1>5, <2>1 DEF ToolEdit, TypeOK
<1> QED
  BY <1>1, <1>2, <1>3, <1>4, <1>5

LEMMA StepTypes ==
  ASSUME TypeOK, Cursors, [Next]_vars
  PROVE  TypeOK'
<1>1. CASE Next
  BY <1>1, StartTypes, RecTypes, StopTypes, WorldTypes DEF Next, Outside
<1>2. CASE UNCHANGED vars
  BY <1>2 DEF vars, TypeOK
<1> QED
  BY <1>1, <1>2

-----------------------------------------------------------------------------
(* The lock, the critical section and the place of a reconciliation in a   *)
(* start.  The first two lemmas say what a step does to them.              *)

\* A step of cmd_start is taken outside its reconcile() and touches nobody
\* else's place; only the last step before reconcile() enters it.
LEMMA StartFrame ==
  ASSUME TypeOK, NEW s \in Services, Start(s) \/ Interrupt(s) \/ StartStep(s)
  PROVE  /\ boot[s].pc # "reconcile"
         /\ lock' = lock
         /\ \A r \in Services \ {s} : boot'[r] = boot[r]
         /\ \/ rec' = rec
            \/ /\ \A q \in Procs \ {s} : rec'[q] = rec[q]
               /\ rec'[s].pc = "wait"
               /\ boot'[s].pc = "reconcile"
<1>a. /\ boot \in [Services -> BootState]
      /\ rec \in [Procs -> RecState]
      /\ s \in Procs
  BY DEF TypeOK, Procs
<1>1. CASE Start(s) \/ StartRefused(s) \/ StartBegins(s) \/ RelaysActivate(s)
  BY <1>1, <1>a DEF Start, StartRefused, StartBegins, RelaysActivate
<1>2. CASE \E h \in Harnesses : WireSkip(s, h) \/ WireBackup(s, h)
  BY <1>2, <1>a DEF WireSkip, WireBackup
<1>3. CASE WireSnapshot(s) \/ WireRewrite(s) \/ WritePid(s)
  BY <1>3, <1>a DEF WireSnapshot, WireRewrite, WritePid
<1>4. CASE StartIntent(s)
  <2>1. /\ boot' = [boot EXCEPT ![s] = [boot[s] EXCEPT !.pc = "reconcile"]]
        /\ rec' = [rec EXCEPT ![s] = [rec[s] EXCEPT !.pc = "wait"]]
    BY <1>4 DEF StartIntent
  <2>2. /\ [boot[s] EXCEPT !.pc = "reconcile"].pc = "reconcile"
        /\ [rec[s] EXCEPT !.pc = "wait"].pc = "wait"
    BY <1>a DEF BootState, RecState
  <2> QED
    BY <1>4, <1>a, <2>1, <2>2 DEF StartIntent
<1>5. CASE Listen(s) \/ Interrupt(s)
  BY <1>5, <1>a DEF Listen, Interrupt
<1> QED
  BY <1>1, <1>2, <1>3, <1>4, <1>5 DEF StartStep

\* A step of p's reconcile() leaves the others' alone; the lock changes
\* hands exactly where p enters or leaves the section.
LEMMA RecFrame ==
  ASSUME TypeOK, NEW p \in Procs, RecStep(p)
  PROVE  /\ rec[p].pc # "idle"
         /\ \A q \in Procs \ {p} : rec'[q] = rec[q]
         /\ \A s \in Services : \/ boot'[s] = boot[s]
                                \/ /\ s = p /\ rec'[p].pc = "idle"
                                   /\ boot'[s].pc = "listen"
                                \/ /\ boot[s].pc = "off"
                                   /\ boot'[s].pc = "begin"
         /\ \/ lock' = lock /\ (InLock(p)' <=> InLock(p))
            \/ lock = Free /\ lock' = p /\ ~ InLock(p) /\ InLock(p)'
            \/ lock' = Free /\ InLock(p) /\ ~ InLock(p)'
<1>a. /\ boot \in [Services -> BootState]
      /\ rec \in [Procs -> RecState]
  BY DEF TypeOK
<1>b. ASSUME RecDone(p)
      PROVE  /\ \A q \in Procs \ {p} : rec'[q] = rec[q]
             /\ rec'[p].pc = "idle"
             /\ \A s \in Services : \/ boot'[s] = boot[s]
                                    \/ s = p /\ boot'[s].pc = "listen"
  <2>1. CASE p \in Services
    <3>1. [boot[p] EXCEPT !.pc = "listen"].pc = "listen"
      BY <1>a, <2>1 DEF BootState
    <3> QED
      BY <1>a, <1>b, <2>1, <3>1 DEF RecDone, NotRec
  <2>2. CASE p \notin Services
    BY <1>a, <1>b, <2>2 DEF RecDone, NotRec
  <2> QED
    BY <2>1, <2>2
<1>c. ASSUME NEW h, NEW acted, NEW restart, Handled(p, h, acted, restart)
      PROVE  /\ \A q \in Procs \ {p} : rec'[q] = rec[q]
             /\ rec'[p].pc = "act"
  <2>1. [rec[p] EXCEPT !.pc = "act", !.at = None,
                       !.todo = rec[p].todo \ {h},
                       !.acted = rec[p].acted \/ acted,
                       !.restart = rec[p].restart \/ restart].pc = "act"
    BY <1>a DEF RecState
  <2> QED
    BY <1>a, <1>c, <2>1 DEF Handled
<1>1. CASE RecTimeout(p) \/ RestartFails(p) \/ PortWaitEnds(p)
  BY <1>1, <1>b DEF RecTimeout, RestartFails, PortWaitEnds, InLock
<1>2. CASE Observe(p)
  <2>1. [NotRec EXCEPT !.pc = "act", !.todo = Harnesses, !.cur = live,
                       !.alive = ServiceAlive, !.on = intent].pc = "act"
    BY DEF NotRec
  <2> QED
    BY <1>2, <1>a, <2>1 DEF Observe, InLock
<1>3. ASSUME NEW h \in Harnesses,
             \/ KeepOurs(p, h) \/ Reclaim(p, h) \/ NoConfigFile(p, h)
             \/ ZombieRestart(p, h) \/ ZombieRestore(p, h)
             \/ ZombieUnresolved(p, h) \/ LeaveAlone(p, h)
      PROVE  /\ rec[p].pc = "act"
             /\ \A q \in Procs \ {p} : rec'[q] = rec[q]
             /\ rec'[p].pc = "act"
             /\ boot' = boot /\ lock' = lock
  BY <1>3, <1>c DEF KeepOurs, Reclaim, NoConfigFile, ZombieRestart,
     ZombieRestore, ZombieUnresolved, LeaveAlone, Reaches
<1>4. ASSUME NEW h \in Harnesses, AbsorbSnapshot(p, h)
      PROVE  /\ rec[p].pc = "act"
             /\ \A q \in Procs \ {p} : rec'[q] = rec[q]
             /\ rec'[p].pc = "relay"
             /\ boot' = boot /\ lock' = lock
  <2>1. [rec[p] EXCEPT !.pc = "relay", !.at = h].pc = "relay"
    BY <1>a DEF RecState
  <2> QED
    BY <1>4, <1>a, <2>1 DEF AbsorbSnapshot, Reaches
<1>5. CASE AbsorbRelay(p)
  <2>1. [rec[p] EXCEPT !.pc = "adopt"].pc = "adopt"
    BY <1>a DEF RecState
  <2> QED
    BY <1>5, <1>a, <2>1 DEF AbsorbRelay, InLock
<1>6. CASE AbsorbAdopt(p)
  BY <1>6, <1>c DEF AbsorbAdopt, InLock
<1>7. CASE RecFinish(p)
  <2>1. [rec[p] EXCEPT !.pc = "restart"].pc = "restart"
    BY <1>a DEF RecState
  <2>2. CASE rec[p].restart
    BY <1>7, <1>a, <2>1, <2>2 DEF RecFinish, InLock
  <2>3. CASE ~ rec[p].restart
    BY <1>7, <1>b, <2>3 DEF RecFinish, InLock
  <2> QED
    BY <2>2, <2>3
<1>8. ASSUME NEW s \in Services, RestartService(p, s)
      PROVE  /\ rec[p].pc = "restart"
             /\ \A q \in Procs \ {p} : rec'[q] = rec[q]
             /\ rec'[p].pc = "port"
             /\ \A r \in Services :
                  \/ boot'[r] = boot[r]
                  \/ boot[r].pc = "off" /\ boot'[r].pc = "begin"
             /\ lock' = lock
  <2>1. /\ [rec[p] EXCEPT !.pc = "port"].pc = "port"
        /\ [boot[s] EXCEPT !.pc = "begin"].pc = "begin"
    BY <1>a DEF RecState, BootState
  <2> QED
    BY <1>8, <1>a, <2>1 DEF RestartService
<1> QED
  BY <1>1, <1>2, <1>3, <1>4, <1>5, <1>6, <1>7, <1>8 DEF RecStep, InLock

\* Death and the commands of the user touch one place only, and free the
\* lock of whoever dies inside the section.
LEMMA WorldFrame ==
  ASSUME TypeOK, StopStep \/ Outside,
         \A s \in Services : ~ Start(s) /\ ~ Interrupt(s)
  PROVE  \/ rec' = rec /\ boot' = boot /\ lock' = lock
         \/ \E p \in Procs :
              /\ \A q \in Procs \ {p} : rec'[q] = rec[q]
              /\ \A s \in Services : \/ boot'[s] = boot[s]
                                     \/ s = p /\ boot'[s].pc = "off"
              /\ ~ InLock(p)'
              /\ \/ rec'[p].pc = "idle" /\ lock' = IF lock = p THEN Free
                                                   ELSE lock
                 \/ p \notin Services /\ rec[p].pc = "idle" /\ lock' = lock
<1>a. /\ boot \in [Services -> BootState]
      /\ rec \in [Procs -> RecState]
      /\ Services \subseteq Procs /\ Commands \subseteq Procs
      /\ \A c \in Commands : c \notin Services
  BY TakeoverAssumption DEF TypeOK, Procs
<1>b. ASSUME NEW s \in Services, Dies(s)
      PROVE  /\ \A q \in Procs \ {s} : rec'[q] = rec[q]
             /\ \A r \in Services \ {s} : boot'[r] = boot[r]
             /\ rec'[s].pc = "idle" /\ boot'[s].pc = "off"
             /\ lock' = IF lock = s THEN Free ELSE lock
  BY <1>a, <1>b DEF Dies, NotRec, Off
<1>1. CASE StopStep \/ StopNotRunning \/ CrashStop
  BY <1>1 DEF StopStep, StopUnlink, StopRestore, StopRelays, StopIntent,
     StopNotRunning, CrashStop
<1>2. CASE StopTerminate
  BY <1>2, <1>a, <1>b DEF StopTerminate, InLock
<1>3. ASSUME NEW s \in Services, CrashService(s) PROVE Dies(s)
  BY <1>3 DEF CrashService
<1>4. ASSUME NEW c \in Commands, CrashCommand(c)
      PROVE  /\ \A q \in Procs \ {c} : rec'[q] = rec[q]
             /\ boot' = boot
             /\ rec'[c].pc = "idle"
             /\ lock' = IF lock = c THEN Free ELSE lock
  BY <1>4, <1>a DEF CrashCommand, NotRec
<1>5. ASSUME NEW c \in Commands, Refresh(c)
      PROVE  /\ \A q \in Procs \ {c} : rec'[q] = rec[q]
             /\ boot' = boot /\ lock' = lock
             /\ rec[c].pc = "idle" /\ rec'[c].pc = "wait"
  <2>1. [rec[c] EXCEPT !.pc = "wait"].pc = "wait"
    BY <1>a DEF RecState
  <2> QED
    BY <1>5, <1>a, <2>1 DEF Refresh
<1>6. CASE \E h \in Harnesses : \/ \E v \in EditValues : UserEdit(h, v)
                                \/ \E t \in Tools : ToolEdit(h, t)
  BY <1>6 DEF UserEdit, ToolEdit
<1>7. CASE \E s \in Services : CrashService(s)
  BY <1>7, <1>3, <1>a, <1>b DEF InLock
<1>8. CASE \E c \in Commands : Refresh(c) \/ CrashCommand(c)
  BY <1>8, <1>4, <1>5, <1>a DEF InLock
<1> QED
  BY <1>1, <1>2, <1>6, <1>7, <1>8 DEF Outside

LEMMA StepOneRole ==
  ASSUME TypeOK, OneRole, [Next]_vars
  PROVE  OneRole'
<1> SUFFICES ASSUME NEW r \in Services, rec'[r].pc # "idle"
             PROVE  boot'[r].pc = "reconcile"
  BY DEF OneRole
<1>a. r \in Procs
  BY DEF Procs
<1>1. ASSUME NEW s \in Services, Start(s) \/ Interrupt(s) \/ StartStep(s)
      PROVE  boot'[r].pc = "reconcile"
  BY <1>1, <1>a, StartFrame DEF OneRole
<1>2. ASSUME NEW p \in Procs, RecStep(p) PROVE boot'[r].pc = "reconcile"
  BY <1>2, <1>a, RecFrame DEF OneRole
<1>3. CASE /\ StopStep \/ Outside
           /\ \A s \in Services : ~ Start(s) /\ ~ Interrupt(s)
  BY <1>3, <1>a, WorldFrame DEF OneRole
<1>4. CASE UNCHANGED vars
  BY <1>4 DEF vars, OneRole
<1> QED
  BY <1>1, <1>2, <1>3, <1>4 DEF Next

LEMMA StepLock ==
  ASSUME TypeOK, OneRole, LockDiscipline, [Next]_vars
  PROVE  LockDiscipline'
<1>a. Services \subseteq Procs /\ Free \notin Procs
  BY TakeoverAssumption DEF Procs
<1>b. \A p \in Procs : InLock(p) <=> lock = p
  BY DEF LockDiscipline
<1> SUFFICES ASSUME NEW q \in Procs PROVE InLock(q)' <=> lock' = q
  BY DEF LockDiscipline
<1>1. ASSUME NEW s \in Services, Start(s) \/ Interrupt(s) \/ StartStep(s)
      PROVE  InLock(q)' <=> lock' = q
  <2>1. lock' = lock /\ ~ InLock(s)
    BY <1>1, StartFrame DEF OneRole, InLock
  <2>2. \/ rec' = rec
        \/ (\A p \in Procs \ {s} : rec'[p] = rec[p]) /\ rec'[s].pc = "wait"
    BY <1>1, StartFrame
  <2>3. InLock(q)' <=> InLock(q)
    BY <1>a, <2>1, <2>2 DEF InLock
  <2> QED
    BY <1>b, <2>1, <2>3
<1>2. ASSUME NEW p \in Procs, RecStep(p) PROVE InLock(q)' <=> lock' = q
  <2>1. CASE q = p
    BY <1>2, <1>a, <1>b, <2>1, RecFrame
  <2>2. CASE q # p
    <3>1. InLock(q)' <=> InLock(q)
      BY <1>2, <2>2, RecFrame DEF InLock
    <3> QED
      BY <1>2, <1>a, <1>b, <2>2, <3>1, RecFrame
  <2> QED
    BY <2>1, <2>2
<1>3. CASE /\ StopStep \/ Outside
           /\ \A s \in Services : ~ Start(s) /\ ~ Interrupt(s)
  <2>1. CASE rec' = rec /\ boot' = boot /\ lock' = lock
    BY <1>b, <2>1 DEF InLock
  <2>2. ASSUME NEW p \in Procs,
               \A k \in Procs \ {p} : rec'[k] = rec[k],
               ~ InLock(p)',
               \/ lock' = IF lock = p THEN Free ELSE lock
               \/ rec[p].pc = "idle" /\ lock' = lock
        PROVE  InLock(q)' <=> lock' = q
    <3>1. CASE q = p
      BY <1>a, <1>b, <2>2, <3>1 DEF InLock
    <3>2. CASE q # p
      BY <1>a, <1>b, <2>2, <3>2 DEF InLock
    <3> QED
      BY <3>1, <3>2
  <2> QED
    BY <1>3, <2>1, <2>2, WorldFrame
<1>4. CASE UNCHANGED vars
  BY <1>4, <1>b DEF vars, InLock
<1> QED
  BY <1>1, <1>2, <1>3, <1>4 DEF Next

-----------------------------------------------------------------------------
(* The harness and the address a process works on between two writes.      *)

LEMMA StartCursor ==
  ASSUME TypeOK, NEW s \in Services, BootCursor(s),
         Start(s) \/ Interrupt(s) \/ StartStep(s)
  PROVE  BootCursor(s)'
<1>a. boot \in [Services -> BootState]
  BY DEF TypeOK
<1>b. ASSUME NEW pc, pc \notin {"snapshot", "rewrite"},
             boot' = [boot EXCEPT ![s] = [boot[s] EXCEPT !.pc = pc]]
      PROVE  BootCursor(s)'
  <2>1. [boot[s] EXCEPT !.pc = pc].pc = pc
    BY <1>a DEF BootState
  <2> QED
    BY <1>a, <1>b, <2>1 DEF BootCursor
<1>1. CASE Start(s) \/ StartBegins(s) \/ WritePid(s) \/ StartIntent(s)
  BY <1>1, <1>b DEF Start, StartBegins, WritePid, StartIntent
<1>2. CASE StartRefused(s) \/ Interrupt(s)
  BY <1>2, <1>a DEF StartRefused, Interrupt, Off, BootCursor
<1>3. CASE RelaysActivate(s)
  <2>1. [boot[s] EXCEPT !.pc = "wire", !.todo = Harnesses].pc = "wire"
    BY <1>a DEF BootState
  <2> QED
    BY <1>3, <1>a, <2>1 DEF RelaysActivate, BootCursor
<1>4. ASSUME NEW h \in Harnesses, WireSkip(s, h) PROVE BootCursor(s)'
  <2>1. [boot[s] EXCEPT !.todo = boot[s].todo \ {h}].pc = boot[s].pc
    BY <1>a DEF BootState
  <2> QED
    BY <1>4, <1>a, <2>1 DEF WireSkip, BootCursor
<1>5. ASSUME NEW h \in Harnesses, WireBackup(s, h) PROVE BootCursor(s)'
  <2>1. [boot[s] EXCEPT !.pc = "snapshot", !.at = h,
                        !.original = live[h]].at = h
    BY <1>a DEF BootState
  <2> QED
    BY <1>5, <1>a, <2>1 DEF WireBackup, BootCursor
<1>6. CASE WireSnapshot(s)
  <2>1. [boot[s] EXCEPT !.pc = "rewrite"].at = boot[s].at
    BY <1>a DEF BootState
  <2> QED
    BY <1>6, <1>a, <2>1 DEF WireSnapshot, BootCursor
<1>7. CASE WireRewrite(s)
  <2>1. [boot[s] EXCEPT !.pc = "wire", !.todo = boot[s].todo \ {boot[s].at},
                        !.at = None, !.original = NoUrl].pc = "wire"
    BY <1>a DEF BootState
  <2> QED
    BY <1>7, <1>a, <2>1 DEF WireRewrite, BootCursor
<1>8. CASE Listen(s)
  <2>1. CASE Serving = {}
    BY <1>8, <1>b, <2>1 DEF Listen
  <2>2. CASE Serving # {}
    BY <1>8, <1>a, <2>2 DEF Listen, Off, BootCursor
  <2> QED
    BY <2>1, <2>2
<1> QED
  BY <1>1, <1>2, <1>3, <1>4, <1>5, <1>6, <1>7, <1>8 DEF StartStep

LEMMA RecCursorStep ==
  ASSUME TypeOK, NEW p \in Procs, RecCursor(p), RecStep(p)
  PROVE  RecCursor(p)'
<1>a. rec \in [Procs -> RecState]
  BY DEF TypeOK
<1>b. ASSUME rec' = [rec EXCEPT ![p] = NotRec] PROVE RecCursor(p)'
  BY <1>a, <1>b DEF NotRec, RecCursor
<1>c. ASSUME NEW h, NEW acted, NEW restart, Handled(p, h, acted, restart)
      PROVE  RecCursor(p)'
  <2>1. [rec[p] EXCEPT !.pc = "act", !.at = None,
                       !.todo = rec[p].todo \ {h},
                       !.acted = rec[p].acted \/ acted,
                       !.restart = rec[p].restart \/ restart].pc = "act"
    BY <1>a DEF RecState
  <2> QED
    BY <1>a, <1>c, <2>1 DEF Handled, RecCursor
<1>1. CASE RecTimeout(p) \/ RestartFails(p) \/ PortWaitEnds(p)
  BY <1>1, <1>b DEF RecTimeout, RestartFails, PortWaitEnds, RecDone
<1>2. CASE Observe(p)
  <2>1. [NotRec EXCEPT !.pc = "act", !.todo = Harnesses, !.cur = live,
                       !.alive = ServiceAlive, !.on = intent].pc = "act"
    BY DEF NotRec
  <2> QED
    BY <1>2, <1>a, <2>1 DEF Observe, RecCursor
<1>3. ASSUME NEW h \in Harnesses,
             \/ KeepOurs(p, h) \/ Reclaim(p, h) \/ NoConfigFile(p, h)
             \/ ZombieRestart(p, h) \/ ZombieRestore(p, h)
             \/ ZombieUnresolved(p, h) \/ LeaveAlone(p, h)
      PROVE  RecCursor(p)'
  BY <1>3, <1>c DEF KeepOurs, Reclaim, NoConfigFile, ZombieRestart,
     ZombieRestore, ZombieUnresolved, LeaveAlone
<1>4. ASSUME NEW h \in Harnesses, AbsorbSnapshot(p, h) PROVE RecCursor(p)'
  <2>1. /\ [rec[p] EXCEPT !.pc = "relay", !.at = h].at = h
        /\ [rec[p] EXCEPT !.pc = "relay", !.at = h].cur = rec[p].cur
    BY <1>a DEF RecState
  <2> QED
    BY <1>4, <1>a, <2>1 DEF AbsorbSnapshot, RecCursor
<1>5. CASE AbsorbRelay(p)
  <2>1. /\ [rec[p] EXCEPT !.pc = "adopt"].at = rec[p].at
        /\ [rec[p] EXCEPT !.pc = "adopt"].cur = rec[p].cur
    BY <1>a DEF RecState
  <2> QED
    BY <1>5, <1>a, <2>1 DEF AbsorbRelay, RecCursor
<1>6. CASE AbsorbAdopt(p)
  BY <1>6, <1>c DEF AbsorbAdopt
<1>7. CASE RecFinish(p)
  <2>1. [rec[p] EXCEPT !.pc = "restart"].pc = "restart"
    BY <1>a DEF RecState
  <2>2. CASE rec[p].restart
    BY <1>7, <1>a, <2>1, <2>2 DEF RecFinish, RecCursor
  <2>3. CASE ~ rec[p].restart
    BY <1>7, <1>b, <2>3 DEF RecFinish, RecDone
  <2> QED
    BY <2>2, <2>3
<1>8. ASSUME NEW s \in Services, RestartService(p, s) PROVE RecCursor(p)'
  <2>1. [rec[p] EXCEPT !.pc = "port"].pc = "port"
    BY <1>a DEF RecState
  <2> QED
    BY <1>8, <1>a, <2>1 DEF RestartService, RecCursor
<1> QED
  BY <1>1, <1>2, <1>3, <1>4, <1>5, <1>6, <1>7, <1>8 DEF RecStep

LEMMA StepCursors ==
  ASSUME TypeOK, Cursors, [Next]_vars
  PROVE  Cursors'
<1>a. /\ Services \subseteq Procs
      /\ boot \in [Services -> BootState]
      /\ rec \in [Procs -> RecState]
  BY DEF TypeOK, Procs
<1>b. (\A s \in Services : BootCursor(s)) /\ (\A p \in Procs : RecCursor(p))
  BY DEF Cursors
<1>1. ASSUME NEW s \in Services, Start(s) \/ Interrupt(s) \/ StartStep(s)
      PROVE  Cursors'
  <2>1. ASSUME NEW r \in Services PROVE BootCursor(r)'
    BY <1>1, <1>b, <2>1, StartFrame, StartCursor DEF BootCursor
  <2>2. ASSUME NEW p \in Procs PROVE RecCursor(p)'
    BY <1>1, <1>b, <2>2, StartFrame DEF RecCursor
  <2> QED
    BY <2>1, <2>2 DEF Cursors
<1>2. ASSUME NEW p \in Procs, RecStep(p) PROVE Cursors'
  <2>1. ASSUME NEW q \in Procs PROVE RecCursor(q)'
    BY <1>2, <1>b, <2>1, RecFrame, RecCursorStep DEF RecCursor
  <2>2. ASSUME NEW r \in Services PROVE BootCursor(r)'
    BY <1>2, <1>b, <2>2, RecFrame DEF BootCursor
  <2> QED
    BY <2>1, <2>2 DEF Cursors
<1>3. CASE /\ StopStep \/ Outside
           /\ \A s \in Services : ~ Start(s) /\ ~ Interrupt(s)
  <2>1. ASSUME NEW r \in Services PROVE BootCursor(r)'
    BY <1>3, <1>b, <2>1, WorldFrame DEF BootCursor
  <2>2. ASSUME NEW q \in Procs PROVE RecCursor(q)'
    BY <1>3, <1>b, <2>2, WorldFrame DEF RecCursor, InLock
  <2> QED
    BY <2>1, <2>2 DEF Cursors
<1>4. CASE UNCHANGED vars
  BY <1>4, <1>b DEF vars, Cursors, BootCursor, RecCursor
<1> QED
  BY <1>1, <1>2, <1>3, <1>4 DEF Next

-----------------------------------------------------------------------------
(* The snapshots.                                                          *)

LEMMA StepSnapshots ==
  ASSUME TypeOK, Cursors, SnapshotNeverOurs, [Next]_vars
  PROVE  SnapshotNeverOurs'
<1>a. /\ boot \in [Services -> BootState]
      /\ rec \in [Procs -> RecState]
      /\ snap \in [Harnesses -> Content \cup {None}]
      /\ stp \in StopState
  BY DEF TypeOK
<1> DEFINE Good(f) == \A h \in Harnesses : f[h] \in Foreign \cup {None}
<1>b. Good(snap) /\ Good(stp.snaps)
  BY DEF SnapshotNeverOurs
<1> SUFFICES Good(snap') /\ Good(stp'.snaps)
  BY DEF SnapshotNeverOurs
<1>1. ASSUME NEW s \in Services, WireSnapshot(s)
      PROVE  Good(snap') /\ stp' = stp
  <2>1. boot[s].original \in Content
    BY <1>a DEF BootState
  <2> QED
    BY <1>1, <1>a, <1>b, <2>1 DEF WireSnapshot, Content
<1>2. ASSUME NEW s \in Services, Start(s) \/ Interrupt(s) \/ StartStep(s),
             ~ WireSnapshot(s)
      PROVE  snap' = snap /\ stp' = stp
  BY <1>2 DEF Start, Interrupt, StartStep, StartRefused, StartBegins,
     RelaysActivate, WireSkip, WireBackup, WireRewrite, WritePid, StartIntent,
     Listen
<1>3. ASSUME NEW p \in Procs, NEW h \in Harnesses, AbsorbSnapshot(p, h)
      PROVE  Good(snap') /\ stp' = stp
  BY <1>3, <1>a, <1>b DEF AbsorbSnapshot, Foreign
<1>4. ASSUME NEW p \in Procs, RecStep(p),
             \A h \in Harnesses : ~ AbsorbSnapshot(p, h)
      PROVE  snap' = snap /\ stp' = stp
  BY <1>4 DEF RecStep, RecTimeout, Observe, KeepOurs, Reclaim, NoConfigFile,
     ZombieRestart, ZombieRestore, ZombieUnresolved, LeaveAlone, AbsorbRelay,
     AbsorbAdopt, RecFinish, RestartService, RestartFails, PortWaitEnds
<1>5. CASE StopUnlink
  BY <1>5, <1>b DEF StopUnlink
<1>6. CASE StopRelays \/ StopIntent \/ CrashStop
  <2>1. snap' = snap
    BY <1>6 DEF StopRelays, StopIntent, CrashStop
  <2>2. stp'.snaps = NotStop.snaps
    BY <1>6 DEF StopRelays, StopIntent, CrashStop, NotStop
  <2> QED
    BY <1>b, <2>1, <2>2 DEF NotStop
<1>7. CASE StopTerminate \/ \E h \in Harnesses : StopRestore(h)
  <2>1. snap' = snap /\ stp'.snaps = stp.snaps
    BY <1>7, <1>a DEF StopTerminate, StopRestore, StopState
  <2> QED
    BY <1>b, <2>1
<1>8. CASE \/ StopNotRunning
           \/ \E s \in Services : CrashService(s)
           \/ \E c \in Commands : Refresh(c) \/ CrashCommand(c)
           \/ \E h \in Harnesses :
                \/ \E v \in EditValues : UserEdit(h, v)
                \/ \E t \in Tools : ToolEdit(h, t)
           \/ UNCHANGED vars
  <2>1. snap' = snap /\ stp' = stp
    BY <1>8 DEF StopNotRunning, CrashService, Refresh, CrashCommand, UserEdit,
       ToolEdit, vars
  <2> QED
    BY <1>b, <2>1
<1> QED
  BY <1>b, <1>1, <1>2, <1>3, <1>4, <1>5, <1>6, <1>7, <1>8
     DEF Next, StopStep, Outside

-----------------------------------------------------------------------------
(* The theorems.                                                           *)

LEMMA InitIInv == Init => IInv
<1> SUFFICES ASSUME Init PROVE IInv
  OBVIOUS
<1>1. TypeOK
  <2>1. /\ live \in [Harnesses -> Content \cup {NoFile}]
        /\ orig = live
    BY TakeoverAssumption DEF Init, Content
  <2>2. /\ boot \in [Services -> BootState]
        /\ rec \in [Procs -> RecState]
        /\ stp \in StopState
        /\ direct \in Relays
        /\ cfg \in [Procs -> Relays]
    BY IdleTypes DEF Init, NoCfg
  <2> QED
    BY <2>1, <2>2 DEF Init, TypeOK
<1>2. Cursors
  BY DEF Init, Cursors, BootCursor, RecCursor, Off, NotRec
<1>3. OneRole
  BY DEF Init, OneRole, NotRec, Procs
<1>4. LockDiscipline
  BY TakeoverAssumption DEF Init, LockDiscipline, InLock, NotRec
<1>5. SnapshotNeverOurs
  BY DEF Init, SnapshotNeverOurs, NotStop
<1> QED
  BY <1>1, <1>2, <1>3, <1>4, <1>5 DEF IInv

LEMMA StepIInv == IInv /\ [Next]_vars => IInv'
<1> SUFFICES ASSUME IInv, [Next]_vars PROVE IInv'
  OBVIOUS
<1> QED
  BY StepTypes, StepCursors, StepOneRole, StepLock, StepSnapshots DEF IInv

\* The inductive invariant holds in every behaviour.
THEOREM Invariance == Spec => []IInv
<1> QED
  BY InitIInv, StepIInv, PTL DEF Spec

\* The state of every process, file and record keeps its shape
\* (cli_lifecycle.py, wiring_orchestrate.py, reconcile.py).
THEOREM Types == Spec => []TypeOK
<1>1. IInv => TypeOK
  BY DEF IInv
<1> QED
  BY Invariance, <1>1, PTL

\* No process reconciles without config_lock, none has it outside, and a
\* process that waits for a restarted service has left it
\* (reconcile.py:253-381), whatever dies or is killed meanwhile.
THEOREM Discipline == Spec => []LockDiscipline
<1>1. IInv => LockDiscipline
  BY DEF IInv
<1> QED
  BY Invariance, <1>1, PTL

\* No snapshot, on disk or loaded by a stop, ever records our own address,
\* though start writes snapshots without the lock reconcile() holds.
THEOREM Snapshots == Spec => []SnapshotNeverOurs
<1>1. IInv => SnapshotNeverOurs
  BY DEF IInv
<1> QED
  BY Invariance, <1>1, PTL

-----------------------------------------------------------------------------
(* Commands that follow one another.                                       *)
(* From here on Serial is assumed: no command and no edit begins while     *)
(* another command runs.  Crashes stay possible between any two steps.     *)

Starting(s) == boot[s].pc \notin {"off", "up"}

\* At most one command is under way.  A start and another command overlap
\* only where a reconciliation has restarted the service and waits for its
\* port, which it does without touching anything; a start never waits so.
Solo ==
  /\ \A s, r \in Services : Starting(s) /\ Starting(r) => s = r
  /\ \A c, d \in Commands :
       rec[c].pc # "idle" /\ rec[d].pc # "idle" => c = d
  /\ \A c \in Commands, s \in Services :
       rec[c].pc # "idle" /\ Starting(s) => rec[c].pc = "port"
  /\ \A s \in Services : rec[s].pc # "port"
  /\ stp.pc # "idle" =>
       /\ \A s \in Services : ~ Starting(s)
       /\ \A p \in Procs : rec[p].pc = "idle"

\* From the moment it is written, the pid file names the process that starts
\* or serves.  It names nobody while a start wires the files, while a
\* reconciliation works that found the service dead or is to restart it,
\* and while a stop restores.
Ports ==
  /\ \A s \in Services :
       /\ boot[s].pc \in {"intent", "reconcile", "listen", "up"} =>
            pidFile = s
       /\ boot[s].pc \in {"activate", "wire", "snapshot", "rewrite"} =>
            pidFile \notin Services
  /\ \A p \in Procs :
       /\ rec[p].restart => ~ rec[p].alive
       /\ InLock(p) /\ ~ rec[p].alive => pidFile \notin Services
       /\ rec[p].pc = "restart" => pidFile \notin Services
  /\ stp.pc # "idle" => pidFile \notin Services

-----------------------------------------------------------------------------
(* What each step leaves in the record of its process.                     *)

\* The record of a start after each of its steps.
LEMMA BootFields ==
  ASSUME TypeOK, NEW s \in Services
  PROVE  /\ Start(s) => boot'[s].pc = "begin"
         /\ StartRefused(s) \/ Interrupt(s) => boot'[s].pc = "off"
         /\ StartBegins(s) => boot'[s].pc = "activate"
         /\ RelaysActivate(s) =>
              boot'[s].pc = "wire" /\ boot'[s].todo = Harnesses
         /\ \A h \in Harnesses :
              /\ WireSkip(s, h) =>
                   /\ boot'[s].pc = "wire"
                   /\ boot'[s].todo = boot[s].todo \ {h}
              /\ WireBackup(s, h) =>
                   /\ boot'[s].pc = "snapshot" /\ boot'[s].at = h
                   /\ boot'[s].original = live[h]
                   /\ boot'[s].todo = boot[s].todo
         /\ WireSnapshot(s) =>
              /\ boot'[s].pc = "rewrite" /\ boot'[s].at = boot[s].at
              /\ boot'[s].todo = boot[s].todo
         /\ WireRewrite(s) =>
              /\ boot'[s].pc = "wire"
              /\ boot'[s].todo = boot[s].todo \ {boot[s].at}
         /\ WritePid(s) => boot'[s].pc = "intent"
         /\ StartIntent(s) => boot'[s].pc = "reconcile"
         /\ Listen(s) =>
              boot'[s].pc = IF Serving = {} THEN "up" ELSE "off"
<1>a. boot \in [Services -> BootState]
  BY DEF TypeOK
<1>1. Start(s) => boot'[s].pc = "begin"
  BY <1>a DEF Start, BootState
<1>2. StartRefused(s) \/ Interrupt(s) => boot'[s].pc = "off"
  BY <1>a DEF StartRefused, Interrupt, Off
<1>3. StartBegins(s) => boot'[s].pc = "activate"
  BY <1>a DEF StartBegins, BootState
<1>4. RelaysActivate(s) => boot'[s].pc = "wire" /\ boot'[s].todo = Harnesses
  <2>1. /\ [boot[s] EXCEPT !.pc = "wire", !.todo = Harnesses].pc = "wire"
        /\ [boot[s] EXCEPT !.pc = "wire", !.todo = Harnesses].todo = Harnesses
    BY <1>a DEF BootState
  <2> QED
    BY <1>a, <2>1 DEF RelaysActivate
<1>5. ASSUME NEW h \in Harnesses, WireSkip(s, h)
      PROVE  boot'[s].pc = "wire" /\ boot'[s].todo = boot[s].todo \ {h}
  BY <1>5, <1>a DEF WireSkip, BootState
<1>6. ASSUME NEW h \in Harnesses, WireBackup(s, h)
      PROVE  /\ boot'[s].pc = "snapshot" /\ boot'[s].at = h
             /\ boot'[s].original = live[h]
             /\ boot'[s].todo = boot[s].todo
  <2> DEFINE new == [boot[s] EXCEPT !.pc = "snapshot", !.at = h,
                                    !.original = live[h]]
  <2>1. /\ new.pc = "snapshot" /\ new.at = h /\ new.original = live[h]
        /\ new.todo = boot[s].todo
    BY <1>a DEF BootState
  <2> QED
    BY <1>6, <1>a, <2>1 DEF WireBackup
<1>7. WireSnapshot(s) =>
        /\ boot'[s].pc = "rewrite" /\ boot'[s].at = boot[s].at
        /\ boot'[s].todo = boot[s].todo
  BY <1>a DEF WireSnapshot, BootState
<1>8. WireRewrite(s) =>
        /\ boot'[s].pc = "wire"
        /\ boot'[s].todo = boot[s].todo \ {boot[s].at}
  <2> DEFINE new == [boot[s] EXCEPT !.pc = "wire",
                                    !.todo = boot[s].todo \ {boot[s].at},
                                    !.at = None, !.original = NoUrl]
  <2>1. new.pc = "wire" /\ new.todo = boot[s].todo \ {boot[s].at}
    BY <1>a DEF BootState
  <2> QED
    BY <1>a, <2>1 DEF WireRewrite
<1>9. WritePid(s) => boot'[s].pc = "intent"
  BY <1>a DEF WritePid, BootState
<1>10. StartIntent(s) => boot'[s].pc = "reconcile"
  BY <1>a DEF StartIntent, BootState
<1>11. Listen(s) => boot'[s].pc = IF Serving = {} THEN "up" ELSE "off"
  BY <1>a DEF Listen, BootState, Off
<1> QED
  BY <1>1, <1>2, <1>3, <1>4, <1>5, <1>6, <1>7, <1>8, <1>9, <1>10, <1>11

\* The fields of a reconciliation that a step of it leaves alone.
SameView(p) ==
  /\ rec'[p].alive = rec[p].alive
  /\ rec'[p].on = rec[p].on
  /\ rec'[p].cur = rec[p].cur

LEMMA RecFields ==
  ASSUME TypeOK, NEW p \in Procs
  PROVE  /\ RecDone(p) => rec'[p] = NotRec
         /\ Observe(p) =>
              /\ rec'[p].pc = "act" /\ rec'[p].todo = Harnesses
              /\ rec'[p].cur = live /\ rec'[p].alive = ServiceAlive
              /\ rec'[p].on = intent /\ ~ rec'[p].restart
         /\ \A h \in Harnesses : AbsorbSnapshot(p, h) =>
              /\ rec'[p].pc = "relay" /\ rec'[p].at = h
              /\ rec'[p].todo = rec[p].todo
              /\ rec'[p].restart = rec[p].restart
              /\ SameView(p)
         /\ AbsorbRelay(p) =>
              /\ rec'[p].pc = "adopt" /\ rec'[p].at = rec[p].at
              /\ rec'[p].todo = rec[p].todo
              /\ rec'[p].restart = rec[p].restart
              /\ SameView(p)
         /\ RecFinish(p) /\ rec[p].restart =>
              /\ rec'[p].pc = "restart"
              /\ rec'[p].restart = rec[p].restart
              /\ SameView(p)
         /\ \A s \in Services : RestartService(p, s) =>
              /\ rec'[p].pc = "port"
              /\ rec'[p].restart = rec[p].restart
              /\ SameView(p)
<1>a. rec \in [Procs -> RecState]
  BY DEF TypeOK
<1>1. RecDone(p) => rec'[p] = NotRec
  BY <1>a DEF RecDone
<1>2. ASSUME Observe(p)
      PROVE  /\ rec'[p].pc = "act" /\ rec'[p].todo = Harnesses
             /\ rec'[p].cur = live /\ rec'[p].alive = ServiceAlive
             /\ rec'[p].on = intent /\ ~ rec'[p].restart
  <2> DEFINE new == [NotRec EXCEPT !.pc = "act", !.todo = Harnesses,
                                   !.cur = live, !.alive = ServiceAlive,
                                   !.on = intent]
  <2>1. /\ new.pc = "act" /\ new.todo = Harnesses /\ new.cur = live
        /\ new.alive = ServiceAlive /\ new.on = intent
        /\ new.restart = FALSE
    BY DEF NotRec
  <2> QED
    BY <1>a, <1>2, <2>1 DEF Observe
<1>3. ASSUME NEW h \in Harnesses, AbsorbSnapshot(p, h)
      PROVE  /\ rec'[p].pc = "relay" /\ rec'[p].at = h
             /\ rec'[p].todo = rec[p].todo
             /\ rec'[p].restart = rec[p].restart
             /\ SameView(p)
  <2> DEFINE new == [rec[p] EXCEPT !.pc = "relay", !.at = h]
  <2>1. /\ new.pc = "relay" /\ new.at = h /\ new.todo = rec[p].todo
        /\ new.restart = rec[p].restart /\ new.alive = rec[p].alive
        /\ new.on = rec[p].on /\ new.cur = rec[p].cur
    BY <1>a DEF RecState
  <2>2. rec'[p] = new
    BY <1>a, <1>3 DEF AbsorbSnapshot
  <2> QED
    BY <2>1, <2>2 DEF SameView
<1>4. ASSUME AbsorbRelay(p)
      PROVE  /\ rec'[p].pc = "adopt" /\ rec'[p].at = rec[p].at
             /\ rec'[p].todo = rec[p].todo
             /\ rec'[p].restart = rec[p].restart
             /\ SameView(p)
  <2> DEFINE new == [rec[p] EXCEPT !.pc = "adopt"]
  <2>1. /\ new.pc = "adopt" /\ new.at = rec[p].at
        /\ new.todo = rec[p].todo /\ new.restart = rec[p].restart
        /\ new.alive = rec[p].alive
        /\ new.on = rec[p].on /\ new.cur = rec[p].cur
    BY <1>a DEF RecState
  <2>2. rec'[p] = new
    BY <1>a, <1>4 DEF AbsorbRelay
  <2> QED
    BY <2>1, <2>2 DEF SameView
<1>5. ASSUME RecFinish(p), rec[p].restart
      PROVE  /\ rec'[p].pc = "restart"
             /\ rec'[p].restart = rec[p].restart
             /\ SameView(p)
  <2> DEFINE new == [rec[p] EXCEPT !.pc = "restart"]
  <2>1. /\ new.pc = "restart" /\ new.restart = rec[p].restart
        /\ new.alive = rec[p].alive
        /\ new.on = rec[p].on /\ new.cur = rec[p].cur
    BY <1>a DEF RecState
  <2>2. rec'[p] = new
    BY <1>a, <1>5 DEF RecFinish
  <2> QED
    BY <2>1, <2>2 DEF SameView
<1>6. ASSUME NEW s \in Services, RestartService(p, s)
      PROVE  /\ rec'[p].pc = "port"
             /\ rec'[p].restart = rec[p].restart
             /\ SameView(p)
  <2> DEFINE new == [rec[p] EXCEPT !.pc = "port"]
  <2>1. /\ new.pc = "port" /\ new.restart = rec[p].restart
        /\ new.alive = rec[p].alive
        /\ new.on = rec[p].on /\ new.cur = rec[p].cur
    BY <1>a DEF RecState
  <2>2. rec'[p] = new
    BY <1>a, <1>6 DEF RestartService
  <2> QED
    BY <2>1, <2>2 DEF SameView
<1> QED
  BY <1>1, <1>2, <1>3, <1>4, <1>5, <1>6

\* The loop of reconcile() goes on with the harnesses that are left.
LEMMA HandledFields ==
  ASSUME TypeOK, NEW p \in Procs, NEW h, NEW acted, NEW restart,
         Handled(p, h, acted, restart)
  PROVE  /\ rec'[p].pc = "act"
         /\ rec'[p].todo = rec[p].todo \ {h}
         /\ rec'[p].restart = (rec[p].restart \/ restart)
         /\ SameView(p)
         /\ \A q \in Procs \ {p} : rec'[q] = rec[q]
<1> DEFINE new == [rec[p] EXCEPT !.pc = "act", !.at = None,
                                 !.todo = rec[p].todo \ {h},
                                 !.acted = rec[p].acted \/ acted,
                                 !.restart = rec[p].restart \/ restart]
<1>a. rec \in [Procs -> RecState]
  BY DEF TypeOK
<1>1. /\ new.pc = "act" /\ new.todo = rec[p].todo \ {h}
      /\ new.restart = (rec[p].restart \/ restart)
      /\ new.alive = rec[p].alive
      /\ new.on = rec[p].on /\ new.cur = rec[p].cur
  BY <1>a DEF RecState
<1>2. rec' = [rec EXCEPT ![p] = new]
  BY DEF Handled
<1> QED
  BY <1>a, <1>1, <1>2 DEF SameView

\* A process that dies, or whose command is refused, is nowhere.
LEMMA DiesFields ==
  ASSUME TypeOK, NEW s \in Services, Dies(s)
  PROVE  /\ boot'[s].pc = "off" /\ rec'[s] = NotRec
         /\ \A r \in Services \ {s} : boot'[r] = boot[r]
         /\ \A q \in Procs \ {s} : rec'[q] = rec[q]
         /\ pidFile' = IF pidFile = s THEN Stale ELSE pidFile
BY DEF Dies, TypeOK, Procs, Off

\* Steps of cmd_stop, and what they leave of the other processes.
LEMMA StopFields ==
  ASSUME TypeOK
  PROVE  /\ StopUnlink =>
              /\ stp'.pc = "restore" /\ stp'.todo = Harnesses
              /\ stp'.snaps = snap /\ stp'.relays = direct
         /\ \A h \in Harnesses : StopRestore(h) =>
              /\ stp'.pc = "restore" /\ stp'.todo = stp.todo \ {h}
              /\ stp'.snaps = stp.snaps /\ stp'.relays = stp.relays
         /\ StopRelays => stp'.pc = "intent"
         /\ StopIntent \/ CrashStop => stp'.pc = "idle"
         /\ StopTerminate => stp'.pc = "unlink"
<1>a. stp \in StopState
  BY DEF TypeOK
<1>1. StopUnlink => /\ stp'.pc = "restore" /\ stp'.todo = Harnesses
                    /\ stp'.snaps = snap /\ stp'.relays = direct
  BY DEF StopUnlink
<1>2. ASSUME NEW h \in Harnesses, StopRestore(h)
      PROVE  /\ stp'.pc = "restore" /\ stp'.todo = stp.todo \ {h}
             /\ stp'.snaps = stp.snaps /\ stp'.relays = stp.relays
  <2>1. stp' = [stp EXCEPT !.todo = stp.todo \ {h}] /\ stp.pc = "restore"
    BY <1>2 DEF StopRestore
  <2> QED
    BY <1>a, <2>1 DEF StopState
<1>3. StopRelays => stp'.pc = "intent"
  BY DEF StopRelays, NotStop
<1>4. StopIntent \/ CrashStop => stp'.pc = "idle"
  BY DEF StopIntent, CrashStop, NotStop
<1>5. StopTerminate => stp'.pc = "unlink"
  BY <1>a DEF StopTerminate, StopState
<1> QED
  BY <1>1, <1>2, <1>3, <1>4, <1>5

-----------------------------------------------------------------------------
(* Who is under way, and what the pid file says of it.                     *)

Places == Solo /\ Ports

\* Who is under way is alone, but for a command that waits for a port.
LEMMA Alone ==
  ASSUME TypeOK, OneRole, Places
  PROVE  /\ \A p \in Procs : rec[p].pc \notin {"idle", "port"} =>
              /\ \A q \in Procs \ {p} : rec[q].pc \in {"idle", "port"}
              /\ \A s \in Services : Starting(s) => s = p
              /\ stp.pc = "idle"
         /\ \A s \in Services : Starting(s) =>
              /\ \A r \in Services \ {s} : ~ Starting(r)
              /\ \A q \in Procs \ {s} : rec[q].pc \in {"idle", "port"}
              /\ stp.pc = "idle"
         /\ \A s \in Services :
              rec[s].pc # "idle" => Starting(s) /\ pidFile = s
<1>1. \A s \in Services :
        rec[s].pc # "idle" => Starting(s) /\ boot[s].pc = "reconcile"
  BY DEF OneRole, Starting
<1> QED
  BY <1>1 DEF Places, Solo, Ports, Procs

LEMMA StartPlaces ==
  ASSUME Serial, TypeOK, OneRole, Places, NEW s \in Services,
         Start(s) \/ Interrupt(s) \/ StartStep(s)
  PROVE  Places'
<1>a. /\ boot \in [Services -> BootState]
      /\ rec \in [Procs -> RecState]
      /\ s \in Procs
      /\ Services \subseteq Procs
      /\ \A c \in Commands : c \in Procs /\ c # s
      /\ None \notin Services /\ Stale \notin Services
  BY TakeoverAssumption DEF TypeOK, Procs
<1>b. /\ \A r \in Services \ {s} : boot'[r] = boot[r]
      /\ stp' = stp /\ stp.pc = "idle"
  <2>1. stp' = stp
    BY DEF Start, Interrupt, StartStep, StartRefused, StartBegins,
       RelaysActivate, WireSkip, WireBackup, WireSnapshot, WireRewrite,
       WritePid, StartIntent, Listen
  <2>2. stp.pc = "idle"
    <3>1. CASE Start(s) \/ Interrupt(s)
      BY <3>1 DEF Start, Interrupt, Calm, AllIdle
    <3>2. CASE StartStep(s)
      <4>1. Starting(s)
        BY <3>2 DEF StartStep, StartRefused, StartBegins,
           RelaysActivate, WireSkip, WireBackup, WireSnapshot, WireRewrite,
           WritePid, StartIntent, Listen, Starting
      <4> QED
        BY <4>1, Alone
    <3> QED
      BY <3>1, <3>2
  <2> QED
    BY <2>1, <2>2, StartFrame
<1>1. CASE Start(s)
  <2>1. AllIdle
    BY <1>1 DEF Start, Calm
  <2>2. rec' = rec /\ pidFile' = pidFile /\ boot'[s].pc = "begin"
    BY <1>1, BootFields DEF Start
  <2>3. Solo'
    BY <1>a, <1>b, <2>1, <2>2 DEF Solo, AllIdle, Starting
  <2>4. Ports'
    BY <1>a, <1>b, <2>2 DEF Places, Ports, InLock
  <2> QED
    BY <2>3, <2>4 DEF Places
<1>2. CASE Interrupt(s)
  <2>1. AllIdle /\ boot[s].pc = "up"
    BY <1>2 DEF Interrupt, Calm
  <2>2. rec' = rec /\ pidFile' = None /\ boot'[s].pc = "off"
    BY <1>2, BootFields DEF Interrupt
  <2>3. Solo'
    BY <1>a, <1>b, <2>1, <2>2 DEF Solo, AllIdle, Starting
  <2>4. pidFile = s
    BY <2>1 DEF Places, Ports
  <2>5. Ports'
    BY <1>a, <1>b, <2>1, <2>2, <2>4
       DEF Places, Ports, InLock, AllIdle
  <2> QED
    BY <2>3, <2>5 DEF Places
<1>3. CASE StartStep(s)
  <2>1. /\ Starting(s)
        /\ \A r \in Services \ {s} : boot[r].pc \in {"off", "up"}
        /\ \A q \in Procs \ {s} : rec[q].pc \in {"idle", "port"}
        /\ boot[s].pc # "reconcile" /\ rec[s].pc = "idle"
    <3>1. Starting(s)
      BY <1>3 DEF StartStep, StartRefused, StartBegins,
         RelaysActivate, WireSkip, WireBackup, WireSnapshot, WireRewrite,
         WritePid, StartIntent, Listen, Starting
    <3>2. boot[s].pc # "reconcile"
      BY <1>3, StartFrame
    <3> QED
      BY <3>1, <3>2, Alone DEF Starting, OneRole
  <2>2. /\ \A q \in Procs \ {s} : rec'[q] = rec[q]
        /\ rec'[s].pc \in {"idle", "wait"}
        /\ rec'[s].alive = rec[s].alive /\ rec'[s].restart = rec[s].restart
    <3>1. CASE StartIntent(s)
      <4>1. rec' = [rec EXCEPT ![s] = [rec[s] EXCEPT !.pc = "wait"]]
        BY <3>1 DEF StartIntent
      <4> QED
        BY <1>a, <4>1 DEF RecState
    <3>2. CASE ~ StartIntent(s)
      <4>1. rec' = rec
        BY <1>3, <3>2 DEF StartStep, StartRefused, StartBegins,
           RelaysActivate, WireSkip, WireBackup, WireSnapshot, WireRewrite,
           WritePid, Listen
      <4> QED
        BY <2>1, <4>1
    <3> QED
      BY <3>1, <3>2
  <2>3. Solo'
    BY <1>a, <1>b, <2>1, <2>2 DEF Places, Solo, Starting
  <2>4. /\ boot'[s].pc \in {"intent", "reconcile", "listen", "up"} =>
             pidFile' = s
        /\ boot'[s].pc \in {"activate", "wire", "snapshot", "rewrite"} =>
             pidFile' \notin Services
        /\ \A r \in Services \ {s} : boot[r].pc = "up" => pidFile' = r
    <3>a. /\ boot[s].pc \in {"intent", "reconcile", "listen", "up"} =>
               pidFile = s
          /\ boot[s].pc \in {"activate", "wire", "snapshot", "rewrite"} =>
               pidFile \notin Services
          /\ \A r \in Services \ {s} : boot[r].pc = "up" => pidFile = r
      BY DEF Places, Ports
    <3>1. CASE StartRefused(s)
      BY <3>1, <3>a, BootFields DEF StartRefused
    <3>2. CASE StartBegins(s)
      BY <1>a, <3>2, <3>a, BootFields DEF StartBegins
    <3>3. CASE RelaysActivate(s)
      BY <3>3, <3>a, BootFields DEF RelaysActivate
    <3>4. ASSUME NEW h \in Harnesses, WireSkip(s, h) \/ WireBackup(s, h)
          PROVE  /\ boot[s].pc = "wire" /\ pidFile' = pidFile
                 /\ boot'[s].pc \in {"wire", "snapshot"}
      BY <3>4, BootFields DEF WireSkip, WireBackup
    <3>5. CASE WireSnapshot(s) \/ WireRewrite(s)
      <4>1. /\ boot[s].pc \in {"snapshot", "rewrite"} /\ pidFile' = pidFile
            /\ boot'[s].pc \in {"wire", "rewrite"}
        BY <3>5, BootFields DEF WireSnapshot, WireRewrite
      <4> QED
        BY <3>a, <4>1
    <3>6. CASE WritePid(s)
      <4>1. boot[s].pc = "wire" /\ pidFile' = s /\ boot'[s].pc = "intent"
        BY <3>6, BootFields DEF WritePid
      <4> QED
        BY <3>a, <4>1
    <3>7. CASE StartIntent(s)
      <4>1. /\ boot[s].pc = "intent" /\ pidFile' = pidFile
            /\ boot'[s].pc = "reconcile"
        BY <3>7, BootFields DEF StartIntent
      <4> QED
        BY <3>a, <4>1
    <3>8. CASE Listen(s)
      <4>1. boot[s].pc = "listen" /\ Serving = {}
        BY <2>1, <3>8, <3>a DEF Listen, Serving
      <4>2. boot'[s].pc = "up" /\ pidFile' = pidFile
        BY <3>8, <4>1, BootFields DEF Listen
      <4> QED
        BY <3>a, <4>1, <4>2
    <3> QED
      BY <1>3, <3>a, <3>1, <3>2, <3>3, <3>4, <3>5, <3>6, <3>7, <3>8
         DEF StartStep
  <2>5. Ports'
    <3>1. \A q \in Procs : ~ InLock(q)' /\ rec'[q].pc # "restart"
      BY <2>1, <2>2 DEF InLock
    <3>2. \A q \in Procs : rec'[q].restart => ~ rec'[q].alive
      BY <2>2 DEF Places, Ports
    <3> QED
      BY <1>b, <2>1, <2>4, <3>1, <3>2 DEF Ports
  <2> QED
    BY <2>3, <2>5 DEF Places
<1> QED
  BY <1>1, <1>2, <1>3

LEMMA RecPlaces ==
  ASSUME TypeOK, OneRole, Places, NEW p \in Procs, RecStep(p)
  PROVE  Places'
<1>a. /\ boot \in [Services -> BootState]
      /\ rec \in [Procs -> RecState]
      /\ Services \subseteq Procs /\ Commands \subseteq Procs
      /\ None \notin Services
      /\ \A c \in Commands : c \notin Services
  BY TakeoverAssumption DEF TypeOK, Procs
<1>b. /\ \A q \in Procs \ {p} : rec'[q] = rec[q]
      /\ stp' = stp /\ stp.pc = "idle" /\ rec[p].pc # "idle"
  <2>1. stp' = stp
    BY DEF RecStep, RecTimeout, Observe, KeepOurs, Reclaim, NoConfigFile,
       AbsorbSnapshot, ZombieRestart, ZombieRestore, ZombieUnresolved,
       LeaveAlone, AbsorbRelay, AbsorbAdopt, RecFinish, RestartService,
       RestartFails, PortWaitEnds
  <2> QED
    BY <2>1, RecFrame DEF Places, Solo
<1>c. /\ \A s \in Services :
           /\ boot[s].pc \in {"intent", "reconcile", "listen", "up"} =>
                pidFile = s
           /\ boot[s].pc \in {"activate", "wire", "snapshot", "rewrite"} =>
                pidFile \notin Services
      /\ \A q \in Procs :
           /\ rec[q].restart => ~ rec[q].alive
           /\ InLock(q) /\ ~ rec[q].alive => pidFile \notin Services
           /\ rec[q].pc = "restart" => pidFile \notin Services
      /\ \A q \in Procs \ {p} : ~ InLock(q)' \/ InLock(q)
  BY <1>b DEF Places, Ports, InLock
\* p is done: a start goes on to its port, a command is over.
<1>1. ASSUME RecDone(p), pidFile' = pidFile \/ pidFile \notin Services,
             pidFile' \in {pidFile, None}
      PROVE  Places'
  <2>1. rec'[p].pc = "idle" /\ ~ rec'[p].restart
    BY <1>1, RecFields DEF NotRec
  <2>2. \A s \in Services : \/ boot'[s] = boot[s]
                            \/ /\ s = p /\ boot'[s].pc = "listen"
                               /\ boot[s].pc = "reconcile"
    <3>1. CASE p \in Services
      <4>1. boot' = [boot EXCEPT ![p] = [boot[p] EXCEPT !.pc = "listen"]]
        BY <1>1, <3>1 DEF RecDone
      <4>2. [boot[p] EXCEPT !.pc = "listen"].pc = "listen"
        BY <1>a, <3>1 DEF BootState
      <4>3. boot[p].pc = "reconcile"
        BY <1>b, <3>1 DEF OneRole
      <4> QED
        BY <1>a, <4>1, <4>2, <4>3
    <3>2. CASE p \notin Services
      BY <1>1, <3>2 DEF RecDone
    <3> QED
      BY <3>1, <3>2
  <2>3. Solo'
    BY <1>a, <1>b, <2>1, <2>2 DEF Places, Solo, Starting
  <2>4. Ports'
    <3>1. ASSUME NEW s \in Services
          PROVE  /\ boot'[s].pc \in {"intent", "reconcile", "listen", "up"} =>
                      pidFile' = s
                 /\ boot'[s].pc \in {"activate", "wire", "snapshot",
                                     "rewrite"} =>
                      pidFile' \notin Services
      BY <1>1, <1>a, <1>c, <2>2, <3>1
    <3>2. ASSUME NEW q \in Procs
          PROVE  /\ rec'[q].restart => ~ rec'[q].alive
                 /\ InLock(q)' /\ ~ rec'[q].alive => pidFile' \notin Services
                 /\ rec'[q].pc = "restart" => pidFile' \notin Services
      BY <1>1, <1>a, <1>b, <1>c, <2>1, <3>2 DEF InLock
    <3> QED
      BY <1>b, <3>1, <3>2 DEF Ports
  <2> QED
    BY <2>3, <2>4 DEF Places
\* p stays inside reconcile(), and keeps what it observed.
<1>2. ASSUME boot' = boot, pidFile' = pidFile,
             rec[p].pc \in {"wait", "act", "relay", "adopt"},
             rec'[p].pc \in {"act", "relay", "adopt", "restart"},
             rec'[p].restart => ~ rec'[p].alive,
             \/ rec'[p].alive = rec[p].alive /\ InLock(p)
             \/ rec'[p].pc # "restart" /\ (rec'[p].alive <=> ServiceAlive),
             rec'[p].pc = "restart" => rec'[p].restart
      PROVE  Places'
  <2>1. Solo'
    BY <1>2, <1>a, <1>b DEF Places, Solo, Starting
  <2>2. (InLock(p)' /\ ~ rec'[p].alive) \/ rec'[p].pc = "restart" =>
          pidFile' \notin Services
    BY <1>2, <1>c DEF InLock, ServiceAlive
  <2>3. Ports'
    <3>1. ASSUME NEW q \in Procs
          PROVE  /\ rec'[q].restart => ~ rec'[q].alive
                 /\ InLock(q)' /\ ~ rec'[q].alive => pidFile' \notin Services
                 /\ rec'[q].pc = "restart" => pidFile' \notin Services
      BY <1>2, <1>b, <1>c, <2>2, <3>1
    <3> QED
      BY <1>2, <1>b, <1>c, <3>1 DEF Ports
  <2> QED
    BY <2>1, <2>3 DEF Places
<1>3. CASE RecTimeout(p) \/ PortWaitEnds(p)
  BY <1>3, <1>1 DEF RecTimeout, PortWaitEnds
<1>4. CASE RestartFails(p)
  BY <1>4, <1>1, <1>c DEF RestartFails
<1>5. CASE Observe(p)
  <2>1. /\ rec[p].pc = "wait" /\ boot' = boot /\ pidFile' = pidFile
        /\ rec'[p].pc = "act" /\ rec'[p].alive = ServiceAlive
        /\ ~ rec'[p].restart
    BY <1>5, RecFields DEF Observe
  <2> QED
    BY <1>2, <2>1
<1>6. ASSUME NEW h \in Harnesses,
             \/ KeepOurs(p, h) \/ Reclaim(p, h) \/ NoConfigFile(p, h)
             \/ ZombieRestart(p, h) \/ ZombieRestore(p, h)
             \/ ZombieUnresolved(p, h) \/ LeaveAlone(p, h)
      PROVE  Places'
  <2>1. /\ rec[p].pc = "act" /\ boot' = boot /\ pidFile' = pidFile
        /\ \E acted : \/ Handled(p, h, acted, FALSE)
                      \/ Handled(p, h, acted, TRUE) /\ ~ rec[p].alive
    <3>1. CASE KeepOurs(p, h)
      BY <3>1 DEF KeepOurs, Reaches
    <3>2. CASE Reclaim(p, h)
      BY <3>2 DEF Reclaim, Reaches
    <3>3. CASE \/ NoConfigFile(p, h) \/ ZombieRestart(p, h)
               \/ ZombieRestore(p, h) \/ ZombieUnresolved(p, h)
               \/ LeaveAlone(p, h)
      BY <3>3 DEF NoConfigFile, ZombieRestart, ZombieRestore,
         ZombieUnresolved, LeaveAlone, Reaches
    <3> QED
      BY <1>6, <3>1, <3>2, <3>3
  <2>2. PICK acted : \/ Handled(p, h, acted, FALSE)
                     \/ Handled(p, h, acted, TRUE) /\ ~ rec[p].alive
    BY <2>1
  <2>3. /\ rec'[p].pc = "act"
        /\ rec'[p].alive = rec[p].alive
        /\ rec'[p].restart => rec[p].restart \/ ~ rec[p].alive
    BY <2>2, HandledFields DEF SameView
  <2> QED
    BY <1>2, <1>c, <2>1, <2>3 DEF InLock
<1>7. ASSUME NEW h \in Harnesses, AbsorbSnapshot(p, h) PROVE Places'
  <2>1. /\ rec[p].pc = "act" /\ boot' = boot /\ pidFile' = pidFile
        /\ rec'[p].pc = "relay" /\ rec'[p].alive = rec[p].alive
        /\ rec'[p].restart = rec[p].restart
    BY <1>7, RecFields DEF AbsorbSnapshot, Reaches, SameView
  <2> QED
    BY <1>2, <1>c, <2>1 DEF InLock
<1>8. CASE AbsorbRelay(p)
  <2>1. /\ rec[p].pc = "relay" /\ boot' = boot /\ pidFile' = pidFile
        /\ rec'[p].pc = "adopt" /\ rec'[p].alive = rec[p].alive
        /\ rec'[p].restart = rec[p].restart
    BY <1>8, RecFields DEF AbsorbRelay, SameView
  <2> QED
    BY <1>2, <1>c, <2>1 DEF InLock
<1>9. CASE AbsorbAdopt(p)
  <2>1. /\ rec[p].pc = "adopt" /\ boot' = boot /\ pidFile' = pidFile
        /\ Handled(p, rec[p].at, TRUE, FALSE)
    BY <1>9 DEF AbsorbAdopt
  <2>2. /\ rec'[p].pc = "act" /\ rec'[p].alive = rec[p].alive
        /\ rec'[p].restart => rec[p].restart
    BY <2>1, HandledFields DEF SameView
  <2> QED
    BY <1>2, <1>c, <2>1, <2>2 DEF InLock
<1>10. CASE RecFinish(p)
  <2>1. rec[p].pc = "act" /\ pidFile' = pidFile
    BY <1>10 DEF RecFinish
  <2>2. CASE rec[p].restart
    <3>1. /\ boot' = boot /\ rec'[p].pc = "restart"
          /\ rec'[p].alive = rec[p].alive
          /\ rec'[p].restart = rec[p].restart
      BY <1>10, <2>2, RecFields DEF RecFinish, SameView
    <3> QED
      BY <1>2, <1>c, <2>1, <2>2, <3>1 DEF InLock
  <2>3. CASE ~ rec[p].restart
    BY <1>10, <1>1, <2>1, <2>3 DEF RecFinish
  <2> QED
    BY <2>2, <2>3
\* Only a command restarts the service, and nobody else is under way.
<1>11. ASSUME NEW s \in Services, RestartService(p, s) PROVE Places'
  <2>1. /\ rec[p].pc = "restart" /\ boot[s].pc = "off" /\ pidFile' = None
        /\ boot' = [boot EXCEPT ![s] = [boot[s] EXCEPT !.pc = "begin"]]
    BY <1>11 DEF RestartService
  <2>2. /\ rec'[p].pc = "port" /\ rec'[p].alive = rec[p].alive
        /\ rec'[p].restart = rec[p].restart
    BY <1>11, RecFields DEF SameView
  <2>3. boot'[s].pc = "begin" /\ \A r \in Services \ {s} : boot'[r] = boot[r]
    BY <1>a, <2>1 DEF BootState
  <2>4. p \notin Services
    BY <1>c, <2>1 DEF OneRole
  <2>5. \A r \in Services : boot[r].pc \in {"off", "up"}
    BY <2>1, <2>4, Alone DEF Starting
  <2>6. \A q \in Procs \ {p} : rec[q].pc \in {"idle", "port"}
    BY <2>1, Alone
  <2>7. pidFile \notin Services
    BY <1>c, <2>1
  <2>8. Solo'
    BY <1>a, <1>b, <2>2, <2>3, <2>4, <2>5, <2>6
       DEF Places, Solo, Starting, Procs
  <2>9. Ports'
    <3>1. ASSUME NEW q \in Procs
          PROVE  /\ rec'[q].restart => ~ rec'[q].alive
                 /\ ~ InLock(q)' /\ rec'[q].pc # "restart"
      BY <1>b, <1>c, <2>2, <2>6, <3>1 DEF InLock
    <3>2. \A r \in Services : boot'[r].pc \in {"off", "begin"}
      BY <1>c, <2>3, <2>5, <2>7
    <3> QED
      BY <1>b, <3>1, <3>2 DEF Ports
  <2> QED
    BY <2>8, <2>9 DEF Places
<1> QED
  BY <1>3, <1>4, <1>5, <1>6, <1>7, <1>8, <1>9, <1>10, <1>11 DEF RecStep

LEMMA WorldPlaces ==
  ASSUME Serial, TypeOK, OneRole, Places,
         \/ StopStep \/ Outside \/ UNCHANGED vars,
         \A s \in Services : ~ Start(s) /\ ~ Interrupt(s)
  PROVE  Places'
<1>a. /\ boot \in [Services -> BootState]
      /\ rec \in [Procs -> RecState]
      /\ Services \subseteq Procs /\ Commands \subseteq Procs
      /\ None \notin Services /\ Stale \notin Services
      /\ \A c \in Commands : c \notin Services
  BY TakeoverAssumption DEF TypeOK, Procs
<1>c. /\ \A s \in Services :
           /\ boot[s].pc \in {"intent", "reconcile", "listen", "up"} =>
                pidFile = s
           /\ boot[s].pc \in {"activate", "wire", "snapshot", "rewrite"} =>
                pidFile \notin Services
      /\ \A q \in Procs :
           /\ rec[q].restart => ~ rec[q].alive
           /\ InLock(q) /\ ~ rec[q].alive => pidFile \notin Services
           /\ rec[q].pc = "restart" => pidFile \notin Services
  BY DEF Places, Ports
\* A process dies, and nothing else happens to the places.
<1>1. ASSUME NEW s \in Services, Dies(s),
             \/ stp' = stp
             \/ AllIdle /\ pidFile = s
      PROVE  Places'
  <2>1. /\ boot'[s].pc = "off" /\ rec'[s].pc = "idle" /\ ~ rec'[s].restart
        /\ \A r \in Services \ {s} : boot'[r] = boot[r]
        /\ \A q \in Procs \ {s} : rec'[q] = rec[q]
        /\ pidFile' = IF pidFile = s THEN Stale ELSE pidFile
    BY <1>1, DiesFields DEF NotRec
  <2>2. Solo'
    <3>1. CASE stp' = stp
      BY <1>a, <2>1, <3>1 DEF Places, Solo, Starting
    <3>2. CASE AllIdle /\ pidFile = s
      BY <1>a, <2>1, <3>2 DEF AllIdle, Solo, Starting
    <3> QED
      BY <1>1, <3>1, <3>2
  <2>3. Ports'
    <3>1. ASSUME NEW q \in Procs
          PROVE  /\ rec'[q].restart => ~ rec'[q].alive
                 /\ InLock(q)' /\ ~ rec'[q].alive => pidFile' \notin Services
                 /\ rec'[q].pc = "restart" => pidFile' \notin Services
      BY <1>a, <1>c, <2>1, <3>1 DEF InLock
    <3>2. ASSUME NEW r \in Services
          PROVE  /\ boot'[r].pc \in {"intent", "reconcile", "listen", "up"} =>
                      pidFile' = r
                 /\ boot'[r].pc \in {"activate", "wire", "snapshot",
                                     "rewrite"} =>
                      pidFile' \notin Services
      BY <1>a, <1>c, <2>1, <3>2
    <3>3. stp'.pc # "idle" => pidFile' \notin Services
      BY <1>1, <1>a, <2>1 DEF Places, Ports
    <3> QED
      BY <3>1, <3>2, <3>3 DEF Ports
  <2> QED
    BY <2>2, <2>3 DEF Places
\* The places of starts and reconciliations stay.
<1>2. ASSUME boot' = boot, rec' = rec, pidFile' = pidFile \/ pidFile' = None,
             pidFile' = pidFile \/ pidFile \notin Services,
             stp'.pc # "idle" => stp.pc # "idle"
      PROVE  Places'
  <2>1. Solo'
    BY <1>2 DEF Places, Solo, Starting
  <2>2. Ports'
    <3>1. /\ \A s \in Services :
               /\ boot[s].pc \in {"intent", "reconcile", "listen", "up"} =>
                    pidFile' = s
               /\ boot[s].pc \in {"activate", "wire", "snapshot",
                                  "rewrite"} =>
                    pidFile' \notin Services
          /\ pidFile \notin Services => pidFile' \notin Services
      BY <1>2, <1>a, <1>c
    <3> QED
      BY <1>2, <1>c, <3>1 DEF Places, Ports, InLock
  <2> QED
    BY <2>1, <2>2 DEF Places
<1>3. CASE \/ \E h \in Harnesses : StopRestore(h)
           \/ StopRelays \/ StopIntent \/ StopNotRunning \/ CrashStop
           \/ \E h \in Harnesses :
                \/ \E v \in EditValues : UserEdit(h, v)
                \/ \E t \in Tools : ToolEdit(h, t)
           \/ UNCHANGED vars
  <2>1. stp'.pc # "idle" => stp.pc # "idle"
    BY <1>3, StopFields DEF StopRestore, StopRelays, StopIntent,
       StopNotRunning, CrashStop, UserEdit, ToolEdit, vars
  <2> QED
    BY <1>3, <1>2, <2>1 DEF StopRestore, StopRelays, StopIntent,
       StopNotRunning, CrashStop, UserEdit, ToolEdit, vars
<1>4. CASE StopUnlink
  BY <1>4, <1>2 DEF StopUnlink, Places, Ports
<1>5. CASE StopTerminate
  BY <1>5, <1>1 DEF StopTerminate, Calm
<1>6. ASSUME NEW s \in Services, CrashService(s) PROVE Places'
  BY <1>6, <1>1 DEF CrashService
<1>7. ASSUME NEW c \in Commands, Refresh(c) PROVE Places'
  <2>1. /\ AllIdle /\ boot' = boot /\ pidFile' = pidFile /\ stp' = stp
        /\ rec' = [rec EXCEPT ![c] = [rec[c] EXCEPT !.pc = "wait"]]
    BY <1>7 DEF Refresh, Calm
  <2>2. /\ rec'[c].pc = "wait" /\ rec'[c].alive = rec[c].alive
        /\ rec'[c].restart = rec[c].restart
        /\ \A q \in Procs \ {c} : rec'[q] = rec[q]
    BY <1>a, <2>1 DEF RecState
  <2>3. Solo'
    BY <1>a, <2>1, <2>2 DEF AllIdle, Solo, Starting
  <2>4. Ports'
    BY <1>a, <1>c, <2>1, <2>2 DEF AllIdle, Ports, InLock
  <2> QED
    BY <2>3, <2>4 DEF Places
<1>8. ASSUME NEW c \in Commands, CrashCommand(c) PROVE Places'
  <2>1. /\ boot' = boot /\ pidFile' = pidFile /\ stp' = stp
        /\ rec'[c].pc = "idle" /\ ~ rec'[c].restart
        /\ \A q \in Procs \ {c} : rec'[q] = rec[q]
    BY <1>8, <1>a DEF CrashCommand, NotRec
  <2>2. Solo'
    BY <1>a, <2>1 DEF Places, Solo, Starting
  <2>3. Ports'
    BY <1>a, <1>c, <2>1 DEF Places, Ports, InLock
  <2> QED
    BY <2>2, <2>3 DEF Places
<1> QED
  BY <1>3, <1>4, <1>5, <1>6, <1>7, <1>8 DEF StopStep, Outside

LEMMA StepPlaces ==
  ASSUME Serial, TypeOK, OneRole, Places, [Next]_vars
  PROVE  Places'
BY StartPlaces, RecPlaces, WorldPlaces DEF Next, Outside

-----------------------------------------------------------------------------
(* Nobody else acts: what the others do while one process takes a step.    *)

\* While a start takes a step of its own, nobody reconciles.
LEMMA StartAlone ==
  ASSUME Serial, TypeOK, OneRole, Places, NEW s \in Services,
         Start(s) \/ Interrupt(s) \/ StartStep(s)
  PROVE  /\ \A q \in Procs \ {s} : /\ rec'[q] = rec[q]
                                   /\ rec[q].pc \in {"idle", "port"}
         /\ rec'[s] = rec[s] \/ (StartIntent(s) /\ rec'[s].pc = "wait")
         /\ rec[s].pc = "idle"
         /\ \A r \in Services \ {s} : /\ boot'[r] = boot[r]
                                      /\ boot[r].pc \in {"off", "up"}
         /\ stp' = stp /\ stp.pc = "idle"
<1>a. /\ rec \in [Procs -> RecState] /\ Services \subseteq Procs
      /\ \A r \in Services \ {s} : boot'[r] = boot[r]
      /\ boot[s].pc # "reconcile"
  BY StartFrame DEF TypeOK, Procs
<1>1. /\ stp' = stp
      /\ ~ StartIntent(s) => rec' = rec
  BY DEF Start, Interrupt, StartStep, StartRefused, StartBegins,
     RelaysActivate, WireSkip, WireBackup, WireSnapshot, WireRewrite,
     WritePid, StartIntent, Listen
<1>2. ASSUME StartIntent(s)
      PROVE  /\ rec'[s].pc = "wait"
             /\ \A q \in Procs \ {s} : rec'[q] = rec[q]
  <2>1. rec' = [rec EXCEPT ![s] = [rec[s] EXCEPT !.pc = "wait"]]
    BY <1>2 DEF StartIntent
  <2> QED
    BY <1>a, <2>1 DEF RecState
<1>b. /\ \A q \in Procs \ {s} : rec'[q] = rec[q]
      /\ rec'[s] = rec[s] \/ (StartIntent(s) /\ rec'[s].pc = "wait")
  <2>1. CASE StartIntent(s)
    BY <1>2, <2>1
  <2>2. CASE ~ StartIntent(s)
    <3>1. rec' = rec
      BY <1>1, <2>2
    <3> QED
      BY <3>1
  <2> QED
    BY <2>1, <2>2
<1>3. CASE Start(s) \/ Interrupt(s)
  <2>1. AllIdle
    BY <1>3 DEF Start, Interrupt, Calm
  <2> QED
    BY <1>a, <1>1, <1>b, <2>1 DEF AllIdle
<1>4. CASE StartStep(s)
  <2>1. Starting(s)
    BY <1>4 DEF StartStep, StartRefused, StartBegins, RelaysActivate,
       WireSkip, WireBackup, WireSnapshot, WireRewrite, WritePid,
       StartIntent, Listen, Starting
  <2> QED
    BY <1>a, <1>1, <1>b, <2>1, Alone DEF Starting, OneRole
<1> QED
  BY <1>3, <1>4

\* While p reconciles, nobody else does, and no start but its own is under
\* way; the end of the wait for a port changes no file and no relay.
LEMMA RecAlone ==
  ASSUME TypeOK, OneRole, Places, NEW p \in Procs, RecStep(p)
  PROVE  /\ \A q \in Procs \ {p} : rec'[q] = rec[q]
         /\ stp' = stp /\ stp.pc = "idle"
         /\ \/ /\ rec[p].pc # "port"
               /\ \A q \in Procs \ {p} : rec[q].pc \in {"idle", "port"}
               /\ \A s \in Services :
                    \/ s = p /\ boot[s].pc = "reconcile"
                    \/ s # p /\ boot[s].pc \in {"off", "up"}
            \/ /\ PortWaitEnds(p) /\ p \notin Services
               /\ UNCHANGED <<files, flags, ghosts, boot>>
               /\ rec'[p].pc = "idle"
               /\ \A q \in Procs \ {p} : cfg'[q] = cfg[q]
<1>a. /\ rec \in [Procs -> RecState] /\ cfg \in [Procs -> Relays]
      /\ boot \in [Services -> BootState]
      /\ rec[p].pc # "idle" /\ \A q \in Procs \ {p} : rec'[q] = rec[q]
  BY RecFrame DEF TypeOK
<1>1. stp' = stp /\ stp.pc = "idle"
  <2>1. stp' = stp
    BY DEF RecStep, RecTimeout, Observe, KeepOurs, Reclaim, NoConfigFile,
       AbsorbSnapshot, ZombieRestart, ZombieRestore, ZombieUnresolved,
       LeaveAlone, AbsorbRelay, AbsorbAdopt, RecFinish, RestartService,
       RestartFails, PortWaitEnds
  <2> QED
    BY <1>a, <2>1 DEF Places, Solo
<1>2. CASE rec[p].pc = "port"
  <2>1. PortWaitEnds(p)
    BY <1>2 DEF RecStep, RecTimeout, Observe, KeepOurs, Reclaim,
       NoConfigFile, AbsorbSnapshot, ZombieRestart, ZombieRestore,
       ZombieUnresolved, LeaveAlone, AbsorbRelay, AbsorbAdopt, RecFinish,
       RestartService, RestartFails, Reaches
  <2>2. p \notin Services
    BY <1>2 DEF Places, Solo
  <2>3. rec'[p].pc = "idle"
    BY <2>1, RecFields DEF PortWaitEnds, NotRec
  <2> QED
    BY <1>a, <1>1, <2>1, <2>2, <2>3 DEF PortWaitEnds, RecDone
<1>3. CASE rec[p].pc # "port"
  <2>1. p \in Services => boot[p].pc = "reconcile"
    BY <1>a DEF OneRole
  <2> QED
    BY <1>a, <1>1, <1>3, <2>1, Alone DEF Starting
<1> QED
  BY <1>2, <1>3

\* A file, a relay or what we remember of a user's choice changes outside
\* starts and reconciliations only while none of these is under way.
LEMMA WorldAlone ==
  ASSUME Serial, TypeOK, OneRole, Places,
         \/ StopStep \/ Outside \/ UNCHANGED vars,
         \A s \in Services : ~ Start(s) /\ ~ Interrupt(s)
  PROVE  /\ \A q \in Procs :
              \/ rec'[q] = rec[q] /\ cfg'[q] = cfg[q]
              \/ rec'[q].pc = "idle"
              \/ AllIdle /\ rec'[q].pc = "wait" /\ cfg'[q] = direct
         /\ \A s \in Services :
              \/ boot'[s] = boot[s] /\ cfg'[s] = cfg[s]
              \/ boot'[s].pc = "off"
         /\ \/ UNCHANGED <<files, ghosts>>
            \/ /\ \A q \in Procs : rec'[q].pc = "idle"
               /\ \A s \in Services : boot'[s].pc \in {"off", "up"}
<1>a. /\ boot \in [Services -> BootState]
      /\ rec \in [Procs -> RecState]
      /\ cfg \in [Procs -> Relays]
      /\ Services \subseteq Procs /\ Commands \subseteq Procs
      /\ \A c \in Commands : c \notin Services
  BY TakeoverAssumption DEF TypeOK, Procs
<1>1. CASE StopStep
  <2>1. stp.pc # "idle"
    BY <1>1 DEF StopStep, StopUnlink, StopRestore, StopRelays, StopIntent
  <2>2. /\ \A q \in Procs : rec[q].pc = "idle"
        /\ \A s \in Services : boot[s].pc \in {"off", "up"}
    BY <2>1 DEF Places, Solo, Starting
  <2>3. rec' = rec /\ boot' = boot /\ cfg' = cfg
    BY <1>1 DEF StopStep, StopUnlink, StopRestore, StopRelays, StopIntent
  <2> QED
    BY <2>2, <2>3
<1>2. CASE StopNotRunning \/ CrashStop \/ UNCHANGED vars
  BY <1>2 DEF StopNotRunning, CrashStop, vars
<1>3. ASSUME NEW s \in Services, Dies(s), UNCHANGED <<files, ghosts>>
      PROVE  /\ \A q \in Procs : \/ rec'[q] = rec[q] /\ cfg'[q] = cfg[q]
                                 \/ rec'[q].pc = "idle"
             /\ \A r \in Services : \/ boot'[r] = boot[r] /\ cfg'[r] = cfg[r]
                                    \/ boot'[r].pc = "off"
  BY <1>3, <1>a DEF Dies, Off, NotRec
<1>4. CASE StopTerminate
  BY <1>4, <1>3 DEF StopTerminate
<1>5. CASE \E s \in Services : CrashService(s)
  BY <1>5, <1>3 DEF CrashService
<1>6. ASSUME NEW c \in Commands, Refresh(c)
      PROVE  /\ AllIdle /\ UNCHANGED <<files, ghosts>> /\ boot' = boot
             /\ rec'[c].pc = "wait" /\ cfg'[c] = direct
             /\ \A q \in Procs \ {c} : rec'[q] = rec[q] /\ cfg'[q] = cfg[q]
  BY <1>6, <1>a DEF Refresh, Calm, RecState
<1>7. ASSUME NEW c \in Commands, CrashCommand(c)
      PROVE  /\ UNCHANGED <<files, ghosts>> /\ boot' = boot
             /\ rec'[c].pc = "idle"
             /\ \A q \in Procs \ {c} : rec'[q] = rec[q] /\ cfg'[q] = cfg[q]
  BY <1>7, <1>a DEF CrashCommand, NotRec
<1>8. CASE \E h \in Harnesses : \/ \E v \in EditValues : UserEdit(h, v)
                                \/ \E t \in Tools : ToolEdit(h, t)
  <2>1. AllIdle /\ rec' = rec /\ boot' = boot /\ cfg' = cfg
    BY <1>8 DEF UserEdit, ToolEdit, Calm
  <2> QED
    BY <2>1 DEF AllIdle
<1>9. CASE \E c \in Commands : Refresh(c) \/ CrashCommand(c)
  BY <1>9, <1>6, <1>7, <1>a
<1> QED
  BY <1>1, <1>2, <1>4, <1>5, <1>8, <1>9 DEF Outside

-----------------------------------------------------------------------------
(* What a process has seen is still so.                                    *)

\* The address that a start is about to record is in the file.  Under the
\* lock, a file that the loop has not reached is as it was observed, but for
\* our own address in the file of a dead service, which one restoration
\* takes out of all of them; and what it has reached is settled.
SeenStart(s) ==
  boot[s].pc = "snapshot" => boot[s].original = live[boot[s].at]

SeenRec(p) ==
  InLock(p) =>
    /\ rec[p].pc \in {"relay", "adopt"} =>
         rec[p].alive /\ rec[p].at \in rec[p].todo
    /\ \A h \in rec[p].todo :
         rec[p].alive \/ rec[p].cur[h] # Ours => live[h] = rec[p].cur[h]
    /\ \A h \in Harnesses \ rec[p].todo :
         /\ rec[p].alive => live[h] \in {Ours, NoFile}
         /\ ~ rec[p].alive /\ ~ rec[p].on /\ live[h] = Ours =>
              snap[h] = None

Seen ==
  /\ \A s \in Services : SeenStart(s)
  /\ \A p \in Procs : SeenRec(p)

\* A file that is taken over points at us, if there is one; nothing else
\* happens to any address.
LEMMA TakeOverLive ==
  ASSUME TypeOK, NEW h \in Harnesses, NEW P, TakeOver({h}, P)
  PROVE  /\ live'[h] = IF live[h] = NoFile THEN NoFile ELSE Ours
         /\ \A g \in Harnesses \ {h} : live'[g] = live[g]
BY DEF TakeOver, TypeOK

LEMMA GiveBackLive ==
  ASSUME TypeOK, NEW H, NEW to, GiveBack(H, to)
  PROVE  /\ \A g \in Harnesses \cap H : live'[g] = to[g]
         /\ \A g \in Harnesses \ H : live'[g] = live[g]
BY DEF GiveBack, TypeOK

\* The loop is done with h: what was seen of the others stays, if their
\* files do.
LEMMA HandledSeen ==
  ASSUME TypeOK, NEW p \in Procs, NEW h \in Harnesses,
         NEW acted, NEW restart, Handled(p, h, acted, restart),
         InLock(p), SeenRec(p), snap' = snap,
         \A g \in Harnesses \ {h} :
           \/ live'[g] = live[g]
           \/ ~ rec[p].alive /\ live[g] = Ours /\ live'[g] # Ours,
         rec[p].alive => live'[h] \in {Ours, NoFile},
         ~ rec[p].alive /\ ~ rec[p].on /\ live'[h] = Ours => snap[h] = None
  PROVE  SeenRec(p)'
<1>1. /\ rec'[p].pc = "act" /\ rec'[p].todo = rec[p].todo \ {h}
      /\ rec'[p].alive = rec[p].alive /\ rec'[p].on = rec[p].on
      /\ rec'[p].cur = rec[p].cur
  BY HandledFields DEF SameView
<1>2. rec[p].todo \subseteq Harnesses
  BY DEF TypeOK, RecState
<1>3. \A g \in rec'[p].todo :
        rec'[p].alive \/ rec'[p].cur[g] # Ours => live'[g] = rec'[p].cur[g]
  BY <1>1, <1>2 DEF SeenRec
<1>4. \A g \in Harnesses \ rec'[p].todo :
        /\ rec'[p].alive => live'[g] \in {Ours, NoFile}
        /\ ~ rec'[p].alive /\ ~ rec'[p].on /\ live'[g] = Ours =>
             snap'[g] = None
  BY <1>1 DEF SeenRec
<1> QED
  BY <1>1, <1>3, <1>4 DEF SeenRec

LEMMA RecSeen ==
  ASSUME TypeOK, Cursors, SnapshotNeverOurs, NEW p \in Procs, SeenRec(p),
         RecStep(p)
  PROVE  SeenRec(p)'
<1>a. /\ rec[p].todo \subseteq Harnesses
      /\ live \in [Harnesses -> Content \cup {NoFile}]
      /\ Ours \notin Tools \cup {NoUrl} /\ NoFile \notin Tools \cup {NoUrl}
      /\ Ours # NoFile
  BY TakeoverAssumption DEF TypeOK, RecState, Foreign, Ours, NoUrl, NoFile
<1>1. ASSUME ~ InLock(p)' PROVE SeenRec(p)'
  BY <1>1 DEF SeenRec
<1>2. CASE RecTimeout(p) \/ RestartFails(p) \/ PortWaitEnds(p)
  <2>1. rec'[p].pc = "idle"
    BY <1>2, RecFields DEF RecTimeout, RestartFails, PortWaitEnds, NotRec
  <2> QED
    BY <1>1, <2>1 DEF InLock
<1>3. CASE Observe(p)
  <2>1. /\ rec'[p].pc = "act" /\ rec'[p].todo = Harnesses
        /\ rec'[p].cur = live /\ live' = live
    BY <1>3, RecFields DEF Observe
  <2> QED
    BY <2>1 DEF SeenRec
<1>4. ASSUME NEW h \in Harnesses, KeepOurs(p, h) PROVE SeenRec(p)'
  <2>1. /\ Reaches(p, h) /\ rec[p].alive /\ rec[p].cur[h] = Ours
        /\ live' = live /\ snap' = snap
        /\ Handled(p, h, snap[h] \in Tools /\ cfg[p][h] # None, FALSE)
    BY <1>4 DEF KeepOurs
  <2>2. InLock(p) /\ live[h] = Ours
    BY <2>1 DEF Reaches, InLock, SeenRec
  <2> QED
    BY <2>1, <2>2, HandledSeen
<1>5. ASSUME NEW h \in Harnesses, Reclaim(p, h) PROVE SeenRec(p)'
  <2>1. /\ Reaches(p, h) /\ rec[p].alive /\ TakeOver({h}, {})
        /\ snap' = snap /\ Handled(p, h, live[h] # NoFile, FALSE)
    BY <1>5 DEF Reclaim
  <2>2. InLock(p)
    BY <2>1 DEF Reaches, InLock
  <2> QED
    BY <2>1, <2>2, TakeOverLive, HandledSeen
<1>6. ASSUME NEW h \in Harnesses, NoConfigFile(p, h) PROVE SeenRec(p)'
  <2>1. /\ Reaches(p, h) /\ rec[p].alive /\ rec[p].cur[h] = NoFile
        /\ live' = live /\ snap' = snap /\ Handled(p, h, FALSE, FALSE)
    BY <1>6 DEF NoConfigFile
  <2>2. InLock(p) /\ live[h] = NoFile
    BY <2>1 DEF Reaches, InLock, SeenRec
  <2> QED
    BY <2>1, <2>2, HandledSeen
<1>7. ASSUME NEW h \in Harnesses, AbsorbSnapshot(p, h) PROVE SeenRec(p)'
  <2>1. /\ rec[p].pc = "act" /\ h \in rec[p].todo /\ rec[p].alive
        /\ live' = live
        /\ rec'[p].pc = "relay" /\ rec'[p].at = h
        /\ rec'[p].todo = rec[p].todo
        /\ rec'[p].alive = rec[p].alive /\ rec'[p].cur = rec[p].cur
    BY <1>7, RecFields DEF AbsorbSnapshot, Reaches, SameView
  <2> QED
    BY <2>1 DEF SeenRec, InLock
<1>8. CASE AbsorbRelay(p)
  <2>1. /\ rec[p].pc = "relay" /\ live' = live
        /\ rec'[p].pc = "adopt" /\ rec'[p].at = rec[p].at
        /\ rec'[p].todo = rec[p].todo
        /\ rec'[p].alive = rec[p].alive /\ rec'[p].cur = rec[p].cur
    BY <1>8, RecFields DEF AbsorbRelay, SameView
  <2> QED
    BY <2>1 DEF SeenRec, InLock
<1>9. CASE AbsorbAdopt(p)
  <2> DEFINE h == rec[p].at
  <2>1. /\ rec[p].pc = "adopt" /\ TakeOver({h}, {h}) /\ snap' = snap
        /\ Handled(p, h, TRUE, FALSE)
    BY <1>9 DEF AbsorbAdopt
  <2>2. InLock(p) /\ rec[p].alive /\ h \in Harnesses
    BY <2>1 DEF InLock, SeenRec, Cursors, RecCursor
  <2> QED
    BY <2>1, <2>2, TakeOverLive, HandledSeen
<1>10. ASSUME NEW h \in Harnesses, ZombieRestart(p, h) PROVE SeenRec(p)'
  <2>1. /\ Reaches(p, h) /\ ~ rec[p].alive /\ rec[p].on
        /\ live' = live /\ snap' = snap /\ Handled(p, h, FALSE, TRUE)
    BY <1>10 DEF ZombieRestart
  <2>2. InLock(p)
    BY <2>1 DEF Reaches, InLock
  <2> QED
    BY <2>1, <2>2, HandledSeen
<1>11. ASSUME NEW h \in Harnesses, ZombieRestore(p, h) PROVE SeenRec(p)'
  <2> DEFINE H == {g \in Harnesses : live[g] = Ours /\ snap[g] # None}
  <2>1. /\ Reaches(p, h) /\ ~ rec[p].alive /\ snap[h] # None
        /\ GiveBack(H, snap) /\ snap' = snap
        /\ Handled(p, h, TRUE, FALSE)
    BY <1>11 DEF ZombieRestore
  <2>2. InLock(p)
    BY <2>1 DEF Reaches, InLock
  <2>3. \A g \in Harnesses : snap[g] # Ours
    BY TakeoverAssumption DEF SnapshotNeverOurs, Ours, None
  <2>4. \A g \in Harnesses :
          \/ live'[g] = live[g] /\ g \notin H
          \/ live[g] = Ours /\ live'[g] # Ours
    BY <2>1, <2>3, GiveBackLive
  <2>5. ~ rec[p].on /\ live'[h] = Ours => snap[h] = None
    BY <2>1, <2>4
  <2> QED
    BY <2>1, <2>2, <2>4, <2>5, HandledSeen
<1>12. ASSUME NEW h \in Harnesses, ZombieUnresolved(p, h) PROVE SeenRec(p)'
  <2>1. /\ Reaches(p, h) /\ ~ rec[p].alive /\ snap[h] = None
        /\ live' = live /\ snap' = snap /\ Handled(p, h, FALSE, FALSE)
    BY <1>12 DEF ZombieUnresolved
  <2>2. InLock(p)
    BY <2>1 DEF Reaches, InLock
  <2> QED
    BY <2>1, <2>2, HandledSeen
<1>13. ASSUME NEW h \in Harnesses, LeaveAlone(p, h) PROVE SeenRec(p)'
  <2>1. /\ Reaches(p, h) /\ ~ rec[p].alive /\ rec[p].cur[h] # Ours
        /\ live' = live /\ snap' = snap /\ Handled(p, h, FALSE, FALSE)
    BY <1>13 DEF LeaveAlone
  <2>2. InLock(p) /\ live[h] # Ours
    BY <2>1 DEF Reaches, InLock, SeenRec
  <2> QED
    BY <2>1, <2>2, HandledSeen
<1>14. CASE RecFinish(p)
  <2>1. rec'[p].pc \in {"restart", "idle"}
    BY <1>14, RecFields DEF RecFinish, NotRec
  <2> QED
    BY <1>1, <2>1 DEF InLock
<1>15. ASSUME NEW s \in Services, RestartService(p, s) PROVE SeenRec(p)'
  <2>1. rec'[p].pc = "port"
    BY <1>15, RecFields
  <2> QED
    BY <1>1, <2>1 DEF InLock
<1> QED
  BY <1>2, <1>3, <1>4, <1>5, <1>6, <1>7, <1>8, <1>9, <1>10, <1>11, <1>12,
     <1>13, <1>14, <1>15 DEF RecStep

LEMMA StartSeen ==
  ASSUME Serial, TypeOK, OneRole, Places, Seen, NEW s \in Services,
         Start(s) \/ Interrupt(s) \/ StartStep(s)
  PROVE  Seen'
<1>a. /\ \A q \in Procs : ~ InLock(q)'
      /\ \A r \in Services \ {s} : boot'[r].pc # "snapshot"
  BY StartAlone DEF InLock
<1>1. SeenStart(s)'
  <2>1. ASSUME NEW h \in Harnesses, WireBackup(s, h) PROVE SeenStart(s)'
    BY <2>1, BootFields DEF WireBackup, SeenStart
  <2>2. CASE \A h \in Harnesses : ~ WireBackup(s, h)
    <3>1. boot'[s].pc # "snapshot"
      BY <2>2, BootFields DEF StartStep
    <3> QED
      BY <3>1 DEF SeenStart
  <2> QED
    BY <2>1, <2>2
<1> QED
  BY <1>a, <1>1 DEF Seen, SeenStart, SeenRec

LEMMA StepSeen ==
  ASSUME Serial, TypeOK, Cursors, OneRole, SnapshotNeverOurs, Places, Seen,
         [Next]_vars
  PROVE  Seen'
<1>1. ASSUME NEW p \in Procs, RecStep(p) PROVE Seen'
  <2>1. ASSUME NEW s \in Services, boot'[s].pc = "snapshot"
        PROVE  boot'[s].original = live'[boot'[s].at]
    <3>1. boot'[s] = boot[s]
      BY <1>1, <2>1, RecFrame
    <3>2. live' = live
      BY <1>1, <2>1, <3>1, RecAlone
    <3> QED
      BY <2>1, <3>1, <3>2 DEF Seen, SeenStart
  <2>2. ASSUME NEW q \in Procs PROVE SeenRec(q)'
    <3>1. CASE q = p
      BY <1>1, <3>1, RecSeen DEF Seen
    <3>2. CASE q # p
      <4>1. \/ rec'[q].pc \in {"idle", "port"}
            \/ rec'[q] = rec[q] /\ live' = live /\ snap' = snap
        BY <1>1, <3>2, RecAlone
      <4> QED
        BY <4>1 DEF Seen, SeenRec, InLock
    <3> QED
      BY <3>1, <3>2
  <2> QED
    BY <2>1, <2>2 DEF Seen, SeenStart
<1>2. CASE /\ StopStep \/ Outside \/ UNCHANGED vars
           /\ \A s \in Services : ~ Start(s) /\ ~ Interrupt(s)
  <2>1. ASSUME NEW s \in Services PROVE SeenStart(s)'
    <3>1. \/ boot'[s].pc # "snapshot"
          \/ boot'[s] = boot[s] /\ live' = live
      BY <1>2, WorldAlone
    <3> QED
      BY <3>1 DEF Seen, SeenStart
  <2>2. ASSUME NEW q \in Procs PROVE SeenRec(q)'
    <3>1. \/ rec'[q].pc \in {"idle", "wait"}
          \/ rec'[q] = rec[q] /\ live' = live /\ snap' = snap
      BY <1>2, WorldAlone
    <3> QED
      BY <3>1 DEF Seen, SeenRec, InLock
  <2> QED
    BY <2>1, <2>2 DEF Seen
<1> QED
  BY <1>1, <1>2, StartSeen DEF Next

-----------------------------------------------------------------------------
(* The relay of an absorbed harness.                                       *)

\* f has a relay for every harness that absorption took over.
Covers(f) == \A h \in Harnesses : absorbed[h] => f[h] # None

\* An absorbed harness still points at us, and its snapshot is a provider's
\* address: so neither a reclaim nor the removal of a relay left behind by a
\* two-hop takeover concerns it.
AbsorbedStays ==
  \A h \in Harnesses : absorbed[h] => live[h] = Ours /\ snap[h] \in Upstreams

\* Not only the file has those relays, but every copy of the configuration
\* that is going to be saved over it.
CopyStart(s) ==
  boot[s].pc \in {"begin", "activate", "wire", "snapshot", "rewrite",
                  "intent"} =>
    Covers(cfg[s])

CopyRec(p) ==
  rec[p].pc \in {"wait", "act", "relay", "adopt"} => Covers(cfg[p])

\* An absorption under way has written its snapshot, then its relay.
Absorbing(p) ==
  /\ rec[p].pc \in {"relay", "adopt"} => snap[rec[p].at] \in Upstreams
  /\ rec[p].pc = "adopt" =>
       cfg[p][rec[p].at] # None /\ direct[rec[p].at] # None

Relayed ==
  /\ AbsorbedStays
  /\ Covers(direct)
  /\ \A s \in Services : CopyStart(s)
  /\ \A p \in Procs : CopyRec(p) /\ Absorbing(p)
  /\ stp.pc = "restore" => Covers(stp.relays)

LEMMA StartRelayed ==
  ASSUME Serial, TypeOK, Cursors, OneRole, Places, Seen, Relayed,
         NEW s \in Services, Start(s) \/ Interrupt(s) \/ StartStep(s)
  PROVE  Relayed'
<1>a. /\ absorbed' = absorbed /\ s \in Procs
      /\ cfg \in [Procs -> Relays] /\ direct \in Relays
      /\ snap \in [Harnesses -> Content \cup {None}]
  BY DEF TypeOK, Procs, Start, Interrupt, StartStep, StartRefused,
     StartBegins, RelaysActivate, WireSkip, WireBackup, WireSnapshot,
     WireRewrite, WritePid, StartIntent, Listen
<1>b. /\ \A r \in Services \ {s} : boot'[r].pc \in {"off", "up"}
      /\ \A q \in Procs \ {s} : rec'[q].pc \in {"idle", "port"}
      /\ stp'.pc = "idle"
      /\ rec'[s].pc = "idle" \/ (StartIntent(s) /\ rec'[s].pc = "wait")
  BY StartAlone
<1>1. AbsorbedStays'
  <2>1. CASE WireSnapshot(s)
    <3> DEFINE h == boot[s].at
    <3>1. /\ h \in Harnesses /\ boot[s].original = live[h] /\ live' = live
          /\ \A g \in Harnesses \ {h} : snap'[g] = snap[g]
          /\ boot[s].original = Ours => snap'[h] = snap[h]
      BY <1>a, <2>1 DEF WireSnapshot, Cursors, BootCursor, Seen, SeenStart
    <3> QED
      BY <1>a, <3>1 DEF Relayed, AbsorbedStays
  <2>2. CASE WireRewrite(s)
    <3> DEFINE h == boot[s].at
    <3>1. h \in Harnesses /\ TakeOver({h}, {h}) /\ snap' = snap
      BY <2>2 DEF WireRewrite, Cursors, BootCursor
    <3>2. /\ live'[h] = IF live[h] = NoFile THEN NoFile ELSE Ours
          /\ \A g \in Harnesses \ {h} : live'[g] = live[g]
      BY <3>1, TakeOverLive
    <3> QED
      BY <1>a, <3>1, <3>2 DEF Relayed, AbsorbedStays, Ours, NoFile
  <2>3. CASE ~ WireSnapshot(s) /\ ~ WireRewrite(s)
    <3>1. live' = live /\ snap' = snap
      BY <2>3 DEF Start, Interrupt, StartStep, StartRefused, StartBegins,
         RelaysActivate, WireSkip, WireBackup, WritePid, StartIntent, Listen
    <3> QED
      BY <1>a, <3>1 DEF Relayed, AbsorbedStays
  <2> QED
    BY <2>1, <2>2, <2>3
<1>2. Covers(direct)'
  <2>1. CASE RelaysActivate(s)
    BY <1>a, <2>1 DEF RelaysActivate, Relayed, CopyStart, Covers
  <2>2. CASE ~ RelaysActivate(s)
    <3>1. direct' = direct
      BY <2>2 DEF Start, Interrupt, StartStep, StartRefused, StartBegins,
         WireSkip, WireBackup, WireSnapshot, WireRewrite, WritePid,
         StartIntent, Listen
    <3> QED
      BY <1>a, <3>1 DEF Relayed, Covers
  <2> QED
    BY <2>1, <2>2
<1>3. CopyStart(s)'
  <2>1. CASE Start(s)
    <3>1. cfg'[s] = direct
      BY <1>a, <2>1 DEF Start
    <3> QED
      BY <1>a, <3>1 DEF Relayed, Covers, CopyStart
  <2>2. CASE StartRefused(s) \/ Interrupt(s) \/ Listen(s)
    <3>1. boot'[s].pc \in {"off", "up"}
      BY <2>2, BootFields
    <3> QED
      BY <3>1 DEF CopyStart
  <2>3. CASE StartStep(s) /\ ~ StartRefused(s) /\ ~ Listen(s)
    <3>1. /\ cfg' = cfg
          /\ boot[s].pc \in {"begin", "activate", "wire", "snapshot",
                             "rewrite", "intent"}
      BY <2>3 DEF StartStep, StartBegins, RelaysActivate, WireSkip,
         WireBackup, WireSnapshot, WireRewrite, WritePid, StartIntent
    <3> QED
      BY <1>a, <3>1 DEF Relayed, Covers, CopyStart
  <2> QED
    BY <2>1, <2>2, <2>3
<1>4. CopyRec(s)' /\ Absorbing(s)'
  <2>1. CASE StartIntent(s)
    <3>1. /\ cfg' = cfg /\ boot[s].pc = "intent"
          /\ rec'[s].pc \in {"idle", "wait"}
      BY <1>b, <2>1 DEF StartIntent
    <3> QED
      BY <1>a, <3>1 DEF Relayed, Covers, CopyStart, CopyRec, Absorbing
  <2>2. CASE ~ StartIntent(s)
    BY <1>b, <2>2 DEF CopyRec, Absorbing
  <2> QED
    BY <2>1, <2>2
<1> QED
  BY <1>b, <1>1, <1>2, <1>3, <1>4
     DEF Relayed, CopyStart, CopyRec, Absorbing

\* What one step of p's reconcile() leaves of p's own claims.
LEMMA RecRelayed ==
  ASSUME TypeOK, Cursors, Seen, Relayed, NEW p \in Procs, RecStep(p)
  PROVE  /\ AbsorbedStays' /\ Covers(direct)'
         /\ CopyRec(p)' /\ Absorbing(p)'
<1>a. /\ cfg \in [Procs -> Relays] /\ direct \in Relays
      /\ rec[p].todo \subseteq Harnesses
      /\ snap \in [Harnesses -> Content \cup {None}]
      /\ absorbed \in [Harnesses -> BOOLEAN]
      /\ Tools \cap Upstreams = {} /\ None \notin Upstreams
      /\ Ours \notin Tools \cup Upstreams /\ Ours # NoUrl /\ Ours # NoFile
  BY TakeoverAssumption
     DEF TypeOK, RecState, Foreign, Ours, NoUrl, NoFile, None
<1>b. /\ \A h \in Harnesses :
           absorbed[h] => live[h] = Ours /\ snap[h] \in Upstreams
      /\ \A h \in Harnesses : absorbed[h] => direct[h] # None
      /\ rec[p].pc \in {"wait", "act", "relay", "adopt"} =>
           \A h \in Harnesses : absorbed[h] => cfg[p][h] # None
      /\ rec[p].pc \in {"relay", "adopt"} => snap[rec[p].at] \in Upstreams
      /\ rec[p].pc = "adopt" =>
           cfg[p][rec[p].at] # None /\ direct[rec[p].at] # None
  BY DEF Relayed, AbsorbedStays, Covers, CopyRec, Absorbing
\* Nothing happens to the files, and p goes on or out.
<1>1. ASSUME UNCHANGED <<files, ghosts>>,
             \/ rec'[p].pc \notin {"wait", "act", "relay", "adopt"}
             \/ /\ rec[p].pc \in {"wait", "act"} /\ rec'[p].pc = "act"
                /\ cfg'[p] = cfg[p]
      PROVE  /\ AbsorbedStays' /\ Covers(direct)'
             /\ CopyRec(p)' /\ Absorbing(p)'
  BY <1>1, <1>b DEF AbsorbedStays, Covers, CopyRec, Absorbing
<1>2. CASE RecTimeout(p) \/ RestartFails(p) \/ PortWaitEnds(p)
  <2>1. rec'[p].pc = "idle"
    BY <1>2, RecFields DEF RecTimeout, RestartFails, PortWaitEnds, NotRec
  <2> QED
    BY <1>1, <1>2, <2>1 DEF RecTimeout, RestartFails, PortWaitEnds
<1>3. CASE Observe(p)
  <2>1. rec'[p].pc = "act" /\ rec[p].pc = "wait" /\ cfg' = cfg
    BY <1>3, RecFields DEF Observe
  <2> QED
    BY <1>1, <1>3, <2>1 DEF Observe
<1>4. ASSUME NEW h \in Harnesses, KeepOurs(p, h)
      PROVE  /\ AbsorbedStays' /\ Covers(direct)'
             /\ CopyRec(p)' /\ Absorbing(p)'
  <2> DEFINE stale == snap[h] \in Tools /\ cfg[p][h] # None
  <2>1. /\ rec[p].pc = "act" /\ Handled(p, h, stale, FALSE)
        /\ cfg' = [cfg EXCEPT ![p] =
                     [cfg[p] EXCEPT ![h] = IF stale THEN None ELSE cfg[p][h]]]
        /\ UNCHANGED <<files, ghosts>>
    BY <1>4 DEF KeepOurs, Reaches
  <2>2. rec'[p].pc = "act"
    BY <2>1, HandledFields
  <2>3. \A g \in Harnesses : \/ cfg'[p][g] = cfg[p][g]
                             \/ g = h /\ snap[h] \in Tools
    BY <1>a, <2>1 DEF Relays
  <2> QED
    BY <1>a, <1>b, <2>1, <2>2, <2>3
       DEF AbsorbedStays, Covers, CopyRec, Absorbing
<1>5. ASSUME NEW h \in Harnesses, Reclaim(p, h)
      PROVE  /\ AbsorbedStays' /\ Covers(direct)'
             /\ CopyRec(p)' /\ Absorbing(p)'
  <2>1. /\ rec[p].pc = "act" /\ h \in rec[p].todo /\ rec[p].alive
        /\ rec[p].cur[h] \in Tools \cup {NoUrl} /\ TakeOver({h}, {})
        /\ Handled(p, h, live[h] # NoFile, FALSE)
        /\ UNCHANGED <<snap, direct, cfg, ghosts>>
    BY <1>5 DEF Reclaim, Reaches, IsReclaimed
  <2>2. rec'[p].pc = "act"
    BY <2>1, HandledFields
  <2>3. ~ absorbed[h]
    <3>1. live[h] = rec[p].cur[h]
      BY <2>1 DEF Seen, SeenRec, InLock
    <3> QED
      BY <1>a, <1>b, <2>1, <3>1
  <2>4. \A g \in Harnesses \ {h} : live'[g] = live[g]
    BY <2>1, TakeOverLive
  <2> QED
    BY <1>b, <2>1, <2>2, <2>3, <2>4
       DEF AbsorbedStays, Covers, CopyRec, Absorbing
<1>6. ASSUME NEW h \in Harnesses,
             \/ NoConfigFile(p, h) \/ ZombieRestart(p, h)
             \/ ZombieUnresolved(p, h) \/ LeaveAlone(p, h)
      PROVE  /\ AbsorbedStays' /\ Covers(direct)'
             /\ CopyRec(p)' /\ Absorbing(p)'
  <2>1. /\ rec[p].pc = "act" /\ UNCHANGED <<files, ghosts, cfg>>
        /\ \E restart : Handled(p, h, FALSE, restart)
    BY <1>6 DEF NoConfigFile, ZombieRestart, ZombieUnresolved, LeaveAlone,
       Reaches
  <2>2. rec'[p].pc = "act"
    BY <2>1, HandledFields
  <2> QED
    BY <1>1, <2>1, <2>2
<1>7. ASSUME NEW h \in Harnesses, AbsorbSnapshot(p, h)
      PROVE  /\ AbsorbedStays' /\ Covers(direct)'
             /\ CopyRec(p)' /\ Absorbing(p)'
  <2>1. /\ rec[p].pc = "act" /\ rec'[p].pc = "relay" /\ rec'[p].at = h
        /\ snap'[h] \in Upstreams
        /\ \A g \in Harnesses \ {h} : snap'[g] = snap[g]
        /\ UNCHANGED <<live, direct, cfg, ghosts>>
    BY <1>7, <1>a, RecFields DEF AbsorbSnapshot, Reaches
  <2> QED
    BY <1>b, <2>1 DEF AbsorbedStays, Covers, CopyRec, Absorbing
<1>8. CASE AbsorbRelay(p)
  <2> DEFINE h == rec[p].at
  <2>1. /\ rec[p].pc = "relay" /\ rec'[p].pc = "adopt" /\ rec'[p].at = h
        /\ h \in Harnesses /\ rec[p].cur[h] \in Upstreams
        /\ cfg' = [cfg EXCEPT ![p] = [cfg[p] EXCEPT ![h] = rec[p].cur[h]]]
        /\ direct' = cfg'[p] /\ UNCHANGED <<live, snap, ghosts>>
    BY <1>8, RecFields DEF AbsorbRelay, Cursors, RecCursor
  <2>2. /\ cfg'[p][h] = rec[p].cur[h]
        /\ \A g \in Harnesses \ {h} : cfg'[p][g] = cfg[p][g]
    BY <1>a, <2>1 DEF Relays
  <2>3. /\ cfg'[p][h] # None
        /\ \A g \in Harnesses : absorbed[g] => cfg'[p][g] # None
    BY <1>a, <1>b, <2>1, <2>2
  <2> QED
    BY <1>b, <2>1, <2>3 DEF AbsorbedStays, Covers, CopyRec, Absorbing
<1>9. CASE AbsorbAdopt(p)
  <2> DEFINE h == rec[p].at
  <2>1. /\ rec[p].pc = "adopt" /\ h \in Harnesses
        /\ TakeOver({h}, {h}) /\ Handled(p, h, TRUE, FALSE)
        /\ UNCHANGED <<snap, direct, cfg>>
        /\ absorbed' = [absorbed EXCEPT ![h] = live[h] # NoFile]
    BY <1>9 DEF AbsorbAdopt, Cursors, RecCursor
  <2>2. rec'[p].pc = "act"
    BY <2>1, HandledFields
  <2>3. /\ live'[h] = IF live[h] = NoFile THEN NoFile ELSE Ours
        /\ \A g \in Harnesses \ {h} : live'[g] = live[g]
    BY <2>1, TakeOverLive
  <2>4. /\ absorbed'[h] => live'[h] = Ours
        /\ \A g \in Harnesses \ {h} : absorbed'[g] = absorbed[g]
    BY <1>a, <2>1, <2>3
  <2> QED
    BY <1>b, <2>1, <2>2, <2>3, <2>4
       DEF AbsorbedStays, Covers, CopyRec, Absorbing
<1>10. ASSUME NEW h \in Harnesses, ZombieRestore(p, h)
       PROVE  /\ AbsorbedStays' /\ Covers(direct)'
              /\ CopyRec(p)' /\ Absorbing(p)'
  <2> DEFINE H == {g \in Harnesses : live[g] = Ours /\ snap[g] # None}
  <2>1. /\ rec[p].pc = "act" /\ GiveBack(H, snap)
        /\ Handled(p, h, TRUE, FALSE) /\ UNCHANGED <<snap, direct, cfg>>
    BY <1>10 DEF ZombieRestore, Reaches
  <2>2. rec'[p].pc = "act"
    BY <2>1, HandledFields
  <2>3. \A g \in Harnesses : absorbed'[g] => absorbed[g] /\ live'[g] = live[g]
    BY <2>1, GiveBackLive DEF GiveBack
  <2> QED
    BY <1>b, <2>1, <2>2, <2>3
       DEF AbsorbedStays, Covers, CopyRec, Absorbing
<1>11. CASE RecFinish(p)
  <2>1. rec[p].pc = "act" /\ rec'[p].pc \in {"restart", "idle"}
    BY <1>11, RecFields DEF RecFinish, NotRec
  <2>2. /\ direct' = cfg[p] \/ direct' = direct
        /\ UNCHANGED <<live, snap, ghosts>>
    BY <1>11 DEF RecFinish
  <2> QED
    BY <1>b, <2>1, <2>2 DEF AbsorbedStays, Covers, CopyRec, Absorbing
<1>12. ASSUME NEW s \in Services, RestartService(p, s)
       PROVE  /\ AbsorbedStays' /\ Covers(direct)'
              /\ CopyRec(p)' /\ Absorbing(p)'
  <2>1. rec'[p].pc = "port"
    BY <1>12, RecFields
  <2> QED
    BY <1>1, <1>12, <2>1 DEF RestartService
<1> QED
  BY <1>2, <1>3, <1>4, <1>5, <1>6, <1>7, <1>8, <1>9, <1>10, <1>11, <1>12
     DEF RecStep

LEMMA WorldRelayed ==
  ASSUME Serial, TypeOK, OneRole, Places, Relayed,
         \/ StopStep \/ Outside \/ UNCHANGED vars,
         \A s \in Services : ~ Start(s) /\ ~ Interrupt(s)
  PROVE  /\ AbsorbedStays' /\ Covers(direct)'
         /\ (stp.pc = "restore" => Covers(stp.relays))'
<1>a. /\ absorbed \in [Harnesses -> BOOLEAN]
      /\ live \in [Harnesses -> Content \cup {NoFile}]
  BY DEF TypeOK
<1>b. /\ AbsorbedStays /\ Covers(direct)
      /\ stp.pc = "restore" => Covers(stp.relays)
  BY DEF Relayed
<1>1. CASE StopUnlink
  <2>1. stp'.relays = direct /\ UNCHANGED <<files, ghosts>>
    BY <1>1, StopFields DEF StopUnlink
  <2> QED
    BY <1>b, <2>1 DEF AbsorbedStays, Covers
<1>2. ASSUME NEW h \in Harnesses, StopRestore(h)
      PROVE  /\ AbsorbedStays' /\ Covers(direct)'
             /\ (stp.pc = "restore" => Covers(stp.relays))'
  <2> DEFINE to == IF stp.snaps[h] # None THEN stp.snaps[h] ELSE bak[h]
             H == IF live[h] = Ours /\ to # None THEN {h} ELSE {}
  <2>1. /\ GiveBack(H, [g \in Harnesses |-> to])
        /\ UNCHANGED <<snap, direct>> /\ stp.pc = "restore"
        /\ stp'.relays = stp.relays
    BY <1>2, StopFields DEF StopRestore
  <2>2. \A g \in Harnesses : absorbed'[g] => absorbed[g] /\ live'[g] = live[g]
    BY <2>1, GiveBackLive DEF GiveBack
  <2> QED
    BY <1>b, <2>1, <2>2 DEF AbsorbedStays, Covers
<1>3. CASE StopRelays
  <2>1. /\ stp.pc = "restore" /\ direct' = stp.relays /\ stp'.pc = "intent"
        /\ UNCHANGED <<wired, ghosts>>
    BY <1>3, StopFields DEF StopRelays
  <2> QED
    BY <1>b, <2>1 DEF AbsorbedStays, Covers
<1>4. ASSUME NEW h \in Harnesses,
             \/ \E v \in EditValues : UserEdit(h, v)
             \/ \E t \in Tools : ToolEdit(h, t)
      PROVE  /\ AbsorbedStays' /\ Covers(direct)'
             /\ (stp.pc = "restore" => Covers(stp.relays))'
  <2>1. /\ \A g \in Harnesses : absorbed'[g] => absorbed[g] /\ g # h
        /\ \A g \in Harnesses \ {h} : live'[g] = live[g]
        /\ UNCHANGED <<snap, direct, stp>>
    BY <1>4, <1>a DEF UserEdit, ToolEdit
  <2> QED
    BY <1>b, <2>1 DEF AbsorbedStays, Covers
<1>5. CASE \/ StopIntent \/ StopNotRunning \/ StopTerminate \/ CrashStop
           \/ \E s \in Services : CrashService(s)
           \/ \E c \in Commands : Refresh(c) \/ CrashCommand(c)
           \/ UNCHANGED vars
  <2>1. UNCHANGED <<files, ghosts>> /\ (stp' = stp \/ stp'.pc # "restore")
    BY <1>5, StopFields DEF StopIntent, StopNotRunning, StopTerminate,
       CrashStop, CrashService, Refresh, CrashCommand, vars
  <2> QED
    BY <1>b, <2>1 DEF AbsorbedStays, Covers
<1> QED
  BY <1>1, <1>2, <1>3, <1>4, <1>5 DEF StopStep, Outside

LEMMA StepRelayed ==
  ASSUME Serial, TypeOK, Cursors, OneRole, Places, Seen, Relayed, [Next]_vars
  PROVE  Relayed'
<1>1. ASSUME NEW p \in Procs, RecStep(p) PROVE Relayed'
  <2>a. /\ cfg \in [Procs -> Relays] /\ Services \subseteq Procs
        /\ boot \in [Services -> BootState]
    BY DEF TypeOK, Procs
  <2>1. ASSUME NEW q \in Procs PROVE CopyRec(q)' /\ Absorbing(q)'
    <3>1. CASE q = p
      BY <1>1, <3>1, RecRelayed
    <3>2. CASE q # p
      <4>1. \/ rec'[q].pc \in {"idle", "port"}
            \/ /\ rec'[q] = rec[q] /\ cfg'[q] = cfg[q]
               /\ UNCHANGED <<files, ghosts>>
        BY <1>1, <3>2, RecAlone
      <4> QED
        BY <4>1 DEF Relayed, CopyRec, Absorbing, Covers
    <3> QED
      BY <3>1, <3>2
  <2>2. ASSUME NEW s \in Services PROVE CopyStart(s)'
    <3>1. CASE PortWaitEnds(p) /\ p \notin Services
      <4>1. boot' = boot /\ cfg'[s] = cfg[s] /\ absorbed' = absorbed
        BY <2>a, <3>1 DEF PortWaitEnds, RecDone
      <4> QED
        BY <4>1 DEF Relayed, CopyStart, Covers
    <3>2. CASE \E r \in Services : RestartService(p, r)
      <4>1. PICK r \in Services : RestartService(p, r)
        BY <3>2
      <4>2. /\ absorbed' = absorbed
            /\ boot' = [boot EXCEPT ![r] = [boot[r] EXCEPT !.pc = "begin"]]
            /\ cfg' = [cfg EXCEPT ![r] = direct]
        BY <4>1 DEF RestartService
      <4>3. CASE s = r
        BY <2>a, <4>2, <4>3 DEF Relayed, CopyStart, Covers
      <4>4. CASE s # r
        BY <2>a, <4>2, <4>4 DEF Relayed, CopyStart, Covers
      <4> QED
        BY <4>3, <4>4
    <3>3. CASE /\ rec[p].pc # "port"
               /\ \A r \in Services : ~ RestartService(p, r)
      <4>1. \/ s = p /\ boot[s].pc = "reconcile"
            \/ s # p /\ boot[s].pc \in {"off", "up"}
        BY <1>1, <3>3, RecAlone DEF PortWaitEnds
      <4>2. \/ boot'[s] = boot[s]
            \/ s = p /\ boot'[s].pc = "listen"
        <5>1. boot' = boot \/ RecDone(p)
          BY <1>1, <3>3 DEF RecStep, RecTimeout, Observe, KeepOurs, Reclaim,
             NoConfigFile, AbsorbSnapshot, ZombieRestart, ZombieRestore,
             ZombieUnresolved, LeaveAlone, AbsorbRelay, AbsorbAdopt,
             RecFinish, RestartFails, PortWaitEnds
        <5>2. CASE RecDone(p) /\ p \in Services
          <6>1. boot' = [boot EXCEPT ![p] = [boot[p] EXCEPT !.pc = "listen"]]
            BY <5>2 DEF RecDone
          <6>2. [boot[p] EXCEPT !.pc = "listen"].pc = "listen"
            BY <2>a, <5>2 DEF BootState
          <6> QED
            BY <2>a, <6>1, <6>2
        <5>3. CASE RecDone(p) /\ p \notin Services
          BY <5>3 DEF RecDone
        <5> QED
          BY <5>1, <5>2, <5>3
      <4> QED
        BY <4>1, <4>2 DEF CopyStart
    <3> QED
      BY <1>1, <3>1, <3>2, <3>3, RecAlone
  <2>3. stp' = stp /\ stp.pc = "idle"
    BY <1>1, RecAlone
  <2> QED
    BY <1>1, <2>1, <2>2, <2>3, RecRelayed DEF Relayed
<1>2. CASE /\ StopStep \/ Outside \/ UNCHANGED vars
           /\ \A s \in Services : ~ Start(s) /\ ~ Interrupt(s)
  <2>1. ASSUME NEW s \in Services PROVE CopyStart(s)'
    <3>1. \/ /\ boot'[s] = boot[s] /\ cfg'[s] = cfg[s]
             /\ UNCHANGED <<files, ghosts>>
          \/ boot'[s].pc \in {"off", "up"}
      BY <1>2, WorldAlone
    <3> QED
      BY <3>1 DEF Relayed, CopyStart, Covers
  <2>2. ASSUME NEW q \in Procs PROVE CopyRec(q)' /\ Absorbing(q)'
    <3>1. \/ /\ rec'[q] = rec[q] /\ cfg'[q] = cfg[q]
             /\ UNCHANGED <<files, ghosts>>
          \/ rec'[q].pc = "idle"
          \/ /\ rec'[q].pc = "wait" /\ cfg'[q] = direct
             /\ UNCHANGED <<files, ghosts>>
      BY <1>2, WorldAlone
    <3> QED
      BY <3>1 DEF Relayed, CopyRec, Absorbing, Covers
  <2> QED
    BY <1>2, <2>1, <2>2, WorldRelayed DEF Relayed
<1> QED
  BY <1>1, <1>2, StartRelayed DEF Next

-----------------------------------------------------------------------------
(* The theorems about commands that follow one another.                    *)

SerialInv ==
  /\ IInv
  /\ Places
  /\ Seen
  /\ Relayed

LEMMA InitSerialInv == Init => SerialInv
<1> SUFFICES ASSUME Init PROVE SerialInv
  OBVIOUS
<1>a. /\ Services \subseteq Procs /\ Commands \subseteq Procs
      /\ \A s \in Services : boot[s] = Off
      /\ \A p \in Procs : rec[p] = NotRec
      /\ stp.pc = "idle"
  BY DEF Init, Procs, NotStop
<1>1. Places
  BY <1>a DEF Places, Solo, Ports, Starting, InLock, Off, NotRec
<1>2. Seen
  BY <1>a DEF Seen, SeenStart, SeenRec, InLock, Off, NotRec
<1>3. Relayed
  BY <1>a DEF Init, Relayed, AbsorbedStays, Covers, CopyStart, CopyRec,
     Absorbing, Off, NotRec
<1> QED
  BY <1>1, <1>2, <1>3, InitIInv DEF SerialInv

LEMMA StepSerialInv ==
  ASSUME Serial, SerialInv, [Next]_vars
  PROVE  SerialInv'
<1>1. IInv /\ TypeOK /\ Cursors /\ OneRole /\ SnapshotNeverOurs
  BY DEF SerialInv, IInv
<1>2. Places /\ Seen /\ Relayed
  BY DEF SerialInv
<1>3. IInv'
  BY <1>1, StepIInv
<1> QED
  BY <1>1, <1>2, <1>3, StepPlaces, StepSeen, StepRelayed DEF SerialInv

\* With commands one at a time, the strengthened invariant holds in every
\* behaviour, through any crashes.
THEOREM SerialInvariance ==
  ASSUME Serial
  PROVE  Spec => []SerialInv
<1>1. SerialInv /\ [Next]_vars => SerialInv'
  BY StepSerialInv
<1> QED
  BY InitSerialInv, <1>1, PTL DEF Spec

\* The process that listens is the one the pid file names, whatever starts,
\* restarts, stops and crashes came before: stop and status find it
\* (cli_lifecycle.py).
THEOREM ServerIsFound ==
  ASSUME Serial
  PROVE  Spec => []ServerIsReachable
<1>1. SerialInv => ServerIsReachable
  BY DEF SerialInv, Places, Ports, ServerIsReachable, Serving
<1> QED
  BY SerialInvariance, <1>1, PTL

\* No absorbed harness is ever without its direct relay while the service
\* runs: no crash between the three writes of an absorption, no removal of
\* relays left behind and no save of an older copy of the configuration
\* leaves one (reconcile.py:177).
THEOREM AbsorbedKeepsRelay ==
  ASSUME Serial
  PROVE  Spec => []AbsorbedHasRelay
<1>1. SerialInv => AbsorbedHasRelay
  BY DEF SerialInv, Relayed, Covers, AbsorbedHasRelay
<1> QED
  BY SerialInvariance, <1>1, PTL

\* One pass of reconcile() settles every harness: a running service has all
\* files, a dead and unwanted one none that could be given back
\* (reconcile.py:253-381).
THEOREM OnePassConverges == Spec => ReconcileConverges
<1> DEFINE A ==
      \A p \in Procs :
        Serial /\ RecFinish(p) =>
          /\ rec[p].alive => \A h \in Harnesses : live[h] \in {Ours, NoFile}
          /\ ~ rec[p].alive /\ ~ rec[p].on =>
               \A h \in Harnesses : live[h] = Ours => snap[h] = None
<1>1. CASE ~ Serial
  <2>1. A
    BY <1>1
  <2> QED
    BY <2>1, PTL DEF ReconcileConverges
<1>2. CASE Serial
  <2>1. SerialInv => A
    BY DEF SerialInv, Seen, SeenRec, InLock, RecFinish
  <2> HIDE DEF A
  <2>2. Spec => [][A]_vars
    BY SerialInvariance, <1>2, <2>1, PTL
  <2> QED
    BY <2>2 DEF ReconcileConverges, A
<1> QED
  BY <1>1, <1>2

-----------------------------------------------------------------------------
(* What a stop gives back.                                                 *)
(*                                                                         *)
(* Two more hypotheses: every harness has its file before the first start, *)
(* and what the user later puts into one is a provider's address.  They    *)
(* are needed.  A file that appears, or loses its base_url, while the      *)
(* service runs is reclaimed without a record of what it held              *)
(* (reconcile.py:324), and a tool's address that the user has chosen by    *)
(* hand is taken back like one that the tool wrote.                        *)

\* What a stop would write into h, if h is ours.
To(h) == IF snap[h] # None THEN snap[h] ELSE bak[h]

\* v is what the user chose last for h, or a tool's, or any address that is
\* not ours when a tool has overwritten the choice.
Fine(h, v) ==
  /\ v \in Foreign \cup {NoUrl}
  /\ v = orig[h] \/ v \in Tools \/ orig[h] = None

\* Every file is ours or as it should be.  Ours can be given back, and what
\* is recorded of a file is right as soon as it may be used: a provider's
\* address that the user has just chosen will be recorded before the file
\* is taken over.
Traced(h) ==
  /\ live[h] # NoFile
  /\ To(h) # Ours
  /\ live[h] # Ours => Fine(h, live[h])
  /\ live[h] \notin Upstreams /\ To(h) # None => Fine(h, To(h))
  /\ live[h] = Ours => To(h) # None

Kept(H) == \A h \in H : To(h) # None

\* A start has a record of every file that it has passed; of the one it
\* works on it has the backup first, then the right record.
KeptStart(s) ==
  /\ boot[s].pc \in {"wire", "snapshot", "rewrite"} =>
       Kept(Harnesses \ boot[s].todo)
  /\ boot[s].pc = "snapshot" => bak[boot[s].at] # None
  /\ boot[s].pc = "rewrite" =>
       To(boot[s].at) # None /\ Fine(boot[s].at, To(boot[s].at))

\* A reconciliation that has seen the service has a record of every file.
KeptRec(p) ==
  /\ InLock(p) /\ rec[p].alive => Kept(Harnesses)
  /\ rec[p].pc \in {"relay", "adopt"} =>
       snap[rec[p].at] = rec[p].cur[rec[p].at]

\* A stop works with the snapshots as they are, and leaves nothing ours.
KeptStop ==
  /\ stp.pc = "restore" =>
       /\ stp.snaps = snap
       /\ \A h \in Harnesses \ stp.todo : live[h] # Ours
  /\ stp.pc = "intent" => \A h \in Harnesses : live[h] # Ours

Recoverable ==
  /\ \A h \in Harnesses : Traced(h)
  /\ pidFile \in Services => Kept(Harnesses)
  /\ \A s \in Services : KeptStart(s)
  /\ \A p \in Procs : KeptRec(p)
  /\ KeptStop

\* The values of the model are apart from each other, and an address on
\* record is not one of the marks for "nothing".
LEMMA Apart ==
  ASSUME TypeOK, SnapshotNeverOurs
  PROVE  /\ Ours # NoUrl /\ Ours # NoFile /\ Ours # None
         /\ NoUrl # NoFile /\ NoUrl # None /\ NoFile # None
         /\ Ours \notin Foreign /\ NoUrl \notin Foreign
         /\ NoFile \notin Foreign /\ None \notin Foreign
         /\ Foreign = Tools \cup Upstreams /\ Tools \cap Upstreams = {}
         /\ \A h \in Harnesses :
              /\ live[h] \in Foreign \cup {Ours, NoUrl, NoFile}
              /\ bak[h] \in Foreign \cup {Ours, NoUrl, None}
              /\ snap[h] \in Foreign \cup {None}
BY TakeoverAssumption
   DEF TypeOK, SnapshotNeverOurs, Content, Foreign, Ours, NoUrl, NoFile, None

LEMMA StartTraced ==
  ASSUME Serial, TypeOK, Cursors, OneRole, SnapshotNeverOurs, Places, Seen,
         Recoverable, NEW s \in Services,
         Start(s) \/ Interrupt(s) \/ StartStep(s)
  PROVE  Recoverable'
<1>a. /\ orig' = orig
      /\ bak \in [Harnesses -> Content \cup {None}]
      /\ snap \in [Harnesses -> Content \cup {None}]
      /\ None \notin Services
  BY TakeoverAssumption DEF TypeOK, Procs, Start, Interrupt, StartStep,
     StartRefused, StartBegins, RelaysActivate, WireSkip, WireBackup,
     WireSnapshot, WireRewrite, WritePid, StartIntent, Listen
<1>b. /\ \A r \in Services \ {s} : boot'[r].pc \in {"off", "up"}
      /\ \A q \in Procs : rec'[q].pc \in {"idle", "port", "wait"}
      /\ stp'.pc = "idle"
  BY StartAlone DEF Procs
<1>c. /\ \A h \in Harnesses : Traced(h)
      /\ pidFile \in Services => Kept(Harnesses)
      /\ KeptStart(s)
  BY DEF Recoverable
\* Nothing is written to a file of h, a backup or a snapshot.
<1>1. ASSUME live' = live, bak' = bak, snap' = snap
      PROVE  /\ \A h \in Harnesses : Traced(h)'
             /\ \A h : To(h)' = To(h)
  BY <1>1, <1>a, <1>c DEF Traced, To, Fine
<1>2. CASE \/ Start(s) \/ StartRefused(s) \/ Interrupt(s) \/ StartBegins(s)
           \/ RelaysActivate(s) \/ WritePid(s) \/ StartIntent(s) \/ Listen(s)
  <2>1. live' = live /\ bak' = bak /\ snap' = snap
    BY <1>2 DEF Start, StartRefused, Interrupt, StartBegins,
       RelaysActivate, WritePid, StartIntent, Listen
  <2>2. boot'[s].pc = "wire" => boot'[s].todo = Harnesses
    BY <1>2, BootFields
  <2>3. boot'[s].pc \notin {"snapshot", "rewrite"}
    BY <1>2, BootFields
  <2>4. KeptStart(s)'
    BY <2>2, <2>3 DEF KeptStart, Kept
  <2>5. pidFile' \in Services => Kept(Harnesses)'
    <3>1. CASE WritePid(s)
      <4>1. Kept(Harnesses)
        BY <1>c, <3>1 DEF WritePid, KeptStart, Kept
      <4> QED
        BY <1>1, <2>1, <4>1 DEF Kept
    <3>2. CASE ~ WritePid(s)
      <4>1. pidFile' \in Services => pidFile \in Services
        BY <1>2, <1>a, <3>2, TakeoverAssumption DEF Start, StartRefused,
           Interrupt, StartBegins, RelaysActivate, StartIntent, Listen, Procs
      <4> QED
        BY <1>1, <1>c, <2>1, <4>1 DEF Kept
    <3> QED
      BY <3>1, <3>2
  <2> QED
    BY <1>b, <1>1, <2>1, <2>4, <2>5
       DEF Recoverable, KeptStart, KeptRec, KeptStop, InLock
<1>3. ASSUME NEW h \in Harnesses, WireSkip(s, h) PROVE FALSE
  BY <1>3, <1>c DEF WireSkip, Traced
\* The three writes: the other files and what is known of them stay.
<1>4. ASSUME NEW h \in Harnesses, pidFile' = pidFile,
             \A g \in Harnesses \ {h} :
               live'[g] = live[g] /\ bak'[g] = bak[g] /\ snap'[g] = snap[g],
             Traced(h)', To(h) # None => To(h)' # None, KeptStart(s)'
      PROVE  Recoverable'
  <2>1. \A g \in Harnesses : To(g) # None => To(g)' # None
    BY <1>4 DEF To
  <2>2. \A g \in Harnesses : Traced(g)'
    BY <1>4, <1>a, <1>c DEF Traced, To, Fine
  <2> QED
    BY <1>4, <1>b, <1>c, <2>1, <2>2
       DEF Recoverable, KeptStart, KeptRec, KeptStop, InLock, Kept
<1>5. ASSUME NEW h \in Harnesses, WireBackup(s, h) PROVE Recoverable'
  <2>1. /\ live' = live /\ snap' = snap /\ pidFile' = pidFile
        /\ bak'[h] = IF bak[h] = None THEN live[h] ELSE bak[h]
        /\ \A g \in Harnesses \ {h} : bak'[g] = bak[g]
        /\ boot[s].pc = "wire"
        /\ boot'[s].pc = "snapshot" /\ boot'[s].at = h
        /\ boot'[s].todo = boot[s].todo
    BY <1>5, <1>a, BootFields DEF WireBackup
  <2>2. bak'[h] # None
    BY <2>1, Apart
  <2>3. \/ To(h)' = To(h)
        \/ To(h) = None /\ To(h)' = live[h] /\ live[h] # Ours
    BY <1>c, <2>1 DEF To, Traced
  <2>4. Traced(h)'
    <3>1. CASE To(h)' = To(h)
      BY <1>a, <1>c, <2>1, <3>1 DEF Traced, Fine
    <3>2. CASE To(h)' = live[h] /\ live[h] # Ours
      BY <1>a, <1>c, <2>1, <3>2 DEF Traced, Fine
    <3> QED
      BY <2>3, <3>1, <3>2
  <2>5. To(h) # None => To(h)' # None
    BY <2>3
  <2>6. \A g \in Harnesses : To(g) # None => To(g)' # None
    BY <2>1, <2>5 DEF To
  <2>7. KeptStart(s)'
    BY <1>c, <2>1, <2>2, <2>6 DEF KeptStart, Kept
  <2> QED
    BY <1>4, <2>1, <2>4, <2>5, <2>7
<1>6. CASE WireSnapshot(s)
  <2>a. PICK h \in Harnesses : h = boot[s].at
    BY <1>6 DEF WireSnapshot, Cursors, BootCursor
  <2>1. /\ live' = live /\ bak' = bak /\ pidFile' = pidFile
        /\ boot[s].original = live[h]
        /\ snap'[h] = IF live[h] \in {Ours, NoUrl} THEN snap[h] ELSE live[h]
        /\ \A g \in Harnesses \ {h} : snap'[g] = snap[g]
        /\ boot[s].pc = "snapshot"
        /\ boot'[s].pc = "rewrite" /\ boot'[s].at = h
        /\ boot'[s].todo = boot[s].todo
    BY <1>6, <1>a, <2>a, BootFields DEF WireSnapshot, Seen, SeenStart
  <2>2. Traced(h) /\ bak[h] # None
    BY <1>c, <2>1, <2>a DEF KeptStart
  <2>3. /\ To(h)' # None /\ To(h)' # Ours /\ Fine(h, To(h)')
    <3>1. CASE live[h] \in {Ours, NoUrl}
      <4>1. To(h)' = To(h) /\ To(h) # None
        BY <2>1, <2>2, <3>1 DEF To
      <4> QED
        BY <2>1, <2>2, <3>1, <4>1, Apart DEF Traced
    <3>2. CASE live[h] \notin {Ours, NoUrl}
      <4>1. To(h)' = live[h]
        BY <2>1, <3>2, Apart DEF To
      <4> QED
        BY <2>1, <2>2, <3>2, <4>1, Apart DEF Traced
    <3> QED
      BY <3>1, <3>2
  <2>4. Traced(h)'
    BY <1>a, <2>1, <2>2, <2>3 DEF Traced, Fine
  <2>5. \A g \in Harnesses : To(g) # None => To(g)' # None
    BY <2>1, <2>3 DEF To
  <2>6. KeptStart(s)'
    BY <1>a, <1>c, <2>1, <2>3, <2>5 DEF KeptStart, Kept, Fine
  <2> QED
    BY <1>4, <2>1, <2>3, <2>4, <2>6
<1>7. CASE WireRewrite(s)
  <2>a. PICK h \in Harnesses : h = boot[s].at
    BY <1>7 DEF WireRewrite, Cursors, BootCursor
  <2>1. /\ snap' = snap /\ bak' = bak /\ pidFile' = pidFile
        /\ TakeOver({h}, {h})
        /\ boot[s].pc = "rewrite" /\ boot'[s].pc = "wire"
        /\ boot'[s].todo = boot[s].todo \ {h}
    BY <1>7, <2>a, BootFields DEF WireRewrite
  <2>2. live'[h] = Ours /\ \A g \in Harnesses \ {h} : live'[g] = live[g]
    BY <1>c, <2>1, TakeOverLive DEF Traced
  <2>3. To(h)' = To(h) /\ To(h) # None /\ Fine(h, To(h)) /\ To(h) # Ours
    BY <1>c, <2>1, <2>a DEF KeptStart, To, Traced
  <2>4. Traced(h)'
    BY <1>a, <2>2, <2>3, Apart DEF Traced, Fine
  <2>5. KeptStart(s)'
    <3>1. \A g \in Harnesses : To(g)' = To(g)
      BY <2>1 DEF To
    <3> QED
      BY <1>c, <2>1, <2>3, <3>1 DEF KeptStart, Kept
  <2> QED
    BY <1>4, <2>1, <2>2, <2>3, <2>4, <2>5
<1> QED
  BY <1>2, <1>3, <1>5, <1>6, <1>7 DEF StartStep

LEMMA RecTraced ==
  ASSUME TypeOK, Cursors, OneRole, SnapshotNeverOurs, Places, Seen,
         Recoverable, NEW p \in Procs, RecStep(p)
  PROVE  Recoverable'
<1>a. /\ orig' = orig
      /\ snap \in [Harnesses -> Content \cup {None}]
      /\ rec[p].todo \subseteq Harnesses
      /\ None \notin Services
  BY TakeoverAssumption DEF TypeOK, RecState, Procs, RecStep, RecTimeout,
     Observe, KeepOurs, Reclaim, NoConfigFile, AbsorbSnapshot, ZombieRestart,
     ZombieRestore, ZombieUnresolved, LeaveAlone, AbsorbRelay, AbsorbAdopt,
     RecFinish, RestartService, RestartFails, PortWaitEnds
<1>b. /\ \A h \in Harnesses : Traced(h)
      /\ pidFile \in Services => Kept(Harnesses)
      /\ \A s \in Services : KeptStart(s)
      /\ KeptRec(p)
  BY DEF Recoverable
<1>c. stp'.pc = "idle"
  BY RecAlone
\* No start is writing files, before or after the step, unless p only ends
\* its wait for a port.
<1>d. \/ /\ UNCHANGED <<files, flags, ghosts, boot>>
         /\ rec'[p].pc = "idle"
         /\ \A q \in Procs \ {p} : rec'[q] = rec[q]
      \/ /\ \A s \in Services :
              boot'[s].pc \notin {"wire", "snapshot", "rewrite"}
         /\ \A q \in Procs \ {p} : rec'[q].pc \in {"idle", "port"}
  <2>1. CASE rec[p].pc = "port"
    BY <2>1, RecAlone
  <2>2. CASE rec[p].pc # "port"
    <3>1. \A s \in Services : boot[s].pc \in {"off", "up", "reconcile"}
      BY <2>2, RecAlone DEF PortWaitEnds
    <3>2. \A s \in Services : \/ boot'[s] = boot[s]
                              \/ boot'[s].pc \in {"listen", "begin"}
      BY RecFrame
    <3>3. \A q \in Procs \ {p} : rec'[q].pc \in {"idle", "port"}
      BY <2>2, RecAlone DEF PortWaitEnds
    <3> QED
      BY <3>1, <3>2, <3>3
  <2> QED
    BY <2>1, <2>2
\* Every step keeps the records that there are.
<1>1. ASSUME pidFile' = pidFile \/ pidFile' = None,
             \A h \in Harnesses : Traced(h)',
             \A h \in Harnesses : To(h) # None => To(h)' # None,
             KeptRec(p)'
      PROVE  Recoverable'
  <2>1. pidFile' \in Services => Kept(Harnesses)'
    BY <1>1, <1>a, <1>b DEF Kept
  <2>2. (\A s \in Services : KeptStart(s))'
    BY <1>a, <1>b, <1>d DEF KeptStart, Kept, To, Fine
  <2>3. (\A q \in Procs : KeptRec(q))'
    <3>1. ASSUME NEW q \in Procs \ {p} PROVE KeptRec(q)'
      BY <1>d, <3>1 DEF Recoverable, KeptRec, InLock, Kept, To
    <3> QED
      BY <1>1, <3>1
  <2> QED
    BY <1>1, <1>c, <2>1, <2>2, <2>3 DEF Recoverable, KeptStop
\* No file, backup or snapshot changes.
<1>2. ASSUME UNCHANGED <<live, bak, snap>>,
             pidFile' = pidFile \/ pidFile' = None,
             KeptRec(p)'
      PROVE  Recoverable'
  <2>1. /\ \A h \in Harnesses : Traced(h)'
        /\ \A h \in Harnesses : To(h)' = To(h)
    BY <1>2, <1>a, <1>b DEF Traced, To, Fine
  <2> QED
    BY <1>1, <1>2, <2>1
<1>3. CASE \/ RecTimeout(p) \/ RestartFails(p) \/ PortWaitEnds(p)
           \/ RecFinish(p)
           \/ \E s \in Services : RestartService(p, s)
  <2>1. /\ UNCHANGED <<live, bak, snap>>
        /\ pidFile' = pidFile \/ pidFile' = None
    BY <1>3 DEF RecTimeout, RestartFails, PortWaitEnds, RecFinish,
       RestartService
  <2>2. rec'[p].pc \in {"idle", "restart", "port"}
    BY <1>3, RecFields
       DEF RecTimeout, RestartFails, PortWaitEnds, RecFinish, NotRec
  <2>3. KeptRec(p)'
    BY <2>2 DEF KeptRec, InLock
  <2> QED
    BY <1>2, <2>1, <2>3
<1>4. CASE Observe(p)
  <2>1. /\ UNCHANGED <<live, bak, snap>> /\ pidFile' = pidFile
        /\ rec'[p].pc = "act" /\ rec'[p].alive = ServiceAlive
    BY <1>4, RecFields DEF Observe
  <2>2. ServiceAlive => Kept(Harnesses)
    BY <1>b DEF ServiceAlive, Serving, Places, Ports
  <2>3. KeptRec(p)'
    BY <2>1, <2>2 DEF KeptRec, Kept, To
  <2> QED
    BY <1>2, <2>1, <2>3
\* The loop is done with a harness, and nothing was written to its file.
<1>5. ASSUME NEW h \in Harnesses,
             \/ KeepOurs(p, h) \/ NoConfigFile(p, h) \/ ZombieRestart(p, h)
             \/ ZombieUnresolved(p, h) \/ LeaveAlone(p, h)
      PROVE  Recoverable'
  <2>1. /\ UNCHANGED <<live, bak, snap>> /\ pidFile' = pidFile
        /\ rec[p].pc = "act"
        /\ \E acted, restart : Handled(p, h, acted, restart)
    <3>1. CASE KeepOurs(p, h)
      BY <3>1 DEF KeepOurs, Reaches
    <3>2. CASE \/ NoConfigFile(p, h) \/ ZombieRestart(p, h)
               \/ ZombieUnresolved(p, h) \/ LeaveAlone(p, h)
      BY <3>2 DEF NoConfigFile, ZombieRestart, ZombieUnresolved, LeaveAlone,
         Reaches
    <3> QED
      BY <1>5, <3>1, <3>2
  <2>2. rec'[p].pc = "act" /\ rec'[p].alive = rec[p].alive
    BY <2>1, HandledFields DEF SameView
  <2>3. KeptRec(p)'
    BY <1>b, <2>1, <2>2 DEF KeptRec, InLock, Kept, To
  <2> QED
    BY <1>2, <2>1, <2>3
<1>6. ASSUME NEW h \in Harnesses, Reclaim(p, h) PROVE Recoverable'
  <2>1. /\ UNCHANGED <<bak, snap, pidFile>> /\ TakeOver({h}, {})
        /\ rec[p].pc = "act" /\ h \in rec[p].todo /\ rec[p].alive
        /\ rec[p].cur[h] \in Tools \cup {NoUrl}
        /\ Handled(p, h, live[h] # NoFile, FALSE)
    BY <1>6 DEF Reclaim, Reaches, IsReclaimed
  <2>2. rec'[p].pc = "act" /\ rec'[p].alive = rec[p].alive
    BY <2>1, HandledFields DEF SameView
  <2>3. /\ live'[h] = Ours
        /\ \A g \in Harnesses \ {h} : live'[g] = live[g]
    BY <1>b, <2>1, TakeOverLive DEF Traced
  <2>4. \A g \in Harnesses : To(g)' = To(g)
    BY <2>1 DEF To
  <2>5. live[h] \in Tools \cup {NoUrl} /\ To(h) # None
    BY <1>b, <2>1 DEF Seen, SeenRec, InLock, KeptRec, Kept
  <2>6. \A g \in Harnesses : Traced(g)'
    <3>1. Traced(h)'
      BY <1>a, <1>b, <2>3, <2>4, <2>5, Apart DEF Traced, Fine
    <3>2. ASSUME NEW g \in Harnesses \ {h} PROVE Traced(g)'
      BY <1>a, <1>b, <2>3, <2>4, <3>2 DEF Traced, Fine
    <3> QED
      BY <3>1, <3>2
  <2>7. KeptRec(p)'
    BY <1>b, <2>1, <2>2, <2>4 DEF KeptRec, InLock, Kept
  <2> QED
    BY <1>1, <2>1, <2>4, <2>6, <2>7
<1>7. ASSUME NEW h \in Harnesses, AbsorbSnapshot(p, h) PROVE Recoverable'
  <2>1. /\ UNCHANGED <<live, bak, pidFile>>
        /\ rec[p].pc = "act" /\ h \in rec[p].todo /\ rec[p].alive
        /\ rec[p].cur[h] \in Upstreams
        /\ snap'[h] = rec[p].cur[h]
        /\ \A g \in Harnesses \ {h} : snap'[g] = snap[g]
        /\ rec'[p].pc = "relay" /\ rec'[p].at = h
        /\ rec'[p].alive = rec[p].alive /\ rec'[p].cur = rec[p].cur
    BY <1>7, <1>a, RecFields DEF AbsorbSnapshot, Reaches, SameView
  <2>2. live[h] = rec[p].cur[h] /\ Kept(Harnesses)
    BY <1>b, <2>1 DEF Seen, SeenRec, InLock, KeptRec
  <2>3. To(h)' = live[h] /\ live[h] \in Upstreams
    BY <2>1, <2>2, Apart DEF To
  <2>4. \A g \in Harnesses \ {h} : To(g)' = To(g)
    BY <2>1 DEF To
  <2>5. \A g \in Harnesses : Traced(g)'
    <3>1. Traced(h)'
      BY <1>a, <1>b, <2>1, <2>3, Apart DEF Traced, Fine
    <3>2. ASSUME NEW g \in Harnesses \ {h} PROVE Traced(g)'
      BY <1>a, <1>b, <2>1, <2>4, <3>2 DEF Traced, Fine
    <3> QED
      BY <3>1, <3>2
  <2>6. \A g \in Harnesses : To(g) # None => To(g)' # None
    BY <2>3, <2>4, Apart
  <2>7. KeptRec(p)'
    BY <2>1, <2>2, <2>6 DEF KeptRec, Kept
  <2> QED
    BY <1>1, <2>1, <2>5, <2>6, <2>7
<1>8. CASE AbsorbRelay(p)
  <2>1. /\ UNCHANGED <<live, bak, snap, pidFile>>
        /\ rec[p].pc = "relay" /\ rec'[p].pc = "adopt"
        /\ rec'[p].at = rec[p].at
        /\ rec'[p].alive = rec[p].alive /\ rec'[p].cur = rec[p].cur
    BY <1>8, RecFields DEF AbsorbRelay, SameView
  <2>2. KeptRec(p)'
    BY <1>b, <2>1 DEF KeptRec, InLock, Kept, To
  <2> QED
    BY <1>2, <2>1, <2>2
<1>9. CASE AbsorbAdopt(p)
  <2>a. PICK h \in Harnesses : h = rec[p].at
    BY <1>9 DEF AbsorbAdopt, Cursors, RecCursor
  <2>1. /\ UNCHANGED <<bak, snap, pidFile>> /\ TakeOver({h}, {h})
        /\ rec[p].pc = "adopt" /\ Handled(p, h, TRUE, FALSE)
    BY <1>9, <2>a DEF AbsorbAdopt
  <2>2. rec'[p].pc = "act" /\ rec'[p].alive = rec[p].alive
    BY <2>1, HandledFields DEF SameView
  <2>3. /\ live'[h] = Ours
        /\ \A g \in Harnesses \ {h} : live'[g] = live[g]
    BY <1>b, <2>1, TakeOverLive DEF Traced
  <2>4. \A g \in Harnesses : To(g)' = To(g)
    BY <2>1 DEF To
  <2>5. /\ h \in rec[p].todo /\ rec[p].alive
        /\ live[h] = rec[p].cur[h] /\ rec[p].cur[h] \in Upstreams
    BY <2>1, <2>a DEF Seen, SeenRec, InLock, Cursors, RecCursor
  <2>6. To(h) = live[h] /\ live[h] # Ours /\ live[h] # None
    BY <1>b, <2>1, <2>5, <2>a, Apart DEF KeptRec, To
  <2>7. \A g \in Harnesses : Traced(g)'
    <3>1. Traced(h)'
      BY <1>a, <1>b, <2>3, <2>4, <2>6, Apart DEF Traced, Fine
    <3>2. ASSUME NEW g \in Harnesses \ {h} PROVE Traced(g)'
      BY <1>a, <1>b, <2>3, <2>4, <3>2 DEF Traced, Fine
    <3> QED
      BY <3>1, <3>2
  <2>8. KeptRec(p)'
    BY <1>b, <2>1, <2>2, <2>4 DEF KeptRec, InLock, Kept
  <2> QED
    BY <1>1, <2>1, <2>4, <2>7, <2>8
<1>10. ASSUME NEW h \in Harnesses, ZombieRestore(p, h) PROVE Recoverable'
  <2> DEFINE H == {g \in Harnesses : live[g] = Ours /\ snap[g] # None}
  <2>1. /\ rec[p].pc = "act" /\ ~ rec[p].alive /\ GiveBack(H, snap)
        /\ Handled(p, h, TRUE, FALSE) /\ UNCHANGED <<snap, pidFile>>
    BY <1>10 DEF ZombieRestore, Reaches
  <2>2. rec'[p].pc = "act" /\ rec'[p].alive = rec[p].alive
    BY <2>1, HandledFields DEF SameView
  <2>3. /\ \A g \in Harnesses \cap H : live'[g] = snap[g] /\ snap[g] # None
        /\ \A g \in Harnesses \cap H : live[g] = Ours
        /\ \A g \in Harnesses \ H : live'[g] = live[g] /\ bak'[g] = bak[g]
    BY <2>1, GiveBackLive DEF GiveBack, TypeOK
  <2> HIDE DEF H
  <2>4. \A g \in Harnesses : To(g)' = To(g)
    BY <2>1, <2>3 DEF To
  <2>5. \A g \in Harnesses : Traced(g)'
    <3>1. ASSUME NEW g \in Harnesses \cap H PROVE Traced(g)'
      <4>1. live'[g] = To(g) /\ To(g) = snap[g] /\ live[g] = Ours
        BY <2>3, <3>1 DEF To
      <4>2. snap[g] \in Foreign
        BY <2>3, <3>1, Apart
      <4>3. Fine(g, To(g))
        BY <1>b, <2>3, <3>1, <4>1, Apart DEF Traced
      <4> QED
        BY <1>a, <2>4, <3>1, <4>1, <4>2, <4>3, Apart DEF Traced, Fine
    <3>2. ASSUME NEW g \in Harnesses \ H PROVE Traced(g)'
      BY <1>a, <1>b, <2>3, <2>4, <3>2 DEF Traced, Fine
    <3> QED
      BY <3>1, <3>2
  <2>6. KeptRec(p)'
    BY <2>1, <2>2 DEF KeptRec
  <2> QED
    BY <1>1, <2>1, <2>4, <2>5, <2>6
<1> QED
  BY <1>3, <1>4, <1>5, <1>6, <1>7, <1>8, <1>9, <1>10 DEF RecStep

LEMMA WorldTraced ==
  ASSUME Serial, EditValues \subseteq Upstreams,
         TypeOK, OneRole, SnapshotNeverOurs, Places, Recoverable,
         \/ StopStep \/ Outside \/ UNCHANGED vars,
         \A s \in Services : ~ Start(s) /\ ~ Interrupt(s)
  PROVE  Recoverable'
<1>a. /\ live \in [Harnesses -> Content \cup {NoFile}]
      /\ orig \in [Harnesses -> Content \cup {NoFile, None}]
      /\ bak \in [Harnesses -> Content \cup {None}]
      /\ None \notin Services /\ Stale \notin Services
  BY TakeoverAssumption DEF TypeOK, Procs
<1>b. /\ \A h \in Harnesses : Traced(h)
      /\ pidFile \in Services => Kept(Harnesses)
      /\ \A s \in Services : KeptStart(s)
      /\ \A p \in Procs : KeptRec(p)
      /\ KeptStop
  BY DEF Recoverable
\* Nothing is written to the files: deaths, and what leads to a stop.
<1>1. ASSUME UNCHANGED <<files, ghosts>>,
             pidFile' = pidFile \/ pidFile' \notin Services, KeptStop'
      PROVE  Recoverable'
  <2>1. \A h \in Harnesses : To(h)' = To(h) /\ Traced(h)'
    BY <1>1, <1>b DEF Traced, To, Fine
  <2>2. \A s \in Services : KeptStart(s)'
    <3>1. ASSUME NEW s \in Services PROVE KeptStart(s)'
      <4>1. boot'[s] = boot[s] \/ boot'[s].pc = "off"
        BY WorldAlone
      <4> QED
        BY <1>1, <1>b, <4>1 DEF KeptStart, Kept, To, Fine
    <3> QED
      BY <3>1
  <2>3. \A p \in Procs : KeptRec(p)'
    <3>1. ASSUME NEW p \in Procs PROVE KeptRec(p)'
      <4>1. rec'[p] = rec[p] \/ rec'[p].pc \in {"idle", "wait"}
        BY WorldAlone
      <4> QED
        BY <1>1, <1>b, <4>1 DEF KeptRec, InLock, Kept, To
    <3> QED
      BY <3>1
  <2> QED
    BY <1>1, <1>b, <2>1, <2>2, <2>3 DEF Recoverable, Kept
\* Something is: then no start and no reconciliation is under way.
<1>2. ASSUME \A p \in Procs : rec'[p].pc = "idle",
             \A s \in Services : boot'[s].pc \in {"off", "up"},
             \A h \in Harnesses : Traced(h)',
             pidFile' \in Services => Kept(Harnesses)', KeptStop'
      PROVE  Recoverable'
  BY <1>2 DEF Recoverable, KeptStart, KeptRec, InLock
<1>3. CASE StopUnlink
  <2>1. UNCHANGED <<files, ghosts>> /\ pidFile' = None
    BY <1>3 DEF StopUnlink
  <2>2. KeptStop'
    BY <1>3, <2>1, StopFields DEF KeptStop
  <2> QED
    BY <1>1, <1>a, <2>1, <2>2
<1>4. ASSUME NEW h \in Harnesses, StopRestore(h) PROVE Recoverable'
  <2> DEFINE to == IF stp.snaps[h] # None THEN stp.snaps[h] ELSE bak[h]
             H == IF live[h] = Ours /\ to # None THEN {h} ELSE {}
  <2>1. /\ stp.pc = "restore" /\ GiveBack(H, [g \in Harnesses |-> to])
        /\ UNCHANGED <<snap, pidFile, rec, boot, orig>>
        /\ stp'.pc = "restore" /\ stp'.todo = stp.todo \ {h}
        /\ stp'.snaps = stp.snaps
    BY <1>4, StopFields DEF StopRestore
  <2>2. stp.snaps = snap /\ to = To(h)
    BY <1>b, <2>1 DEF KeptStop, To
  <2>3. /\ \A g \in Harnesses \ {h} :
             live'[g] = live[g] /\ bak'[g] = bak[g] /\ To(g)' = To(g)
        /\ live[h] # Ours => live'[h] = live[h] /\ To(h)' = To(h)
        /\ live[h] = Ours =>
             live'[h] = To(h) /\ (To(h)' = To(h) \/ To(h)' = None)
    <3>1. CASE live[h] = Ours
      <4>1. H = {h}
        BY <1>b, <2>2, <3>1 DEF Traced
      <4>2. live'[h] = To(h) /\ bak'[h] = None
        BY <1>a, <2>1, <2>2, <4>1 DEF GiveBack
      <4>3. \A g \in Harnesses \ {h} : live'[g] = live[g] /\ bak'[g] = bak[g]
        BY <1>a, <2>1, <4>1 DEF GiveBack
      <4> QED
        BY <2>1, <3>1, <4>2, <4>3 DEF To
    <3>2. CASE live[h] # Ours
      <4>1. H = {}
        BY <3>2
      <4>2. \A g \in Harnesses : live'[g] = live[g] /\ bak'[g] = bak[g]
        BY <1>a, <2>1, <4>1 DEF GiveBack
      <4> QED
        BY <2>1, <3>2, <4>2 DEF To
    <3> QED
      BY <3>1, <3>2
  <2> HIDE DEF to, H
  <2>4. \A g \in Harnesses : Traced(g)'
    <3>1. CASE live[h] = Ours
      <4>1. Fine(h, To(h)) /\ To(h) # None /\ To(h) # Ours
        BY <1>b, <3>1, Apart DEF Traced
      <4>2. Traced(h)'
        BY <2>1, <2>3, <3>1, <4>1, Apart DEF Traced, Fine
      <4>3. ASSUME NEW g \in Harnesses \ {h} PROVE Traced(g)'
        BY <1>b, <2>1, <2>3, <4>3 DEF Traced, Fine
      <4> QED
        BY <4>2, <4>3
    <3>2. CASE live[h] # Ours
      BY <1>b, <2>1, <2>3, <3>2 DEF Traced, Fine
    <3> QED
      BY <3>1, <3>2
  <2>5. KeptStop'
    <3>1. live'[h] # Ours
      BY <1>b, <2>3 DEF Traced
    <3> QED
      BY <1>b, <2>1, <2>2, <2>3, <3>1 DEF KeptStop
  <2>6. /\ pidFile' \notin Services
        /\ \A p \in Procs : rec'[p].pc = "idle"
        /\ \A s \in Services : boot'[s].pc \in {"off", "up"}
    BY <2>1 DEF Places, Ports, Solo, Starting
  <2> QED
    BY <1>2, <2>4, <2>5, <2>6
<1>5. CASE StopRelays
  <2>1. /\ stp.pc = "restore" /\ stp.todo = {} /\ stp'.pc = "intent"
        /\ UNCHANGED <<wired, pidFile, rec, boot, ghosts>>
    BY <1>5, StopFields DEF StopRelays
  <2>2. KeptStop'
    BY <1>b, <2>1 DEF KeptStop
  <2>3. \A h \in Harnesses : Traced(h)'
    BY <1>b, <2>1 DEF Traced, To, Fine
  <2>4. /\ pidFile' \notin Services
        /\ \A p \in Procs : rec'[p].pc = "idle"
        /\ \A s \in Services : boot'[s].pc \in {"off", "up"}
    BY <2>1 DEF Places, Ports, Solo, Starting
  <2> QED
    BY <1>2, <2>2, <2>3, <2>4
<1>6. CASE \/ StopIntent \/ StopNotRunning \/ StopTerminate \/ CrashStop
           \/ \E s \in Services : CrashService(s)
           \/ \E c \in Commands : Refresh(c) \/ CrashCommand(c)
           \/ UNCHANGED vars
  <2>1. /\ UNCHANGED <<files, ghosts>>
        /\ stp' = stp \/ stp'.pc \in {"idle", "unlink"}
    BY <1>6, StopFields DEF StopIntent, StopNotRunning, StopTerminate,
       CrashStop, CrashService, Refresh, CrashCommand, vars
  <2>2. pidFile' = pidFile \/ pidFile' \notin Services
    BY <1>6, <1>a DEF StopIntent, StopNotRunning, StopTerminate, CrashStop,
       CrashService, Refresh, CrashCommand, Dies, vars
  <2>3. KeptStop'
    BY <1>b, <2>1 DEF KeptStop
  <2> QED
    BY <1>1, <2>1, <2>2, <2>3
<1>7. ASSUME NEW h \in Harnesses,
             \/ \E v \in EditValues : UserEdit(h, v)
             \/ \E t \in Tools : ToolEdit(h, t)
      PROVE  Recoverable'
  <2>1. /\ AllIdle /\ UNCHANGED <<bak, snap, pidFile, rec, boot, stp>>
        /\ \A g \in Harnesses \ {h} :
             live'[g] = live[g] /\ orig'[g] = orig[g]
        /\ \/ live'[h] \in Upstreams /\ orig'[h] = live'[h]
           \/ /\ live'[h] \in Tools
              /\ orig'[h] = IF live[h] = Ours THEN orig[h] ELSE None
    BY <1>7, <1>a DEF UserEdit, ToolEdit, Calm
  <2>2. \A g \in Harnesses : To(g)' = To(g)
    BY <2>1 DEF To
  <2>3. Traced(h)'
    <3>1. To(h) \in Foreign \cup {NoUrl, None} /\ To(h) # Ours
      BY <1>b, Apart DEF Traced, To
    <3>2. CASE live'[h] \in Upstreams /\ orig'[h] = live'[h]
      BY <2>2, <3>1, <3>2, Apart DEF Traced, Fine
    <3>3. CASE /\ live'[h] \in Tools /\ live[h] = Ours
               /\ orig'[h] = orig[h]
      BY <1>b, <2>2, <3>1, <3>3, Apart DEF Traced, Fine
    <3>4. CASE live'[h] \in Tools /\ orig'[h] = None
      BY <2>2, <3>1, <3>4, Apart DEF Traced, Fine
    <3> QED
      BY <2>1, <3>2, <3>3, <3>4
  <2>4. ASSUME NEW g \in Harnesses \ {h} PROVE Traced(g)'
    BY <1>b, <2>1, <2>2, <2>4 DEF Traced, Fine
  <2>5. KeptStop'
    BY <2>1 DEF AllIdle, KeptStop
  <2>6. /\ pidFile' \in Services => Kept(Harnesses)'
        /\ \A p \in Procs : rec'[p].pc = "idle"
        /\ \A s \in Services : boot'[s].pc \in {"off", "up"}
    BY <1>b, <2>1, <2>2 DEF AllIdle, Kept
  <2> QED
    BY <1>2, <2>3, <2>4, <2>5, <2>6
<1> QED
  BY <1>3, <1>4, <1>5, <1>6, <1>7 DEF StopStep, Outside

\* The hypotheses on the harness files (see above).
PlainFiles ==
  /\ InitLive \subseteq Foreign \cup {NoUrl}
  /\ EditValues \subseteq Upstreams

LEMMA InitTraced ==
  ASSUME PlainFiles, Init
  PROVE  Recoverable
<1>a. /\ \A s \in Services : boot[s].pc = "off"
      /\ \A p \in Procs : rec[p].pc = "idle"
      /\ stp.pc = "idle" /\ pidFile = None /\ orig = live
      /\ \A h \in Harnesses :
           /\ live[h] \in Foreign \cup {NoUrl}
           /\ snap[h] = None /\ bak[h] = None
  BY DEF Init, PlainFiles, Off, NotRec, NotStop
<1>b. TypeOK /\ SnapshotNeverOurs
  BY InitIInv DEF IInv
<1>1. \A h \in Harnesses : Traced(h)
  BY <1>a, <1>b, Apart DEF Traced, To, Fine
<1>2. pidFile \notin Services
  BY <1>a, TakeoverAssumption DEF Procs
<1> QED
  BY <1>a, <1>1, <1>2
     DEF Recoverable, KeptStart, KeptRec, KeptStop, InLock

\* With commands one at a time, what a user chose for a harness can be given
\* back at any moment, through any crashes: a stop leaves every harness
\* there or with a tool, and none at the service that is gone
\* (cli_lifecycle.py, wiring_orchestrate.py:_restore_harness_on_stop).
THEOREM StopGivesBack ==
  ASSUME Serial, PlainFiles
  PROVE  Spec => []StopRestoresOriginal
<1>1. Init => SerialInv /\ Recoverable
  BY InitSerialInv, InitTraced
<1>2. SerialInv /\ Recoverable /\ [Next]_vars => SerialInv' /\ Recoverable'
  <2> SUFFICES ASSUME SerialInv, Recoverable, [Next]_vars
               PROVE  SerialInv' /\ Recoverable'
    OBVIOUS
  <2>1. /\ TypeOK /\ Cursors /\ OneRole /\ SnapshotNeverOurs
        /\ Places /\ Seen
    BY DEF SerialInv, IInv
  <2> QED
    BY <2>1, StepSerialInv, StartTraced, RecTraced, WorldTraced
       DEF Next, PlainFiles
<1>3. Recoverable => StopRestoresOriginal
  BY DEF Recoverable, KeptStop, Traced, Fine, StopRestoresOriginal
<1> QED
  BY <1>1, <1>2, <1>3, PTL DEF Spec
=============================================================================
