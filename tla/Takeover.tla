------------------------------ MODULE Takeover ------------------------------
(***************************************************************************)
(* How vision-relay takes over the base_url of the agent harnesses and     *)
(* gives it back: cmd_start and cmd_stop (cli_lifecycle.py), the wiring    *)
(* they drive (wiring_orchestrate.py), reconcile() (reconcile.py) with the *)
(* combination snapshots (snapshot.py) and the direct relays it saves.     *)
(*                                                                         *)
(* A harness here is one with a single global base_url: claude, or codex   *)
(* with its model catalog.  (qwen-code and zcode are wired entry by entry  *)
(* and are not part of this module.)                                       *)
(*                                                                         *)
(* Every process loads the configuration once, when it begins, and works   *)
(* on that copy.  Only reconcile() takes config_lock; start and stop write *)
(* without it.  Processes interleave at file writes: each action below     *)
(* ends at most at one write another process can observe or a crash can    *)
(* follow, but for a base_url and the catalog patch that goes with it.     *)
(***************************************************************************)
EXTENDS Naturals, FiniteSets

CONSTANTS
  Harnesses,   \* cfg.routing.harnesses
  Codex,       \* those of them with a model catalog
  Tools,       \* addresses of the routing tools (TOOL_DOSSIERS)
  Upstreams,   \* addresses of model providers
  Services,    \* slots for service processes (python -m vision_relay start)
  Commands,    \* slots for processes that run refresh or diagnose
  InitLive,    \* what a harness file may hold before the first start
  EditValues,  \* what the user may put there later
  Serial,      \* TRUE: no command and no edit begins while another runs
  Crashes      \* TRUE: processes may die between any two steps

Ours    == "ours"      \* http://127.0.0.1:<bind_port>
NoUrl   == "no-url"    \* the file has no base_url
NoFile  == "no-file"   \* there is no file
None    == "none"      \* no backup, no snapshot, no relay, no pid file
Stale   == "stale"     \* a pid file whose process is dead or not ours
Free    == "free"      \* nobody has config_lock

Foreign == Tools \cup Upstreams
Content == Foreign \cup {Ours, NoUrl}
Procs   == Services \cup Commands
Relays  == [Harnesses -> Upstreams \cup {None}]

ASSUME TakeoverAssumption ==
  /\ Codex \subseteq Harnesses
  /\ InitLive \subseteq Foreign \cup {NoUrl, NoFile}
  /\ EditValues \subseteq Foreign \cup {NoUrl, NoFile}
  /\ {Ours, NoUrl, NoFile, None} \cap Foreign = {}
  /\ {None, Stale, Free} \cap Procs = {}
  /\ Tools \cap Upstreams = {}
  /\ Services \cap Commands = {}
  /\ Serial \in BOOLEAN /\ Crashes \in BOOLEAN

VARIABLES
  live,     \* live[h]: base_url in the harness file
  bak,      \* bak[h]: base_url in the whole-file backup
  snap,     \* snap[h]: base_url of the combination snapshot
  catalog,  \* catalog[h]: modalities in the codex catalog
  catBak,   \* catBak[h]: the catalog has a backup (always of "text")
  direct,   \* direct[h]: upstream of relay direct-<h> in proxy.json
  intent,   \* routing_on of state.json
  pidFile,  \* the process proxy.pid names
  lock,     \* the process inside config_lock
  boot,     \* boot[s]: where service process s is in cmd_start
  rec,      \* rec[p]: where process p is in reconcile()
  stp,      \* where cmd_stop is
  cfg,      \* cfg[p]: the direct relays in p's copy of the configuration
  orig,     \* history: what the user last chose for h, if not lost (None)
  absorbed  \* history: h points at us since reconcile absorbed its upstream

wired  == <<live, bak, snap, catalog, catBak>>
files  == <<wired, direct>>
flags  == <<intent, pidFile>>
ghosts == <<orig, absorbed>>
vars   == <<files, flags, lock, boot, rec, stp, cfg, ghosts>>

\* A process that is not running that part of the program.
Off     == [pc |-> "off", todo |-> {}, at |-> None, original |-> NoUrl]
NotRec  == [pc |-> "idle", todo |-> {}, at |-> None, alive |-> FALSE,
            on |-> FALSE, acted |-> FALSE, restart |-> FALSE,
            cur |-> [h \in Harnesses |-> NoFile]]
NotStop == [pc |-> "idle", todo |-> {},
            snaps |-> [h \in Harnesses |-> None],
            relays |-> [h \in Harnesses |-> None]]
NoCfg   == [h \in Harnesses |-> None]

Init ==
  /\ live \in [Harnesses -> InitLive]
  /\ bak = [h \in Harnesses |-> None]
  /\ snap = [h \in Harnesses |-> None]
  /\ catalog = [h \in Codex |-> "text"]
  /\ catBak = [h \in Codex |-> FALSE]
  /\ direct = [h \in Harnesses |-> None]
  /\ intent = FALSE
  /\ pidFile = None
  /\ lock = Free
  /\ boot = [s \in Services |-> Off]
  /\ rec = [p \in Procs |-> NotRec]
  /\ stp = NotStop
  /\ cfg = [p \in Procs |-> NoCfg]
  /\ orig = live
  /\ absorbed = [h \in Harnesses |-> FALSE]

-----------------------------------------------------------------------------
(* Observations and file operations.                                       *)
(* A faulty variant comes first; the others follow this section.           *)

\* The pid file is no sign of life: only the port counts.
PortAlive == \E s \in Services : boot[s].pc = "up"

\* _service_alive: somebody listens on the port, or the pid file names a
\* live process of ours.
Serving      == {s \in Services : boot[s].pc = "up"}
ServiceAlive == Serving # {} \/ pidFile \in Services

\* classify_base_url: a tool's port or no address at all is taken back,
\* another address is absorbed.
IsReclaimed(v) == v \in Tools \cup {NoUrl}

\* No command of ours is under way (a service that listens is none).
AllIdle ==
  /\ \A s \in Services : boot[s].pc \in {"off", "up"}
  /\ \A p \in Procs : rec[p].pc = "idle"
  /\ stp.pc = "idle"

Calm == Serial => AllIdle

\* write_base_url(Ours) on the files of H, which fails where there is none,
\* and the catalog patch for those in P.
TakeOver(H, P) ==
  LET hit == {h \in H : live[h] # NoFile}
  IN  /\ live' = [h \in Harnesses |-> IF h \in hit THEN Ours ELSE live[h]]
      /\ catalog' = [h \in Codex |-> IF h \in hit \cap P THEN "image"
                                     ELSE catalog[h]]
      /\ catBak' = [h \in Codex |->
                      catBak[h] \/ (h \in hit \cap P /\ catalog[h] = "text")]

\* The files of H get the base_url that to[h] names; their catalogs are put
\* back from the backup and their whole-file backups are gone.
GiveBack(H, to) ==
  /\ live' = [h \in Harnesses |-> IF h \in H THEN to[h] ELSE live[h]]
  /\ bak' = [h \in Harnesses |-> IF h \in H THEN None ELSE bak[h]]
  /\ absorbed' = [h \in Harnesses |-> h \notin H /\ absorbed[h]]

RestoreCatalog(H) ==
  /\ catalog' = [h \in Codex |-> IF h \in H /\ catBak[h] THEN "text"
                                 ELSE catalog[h]]
  /\ catBak' = [h \in Codex |-> h \notin H /\ catBak[h]]

\* p leaves reconcile(); a starting service goes on to bind its port.
RecDone(p) ==
  /\ rec' = [rec EXCEPT ![p] = NotRec]
  /\ IF p \in Services
     THEN boot' = [boot EXCEPT ![p].pc = "listen"] /\ UNCHANGED cfg
     ELSE cfg' = [cfg EXCEPT ![p] = NoCfg] /\ UNCHANGED boot

\* p is done with h; acted and restart collect what the loop has done.
Handled(p, h, acted, restart) ==
  rec' = [rec EXCEPT ![p] =
            [@ EXCEPT !.pc = "act", !.at = None,
                      !.todo = rec[p].todo \ {h},
                      !.acted = rec[p].acted \/ acted,
                      !.restart = rec[p].restart \/ restart]]

\* p's reconcile() has reached harness h in its loop.
Reaches(p, h) == rec[p].pc = "act" /\ h \in rec[p].todo

-----------------------------------------------------------------------------
(* Faulty variants of definitions below, one per property, that a mistake  *)
(* in the code would give.  Nothing uses them.                             *)

\* A missing harness file is "backed up" too.
BackupMissing(s, h) ==
  /\ boot[s].pc = "wire" /\ h \in boot[s].todo
  /\ bak' = [bak EXCEPT ![h] = IF @ = None THEN live[h] ELSE @]
  /\ boot' = [boot EXCEPT ![s] =
               [@ EXCEPT !.pc = "snapshot", !.at = h, !.original = live[h]]]
  /\ UNCHANGED <<live, snap, catalog, catBak, direct, flags, lock, rec, stp,
                 cfg, ghosts>>

\* Every start records what it read.
SnapshotAlways(s) ==
  /\ boot[s].pc = "snapshot"
  /\ snap' = [snap EXCEPT ![boot[s].at] =
                IF boot[s].original = NoUrl THEN @ ELSE boot[s].original]
  /\ boot' = [boot EXCEPT ![s].pc = "rewrite"]
  /\ UNCHANGED <<live, bak, catalog, catBak, direct, flags, lock, rec, stp,
                 cfg, ghosts>>

\* A start that finds the port taken tries again instead of giving up.
ListenRetries(s) ==
  /\ boot[s].pc = "listen"
  /\ Serving = {}
  /\ boot' = [boot EXCEPT ![s].pc = "up"]
  /\ cfg' = [cfg EXCEPT ![s] = NoCfg]
  /\ UNCHANGED <<files, flags, lock, rec, stp, ghosts>>

\* Every direct relay of a harness that is ours counts as left behind.
KeepOursPrunes(p, h) ==
  LET stale == cfg[p][h] # None
  IN  /\ Reaches(p, h) /\ rec[p].alive /\ rec[p].cur[h] = Ours
      /\ cfg' = [cfg EXCEPT ![p][h] = IF stale THEN None ELSE @]
      /\ Handled(p, h, stale, FALSE)
      /\ UNCHANGED <<files, flags, lock, boot, stp, ghosts>>

\* Only a file that lost its base_url is taken back.
ReclaimBlanks(p, h) ==
  /\ Reaches(p, h) /\ rec[p].alive /\ IsReclaimed(rec[p].cur[h])
  /\ TakeOver({h} \cap {g \in Harnesses : live[g] = NoUrl}, {})
  /\ Handled(p, h, live[h] = NoUrl, FALSE)
  /\ UNCHANGED <<bak, snap, direct, flags, lock, boot, stp, cfg, ghosts>>

\* The restart happens under the lock.
FinishKeepsLock(p) ==
  /\ rec[p].pc = "act" /\ rec[p].todo = {}
  /\ direct' = IF rec[p].acted THEN cfg[p] ELSE direct
  /\ IF rec[p].restart
     THEN /\ rec' = [rec EXCEPT ![p].pc = "restart"]
          /\ UNCHANGED <<boot, cfg, lock>>
     ELSE RecDone(p) /\ lock' = Free
  /\ UNCHANGED <<wired, flags, stp, ghosts>>

\* The whole-file backup goes before the snapshot.
StopByBackup(h) ==
  LET to == IF bak[h] # None THEN bak[h] ELSE stp.snaps[h]
  IN  /\ stp.pc = "restore" /\ h \in stp.todo
      /\ RestoreCatalog(IF live[h] = Ours THEN {h} ELSE {})
      /\ GiveBack(IF live[h] = Ours /\ to # None THEN {h} ELSE {},
                  [g \in Harnesses |-> to])
      /\ stp' = [stp EXCEPT !.todo = @ \ {h}]
      /\ UNCHANGED <<snap, direct, flags, lock, boot, rec, cfg, orig>>

\* A lock that is the existence of a file outlives its process.
DiesKeepsLock(s) ==
  /\ boot' = [boot EXCEPT ![s] = Off]
  /\ rec' = [rec EXCEPT ![s] = NotRec]
  /\ cfg' = [cfg EXCEPT ![s] = NoCfg]
  /\ UNCHANGED lock
  /\ pidFile' = IF pidFile = s THEN Stale ELSE pidFile

-----------------------------------------------------------------------------
(* cmd_start.  Start is the user's command; reconcile spawns the same.     *)

\* main() loads the configuration.
Start(s) ==
  /\ Calm
  /\ boot[s].pc = "off"
  /\ boot' = [boot EXCEPT ![s].pc = "begin"]
  /\ cfg' = [cfg EXCEPT ![s] = direct]
  /\ UNCHANGED <<files, flags, lock, rec, stp, ghosts>>

\* "already running": the pid file names a live process.
StartRefused(s) ==
  /\ boot[s].pc = "begin"
  /\ pidFile \in Services
  /\ boot' = [boot EXCEPT ![s] = Off]
  /\ cfg' = [cfg EXCEPT ![s] = NoCfg]
  /\ UNCHANGED <<files, flags, lock, rec, stp, ghosts>>

\* A stale pid file is removed.
StartBegins(s) ==
  /\ boot[s].pc = "begin"
  /\ pidFile \notin Services
  /\ pidFile' = None
  /\ boot' = [boot EXCEPT ![s].pc = "activate"]
  /\ UNCHANGED <<files, intent, lock, rec, stp, cfg, ghosts>>

\* relays_activate saves the whole configuration loaded by main().
RelaysActivate(s) ==
  /\ boot[s].pc = "activate"
  /\ direct' = cfg[s]
  /\ boot' = [boot EXCEPT ![s] = [@ EXCEPT !.pc = "wire", !.todo = Harnesses]]
  /\ UNCHANGED <<wired, flags, lock, rec, stp, cfg, ghosts>>

\* backup_and_rewrite: a harness without a file is skipped.
WireSkip(s, h) ==
  /\ boot[s].pc = "wire" /\ h \in boot[s].todo
  /\ live[h] = NoFile
  /\ boot' = [boot EXCEPT ![s].todo = @ \ {h}]
  /\ UNCHANGED <<files, flags, lock, rec, stp, cfg, ghosts>>

\* The base_url is read, and the file copied unless a backup exists.
WireBackup(s, h) ==
  /\ boot[s].pc = "wire" /\ h \in boot[s].todo
  /\ live[h] # NoFile
  /\ bak' = [bak EXCEPT ![h] = IF @ = None THEN live[h] ELSE @]
  /\ boot' = [boot EXCEPT ![s] =
               [@ EXCEPT !.pc = "snapshot", !.at = h, !.original = live[h]]]
  /\ UNCHANGED <<live, snap, catalog, catBak, direct, flags, lock, rec, stp,
                 cfg, ghosts>>

\* The address read is recorded, when there is one and it is not ours.
WireSnapshot(s) ==
  /\ boot[s].pc = "snapshot"
  /\ snap' = [snap EXCEPT ![boot[s].at] =
                IF boot[s].original \in {Ours, NoUrl} THEN @
                ELSE boot[s].original]
  /\ boot' = [boot EXCEPT ![s].pc = "rewrite"]
  /\ UNCHANGED <<live, bak, catalog, catBak, direct, flags, lock, rec, stp,
                 cfg, ghosts>>

\* The file is pointed at us, whatever it holds by now.
WireRewrite(s) ==
  /\ boot[s].pc = "rewrite"
  /\ TakeOver({boot[s].at}, {boot[s].at})
  /\ boot' = [boot EXCEPT ![s] =
               [@ EXCEPT !.pc = "wire", !.todo = boot[s].todo \ {boot[s].at},
                         !.at = None, !.original = NoUrl]]
  /\ UNCHANGED <<bak, snap, direct, flags, lock, rec, stp, cfg, ghosts>>

\* The pid file is written once every harness is wired.
WritePid(s) ==
  /\ boot[s].pc = "wire" /\ boot[s].todo = {}
  /\ pidFile' = s
  /\ boot' = [boot EXCEPT ![s].pc = "intent"]
  /\ UNCHANGED <<files, intent, lock, rec, stp, cfg, ghosts>>

\* cmd_start_intent(True), and on to reconcile(trigger="start").
StartIntent(s) ==
  /\ boot[s].pc = "intent"
  /\ intent' = TRUE
  /\ boot' = [boot EXCEPT ![s].pc = "reconcile"]
  /\ rec' = [rec EXCEPT ![s].pc = "wait"]
  /\ UNCHANGED <<files, pidFile, lock, stp, cfg, ghosts>>

\* run_server binds the port, unless another process has it: then cmd_start
\* raises before its try block, and the pid file stays behind.
Listen(s) ==
  /\ boot[s].pc = "listen"
  /\ IF Serving = {}
     THEN boot' = [boot EXCEPT ![s].pc = "up"] /\ UNCHANGED pidFile
     ELSE /\ boot' = [boot EXCEPT ![s] = Off]
          /\ pidFile' = IF pidFile = s THEN Stale ELSE pidFile
  /\ cfg' = [cfg EXCEPT ![s] = NoCfg]
  /\ UNCHANGED <<files, intent, lock, rec, stp, ghosts>>

\* Ctrl-C in the serving loop: the finally clause unlinks the pid file,
\* whatever process it names.
Interrupt(s) ==
  /\ Calm
  /\ boot[s].pc = "up"
  /\ boot' = [boot EXCEPT ![s] = Off]
  /\ pidFile' = None
  /\ UNCHANGED <<files, intent, lock, rec, stp, cfg, ghosts>>

-----------------------------------------------------------------------------
(* reconcile(), run by refresh and diagnose and at the end of cmd_start *)

\* refresh or diagnose: main() loads the configuration.
Refresh(c) ==
  /\ Calm
  /\ rec[c].pc = "idle"
  /\ rec' = [rec EXCEPT ![c].pc = "wait"]
  /\ cfg' = [cfg EXCEPT ![c] = direct]
  /\ UNCHANGED <<files, flags, lock, boot, stp, ghosts>>

\* config_lock gives up; start goes on without the reconciliation.
RecTimeout(p) ==
  /\ rec[p].pc = "wait"
  /\ lock # Free
  /\ RecDone(p)
  /\ UNCHANGED <<files, flags, lock, stp, ghosts>>

\* Under the lock, everything is observed once.
Observe(p) ==
  /\ rec[p].pc = "wait"
  /\ lock = Free
  /\ lock' = p
  /\ rec' = [rec EXCEPT ![p] = [NotRec EXCEPT !.pc = "act",
                                              !.todo = Harnesses,
                                              !.cur = live,
                                              !.alive = ServiceAlive,
                                              !.on = intent]]
  /\ UNCHANGED <<files, flags, boot, stp, cfg, ghosts>>

\* Service alive, file ours: all that may go is a direct relay that an
\* older absorption left behind under a two-hop takeover.
KeepOurs(p, h) ==
  LET stale == snap[h] \in Tools /\ cfg[p][h] # None
  IN  /\ Reaches(p, h) /\ rec[p].alive /\ rec[p].cur[h] = Ours
      /\ cfg' = [cfg EXCEPT ![p][h] = IF stale THEN None ELSE @]
      /\ Handled(p, h, stale, FALSE)
      /\ UNCHANGED <<files, flags, lock, boot, stp, ghosts>>

\* _reclaim: a tool took the file, or its base_url is gone.  Neither the
\* snapshot nor the backup nor the catalog is looked at.
Reclaim(p, h) ==
  /\ Reaches(p, h) /\ rec[p].alive /\ IsReclaimed(rec[p].cur[h])
  /\ TakeOver({h}, {})
  /\ Handled(p, h, live[h] # NoFile, FALSE)
  /\ UNCHANGED <<bak, snap, direct, flags, lock, boot, stp, cfg, ghosts>>

\* No file: left to the user.
NoConfigFile(p, h) ==
  /\ Reaches(p, h) /\ rec[p].alive /\ rec[p].cur[h] = NoFile
  /\ Handled(p, h, FALSE, FALSE)
  /\ UNCHANGED <<files, flags, lock, boot, stp, cfg, ghosts>>

\* _absorb, first write: the new address becomes the snapshot.
AbsorbSnapshot(p, h) ==
  /\ Reaches(p, h) /\ rec[p].alive /\ rec[p].cur[h] \in Upstreams
  /\ snap' = [snap EXCEPT ![h] = rec[p].cur[h]]
  /\ rec' = [rec EXCEPT ![p] = [@ EXCEPT !.pc = "relay", !.at = h]]
  /\ UNCHANGED <<live, bak, catalog, catBak, direct, flags, lock, boot, stp,
                 cfg, ghosts>>

\* Second: the whole configuration is saved, with the relay direct-<h>.
AbsorbRelay(p) ==
  /\ rec[p].pc = "relay"
  /\ cfg' = [cfg EXCEPT ![p][rec[p].at] = rec[p].cur[rec[p].at]]
  /\ direct' = cfg'[p]
  /\ rec' = [rec EXCEPT ![p].pc = "adopt"]
  /\ UNCHANGED <<wired, flags, lock, boot, stp, ghosts>>

\* Third: the file is pointed at us and the codex catalog patched.
AbsorbAdopt(p) ==
  LET h == rec[p].at
  IN  /\ rec[p].pc = "adopt"
      /\ TakeOver({h}, {h})
      /\ absorbed' = [absorbed EXCEPT ![h] = live[h] # NoFile]
      /\ Handled(p, h, TRUE, FALSE)
      /\ UNCHANGED <<bak, snap, direct, flags, lock, boot, stp, cfg, orig>>

\* Service dead, file ours, the user wants routing: restart the service.
ZombieRestart(p, h) ==
  /\ Reaches(p, h) /\ ~ rec[p].alive /\ rec[p].cur[h] = Ours
  /\ rec[p].on
  /\ Handled(p, h, FALSE, TRUE)
  /\ UNCHANGED <<files, flags, lock, boot, stp, cfg, ghosts>>

\* The user does not: restore_by_snapshot, for every harness that points at
\* us now and has a snapshot.
ZombieRestore(p, h) ==
  LET H == {g \in Harnesses : live[g] = Ours /\ snap[g] # None}
  IN  /\ Reaches(p, h) /\ ~ rec[p].alive /\ rec[p].cur[h] = Ours
      /\ ~ rec[p].on
      /\ snap[h] # None
      /\ RestoreCatalog(H)
      /\ GiveBack(H, snap)
      /\ Handled(p, h, TRUE, FALSE)
      /\ UNCHANGED <<snap, direct, flags, lock, boot, stp, cfg, orig>>

\* No snapshot: left to the user.
ZombieUnresolved(p, h) ==
  /\ Reaches(p, h) /\ ~ rec[p].alive /\ rec[p].cur[h] = Ours
  /\ ~ rec[p].on
  /\ snap[h] = None
  /\ Handled(p, h, FALSE, FALSE)
  /\ UNCHANGED <<files, flags, lock, boot, stp, cfg, ghosts>>

\* Service dead, file not ours: nothing to repair.
LeaveAlone(p, h) ==
  /\ Reaches(p, h) /\ ~ rec[p].alive /\ rec[p].cur[h] # Ours
  /\ Handled(p, h, FALSE, FALSE)
  /\ UNCHANGED <<files, flags, lock, boot, stp, cfg, ghosts>>

\* The loop is over: save the configuration if anything was done, and leave
\* the lock; only then restart.
RecFinish(p) ==
  /\ rec[p].pc = "act" /\ rec[p].todo = {}
  /\ direct' = IF rec[p].acted THEN cfg[p] ELSE direct
  /\ lock' = Free
  /\ IF rec[p].restart
     THEN rec' = [rec EXCEPT ![p].pc = "restart"] /\ UNCHANGED <<boot, cfg>>
     ELSE RecDone(p)
  /\ UNCHANGED <<wired, flags, stp, ghosts>>

\* _clear_stale_pid and the detached start; p then waits for the port.
RestartService(p, s) ==
  /\ rec[p].pc = "restart"
  /\ boot[s].pc = "off"
  /\ pidFile' = None
  /\ boot' = [boot EXCEPT ![s].pc = "begin"]
  /\ cfg' = [cfg EXCEPT ![s] = direct]
  /\ rec' = [rec EXCEPT ![p].pc = "port"]
  /\ UNCHANGED <<files, intent, lock, stp, ghosts>>

\* The pid file is gone, and no process could be spawned.
RestartFails(p) ==
  /\ rec[p].pc = "restart"
  /\ pidFile' = None
  /\ RecDone(p)
  /\ UNCHANGED <<files, intent, lock, stp, ghosts>>

\* The port answers, or eight seconds are over.
PortWaitEnds(p) ==
  /\ rec[p].pc = "port"
  /\ RecDone(p)
  /\ UNCHANGED <<files, flags, lock, stp, ghosts>>

-----------------------------------------------------------------------------
(* cmd_stop *)

\* The pid file names no live process of ours: it is removed, and "not
\* running" is all that happens.
StopNotRunning ==
  /\ Calm
  /\ stp.pc = "idle"
  /\ pidFile \notin Services
  /\ pidFile' = None
  /\ UNCHANGED <<files, intent, lock, boot, rec, stp, cfg, ghosts>>

\* s ends without running another line of its code.
Dies(s) ==
  /\ boot' = [boot EXCEPT ![s] = Off]
  /\ rec' = [rec EXCEPT ![s] = NotRec]
  /\ cfg' = [cfg EXCEPT ![s] = NoCfg]
  /\ lock' = IF lock = s THEN Free ELSE lock
  /\ pidFile' = IF pidFile = s THEN Stale ELSE pidFile

\* The process is terminated.
StopTerminate ==
  /\ Calm
  /\ stp.pc = "idle"
  /\ pidFile \in Services
  /\ Dies(pidFile)
  /\ stp' = [stp EXCEPT !.pc = "unlink"]
  /\ UNCHANGED <<files, intent, ghosts>>

\* The pid file goes; configuration and snapshots are loaded.
StopUnlink ==
  /\ stp.pc = "unlink"
  /\ pidFile' = None
  /\ stp' = [pc |-> "restore", todo |-> Harnesses, snaps |-> snap,
             relays |-> direct]
  /\ UNCHANGED <<files, intent, lock, boot, rec, cfg, ghosts>>

\* _restore_harness_on_stop: a file that does not point at us is left alone;
\* the others get the snapshot's address, or the backup when there is none.
StopRestore(h) ==
  LET to == IF stp.snaps[h] # None THEN stp.snaps[h] ELSE bak[h]
  IN  /\ stp.pc = "restore" /\ h \in stp.todo
      /\ RestoreCatalog(IF live[h] = Ours THEN {h} ELSE {})
      /\ GiveBack(IF live[h] = Ours /\ to # None THEN {h} ELSE {},
                  [g \in Harnesses |-> to])
      /\ stp' = [stp EXCEPT !.todo = @ \ {h}]
      /\ UNCHANGED <<snap, direct, flags, lock, boot, rec, cfg, orig>>

\* relays_restore saves the whole configuration loaded above.
StopRelays ==
  /\ stp.pc = "restore" /\ stp.todo = {}
  /\ direct' = stp.relays
  /\ stp' = [NotStop EXCEPT !.pc = "intent"]
  /\ UNCHANGED <<wired, flags, lock, boot, rec, cfg, ghosts>>

\* cmd_start_intent(False).
StopIntent ==
  /\ stp.pc = "intent"
  /\ intent' = FALSE
  /\ stp' = NotStop
  /\ UNCHANGED <<files, pidFile, lock, boot, rec, cfg, ghosts>>

-----------------------------------------------------------------------------
(* The world around *)

\* The user edits, creates or deletes a harness file.
UserEdit(h, v) ==
  /\ Calm
  /\ live[h] # v
  /\ live' = [live EXCEPT ![h] = v]
  /\ orig' = [orig EXCEPT ![h] = v]
  /\ absorbed' = [absorbed EXCEPT ![h] = FALSE]
  /\ UNCHANGED <<bak, snap, catalog, catBak, direct, flags, lock, boot, rec,
                 stp, cfg>>

\* A routing tool points the file at itself; Codex++ also writes a new
\* catalog, of text models.  A choice of the user that we had not taken over
\* is lost with it.
ToolEdit(h, t) ==
  /\ Calm
  /\ live[h] \notin {NoFile, t}
  /\ live' = [live EXCEPT ![h] = t]
  /\ catalog' = [g \in Codex |-> IF g = h THEN "text" ELSE catalog[g]]
  /\ absorbed' = [absorbed EXCEPT ![h] = FALSE]
  /\ orig' = [orig EXCEPT ![h] = IF live[h] = Ours THEN @ ELSE None]
  /\ UNCHANGED <<bak, snap, catBak, direct, flags, lock, boot, rec, stp, cfg>>

CrashService(s) ==
  /\ Crashes
  /\ boot[s].pc # "off"
  /\ Dies(s)
  /\ UNCHANGED <<files, intent, stp, ghosts>>

CrashCommand(c) ==
  /\ Crashes
  /\ rec[c].pc # "idle"
  /\ rec' = [rec EXCEPT ![c] = NotRec]
  /\ cfg' = [cfg EXCEPT ![c] = NoCfg]
  /\ lock' = IF lock = c THEN Free ELSE lock
  /\ UNCHANGED <<files, flags, boot, stp, ghosts>>

CrashStop ==
  /\ Crashes
  /\ stp.pc # "idle"
  /\ stp' = NotStop
  /\ UNCHANGED <<files, flags, lock, boot, rec, cfg, ghosts>>

-----------------------------------------------------------------------------
StartStep(s) ==
  \/ StartRefused(s) \/ StartBegins(s) \/ RelaysActivate(s)
  \/ \E h \in Harnesses : WireSkip(s, h) \/ WireBackup(s, h)
  \/ WireSnapshot(s) \/ WireRewrite(s) \/ WritePid(s) \/ StartIntent(s)
  \/ Listen(s)

RecStep(p) ==
  \/ RecTimeout(p) \/ Observe(p)
  \/ \E h \in Harnesses :
       \/ KeepOurs(p, h) \/ Reclaim(p, h) \/ NoConfigFile(p, h)
       \/ AbsorbSnapshot(p, h)
       \/ ZombieRestart(p, h) \/ ZombieRestore(p, h)
       \/ ZombieUnresolved(p, h) \/ LeaveAlone(p, h)
  \/ AbsorbRelay(p) \/ AbsorbAdopt(p) \/ RecFinish(p)
  \/ \E s \in Services : RestartService(p, s)
  \/ RestartFails(p) \/ PortWaitEnds(p)

StopStep ==
  \/ StopUnlink \/ (\E h \in Harnesses : StopRestore(h))
  \/ StopRelays \/ StopIntent

\* What the user, the tools and the operating system may do.
Outside ==
  \/ \E s \in Services : Start(s) \/ Interrupt(s) \/ CrashService(s)
  \/ \E c \in Commands : Refresh(c) \/ CrashCommand(c)
  \/ StopNotRunning \/ StopTerminate \/ CrashStop
  \/ \E h \in Harnesses :
       \/ \E v \in EditValues : UserEdit(h, v)
       \/ \E t \in Tools : ToolEdit(h, t)

Next ==
  \/ \E s \in Services : StartStep(s)
  \/ \E p \in Procs : RecStep(p)
  \/ StopStep
  \/ Outside

Spec == Init /\ [][Next]_vars

\* A process that runs goes on running until it is done, dies or is killed.
\* Nothing outside is fair: nobody has to start, stop or refresh anything,
\* and no part of the program runs reconcile() on a timer.
LiveSpec ==
  /\ Spec
  /\ \A s \in Services : WF_vars(StartStep(s))
  /\ \A p \in Procs : WF_vars(RecStep(p))
  /\ WF_vars(StopStep)

-----------------------------------------------------------------------------
(* Properties *)

BootState ==
  [pc : {"off", "begin", "activate", "wire", "snapshot", "rewrite",
         "intent", "reconcile", "listen", "up"},
   todo : SUBSET Harnesses, at : Harnesses \cup {None}, original : Content]

RecState ==
  [pc : {"idle", "wait", "act", "relay", "adopt", "restart", "port"},
   todo : SUBSET Harnesses, at : Harnesses \cup {None},
   alive : BOOLEAN, on : BOOLEAN, acted : BOOLEAN, restart : BOOLEAN,
   cur : [Harnesses -> Content \cup {NoFile}]]

StopState ==
  [pc : {"idle", "unlink", "restore", "intent"}, todo : SUBSET Harnesses,
   snaps : [Harnesses -> Content \cup {None}], relays : Relays]

TypeOK ==
  /\ live \in [Harnesses -> Content \cup {NoFile}]
  /\ bak \in [Harnesses -> Content \cup {None}]
  /\ snap \in [Harnesses -> Content \cup {None}]
  /\ catalog \in [Codex -> {"text", "image"}]
  /\ catBak \in [Codex -> BOOLEAN]
  /\ direct \in Relays
  /\ intent \in BOOLEAN
  /\ pidFile \in Services \cup {None, Stale}
  /\ lock \in Procs \cup {Free}
  /\ boot \in [Services -> BootState]
  /\ rec \in [Procs -> RecState]
  /\ stp \in StopState
  /\ cfg \in [Procs -> Relays]
  /\ orig \in [Harnesses -> Content \cup {NoFile, None}]
  /\ absorbed \in [Harnesses -> BOOLEAN]

\* However edits, takeovers, absorptions, crashes and repairs interleave, a
\* snapshot never records our own address: whoever restores by it leads the
\* harness away from us (wiring_orchestrate.py:85, reconcile.py:316).
SnapshotNeverOurs ==
  \A h \in Harnesses :
    /\ snap[h] \in Foreign \cup {None}
    /\ stp.snaps[h] \in Foreign \cup {None}

\* p is inside reconcile's critical section.
InLock(p) == rec[p].pc \in {"act", "relay", "adopt"}

\* Two processes never reconcile at once, and no process waits for another
\* one's port while it has the lock that one needs (reconcile.py:371-375).
LockDiscipline == \A p \in Procs : InLock(p) <=> lock = p

\* After a stop, every harness is where its user left it or with a routing
\* tool, and none points at the service that is gone.
StopRestoresOriginal ==
  stp.pc = "intent" =>
    \A h \in Harnesses :
      \/ live[h] \in {orig[h]} \cup Tools
      \/ orig[h] = None /\ live[h] # Ours

\* While the service runs, a harness that absorption took over has a direct
\* relay to the address it had: there is no "taken over, but the relay is
\* missing for good" (reconcile.py:177).  Nothing adds it later, for
\* reconcile() finds the file ours and leaves it.
AbsorbedHasRelay ==
  AllIdle /\ Serving # {} =>
    \A h \in Harnesses : absorbed[h] => direct[h] # None

\* The process that listens is the one the pid file names, so that stop
\* finds it.
ServerIsReachable == AllIdle => \A s \in Serving : pidFile = s

\* One pass of reconcile() over a running service, with nobody interfering,
\* leaves every existing harness file pointing at us; one pass over a dead
\* service that is not wanted leaves nothing pointing at us but what has no
\* snapshot (spec 5, rule matrix and repair flow).
ReconcileConverges ==
  [][\A p \in Procs :
       Serial /\ RecFinish(p) =>
         /\ rec[p].alive => \A h \in Harnesses : live[h] \in {Ours, NoFile}
         /\ ~ rec[p].alive /\ ~ rec[p].on =>
              \A h \in Harnesses : live[h] = Ours => snap[h] = None]_vars

\* Whoever has the lock lets it go, through the end of its reconcile() or
\* through its death (locking.py:43-48).
LockIsLent == \A p \in Procs : lock = p ~> lock # p

\* A start that was begun ends: the process listens or is gone, whoever
\* has the lock and whatever crashes meanwhile.
StartEnds ==
  \A s \in Services : boot[s].pc # "off" ~> boot[s].pc \in {"off", "up"}

\* With routing switched off, no service and no command under way, nothing
\* points at us: no reconciliation has gone on writing next to the stop that
\* ended (reconcile.py:3, own writers are serialised by config_lock).
OffMeansOff ==
  AllIdle /\ Serving = {} /\ ~ intent => \A h \in Harnesses : live[h] # Ours
=============================================================================
