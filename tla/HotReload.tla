------------------------------ MODULE HotReload ------------------------------
(***************************************************************************)
(* How the running service follows proxy.json (server.py).  Every request  *)
(* compares the file's modification time with the one recorded at the last *)
(* reload and loads the file when they differ (_current_cfg).  A request   *)
(* is a thread of its own; nothing guards server.cfg and server.cfg_mtime. *)
(*                                                                         *)
(* What a request works with comes from three places: the route from the   *)
(* configuration _current_cfg returned, the pipeline's settings from the   *)
(* one its connection captured when it was opened (setup), and the model's *)
(* capability from the table that remembers its first verdict.             *)
(*                                                                         *)
(* The file and the commands that write it are those of ConfigStore.  A    *)
(* configuration is named by the text it was loaded from.                  *)
(***************************************************************************)
EXTENDS ConfigStore

CONSTANTS
  Clients,      \* keep-alive connections, each served by a thread
  MaxRequests,  \* bound: requests in a behaviour
  Overlap       \* TRUE: requests of different clients may overlap

ASSUME ReloadAssumption == MaxRequests \in Nat /\ Overlap \in BOOLEAN

VARIABLES
  served,    \* server.cfg
  mark,      \* server.cfg_mtime; 0 when it was never set
  conn,      \* conn[t]: self._cfg of t's connection, or Closed
  req,       \* req[t]: where t's request is
  verdict,   \* the configuration the table's verdict comes from, or Unjudged
  requests   \* number of requests so far

serverVars == <<served, mark, conn, req, verdict, requests>>
vars == <<storeVars, serverVars>>

\* Values of the shape of a configuration that none has.
Closed   == [state |-> "torn", has |-> {}, time |-> 0]
Unjudged == Closed

\* seen: the time _current_cfg read; copy: what load_config returned;
\* route: the configuration the request goes by; since (history): the texts
\* proxy.json has held since the request arrived.
NoReq == [pc |-> "idle", seen |-> 0, copy |-> Closed, route |-> Closed,
          since |-> {}]

Init ==
  /\ StoreInit
  /\ served = Disk
  /\ mark = 0
  /\ conn = [t \in Clients |-> Closed]
  /\ req = [t \in Clients |-> NoReq]
  /\ verdict = Unjudged
  /\ requests = 0

Busy(t) == req[t].pc # "idle"

-----------------------------------------------------------------------------
(* Faulty variants of actions below, one per property, that a mistake in   *)
(* server.py would give.  Nothing uses them.                               *)

\* Only a later time counts as a change.
CompareNewer(t) ==
  /\ req[t].pc = "compare"
  /\ req' = [req EXCEPT ![t].pc = IF req[t].seen > mark THEN "load" ELSE "route"]
  /\ UNCHANGED <<storeVars, served, mark, conn, verdict, requests>>

\* The recorded time is read after the load.
MarkStatsAgain(t) ==
  /\ req[t].pc = "mark"
  /\ mark' = Disk.time
  /\ req' = [req EXCEPT ![t].pc = "route"]
  /\ UNCHANGED <<storeVars, served, conn, verdict, requests>>

\* What the file says is taken without asking whether it could be read.
LoadDrops(t) ==
  /\ req[t].pc = "load"
  /\ req' = [req EXCEPT ![t] = [@ EXCEPT !.pc = "assign", !.copy = Disk]]
  /\ UNCHANGED <<storeVars, served, mark, conn, verdict, requests>>

-----------------------------------------------------------------------------
(* A connection *)

\* setup captures server.cfg.
Open(t) ==
  /\ conn[t] = Closed
  /\ conn' = [conn EXCEPT ![t] = served]
  /\ UNCHANGED <<storeVars, served, mark, req, verdict, requests>>

Close(t) ==
  /\ conn[t] # Closed /\ ~ Busy(t)
  /\ conn' = [conn EXCEPT ![t] = Closed]
  /\ UNCHANGED <<storeVars, served, mark, req, verdict, requests>>

-----------------------------------------------------------------------------
(* A request: _current_cfg, and what do_POST does with its result *)

Arrive(t) ==
  /\ conn[t] # Closed /\ ~ Busy(t)
  /\ Overlap \/ \A u \in Clients : ~ Busy(u)
  /\ requests < MaxRequests
  /\ requests' = requests + 1
  /\ req' = [req EXCEPT ![t] = [@ EXCEPT !.pc = "stat", !.since = {Disk}]]
  /\ UNCHANGED <<storeVars, served, mark, conn, verdict>>

\* os.path.getmtime
Stat(t) ==
  /\ req[t].pc = "stat"
  /\ req' = [req EXCEPT ![t] = [@ EXCEPT !.pc = "compare", !.seen = Disk.time]]
  /\ UNCHANGED <<storeVars, served, mark, conn, verdict, requests>>

\* Any other time than the recorded one is a change.
Compare(t) ==
  /\ req[t].pc = "compare"
  /\ req' = [req EXCEPT ![t].pc = IF req[t].seen # mark THEN "load" ELSE "route"]
  /\ UNCHANGED <<storeVars, served, mark, conn, verdict, requests>>

\* load_config; when it raises, server.cfg stays.
LoadConfig(t) ==
  /\ req[t].pc = "load"
  /\ req' = [req EXCEPT ![t] =
               IF Readable(Disk)
               THEN [@ EXCEPT !.pc = "assign", !.copy = Disk]
               ELSE [@ EXCEPT !.pc = "mark"]]
  /\ UNCHANGED <<storeVars, served, mark, conn, verdict, requests>>

Assign(t) ==
  /\ req[t].pc = "assign"
  /\ served' = req[t].copy
  /\ req' = [req EXCEPT ![t] = [@ EXCEPT !.pc = "mark", !.copy = Closed]]
  /\ UNCHANGED <<storeVars, mark, conn, verdict, requests>>

\* The time read before the load is recorded, after a failed one too.
Mark(t) ==
  /\ req[t].pc = "mark"
  /\ mark' = req[t].seen
  /\ req' = [req EXCEPT ![t].pc = "route"]
  /\ UNCHANGED <<storeVars, served, conn, verdict, requests>>

\* return server.cfg, whatever it is by now.
Route(t) ==
  /\ req[t].pc = "route"
  /\ req' = [req EXCEPT ![t] = [@ EXCEPT !.pc = "process", !.route = served]]
  /\ UNCHANGED <<storeVars, served, mark, conn, verdict, requests>>

\* do_GET: the answer is made from what _current_cfg returns.
Status(t) ==
  /\ req[t].pc = "route"
  /\ req' = [req EXCEPT ![t] = NoReq]
  /\ UNCHANGED <<storeVars, served, mark, conn, verdict, requests>>

\* do_POST: the table judges the model by the connection's configuration,
\* unless it has judged it before.  (One step: of two threads that judge it
\* for the first time together, the code keeps the later one's verdict.)
Judge(t) ==
  /\ req[t].pc = "process"
  /\ verdict' = IF verdict = Unjudged THEN conn[t] ELSE verdict
  /\ req' = [req EXCEPT ![t] = NoReq]
  /\ UNCHANGED <<storeVars, served, mark, conn, requests>>

RequestStep(t) ==
  \/ Stat(t) \/ Compare(t) \/ LoadConfig(t) \/ Assign(t) \/ Mark(t)
  \/ Route(t) \/ Status(t) \/ Judge(t)

\* The rest of the world changes the file; history notes it for the requests
\* under way.
Write ==
  /\ StoreNext
  /\ req' = [t \in Clients |->
               IF Busy(t) THEN [req[t] EXCEPT !.since = @ \cup {Disk'}]
                          ELSE req[t]]
  /\ UNCHANGED <<served, mark, conn, verdict, requests>>

Next ==
  \/ Write
  \/ \E t \in Clients : Open(t) \/ Close(t) \/ Arrive(t) \/ RequestStep(t)

Spec == Init /\ [][Next]_vars

-----------------------------------------------------------------------------
(* Properties *)

Configuration == {text \in Text : Readable(text)}

ReqState ==
  [pc : {"idle", "stat", "compare", "load", "assign", "mark", "route",
         "process"},
   seen : Nat, copy : Configuration \cup {Closed},
   route : Configuration \cup {Closed}, since : SUBSET Text]

\* In particular server.cfg is always something load_config returned
\* (fail-open, server.py:227).
TypeOK ==
  /\ StoreTypeOK
  /\ served \in Configuration
  /\ mark \in Nat
  /\ conn \in [Clients -> Configuration \cup {Closed}]
  /\ req \in [Clients -> ReqState]
  /\ verdict \in Configuration \cup {Unjudged}
  /\ requests \in 0..MaxRequests

\* No request is between its look at the file and its record of it.
Settled == \A t \in Clients : req[t].pc \notin {"load", "assign", "mark"}

\* When the recorded time is the file's, the service has what the file says:
\* a reload is skipped only when it would change nothing (server.py:234).
\* Files are renamed into place with the time they were filled at, edited by
\* hand, broken and repaired, at any step of the reload.
MarkIsTrue == Settled /\ Readable(Disk) /\ mark = Disk.time => served = Disk

\* A request is routed by a configuration the file has held since the
\* request arrived, unless the file was broken at some time since: what a
\* command has saved is in force for the next request (server.py:224-226).
FreshRoute ==
  [][\A t \in Clients :
       Route(t) => \E text \in req[t].since :
                      served = text \/ ~ Readable(text)]_vars
=============================================================================
