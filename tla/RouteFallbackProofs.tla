-------------------------- MODULE RouteFallbackProofs --------------------------
(***************************************************************************)
(* Proofs about RouteFallback and RelaySelection, for any relays, calls,   *)
(* archives, threads and any time to live.                                 *)
(*                                                                         *)
(* What a thread knows is an invariant of that thread and of the world     *)
(* (Address, Excused): a request in front of the archive is there because  *)
(* the tool was down while it was under way, so that a request that fails  *)
(* has seen both ways closed.  Other threads come in by the port cache and *)
(* the announced mode only, about which Recent and Told say enough.        *)
(***************************************************************************)
EXTENDS RouteFallback, NaturalsInduction, WellFoundedInduction,
        SequenceTheorems, TLAPS

-----------------------------------------------------------------------------
(* Selection *)

LEMMA Least ==
  ASSUME NEW T, T \subseteq Nat, T # {}
  PROVE  \E x \in T : \A y \in T : x <= y
<1> DEFINE R == {p \in Nat \X Nat : p[1] < p[2]}
<1>1. IsWellFoundedOn(R, Nat)
  BY NatLessThanWellFounded DEF OpToRel
<1> HIDE DEF R
<1>2. \E x \in T : \A y \in T : ~ (<<y, x>> \in R)
  BY <1>1, WFMin
<1>3. \A x, y \in Nat : ~ (<<y, x>> \in R) => x <= y
  BY DEF R
<1> QED
  BY <1>2, <1>3

\* The relay selected is a candidate, or made up.
LEMMA SelectedIsCandidate ==
  ASSUME NEW relays \in Seq(Relay), NEW off, NEW call,
         Candidates(relays, off, call) # {}
  PROVE  \E i \in Candidates(relays, off, call) :
           i \in DOMAIN relays /\ Selected(relays, off, call) = relays[i]
<1> DEFINE among == Candidates(relays, off, call)
<1>1. among \subseteq DOMAIN relays
  BY DEF Candidates, Shown
<1>2. DOMAIN relays \subseteq Nat
  BY LenProperties
<1> HIDE DEF among
<1>3. \E i \in among : \A j \in among : i <= j
  BY <1>1, <1>2, Least DEF among
<1>4. (CHOOSE i \in among : \A j \in among : i <= j) \in among
  BY <1>3
<1>5. Selected(relays, off, call)
        = relays[CHOOSE i \in among : \A j \in among : i <= j]
  BY DEF Selected, among
<1> QED
  BY <1>1, <1>4, <1>5 DEF among

LEMMA SelectedIsDefault ==
  ASSUME NEW relays, NEW off, NEW call, Candidates(relays, off, call) = {}
  PROVE  Selected(relays, off, call) = Default(call)
BY DEF Selected

LEMMA DefaultType ==
  ASSUME NEW call \in Call
  PROVE  Default(call) \in Relay
<1>1. call.protocol \in Protocols
  BY DEF Call
<1>2. "default" \in Names /\ FALSE \in BOOLEAN
  BY SelectionAssumption
<1>3. NoTool \in Tools \cup {NoTool}
  OBVIOUS
<1>4. {} \in SUBSET Models /\ {} \in SUBSET Prints
  OBVIOUS
<1> QED
  BY <1>1, <1>2, <1>3, <1>4, Zenon DEF Default, Relay

LEMMA SelectedType ==
  ASSUME NEW relays \in Seq(Relay), NEW off, NEW call \in Call
  PROVE  Selected(relays, off, call) \in Relay
<1>1. CASE Candidates(relays, off, call) = {}
  BY <1>1, SelectedIsDefault, DefaultType
<1>2. CASE Candidates(relays, off, call) # {}
  BY <1>2, SelectedIsCandidate, ElementOfSeq, LenProperties
<1> QED
  BY <1>1, <1>2

\* A relay that is pinned to another key than the call's is selected only
\* when every relay of the protocol is pinned.
LEMMA ForeignIsLast ==
  ASSUME NEW relays \in Seq(Relay), NEW off, NEW call \in Call,
         Foreign(Selected(relays, off, call), call),
         NEW i \in Shown(relays, off), Speaks(relays[i], call)
  PROVE  Pinned(relays[i])
<1> DEFINE exact == {j \in Shown(relays, off) : Exact(relays[j], call)}
           named == {j \in Shown(relays, off) : Named(relays[j], call)}
           open  == {j \in Shown(relays, off) : Open(relays[j], call)}
           among == Candidates(relays, off, call)
<1>1. among # {}
  BY SelectedIsDefault DEF Foreign, Pinned, Default
<1>2. PICK j \in among : Selected(relays, off, call) = relays[j]
  BY <1>1, SelectedIsCandidate
<1>3. among = IF exact # {} THEN exact
              ELSE IF named # {} THEN named
              ELSE IF open # {} THEN open
              ELSE {k \in Shown(relays, off) : Speaks(relays[k], call)}
  BY DEF Candidates
<1>4. j \notin exact
  BY <1>2 DEF Exact, Foreign
<1>5. j \notin named
  BY <1>2 DEF Named
<1>6. j \notin open
  BY <1>2 DEF Open, Foreign
<1>7. open = {}
  BY <1>2, <1>3, <1>4, <1>5, <1>6
<1> QED
  BY <1>7 DEF Open

\* A relay of the configuration has an address.
LEMMA SelectedName ==
  ASSUME NEW s \in Settings, NEW call \in Call,
         Selected(s.relays, s.off, call).via # NoTool
  PROVE  Selected(s.relays, s.off, call).name # "default"
<1>1. s.relays \in Seq(Relay)
  BY RouteAssumption
<1>2. Candidates(s.relays, s.off, call) # {}
  BY SelectedIsDefault DEF Default
<1>3. PICK i \in DOMAIN s.relays : Selected(s.relays, s.off, call) = s.relays[i]
  BY <1>1, <1>2, SelectedIsCandidate
<1> QED
  BY <1>3, RouteAssumption

-----------------------------------------------------------------------------
(* The invariant *)

\* How a request comes to where it is.
Control(r) ==
  /\ Busy(r) => req[r].misses <= 1
  /\ req[r].pc \in {"route", "probe", "store", "choose", "emit", "announce",
                    "append", "retry"} => Tool(r) \in Tools
  /\ req[r].pc \in {"emit", "announce", "append"} => req[r].mode \in Mode
  /\ req[r].pc \in {"route", "probe", "store"} =>
       ~ req[r].forced /\ req[r].misses = 0
  /\ req[r].pc \in {"choose", "emit", "announce", "append", "send"} =>
       (req[r].forced <=> req[r].misses = 1)
  /\ req[r].pc = "retry" => req[r].misses = 1

TInv == TypeOK /\ \A r \in Threads : Control(r)

\* Where it is sent, in what form and with which key.
Address(r) ==
  /\ req[r].pc # "idle" =>
       req[r].relay = Selected(setting.relays, setting.off, req[r].call)
  /\ Busy(r) /\ Tool(r) = NoTool => req[r].target = Itself(req[r].relay)
  /\ req[r].pc \in {"emit", "announce", "append", "send", "wait"} =>
       /\ req[r].body = req[r].target.protocol
       /\ Tool(r) # NoTool =>
            req[r].target.place \in {Tool(r), App(req[r].relay)}
  /\ req[r].auth = "client" =>
       req[r].pc \in {"wait", "answered", "failed"}
         /\ req[r].target.place = "upstream"

\* A way that was closed while the request was under way is noted,
Ways(r) ==
  /\ OtherWay(req[r].relay) \notin alive => fault[r].nodirect
  /\ Tool(r) # NoTool =>
       /\ ~ HasDirect(App(req[r].relay)) => fault[r].nodirect
       /\ ago[Tool(r)][FALSE] < TTL => fault[r].down

\* and nothing but a closed port brings it before the archive.
Turned(r) ==
  /\ req[r].pc \in {"store", "choose"} /\ ~ req[r].ok => fault[r].down
  /\ req[r].forced \/ req[r].pc = "retry" => fault[r].down
  /\ req[r].pc \in {"emit", "announce", "append", "send"} /\ Tool(r) # NoTool =>
       IF req[r].target.place = Tool(r)
       THEN /\ req[r].target.local
            /\ req[r].forced => req[r].pc # "send" /\ fault[r].nodirect
       ELSE fault[r].down

Fails(r) ==
  req[r].pc = "failed" =>
    \/ fault[r].cut
    \/ fault[r].nodirect /\ (Tool(r) = NoTool \/ fault[r].down)

Excused(r) == (Busy(r) => Ways(r) /\ Turned(r)) /\ Fails(r)

\* What the cache and the threads say of a port was true as long ago as they
\* say.
Recent ==
  /\ \A t \in Tools :
       /\ ago[t][(t \in alive)] = 0
       /\ cache[t].age < TTL => ago[t][cache[t].ok] <= cache[t].age
  /\ \A r \in Threads :
       req[r].pc = "store" => ago[Tool(r)][req[r].ok] <= req[r].since

Announcing(r, t) == req[r].pc \in {"announce", "append"} /\ Tool(r) = t

Last(s) == s[Len(s)]

\* What the events say of a tool,
Tells(t) ==
  /\ \A q, r \in Threads : Announcing(q, t) /\ Announcing(r, t) => q = r
  /\ \A i \in 1..Len(events[t]) - 1 : events[t][i] # events[t][i + 1]
  /\ events[t] # <<>> /\ (\A r \in Threads :
                            ~ (Announcing(r, t) /\ req[r].pc = "append")) =>
       Last(events[t]) = lastMode[t]
  /\ \A r \in Threads : Announcing(r, t) =>
       IF req[r].pc = "announce" THEN req[r].mode # lastMode[t]
       ELSE /\ req[r].mode = lastMode[t]
            /\ events[t] # <<>> => Last(events[t]) # req[r].mode

\* when its announcements have not crossed.
Told == \A t \in Tools \ crossed : Tells(t)

-----------------------------------------------------------------------------
(* Types *)

LEMMA Constants ==
  /\ TTL \in Nat \ {0} /\ 0 \in Clocks /\ TTL \in Clocks
  /\ \A n \in Clocks : n \in Nat /\ Older(n) \in Clocks
  /\ MaxRequests \in Nat /\ MaxChanges \in Nat
  /\ NoTool \notin Tools
BY RouteAssumption DEF Clocks, Older, NoTool, Tools

LEMMA TargetTypes ==
  ASSUME NEW relay \in Relay
  PROVE  /\ Itself(relay) \in Target
         /\ App(relay) \in Apps
         /\ relay.via \in Tools \cup {NoTool}
<1>1. relay.protocol \in Protocols /\ relay.key \in BOOLEAN /\ relay.via \in Tools \cup {NoTool}
  BY DEF Relay
<1>2. App(relay) \in Apps
  BY DEF App, Apps
<1> DEFINE place == IF relay.name = "default" THEN "nowhere"
                    ELSE IF relay.via = NoTool THEN "upstream" ELSE relay.via
           near  == relay.via # NoTool
<1>3. place \in Places \cup {"nowhere"} /\ near \in BOOLEAN
  BY <1>1 DEF Places
<1>4. Itself(relay) = [place |-> place, protocol |-> relay.protocol,
                       key |-> relay.key, local |-> near]
  BY DEF Itself
<1> HIDE DEF place, near
<1>a. [place |-> place, protocol |-> relay.protocol,
       key |-> relay.key, local |-> near] \in Target
  BY <1>1, <1>3, Zenon DEF Target
<1>5. Itself(relay) \in Target
  BY <1>4, <1>a
<1> QED
  BY <1>1, <1>2, <1>5

LEMMA DirectTypes ==
  ASSUME TypeOK, NEW a \in Apps
  PROVE  Direct(a) \in Target
<1>1. archive[a] \in Archive
  BY DEF TypeOK
<1>2. /\ archive[a].key \in BOOLEAN /\ archive[a].local \in BOOLEAN
      /\ a \in Places \cup {"nowhere"}
  BY <1>1 DEF Archive, Places
<1>3. DirectProtocol(a) \in Protocols
  BY DEF DirectProtocol, Protocols, Apps
<1> QED
  BY <1>2, <1>3, Zenon DEF Direct, Target

LEMMA InitTypes ==
  ASSUME Init
  PROVE  TypeOK
<1>1. archive \in [Apps -> Archive]
  BY RouteAssumption DEF Init
<1>2. PICK m \in Models : TRUE
  BY SelectionAssumption
<1> DEFINE some == [protocol |-> "chat", model |-> m,
                    authorization |-> NoKey, apikey |-> NoKey]
<1>a. some \in Call
  BY DEF Call, Protocols
<1>3. NoCall \in Call
  BY <1>a DEF NoCall
<1>4. Default(NoCall) \in Relay
  BY <1>3, DefaultType
<1>5. NoTarget \in Target
  BY DEF NoTarget, Target, Protocols
<1>6. req \in [Threads -> Request]
  <2> DEFINE x == [pc |-> "idle", relay |-> Default(NoCall), call |-> NoCall,
                   target |-> NoTarget, ok |-> FALSE, since |-> 0,
                   forced |-> FALSE, mode |-> NoMode, misses |-> 0,
                   body |-> "chat", auth |-> "none"]
  <2>1. "idle" \in PC /\ "chat" \in Protocols /\ 0 \in Clocks /\ 0 \in 0..2
    BY Constants DEF PC, Idle, Protocols
  <2>2. x \in Request
    BY <1>3, <1>4, <1>5, <2>1, Zenon DEF Request
  <2> QED
    BY <2>2 DEF Init
<1>7. /\ cache \in [Tools -> [ok : BOOLEAN, age : Clocks]]
      /\ ago \in [Tools -> [BOOLEAN -> Clocks]]
  BY Constants DEF Init, NoHit
<1>8. fault \in [Threads -> [down : BOOLEAN, nodirect : BOOLEAN, cut : BOOLEAN]]
  BY DEF Init, Harmless
<1>9. events \in [Tools -> Seq(Mode)] /\ lastMode \in [Tools -> Mode \cup {NoMode}]
  BY EmptySeq DEF Init
<1>10. /\ setting \in Settings /\ alive \subseteq Places /\ crossed \subseteq Tools
       /\ requests \in 0..MaxRequests /\ changes \in 0..MaxChanges
  BY Constants DEF Init
<1> QED
  BY <1>1, <1>6, <1>7, <1>8, <1>9, <1>10 DEF TypeOK

-----------------------------------------------------------------------------
(* What a step of a thread does to the requests *)

Same(r) == \A q \in Threads \ {r} : req'[q] = req[q]

Becomes(r, x) == req' \in [Threads -> Request] /\ req'[r] = x /\ Same(r)

LEMMA Effect ==
  ASSUME TypeOK, NEW r \in Threads, NEW x \in Request,
         req' = [req EXCEPT ![r] = x]
  PROVE  Becomes(r, x)
<1>1. req \in [Threads -> Request]
  BY DEF TypeOK
<1> QED
  BY <1>1 DEF Becomes, Same

LEMMA GoesEffect ==
  ASSUME TypeOK, NEW r \in Threads, NEW pc \in PC, Goes(r, pc)
  PROVE  Becomes(r, [req[r] EXCEPT !.pc = pc])
<1>1. req \in [Threads -> Request]
  BY DEF TypeOK
<1>2. [req[r] EXCEPT !.pc = pc] \in Request
  BY <1>1 DEF Request
<1>3. req' = [req EXCEPT ![r] = [req[r] EXCEPT !.pc = pc]]
  BY DEF Goes
<1> QED
  BY <1>2, <1>3, Effect

LEMMA Fresh ==
  ASSUME NEW pc \in PC, NEW relay \in Relay,
         NEW call \in Call, NEW target \in Target, NEW body \in Protocols
  PROVE  [pc |-> pc, relay |-> relay, call |-> call, target |-> target,
          ok |-> FALSE, since |-> 0, forced |-> FALSE, mode |-> NoMode,
          misses |-> 0, body |-> body, auth |-> "none"] \in Request
<1>1. 0 \in Clocks /\ 0 \in 0..2 /\ NoMode \in Mode \cup {NoMode}
  BY Constants
<1> QED
  BY <1>1, Zenon DEF Request

\* The request that a call which is given the relay begins with.
Begun(relay, call) ==
  [pc |-> IF relay.via = NoTool THEN "send" ELSE "route",
   relay |-> relay, call |-> call, target |-> Itself(relay),
   ok |-> FALSE, since |-> 0, forced |-> FALSE,
   mode |-> NoMode, misses |-> 0, body |-> relay.protocol,
   auth |-> "none"]

Fault(relay) ==
  [down |-> relay.via # NoTool /\ ago[relay.via][FALSE] < TTL,
   nodirect |-> \/ OtherWay(relay) \notin alive
                \/ relay.via # NoTool /\ ~ HasDirect(App(relay)),
   cut |-> FALSE]

LEMMA ArriveEffect ==
  ASSUME TypeOK, NEW r \in Threads, Arrive(r)
  PROVE  \E call \in Call, relay \in Relay :
           /\ relay = Selected(setting.relays, setting.off, call)
           /\ Becomes(r, Begun(relay, call))
           /\ fault' = [fault EXCEPT ![r] = Fault(relay)]
<1> DEFINE relay(call) == Selected(setting.relays, setting.off, call)
<1>1. PICK call \in Calls :
        /\ req' = [req EXCEPT ![r] = Begun(relay(call), call)]
        /\ fault' = [fault EXCEPT ![r] = Fault(relay(call))]
  BY DEF Arrive, Begun, Fault
<1>2. call \in Call /\ relay(call) \in Relay
  BY RouteAssumption, SelectedType DEF TypeOK
<1>3. Itself(relay(call)) \in Target /\ relay(call).protocol \in Protocols
  BY <1>2, TargetTypes DEF Relay
<1>4. (IF relay(call).via = NoTool THEN "send" ELSE "route") \in PC
  BY DEF PC
<1> HIDE DEF relay
<1>5. Begun(relay(call), call) \in Request
  BY <1>2, <1>3, <1>4, Fresh DEF Begun
<1>6. Becomes(r, Begun(relay(call), call))
  BY <1>1, <1>5, Effect
<1> QED
  BY <1>1, <1>2, <1>6 DEF relay

LEMMA LookupEffect ==
  ASSUME TInv, NEW r \in Threads, Lookup(r)
  PROVE  Becomes(r, [req[r] EXCEPT !.pc = "choose", !.ok = cache[Tool(r)].ok])
<1> DEFINE x == [req[r] EXCEPT !.pc = "choose", !.ok = cache[Tool(r)].ok]
<1>1. req[r] \in Request /\ Tool(r) \in Tools /\ cache[Tool(r)].ok \in BOOLEAN
  BY DEF TInv, TypeOK, Control, Lookup
<1>2. x \in Request
  BY <1>1 DEF Request, PC
<1>3. req' = [req EXCEPT ![r] = x]
  BY DEF Lookup
<1> QED
  BY <1>2, <1>3, Effect DEF TInv

LEMMA ExpiredEffect ==
  ASSUME TypeOK, NEW r \in Threads, Expired(r)
  PROVE  Becomes(r, [req[r] EXCEPT !.pc = "probe", !.since = 0])
<1> DEFINE x == [req[r] EXCEPT !.pc = "probe", !.since = 0]
<1>1. req[r] \in Request
  BY DEF TypeOK
<1>2. x \in Request
  BY <1>1, Constants DEF Request, PC
<1>3. req' = [req EXCEPT ![r] = x]
  BY DEF Expired
<1> QED
  BY <1>2, <1>3, Effect

LEMMA ProbeEffect ==
  ASSUME TypeOK, NEW r \in Threads, Probe(r)
  PROVE  Becomes(r, [req[r] EXCEPT !.pc = "store", !.ok = Tool(r) \in alive])
<1> DEFINE ok == Tool(r) \in alive
           x == [req[r] EXCEPT !.pc = "store", !.ok = ok]
<1>1. req[r] \in Request /\ ok \in BOOLEAN
  BY DEF TypeOK
<1>3. req' = [req EXCEPT ![r] = x]
  BY DEF Probe
<1> HIDE DEF ok
<1>2. x \in Request
  BY <1>1 DEF Request, PC
<1> QED
  BY <1>2, <1>3, Effect DEF ok

\* What Choose takes for the target and for the mode.
Way(r) ==
  IF ~ (req[r].ok /\ ~ req[r].forced) /\ HasDirect(App(req[r].relay))
  THEN Direct(App(req[r].relay)) ELSE Itself(req[r].relay)

WayMode(r) ==
  IF req[r].ok /\ ~ req[r].forced THEN "two-layer"
  ELSE IF HasDirect(App(req[r].relay)) THEN "direct" ELSE "dead-no-direct"

LEMMA ChooseEffect ==
  ASSUME TypeOK, NEW r \in Threads, Choose(r)
  PROVE  /\ Way(r) \in Target
         /\ Becomes(r, [req[r] EXCEPT !.pc = "emit", !.target = Way(r),
                           !.body = Way(r).protocol, !.mode = WayMode(r)])
<1> DEFINE x == [req[r] EXCEPT !.pc = "emit", !.target = Way(r),
                           !.body = Way(r).protocol, !.mode = WayMode(r)]
<1>1. req[r] \in Request /\ req[r].relay \in Relay
  BY DEF TypeOK, Request
<1>2. Way(r) \in Target
  BY <1>1, TargetTypes, DirectTypes DEF Way
<1>3. Way(r).protocol \in Protocols
  BY <1>2 DEF Target
<1>4. WayMode(r) \in Mode \cup {NoMode}
  BY DEF WayMode, Mode
<1>5. x \in Request
  BY <1>1, <1>2, <1>3, <1>4 DEF Request, PC
<1>6. req' = [req EXCEPT ![r] = x]
  BY DEF Choose, Way, WayMode
<1> QED
  BY <1>2, <1>5, <1>6, Effect

LEMMA ConnectEffect ==
  ASSUME TypeOK, NEW r \in Threads, Connect(r)
  PROVE  Becomes(r, [req[r] EXCEPT !.pc = "wait",
                 !.auth = Auth(req[r].relay, req[r].target, req[r].call)])
<1> DEFINE auth == Auth(req[r].relay, req[r].target, req[r].call)
           x == [req[r] EXCEPT !.pc = "wait", !.auth = auth]
<1>1. req[r] \in Request /\ auth \in {"none", "own", "client"}
  BY DEF TypeOK, Auth
<1>3. req' = [req EXCEPT ![r] = x]
  BY DEF Connect
<1> HIDE DEF auth
<1>2. x \in Request
  BY <1>1 DEF Request, PC
<1> QED
  BY <1>2, <1>3, Effect DEF auth

LEMMA RefusedEffect ==
  ASSUME TInv, NEW r \in Threads, Refused(r)
  PROVE  Becomes(r, [req[r] EXCEPT !.misses = req[r].misses + 1,
                 !.pc = IF /\ req[r].misses = 0 /\ Tool(r) # NoTool
                           /\ req[r].target.local
                        THEN "retry" ELSE "failed"])
<1> DEFINE pc == IF /\ req[r].misses = 0 /\ Tool(r) # NoTool
                    /\ req[r].target.local
                 THEN "retry" ELSE "failed"
           x == [req[r] EXCEPT !.misses = req[r].misses + 1, !.pc = pc]
<1>1. req[r] \in Request
  BY DEF TInv, TypeOK
<1>2. req[r].misses \in 0..2 /\ req[r].misses <= 1
  BY <1>1 DEF TInv, Control, Busy, Idle, Refused, Request
<1>3. req[r].misses + 1 \in 0..2 /\ pc \in PC
  BY <1>2 DEF PC, Idle
<1>4. req' = [req EXCEPT ![r] = x]
  BY DEF Refused
<1> HIDE DEF pc
<1>5. x \in Request
  BY <1>1, <1>3 DEF Request
<1> QED
  BY <1>4, <1>5, Effect DEF TInv, pc

LEMMA RetryEffect ==
  ASSUME TypeOK, NEW r \in Threads, Retry(r)
  PROVE  Becomes(r, [req[r] EXCEPT !.pc = "choose", !.forced = TRUE])
<1> DEFINE x == [req[r] EXCEPT !.pc = "choose", !.forced = TRUE]
<1>1. req[r] \in Request
  BY DEF TypeOK
<1>2. x \in Request
  BY <1>1 DEF Request, PC
<1>3. req' = [req EXCEPT ![r] = x]
  BY DEF Retry
<1> QED
  BY <1>2, <1>3, Effect

\* The step of the clock, for each thread.
LEMMA TickEffect ==
  ASSUME TypeOK, Tick
  PROVE  /\ req' \in [Threads -> Request]
         /\ \A r \in Threads :
              req'[r] = IF req[r].pc \in {"probe", "store"}
                        THEN [req[r] EXCEPT !.since = Older(req[r].since)]
                        ELSE req[r]
<1>1. \A r \in Threads : req[r] \in Request /\ req[r].since \in Clocks
  BY DEF TypeOK, Request
<1>2. \A r \in Threads : Older(req[r].since) \in Clocks
  BY <1>1, Constants
<1>3. \A r \in Threads : [req[r] EXCEPT !.since = Older(req[r].since)] \in Request
  BY <1>1, <1>2 DEF Request
<1>4. req' = [r \in Threads |->
               IF req[r].pc \in {"probe", "store"}
               THEN [req[r] EXCEPT !.since = Older(req[r].since)] ELSE req[r]]
  BY DEF Tick
<1> QED
  BY <1>1, <1>3, <1>4

LEMMA OthersControl ==
  ASSUME TInv, NEW r \in Threads, NEW x, Becomes(r, x), Control(r)', TypeOK'
  PROVE  TInv'
<1>1. \A q \in Threads \ {r} : Control(q)'
  BY DEF TInv, Becomes, Same, Control, Busy, Tool
<1> QED
  BY <1>1 DEF TInv

LEMMA FaultTypes ==
  ASSUME NEW f \in [Threads -> [down : BOOLEAN, nodirect : BOOLEAN, cut : BOOLEAN]],
         NEW r \in Threads, NEW down \in BOOLEAN, NEW nodirect \in BOOLEAN,
         NEW cut \in BOOLEAN
  PROVE  [down |-> down, nodirect |-> nodirect, cut |-> cut]
           \in [down : BOOLEAN, nodirect : BOOLEAN, cut : BOOLEAN]
BY Zenon

LEMMA WorldTypes ==
  ASSUME TInv, World
  PROVE  TInv'
<1>0. TypeOK /\ \A r \in Threads : req[r] \in Request
  BY DEF TInv, TypeOK
<1>1. CASE Tick
  <2>1. \A r \in Threads : Control(r)'
    BY <1>0, <1>1, TickEffect DEF TInv, Control, Busy, Idle, Tool, Request
  <2>2. cache' \in [Tools -> [ok : BOOLEAN, age : Clocks]]
    BY <1>0, <1>1, Constants DEF TypeOK, Tick
  <2>3. ago' \in [Tools -> [BOOLEAN -> Clocks]]
    BY <1>0, <1>1, Constants DEF TypeOK, Tick
  <2>4. changes' \in 0..MaxChanges
    BY <1>0, <1>1, Constants DEF TypeOK, Tick
  <2>5. req' \in [Threads -> Request]
    BY <1>0, <1>1, TickEffect
  <2>6. TypeOK'
    BY <1>0, <1>1, <2>2, <2>3, <2>4, <2>5 DEF TypeOK, Tick, modeVars
  <2> QED
    BY <2>1, <2>6 DEF TInv
<1>2. ASSUME NEW p \in Places, Toggle(p)
      PROVE  TInv'
  <2>1. \A r \in Threads : Control(r)'
    BY <1>2 DEF TInv, Control, Busy, Tool, Toggle
  <2>2. ago' \in [Tools -> [BOOLEAN -> Clocks]]
    BY <1>0, <1>2, Constants DEF TypeOK, Toggle
  <2>3. changes' \in 0..MaxChanges /\ alive' \subseteq Places
    BY <1>0, <1>2, Constants DEF TypeOK, Toggle
  <2>4. fault' \in [Threads -> [down : BOOLEAN, nodirect : BOOLEAN, cut : BOOLEAN]]
    <3> DEFINE F(r) == [down     |-> fault[r].down \/ p = Tool(r),
             nodirect |-> fault[r].nodirect \/ p = OtherWay(req[r].relay),
             cut      |-> \/ fault[r].cut
                          \/ req[r].pc = "wait" /\ req[r].target.place = p]
    <3>1. \A r \in Threads : F(r) \in [down : BOOLEAN, nodirect : BOOLEAN, cut : BOOLEAN]
      BY Zenon
    <3>2. fault' = [r \in Threads |-> IF p \in alive /\ Busy(r) THEN F(r) ELSE fault[r]]
      BY <1>2 DEF Toggle
    <3> HIDE DEF F
    <3> QED
      BY <1>0, <3>1, <3>2 DEF TypeOK
  <2>5. TypeOK'
    BY <1>0, <1>2, <2>2, <2>3, <2>4 DEF TypeOK, Toggle, modeVars
  <2> QED
    BY <2>1, <2>5 DEF TInv
<1>3. ASSUME NEW a \in Apps, Switch(a)
      PROVE  TInv'
  <2>1. \A r \in Threads : Control(r)'
    BY <1>3 DEF TInv, Control, Busy, Tool, Switch
  <2>2. archive' \in [Apps -> Archive]
    BY <1>0, <1>3, RouteAssumption DEF TypeOK, Switch
  <2>3. changes' \in 0..MaxChanges
    BY <1>0, <1>3, Constants DEF TypeOK, Switch
  <2>4. fault' \in [Threads -> [down : BOOLEAN, nodirect : BOOLEAN, cut : BOOLEAN]]
    BY <1>0, <1>3 DEF TypeOK, Switch
  <2>5. TypeOK'
    BY <1>0, <1>3, <2>2, <2>3, <2>4 DEF TypeOK, Switch, modeVars
  <2> QED
    BY <2>1, <2>5 DEF TInv
<1> QED
  BY <1>1, <1>2, <1>3 DEF World

LEMMA RequestTypes ==
  ASSUME TInv, NEW s \in Threads, Arrive(s) \/ RequestStep(s)
  PROVE  TInv'
<1>0. TypeOK /\ \A r \in Threads : req[r] \in Request
  BY DEF TInv, TypeOK
<1>1. ASSUME NEW r \in Threads, Arrive(r)
      PROVE  TInv'
  <2>1. PICK call \in Call, relay \in Relay :
           /\ Becomes(r, Begun(relay, call))
           /\ fault' = [fault EXCEPT ![r] = Fault(relay)]
    BY <1>0, <1>1, ArriveEffect
  <2>2. Control(r)'
    BY <2>1, TargetTypes, Constants
    DEF Control, Becomes, Begun, Busy, Idle, Tool
  <2>3. Fault(relay) \in [down : BOOLEAN, nodirect : BOOLEAN, cut : BOOLEAN]
    BY Zenon DEF Fault
  <2>4. requests' \in 0..MaxRequests
    <3>1. requests \in 0..MaxRequests
      BY <1>0 DEF TypeOK
    <3>2. requests < MaxRequests /\ requests' = requests + 1
      BY <1>1 DEF Arrive
    <3> QED
      BY <3>1, <3>2, Constants
  <2>5. TypeOK'
    BY <1>0, <1>1, <2>1, <2>3, <2>4
    DEF TypeOK, Becomes, Arrive, worldVars, modeVars
  <2> QED
    BY <2>1, <2>2, <2>5, OthersControl
<1>2. ASSUME NEW r \in Threads, Lookup(r)
      PROVE  TInv'
  <2>1. Becomes(r, [req[r] EXCEPT !.pc = "choose", !.ok = cache[Tool(r)].ok])
    BY <1>0, <1>2, LookupEffect
  <2>2. Control(r)'
    BY <1>2, <1>0, <2>1, Constants
    DEF TInv, Control, Becomes, Busy, Idle, Tool, Lookup, Request
  <2>3. TypeOK'
    BY <1>2, <1>0, <2>1
    DEF TypeOK, Becomes, Lookup, worldVars, modeVars, bounds
  <2> QED
    BY <2>1, <2>2, <2>3, OthersControl
<1>3. ASSUME NEW r \in Threads, Expired(r)
      PROVE  TInv'
  <2>1. Becomes(r, [req[r] EXCEPT !.pc = "probe", !.since = 0])
    BY <1>0, <1>3, ExpiredEffect
  <2>2. Control(r)'
    BY <1>3, <1>0, <2>1, Constants
    DEF TInv, Control, Becomes, Busy, Idle, Tool, Expired, Request
  <2>3. TypeOK'
    BY <1>3, <1>0, <2>1
    DEF TypeOK, Becomes, Expired, worldVars, modeVars, bounds
  <2> QED
    BY <2>1, <2>2, <2>3, OthersControl
<1>4. ASSUME NEW r \in Threads, Probe(r)
      PROVE  TInv'
  <2>1. Becomes(r, [req[r] EXCEPT !.pc = "store", !.ok = Tool(r) \in alive])
    BY <1>0, <1>4, ProbeEffect
  <2>2. Control(r)'
    BY <1>4, <1>0, <2>1, Constants
    DEF TInv, Control, Becomes, Busy, Idle, Tool, Probe, Request
  <2>3. TypeOK'
    BY <1>4, <1>0, <2>1
    DEF TypeOK, Becomes, Probe, worldVars, modeVars, bounds
  <2> QED
    BY <2>1, <2>2, <2>3, OthersControl
<1>5. ASSUME NEW r \in Threads, Store(r)
      PROVE  TInv'
  <2>1. Becomes(r, [req[r] EXCEPT !.pc = "choose"])
    BY <1>0, <1>5, GoesEffect DEF Store, PC
  <2>2. Control(r)'
    BY <1>5, <1>0, <2>1, Constants
    DEF TInv, Control, Becomes, Busy, Idle, Tool, Store, Request
  <2>a. [ok |-> req[r].ok, age |-> req[r].since] \in [ok : BOOLEAN, age : Clocks]
    <3>1. req[r].ok \in BOOLEAN /\ req[r].since \in Clocks
      BY <1>0 DEF Request
    <3> QED
      BY <3>1, Zenon
  <2>b. cache' \in [Tools -> [ok : BOOLEAN, age : Clocks]]
    BY <1>5, <1>0, <2>a DEF TypeOK, Store
  <2>3. TypeOK'
    BY <1>5, <1>0, <2>1, <2>b
    DEF TypeOK, Becomes, Store, worldVars, modeVars, bounds
  <2> QED
    BY <2>1, <2>2, <2>3, OthersControl
<1>6. ASSUME NEW r \in Threads, Choose(r)
      PROVE  TInv'
  <2>1. Becomes(r, [req[r] EXCEPT !.pc = "emit", !.target = Way(r),
                           !.body = Way(r).protocol, !.mode = WayMode(r)])
    BY <1>0, <1>6, ChooseEffect
  <2>2. Control(r)'
    BY <1>6, <1>0, <2>1, Constants
    DEF TInv, Control, Becomes, Busy, Idle, Tool, Choose, Request, WayMode, Mode
  <2>3. TypeOK'
    BY <1>6, <1>0, <2>1
    DEF TypeOK, Becomes, Choose, worldVars, modeVars, bounds
  <2> QED
    BY <2>1, <2>2, <2>3, OthersControl
<1>7. ASSUME NEW r \in Threads, Emit(r)
      PROVE  TInv'
  <2>1. PICK pc \in {"announce", "failed", "send"} :
          Becomes(r, [req[r] EXCEPT !.pc = pc])
    BY <1>0, <1>7, GoesEffect DEF Emit, Resolved, PC, Idle
  <2>2. Control(r)'
    BY <1>7, <1>0, <2>1, Constants
    DEF TInv, Control, Becomes, Busy, Idle, Tool, Emit, Request
  <2>3. TypeOK'
    BY <1>7, <1>0, <2>1
    DEF TInv, TypeOK, Control, Becomes, Emit, worldVars, bounds
  <2> QED
    BY <2>1, <2>2, <2>3, OthersControl
<1>8. ASSUME NEW r \in Threads, Announce(r)
      PROVE  TInv'
  <2>1. Becomes(r, [req[r] EXCEPT !.pc = "append"])
    BY <1>0, <1>8, GoesEffect DEF Announce, PC
  <2>2. Control(r)'
    BY <1>8, <1>0, <2>1, Constants
    DEF TInv, Control, Becomes, Busy, Idle, Tool, Announce, Request
  <2>3. lastMode' \in [Tools -> Mode \cup {NoMode}]
    BY <1>8, <1>0 DEF TypeOK, Announce, Request
  <2>4. TypeOK'
    BY <1>8, <1>0, <2>1, <2>3 DEF TypeOK, Becomes, Announce, worldVars, bounds
  <2> QED
    BY <2>1, <2>2, <2>4, OthersControl
<1>9. ASSUME NEW r \in Threads, AppendEvent(r)
      PROVE  TInv'
  <2>1. PICK pc \in {"failed", "send"} : Becomes(r, [req[r] EXCEPT !.pc = pc])
    BY <1>0, <1>9, GoesEffect DEF AppendEvent, Resolved, PC, Idle
  <2>2. Control(r)'
    BY <1>9, <1>0, <2>1, Constants
    DEF TInv, Control, Becomes, Busy, Idle, Tool, AppendEvent, Request
  <2>3. Tool(r) \in Tools /\ req[r].mode \in Mode
    BY <1>9 DEF TInv, Control, AppendEvent
  <2>4. events' \in [Tools -> Seq(Mode)]
    BY <1>9, <1>0, <2>3, AppendProperties DEF TypeOK, AppendEvent
  <2>5. TypeOK'
    BY <1>9, <1>0, <2>1, <2>4
    DEF TypeOK, Becomes, AppendEvent, worldVars, bounds
  <2> QED
    BY <2>1, <2>2, <2>5, OthersControl
<1>10. ASSUME NEW r \in Threads, Connect(r)
      PROVE  TInv'
  <2>1. Becomes(r, [req[r] EXCEPT !.pc = "wait",
                 !.auth = Auth(req[r].relay, req[r].target, req[r].call)])
    BY <1>0, <1>10, ConnectEffect
  <2>2. Control(r)'
    BY <1>10, <1>0, <2>1, Constants
    DEF TInv, Control, Becomes, Busy, Idle, Tool, Connect, Request
  <2>3. TypeOK'
    BY <1>10, <1>0, <2>1
    DEF TypeOK, Becomes, Connect, worldVars, modeVars, bounds
  <2> QED
    BY <2>1, <2>2, <2>3, OthersControl
<1>11. ASSUME NEW r \in Threads, Refused(r)
      PROVE  TInv'
  <2>1. Becomes(r, [req[r] EXCEPT !.misses = req[r].misses + 1,
                 !.pc = IF /\ req[r].misses = 0 /\ Tool(r) # NoTool
                           /\ req[r].target.local
                        THEN "retry" ELSE "failed"])
    BY <1>0, <1>11, RefusedEffect
  <2>a. Tool(r) \in Tools \cup {NoTool} /\ req[r].misses \in 0..1
    BY <1>11, <1>0, TargetTypes
    DEF TInv, Control, Busy, Idle, Refused, Tool, Request
  <2>b. req'[r].relay = req[r].relay /\ req'[r].misses = req[r].misses + 1
    BY <1>0, <2>1 DEF Becomes, Request
  <2>c. \/ req'[r].pc = "failed"
        \/ req'[r].pc = "retry" /\ req[r].misses = 0 /\ Tool(r) # NoTool
    BY <1>0, <2>1 DEF Becomes, Request
  <2>2. Control(r)'
    BY <2>a, <2>b, <2>c DEF Control, Busy, Idle, Tool
  <2>3. TypeOK'
    BY <1>11, <1>0, <2>1
    DEF TypeOK, Becomes, Refused, worldVars, modeVars, bounds
  <2> QED
    BY <2>1, <2>2, <2>3, OthersControl
<1>12. ASSUME NEW r \in Threads, NoAddress(r)
      PROVE  TInv'
  <2>1. Becomes(r, [req[r] EXCEPT !.pc = "failed"])
    BY <1>0, <1>12, GoesEffect DEF NoAddress, PC, Idle
  <2>2. Control(r)'
    BY <1>12, <1>0, <2>1, Constants
    DEF TInv, Control, Becomes, Busy, Idle, Tool, NoAddress, Request
  <2>3. TypeOK'
    BY <1>12, <1>0, <2>1
    DEF TypeOK, Becomes, NoAddress, worldVars, modeVars, bounds
  <2> QED
    BY <2>1, <2>2, <2>3, OthersControl
<1>13. ASSUME NEW r \in Threads, Retry(r)
      PROVE  TInv'
  <2>1. Becomes(r, [req[r] EXCEPT !.pc = "choose", !.forced = TRUE])
    BY <1>0, <1>13, RetryEffect
  <2>2. Control(r)'
    BY <1>13, <1>0, <2>1, Constants
    DEF TInv, Control, Becomes, Busy, Idle, Tool, Retry, Request
  <2>a. cache' \in [Tools -> [ok : BOOLEAN, age : Clocks]]
    BY <1>13, <1>0, Constants DEF TypeOK, Retry, NoHit
  <2>3. TypeOK'
    BY <1>13, <1>0, <2>1, <2>a
    DEF TypeOK, Becomes, Retry, worldVars, modeVars, bounds
  <2> QED
    BY <2>1, <2>2, <2>3, OthersControl
<1>14. ASSUME NEW r \in Threads, Reply(r) \/ TimeOut(r)
      PROVE  TInv'
  <2>1. PICK pc \in {"failed", "answered"} : Becomes(r, [req[r] EXCEPT !.pc = pc])
    BY <1>0, <1>14, GoesEffect DEF Reply, TimeOut, PC, Idle
  <2>2. Control(r)'
    BY <1>14, <1>0, <2>1, Constants
    DEF TInv, Control, Becomes, Busy, Idle, Tool, Request
  <2>3. fault' \in [Threads -> [down : BOOLEAN, nodirect : BOOLEAN, cut : BOOLEAN]]
    <3> DEFINE F == [down : BOOLEAN, nodirect : BOOLEAN, cut : BOOLEAN]
    <3>1. fault \in [Threads -> F]
      BY <1>0 DEF TypeOK
    <3>2. [fault[r] EXCEPT !.cut = TRUE] \in F
      BY <3>1
    <3>3. fault' = fault \/ fault' = [fault EXCEPT ![r].cut = TRUE]
      BY <1>14 DEF Reply, TimeOut
    <3> QED
      BY <3>1, <3>2, <3>3
  <2>4. TypeOK'
    BY <1>14, <1>0, <2>1, <2>3
    DEF TypeOK, Becomes, Reply, TimeOut, worldVars, modeVars, bounds
  <2> QED
    BY <2>1, <2>2, <2>4, OthersControl
<1> QED
  BY <1>1, <1>2, <1>3, <1>4, <1>5, <1>6, <1>7, <1>8, <1>9, <1>10, <1>11, <1>12, <1>13, <1>14 DEF RequestStep

LEMMA InitControl ==
  ASSUME Init
  PROVE  TInv
<1>1. \A r \in Threads : Control(r)
  BY DEF Init, Control, Busy, Idle
<1> QED
  BY <1>1, InitTypes DEF TInv

LEMMA NextTypes ==
  ASSUME TInv, [Next]_vars
  PROVE  TInv'
<1>1. CASE World
  BY <1>1, WorldTypes
<1>2. CASE \E r \in Threads : Arrive(r) \/ RequestStep(r)
  BY <1>2, RequestTypes
<1>3. CASE UNCHANGED vars
  <2>1. TypeOK'
    BY <1>3 DEF vars, worldVars, modeVars, bounds, TInv, TypeOK
  <2>2. \A r \in Threads : Control(r)'
    BY <1>3 DEF vars, TInv, Control, Busy, Tool
  <2> QED
    BY <2>1, <2>2 DEF TInv
<1> QED
  BY <1>1, <1>2, <1>3 DEF Next

\* Every variable stays in its type: _select_relay gives a relay, the
\* archive an address, and no request is refused more than twice.
THEOREM Types == Spec => []TypeOK
<1>1. Spec => []TInv
  BY InitControl, NextTypes, PTL DEF Spec
<1>2. TInv => TypeOK
  BY DEF TInv
<1> QED
  BY <1>1, <1>2, PTL

LEMMA AlwaysTyped == Spec => []TInv
BY InitControl, NextTypes, PTL DEF Spec

-----------------------------------------------------------------------------
(* A request is put to an upstream at most once *)

Phase(q) == CASE q.pc \in Idle  -> q.pc
              [] q.pc = "wait"  -> "delivered"
              [] OTHER          -> "pending"

phase  == [r \in Threads |-> Phase(req[r])]
misses == [r \in Threads |-> req[r].misses]

\* What Delivery sees of a request changes as its step changes it.
LEMMA PhaseStep ==
  ASSUME TypeOK, NEW r \in Threads, NEW x, Becomes(r, x)
  PROVE  /\ phase' = [phase EXCEPT ![r] = Phase(x)]
         /\ misses' = [misses EXCEPT ![r] = x.misses]
BY DEF TypeOK, Becomes, Same, phase, misses

PhaseNext == Promise!Next \/ (phase' = phase /\ misses' = misses)

LEMMA PhaseMoves ==
  ASSUME TypeOK, NEW r \in Threads, NEW x, Becomes(r, x),
         LET old == Phase(req[r])
             new == Phase(x)
             kept == x.misses = req[r].misses IN
         \/ new = old /\ kept
         \/ old \in Idle /\ new = "pending" /\ x.misses = 0
         \/ /\ old = "pending" /\ req[r].misses < 2
            /\ x.misses = req[r].misses + 1
            /\ \/ new = "failed"
               \/ new = "pending" /\ req[r].misses = 0
         \/ old = "pending" /\ new = "delivered" /\ kept
         \/ old = "delivered" /\ new = "answered" /\ kept
         \/ old \in {"pending", "delivered"} /\ new = "failed" /\ kept
  PROVE  PhaseNext
<1>1. /\ phase' = [phase EXCEPT ![r] = Phase(x)] /\ phase[r] = Phase(req[r])
      /\ misses' = [misses EXCEPT ![r] = x.misses] /\ misses[r] = req[r].misses
      /\ phase = [q \in Threads |-> phase[q]] /\ misses = [q \in Threads |-> misses[q]]
  BY PhaseStep DEF phase, misses
<1>2. /\ \A q : Promise!Receive(q) <=>
           /\ phase[q] \in {"idle", "answered", "failed"}
           /\ phase' = [phase EXCEPT ![q] = "pending"]
           /\ misses' = [misses EXCEPT ![q] = 0]
      /\ \A q : Promise!Miss(q) <=>
           /\ phase[q] = "pending"
           /\ misses[q] < 2
           /\ misses' = [misses EXCEPT ![q] = @ + 1]
           /\ \/ misses[q] = 0 /\ phase' = phase
              \/ phase' = [phase EXCEPT ![q] = "failed"]
      /\ \A q : Promise!Deliver(q) <=>
           /\ phase[q] = "pending"
           /\ phase' = [phase EXCEPT ![q] = "delivered"]
           /\ misses' = misses
      /\ \A q : Promise!Answer(q) <=>
           /\ phase[q] = "delivered"
           /\ phase' = [phase EXCEPT ![q] = "answered"]
           /\ misses' = misses
      /\ \A q : Promise!Fail(q) <=>
           /\ phase[q] \in {"pending", "delivered"}
           /\ phase' = [phase EXCEPT ![q] = "failed"]
           /\ misses' = misses
  BY DEF Promise!Receive, Promise!Miss, Promise!Deliver, Promise!Answer,
         Promise!Fail, phase, misses, Phase
<1> QED
  BY <1>1, <1>2 DEF PhaseNext, Promise!Next, Idle

\* A step between the same two phases.
LEMMA PhaseKept ==
  ASSUME TypeOK, NEW r \in Threads, req' \in [Threads -> Request], Same(r),
         req'[r].pc \notin Idle \cup {"wait"}, req[r].pc \notin Idle \cup {"wait"},
         req'[r].misses = req[r].misses
  PROVE  PhaseNext
<1>1. Phase(req'[r]) = Phase(req[r])
  BY DEF Phase
<1>2. Becomes(r, req'[r])
  BY DEF Becomes
<1> QED
  BY <1>1, <1>2, PhaseMoves

LEMMA RequestPhases ==
  ASSUME TInv, NEW r \in Threads, Arrive(r) \/ RequestStep(r)
  PROVE  PhaseNext
<1>0. TypeOK /\ req[r] \in Request
  BY DEF TInv, TypeOK
<1>1. CASE Arrive(r)
  <2>1. PICK call \in Call, relay \in Relay : Becomes(r, Begun(relay, call))
    BY <1>0, <1>1, ArriveEffect
  <2>2. Phase(Begun(relay, call)) = "pending" /\ Begun(relay, call).misses = 0
    BY DEF Phase, Begun, Idle
  <2>3. Phase(req[r]) \in Idle
    BY <1>1 DEF Arrive, Busy, Phase, Idle
  <2> QED
    BY <1>0, <2>1, <2>2, <2>3, PhaseMoves
<1>2. CASE Lookup(r)
  <2>1. Becomes(r, [req[r] EXCEPT !.pc = "choose", !.ok = cache[Tool(r)].ok])
    BY <1>0, <1>2, LookupEffect
  <2>2. req'[r].pc \notin Idle \cup {"wait"} /\ req'[r].misses = req[r].misses
    BY <1>0, <2>1 DEF Becomes, Idle, Request
  <2> QED
    BY <1>0, <1>2, <2>1, <2>2, PhaseKept DEF Becomes, Lookup, Idle
<1>3. CASE Expired(r)
  <2>1. Becomes(r, [req[r] EXCEPT !.pc = "probe", !.since = 0])
    BY <1>0, <1>3, ExpiredEffect
  <2>2. req'[r].pc \notin Idle \cup {"wait"} /\ req'[r].misses = req[r].misses
    BY <1>0, <2>1 DEF Becomes, Idle, Request
  <2> QED
    BY <1>0, <1>3, <2>1, <2>2, PhaseKept DEF Becomes, Expired, Idle
<1>4. CASE Probe(r)
  <2>1. Becomes(r, [req[r] EXCEPT !.pc = "store", !.ok = Tool(r) \in alive])
    BY <1>0, <1>4, ProbeEffect
  <2>2. req'[r].pc \notin Idle \cup {"wait"} /\ req'[r].misses = req[r].misses
    BY <1>0, <2>1 DEF Becomes, Idle, Request
  <2> QED
    BY <1>0, <1>4, <2>1, <2>2, PhaseKept DEF Becomes, Probe, Idle
<1>5. CASE Store(r)
  <2>1. Becomes(r, [req[r] EXCEPT !.pc = "choose"])
    BY <1>0, <1>5, GoesEffect DEF Store, PC
  <2>2. req'[r].pc \notin Idle \cup {"wait"} /\ req'[r].misses = req[r].misses
    BY <1>0, <2>1 DEF Becomes, Idle, Request
  <2> QED
    BY <1>0, <1>5, <2>1, <2>2, PhaseKept DEF Becomes, Store, Idle
<1>6. CASE Choose(r)
  <2>1. Becomes(r, [req[r] EXCEPT !.pc = "emit", !.target = Way(r),
                            !.body = Way(r).protocol, !.mode = WayMode(r)])
    BY <1>0, <1>6, ChooseEffect
  <2>2. req'[r].pc \notin Idle \cup {"wait"} /\ req'[r].misses = req[r].misses
    BY <1>0, <2>1 DEF Becomes, Idle, Request
  <2> QED
    BY <1>0, <1>6, <2>1, <2>2, PhaseKept DEF Becomes, Choose, Idle
<1>7. CASE Emit(r) \/ AppendEvent(r)
  <2>1. PICK pc \in {"announce", "failed", "send"} :
          Becomes(r, [req[r] EXCEPT !.pc = pc])
    BY <1>0, <1>7, GoesEffect DEF Emit, AppendEvent, Resolved, PC, Idle
  <2>2. Phase(req[r]) = "pending"
    BY <1>7 DEF Emit, AppendEvent, Phase, Idle
  <2>3. Phase([req[r] EXCEPT !.pc = pc]) \in {"pending", "failed"}
    BY <1>0 DEF Phase, Request, Idle
  <2>4. [req[r] EXCEPT !.pc = pc].misses = req[r].misses
    BY <1>0 DEF Request
  <2> QED
    BY <1>0, <2>1, <2>2, <2>3, <2>4, PhaseMoves
<1>8. CASE Announce(r)
  <2>1. Becomes(r, [req[r] EXCEPT !.pc = "append"])
    BY <1>0, <1>8, GoesEffect DEF Announce, PC
  <2>2. req'[r].pc \notin Idle \cup {"wait"} /\ req'[r].misses = req[r].misses
    BY <1>0, <2>1 DEF Becomes, Idle, Request
  <2> QED
    BY <1>0, <1>8, <2>1, <2>2, PhaseKept DEF Becomes, Announce, Idle
<1>9. CASE Connect(r)
  <2> DEFINE x == [req[r] EXCEPT !.pc = "wait",
                     !.auth = Auth(req[r].relay, req[r].target, req[r].call)]
  <2>1. Becomes(r, x)
    BY <1>0, <1>9, ConnectEffect
  <2>2. Phase(req[r]) = "pending" /\ Phase(x) = "delivered"
    BY <1>0, <1>9 DEF Connect, Phase, Idle, Request
  <2>3. x.misses = req[r].misses
    BY <1>0 DEF Request
  <2> HIDE DEF x
  <2> QED
    BY <1>0, <2>1, <2>2, <2>3, PhaseMoves
<1>10. CASE Refused(r)
  <2> DEFINE pc == IF /\ req[r].misses = 0 /\ Tool(r) # NoTool
                      /\ req[r].target.local
                   THEN "retry" ELSE "failed"
             x == [req[r] EXCEPT !.misses = req[r].misses + 1, !.pc = pc]
  <2>1. Becomes(r, x)
    BY <1>0, <1>10, RefusedEffect
  <2>2. Phase(req[r]) = "pending"
    BY <1>10 DEF Refused, Phase, Idle
  <2>3. \/ Phase(x) = "failed"
        \/ Phase(x) = "pending" /\ req[r].misses = 0
    BY <1>0 DEF Phase, Idle, Request
  <2>4. x.misses = req[r].misses + 1 /\ req[r].misses < 2
    BY <1>0, <1>10 DEF Request, TInv, Control, Busy, Refused, Idle
  <2> HIDE DEF x, pc
  <2>5. CASE Phase(x) = "failed"
    BY <1>0, <2>1, <2>2, <2>4, <2>5, PhaseMoves
  <2>6. CASE Phase(x) = "pending" /\ req[r].misses = 0
    BY <1>0, <2>1, <2>2, <2>4, <2>6, PhaseMoves
  <2> QED
    BY <2>3, <2>5, <2>6
<1>11. CASE NoAddress(r)
  <2>1. Becomes(r, [req[r] EXCEPT !.pc = "failed"])
    BY <1>0, <1>11, GoesEffect DEF NoAddress, PC, Idle
  <2>2. Phase(req[r]) = "pending"
    BY <1>11 DEF NoAddress, Phase, Idle
  <2>3. Phase([req[r] EXCEPT !.pc = "failed"]) = "failed"
    BY <1>0 DEF Phase, Request, Idle
  <2>4. [req[r] EXCEPT !.pc = "failed"].misses = req[r].misses
    BY <1>0 DEF Request
  <2> QED
    BY <1>0, <2>1, <2>2, <2>3, <2>4, PhaseMoves
<1>12. CASE Retry(r)
  <2>1. Becomes(r, [req[r] EXCEPT !.pc = "choose", !.forced = TRUE])
    BY <1>0, <1>12, RetryEffect
  <2>2. req'[r].pc \notin Idle \cup {"wait"} /\ req'[r].misses = req[r].misses
    BY <1>0, <2>1 DEF Becomes, Idle, Request
  <2> QED
    BY <1>0, <1>12, <2>1, <2>2, PhaseKept DEF Becomes, Retry, Idle
<1>13. CASE Reply(r) \/ TimeOut(r)
  <2>1. PICK pc \in {"failed", "answered"} : Becomes(r, [req[r] EXCEPT !.pc = pc])
    BY <1>0, <1>13, GoesEffect DEF Reply, TimeOut, PC, Idle
  <2>2. Phase(req[r]) = "delivered"
    BY <1>13 DEF Reply, TimeOut, Phase, Idle
  <2>3. Phase([req[r] EXCEPT !.pc = pc]) \in {"answered", "failed"}
    BY <1>0 DEF Phase, Request, Idle
  <2>4. [req[r] EXCEPT !.pc = pc].misses = req[r].misses
    BY <1>0 DEF Request
  <2> QED
    <3> DEFINE x == [req[r] EXCEPT !.pc = pc]
    <3> HIDE DEF x
    <3>1. CASE Phase(x) = "answered"
      BY <1>0, <2>1, <2>2, <3>1, <2>4, PhaseMoves DEF x
    <3>2. CASE Phase(x) = "failed"
      BY <1>0, <2>1, <2>2, <3>2, <2>4, PhaseMoves DEF x
    <3> QED
      BY <2>3, <3>1, <3>2 DEF x
<1> QED
  BY <1>1, <1>2, <1>3, <1>4, <1>5, <1>6, <1>7, <1>8, <1>9, <1>10, <1>11,
     <1>12, <1>13 DEF RequestStep

LEMMA WorldPhases ==
  ASSUME TInv, World
  PROVE  PhaseNext
<1>1. CASE Tick
  <2>1. \A r \in Threads : Phase(req'[r]) = Phase(req[r])
                             /\ req'[r].misses = req[r].misses
    <3> SUFFICES ASSUME NEW r \in Threads
                 PROVE  /\ Phase(req'[r]) = Phase(req[r])
                        /\ req'[r].misses = req[r].misses
      OBVIOUS
    <3>1. TypeOK /\ req[r] \in Request
      BY DEF TInv, TypeOK
    <3>2. ASSUME NEW x \in Request, NEW since
          PROVE  /\ [x EXCEPT !.since = since].pc = x.pc
                 /\ [x EXCEPT !.since = since].misses = x.misses
      BY DEF Request
    <3>3. req'[r].pc = req[r].pc /\ req'[r].misses = req[r].misses
      <4>1. CASE req'[r] = req[r]
        BY <4>1
      <4>2. CASE req'[r] = [req[r] EXCEPT !.since = Older(req[r].since)]
        <5>1. req[r] \in Request
          BY <3>1
        <5> QED
          BY <3>2, <4>2, <5>1
      <4> QED
        BY <1>1, <3>1, <4>1, <4>2, TickEffect
    <3> QED
      BY <3>3 DEF Phase
  <2> QED
    BY <2>1 DEF PhaseNext, phase, misses
<1>2. CASE UNCHANGED req
  BY <1>2 DEF PhaseNext, phase, misses
<1> QED
  BY <1>1, <1>2 DEF World, Toggle, Switch

\* A request is put to an upstream at most once: RouteFallback implements
\* Delivery.  What was accepted is never sent again, whatever becomes of the
\* connection (ConnectError alone is retried, server.py:284-287).
THEOREM DeliveredAtMostOnce == Spec => AtMostOnce
<1>1. Init => Promise!Init
  BY DEF Init, Promise!Init, Idle
<1>2. TInv /\ [Next]_vars => PhaseNext
  <2>1. TInv /\ Next => PhaseNext
    BY RequestPhases, WorldPhases DEF Next
  <2>2. UNCHANGED vars => PhaseNext
    BY DEF vars, PhaseNext, phase, misses
  <2> QED
    BY <2>1, <2>2
<1>3. PhaseNext => [Promise!Next]_<<phase, misses>>
  BY DEF PhaseNext
<1>4. Spec => [][Promise!Next]_<<phase, misses>>
  BY <1>2, <1>3, AlwaysTyped, PTL DEF Spec
<1> QED
  BY <1>1, <1>4, PTL DEF Spec, AtMostOnce, Promise!Spec, phase, misses, Phase

-----------------------------------------------------------------------------
(* Where a request is sent, in what form and with which key *)

\* A step that leaves the address alone.
LEMMA AddressKept ==
  ASSUME TInv, NEW r \in Threads, Address(r), setting' = setting,
         req[r].pc \notin Idle,
         req'[r].relay = req[r].relay, req'[r].call = req[r].call,
         req'[r].target = req[r].target, req'[r].body = req[r].body,
         req'[r].auth = req[r].auth,
         req[r].pc = "wait" => req'[r].pc \in {"answered", "failed"},
         req'[r].pc \in {"emit", "announce", "append", "send", "wait"} =>
           req[r].pc \in {"emit", "announce", "append", "send"}
  PROVE  Address(r)'
BY DEF Address, Busy, Idle, Tool

LEMMA OthersAddress ==
  ASSUME NEW r \in Threads, Same(r), setting' = setting,
         \A q \in Threads : Address(q), Address(r)'
  PROVE  \A q \in Threads : Address(q)'
BY DEF Same, Address, Busy, Tool

\* The address a relay that is selected stands for.
LEMMA Place ==
  ASSUME TypeOK, NEW call \in Call, NEW relay \in Relay,
         relay = Selected(setting.relays, setting.off, call)
  PROVE  /\ Itself(relay).protocol = relay.protocol
         /\ relay.via # NoTool =>
              Itself(relay).place = relay.via /\ Itself(relay).local
         /\ relay.via = NoTool =>
              Itself(relay).place \in {"upstream", "nowhere"}
<1>1. relay.via # NoTool => relay.name # "default"
  BY SelectedName DEF TypeOK
<1> QED
  BY <1>1 DEF Itself

LEMMA RequestAddress ==
  ASSUME TInv, NEW r \in Threads, \A q \in Threads : Address(q),
         Arrive(r) \/ RequestStep(r)
  PROVE  \A q \in Threads : Address(q)'
<1>0. TypeOK /\ req[r] \in Request /\ Address(r)
  BY DEF TInv, TypeOK
<1>1. CASE Arrive(r)
  <2>1. PICK call \in Call, relay \in Relay :
          /\ relay = Selected(setting.relays, setting.off, call)
          /\ Becomes(r, Begun(relay, call))
    BY <1>0, <1>1, ArriveEffect
  <2>2. setting' = setting
    BY <1>1 DEF Arrive, worldVars
  <2>3. Address(r)'
    BY <1>0, <2>1, <2>2, Place DEF Becomes, Begun, Address, Busy, Tool
  <2> QED
    BY <2>1, <2>2, <2>3, OthersAddress DEF Becomes
<1>2. CASE Choose(r)
  <2>1. Becomes(r, [req[r] EXCEPT !.pc = "emit", !.target = Way(r),
                            !.body = Way(r).protocol, !.mode = WayMode(r)])
    BY <1>0, <1>2, ChooseEffect
  <2>2. setting' = setting /\ req[r].pc = "choose" /\ Tool(r) # NoTool
    BY <1>2, Constants DEF Choose, worldVars, TInv, Control
  <2>3. Way(r).place \in {Tool(r), App(req[r].relay)}
    BY <1>0, <2>2, Place DEF Way, Direct, Address, Tool, Request
  <2>4. /\ req'[r].relay = req[r].relay /\ req'[r].call = req[r].call
        /\ req'[r].auth = req[r].auth /\ req'[r].pc = "emit"
        /\ req'[r].target = Way(r) /\ req'[r].body = Way(r).protocol
    BY <1>0, <2>1 DEF Becomes, Request
  <2>5. Address(r)'
    BY <1>0, <2>2, <2>3, <2>4 DEF Address, Tool, Busy
  <2> QED
    BY <2>1, <2>2, <2>5, OthersAddress DEF Becomes
<1>3. CASE Connect(r)
  <2> DEFINE auth == Auth(req[r].relay, req[r].target, req[r].call)
  <2>1. Becomes(r, [req[r] EXCEPT !.pc = "wait", !.auth = auth])
    BY <1>0, <1>3, ConnectEffect
  <2>2. /\ setting' = setting /\ req[r].pc = "send"
        /\ req[r].target.place \in Places
    BY <1>0, <1>3 DEF Connect, worldVars, TypeOK
  <2>3. auth = "client" => Tool(r) = NoTool /\ req[r].target.place = "upstream"
    <3>1. auth = "client" => Tool(r) = NoTool
      BY DEF Auth, Tool
    <3>2. Tool(r) = NoTool => req[r].target.place \in {"upstream", "nowhere"}
      BY <1>0, <2>2, Place DEF Address, Busy, Idle, Tool, Request
    <3>3. "nowhere" \notin Places
      BY DEF Places, Tools, Apps
    <3> QED
      BY <2>2, <3>1, <3>2, <3>3
  <2>4. /\ req'[r].relay = req[r].relay /\ req'[r].call = req[r].call
        /\ req'[r].target = req[r].target /\ req'[r].body = req[r].body
        /\ req'[r].auth = auth /\ req'[r].pc = "wait"
    BY <1>0, <2>1 DEF Becomes, Request
  <2>5. Address(r)'
    BY <1>0, <2>2, <2>3, <2>4 DEF Address, Tool, Busy, Idle
  <2> QED
    BY <2>1, <2>2, <2>5, OthersAddress DEF Becomes
<1>4. CASE \/ Lookup(r) \/ Expired(r) \/ Probe(r) \/ Store(r) \/ Retry(r)
           \/ Emit(r) \/ Announce(r) \/ AppendEvent(r) \/ NoAddress(r)
           \/ Reply(r) \/ TimeOut(r) \/ Refused(r)
  <2>1. setting' = setting /\ req[r].pc \notin Idle
    BY <1>4 DEF worldVars, Idle, Lookup, Expired, Probe, Store, Retry, Emit,
       Announce, AppendEvent, NoAddress, Reply, TimeOut, Refused
  <2> DEFINE Kept ==
        /\ Same(r)
        /\ req'[r].relay = req[r].relay /\ req'[r].call = req[r].call
        /\ req'[r].target = req[r].target /\ req'[r].body = req[r].body
        /\ req'[r].auth = req[r].auth
        /\ req[r].pc = "wait" => req'[r].pc \in {"answered", "failed"}
        /\ req'[r].pc \in {"emit", "announce", "append", "send", "wait"} =>
             req[r].pc \in {"emit", "announce", "append", "send"}
  <2>2. CASE Lookup(r)
    <3>1. Becomes(r, [req[r] EXCEPT !.pc = "choose", !.ok = cache[Tool(r)].ok])
      BY <1>0, <2>2, LookupEffect
    <3>2. Kept
      BY <1>0, <2>2, <3>1 DEF Becomes, Request, Lookup
    <3> QED
      BY <2>1, <3>2, <1>0, AddressKept, OthersAddress
  <2>3. CASE Expired(r)
    <3>1. Becomes(r, [req[r] EXCEPT !.pc = "probe", !.since = 0])
      BY <1>0, <2>3, ExpiredEffect
    <3>2. Kept
      BY <1>0, <2>3, <3>1 DEF Becomes, Request, Expired
    <3> QED
      BY <2>1, <3>2, <1>0, AddressKept, OthersAddress
  <2>4. CASE Probe(r)
    <3>1. Becomes(r, [req[r] EXCEPT !.pc = "store", !.ok = Tool(r) \in alive])
      BY <1>0, <2>4, ProbeEffect
    <3>2. Kept
      BY <1>0, <2>4, <3>1 DEF Becomes, Request, Probe
    <3> QED
      BY <2>1, <3>2, <1>0, AddressKept, OthersAddress
  <2>5. CASE Retry(r)
    <3>1. Becomes(r, [req[r] EXCEPT !.pc = "choose", !.forced = TRUE])
      BY <1>0, <2>5, RetryEffect
    <3>2. Kept
      BY <1>0, <2>5, <3>1 DEF Becomes, Request, Retry
    <3> QED
      BY <2>1, <3>2, <1>0, AddressKept, OthersAddress
  <2>6. CASE Refused(r)
    <3> DEFINE pc == IF /\ req[r].misses = 0 /\ Tool(r) # NoTool
                        /\ req[r].target.local
                     THEN "retry" ELSE "failed"
    <3>1. Becomes(r, [req[r] EXCEPT !.misses = req[r].misses + 1, !.pc = pc])
      BY <1>0, <2>6, RefusedEffect
    <3>2. Kept
      BY <1>0, <2>6, <3>1 DEF Becomes, Request, Refused
    <3> QED
      BY <2>1, <3>2, <1>0, AddressKept, OthersAddress
  <2>7. CASE Store(r)
    <3>1. PICK pc \in {"choose"} : Becomes(r, [req[r] EXCEPT !.pc = pc])
      BY <1>0, <2>7, GoesEffect DEF Store, PC
    <3>2. Kept
      BY <1>0, <2>7, <3>1 DEF Becomes, Request, Store
    <3> QED
      BY <2>1, <3>2, <1>0, AddressKept, OthersAddress
  <2>8. CASE Announce(r)
    <3>1. PICK pc \in {"append"} : Becomes(r, [req[r] EXCEPT !.pc = pc])
      BY <1>0, <2>8, GoesEffect DEF Announce, PC
    <3>2. Kept
      BY <1>0, <2>8, <3>1 DEF Becomes, Request, Announce
    <3> QED
      BY <2>1, <3>2, <1>0, AddressKept, OthersAddress
  <2>9. CASE Emit(r) \/ AppendEvent(r)
    <3>1. PICK pc \in {"announce", "failed", "send"} : Becomes(r, [req[r] EXCEPT !.pc = pc])
      BY <1>0, <2>9, GoesEffect DEF Emit, AppendEvent, PC, Idle, Resolved
    <3>2. Kept
      BY <1>0, <2>9, <3>1 DEF Becomes, Request, Emit, AppendEvent
    <3> QED
      BY <2>1, <3>2, <1>0, AddressKept, OthersAddress
  <2>10. CASE Reply(r) \/ TimeOut(r) \/ NoAddress(r)
    <3>1. PICK pc \in {"failed", "answered"} : Becomes(r, [req[r] EXCEPT !.pc = pc])
      BY <1>0, <2>10, GoesEffect DEF Reply, TimeOut, NoAddress, PC, Idle
    <3>2. Kept
      BY <1>0, <2>10, <3>1 DEF Becomes, Request, Reply, TimeOut, NoAddress
    <3> QED
      BY <2>1, <3>2, <1>0, AddressKept, OthersAddress
  <2> QED
    BY <1>4, <2>2, <2>3, <2>4, <2>5, <2>6, <2>7, <2>8, <2>9, <2>10
<1> QED
  BY <1>1, <1>2, <1>3, <1>4 DEF RequestStep

LEMMA WorldAddress ==
  ASSUME TInv, NEW r \in Threads, Address(r), World
  PROVE  Address(r)'
<1>1. setting' = setting
  BY DEF World, Tick, Toggle, Switch
<1>2. CASE Tick
  <2>0. req[r] \in Request
    BY DEF TInv, TypeOK
  <2>a. \/ req'[r] = req[r]
        \/ req'[r] = [req[r] EXCEPT !.since = Older(req[r].since)]
    BY <1>2, TickEffect DEF TInv
  <2>1. /\ req'[r].relay = req[r].relay /\ req'[r].call = req[r].call
        /\ req'[r].target = req[r].target /\ req'[r].body = req[r].body
        /\ req'[r].auth = req[r].auth /\ req'[r].pc = req[r].pc
    BY <2>0, <2>a DEF Request
  <2> QED
    BY <1>1, <2>1 DEF Address, Busy, Tool
<1>3. CASE UNCHANGED req
  BY <1>1, <1>3 DEF Address, Busy, Tool
<1> QED
  BY <1>2, <1>3 DEF World, Toggle, Switch

LEMMA AlwaysAddressed ==
  Spec => [](\A r \in Threads : Address(r))
<1>1. Init => \A r \in Threads : Address(r)
  BY DEF Init, Address, Busy, Idle
<1>2. TInv /\ (\A r \in Threads : Address(r)) /\ [Next]_vars
        => (\A r \in Threads : Address(r))'
  <2>1. CASE Next
    BY <2>1, RequestAddress, WorldAddress DEF Next
  <2>2. CASE UNCHANGED vars
    BY <2>2 DEF vars, worldVars, Address, Busy, Tool
  <2> QED
    BY <2>1, <2>2
<1> QED
  BY <1>1, <1>2, AlwaysTyped, PTL DEF Spec

\* The client's key goes to no tool and no provider of a tool's archive, and
\* to a relay pinned to another key only when no relay of the protocol is
\* open: _select_relay tries the open ones before, server.py:70-78.
THEOREM KeyStays == Spec => []ClientKeyStays
<1>1. TInv /\ (\A r \in Threads : Address(r)) => ClientKeyStays
  <2> SUFFICES ASSUME TInv, \A r \in Threads : Address(r),
                      NEW r \in Threads, req[r].auth = "client"
               PROVE  /\ req[r].target.place = "upstream"
                      /\ Foreign(req[r].relay, req[r].call) =>
                           \A i \in Shown(setting.relays, setting.off) :
                             Speaks(setting.relays[i], req[r].call) =>
                               Pinned(setting.relays[i])
    BY DEF ClientKeyStays
  <2>1. /\ req[r].target.place = "upstream"
        /\ req[r].relay = Selected(setting.relays, setting.off, req[r].call)
    BY DEF Address
  <2>2. setting.relays \in Seq(Relay) /\ req[r].call \in Call
    BY RouteAssumption DEF TInv, TypeOK, Request
  <2> QED
    BY <2>1, <2>2, ForeignIsLast
<1> QED
  BY <1>1, AlwaysTyped, AlwaysAddressed, PTL

\* What is sent is in the protocol of the address it is sent to: the body is
\* serialized again for the provider of the retry.
THEOREM BodyFits == Spec => []BodyFitsTarget
<1>1. (\A r \in Threads : Address(r)) => BodyFitsTarget
  BY DEF Address, BodyFitsTarget
<1> QED
  BY <1>1, AlwaysAddressed, PTL

-----------------------------------------------------------------------------
(* How old the answers are *)

LEMMA Between ==
  \A a, b, c \in Nat : a <= b /\ b < c => a < c
OBVIOUS

LEMMA OlderGrows ==
  /\ \A m, n \in Clocks : m <= n => Older(m) <= Older(n)
  /\ \A n \in Clocks : Older(n) < TTL => n < TTL
BY Constants DEF Clocks, Older

\* A step of a thread that stores no answer and comes by none.
LEMMA RecentKept ==
  ASSUME TInv, Recent, NEW r \in Threads, Same(r),
         alive' = alive, ago' = ago,
         req'[r].pc # "store",
         \A t \in Tools : cache'[t] = cache[t] \/ cache'[t].age = TTL
  PROVE  Recent'
<1>1. \A t \in Tools : cache'[t].age < TTL => cache'[t] = cache[t]
  BY Constants
<1> QED
  BY <1>1 DEF Recent, Same, Tool

LEMMA RequestRecent ==
  ASSUME TInv, Recent, NEW r \in Threads, Arrive(r) \/ RequestStep(r)
  PROVE  Recent'
<1>0. TypeOK /\ req[r] \in Request
  BY DEF TInv, TypeOK
<1>1. alive' = alive /\ ago' = ago
  BY DEF RequestStep, worldVars, Arrive, Lookup, Expired, Probe, Store, Choose,
     Emit, Announce, AppendEvent, Connect, Refused, NoAddress, Retry, Reply,
     TimeOut
<1>2. CASE Probe(r)
  <2>1. Becomes(r, [req[r] EXCEPT !.pc = "store", !.ok = Tool(r) \in alive])
    BY <1>0, <1>2, ProbeEffect
  <2>2. /\ req'[r].relay = req[r].relay /\ req'[r].since = req[r].since
        /\ req'[r].ok = (Tool(r) \in alive)
    BY <1>0, <2>1 DEF Becomes, Request
  <2>3. Tool(r) \in Tools /\ req[r].since \in Nat
    BY <1>0, <1>2, Constants DEF TInv, Control, Probe, Request
  <2>4. Tool(r)' = Tool(r) /\ ago'[Tool(r)'][req'[r].ok] = 0
    BY <1>1, <2>2, <2>3 DEF Recent, Tool
  <2>5. ago'[Tool(r)'][req'[r].ok] <= req'[r].since
    BY <2>2, <2>3, <2>4
  <2> QED
    BY <1>1, <1>2, <2>1, <2>5 DEF Recent, Becomes, Same, Tool, Probe
<1>3. CASE Store(r)
  <2>1. Becomes(r, [req[r] EXCEPT !.pc = "choose"])
    BY <1>0, <1>3, GoesEffect DEF Store, PC
  <2>2. req'[r].pc # "store"
    BY <1>0, <2>1 DEF Becomes, Request
  <2>3. cache' = [cache EXCEPT ![Tool(r)] = [ok |-> req[r].ok,
                                             age |-> req[r].since]]
    BY <1>3 DEF Store
  <2>4. ago[Tool(r)][req[r].ok] <= req[r].since
    BY <1>3 DEF Store, Recent
  <2>5. \A t \in Tools : cache'[t].age < TTL => ago[t][cache'[t].ok] <= cache'[t].age
    BY <1>0, <2>3, <2>4 DEF TypeOK, Recent
  <2> QED
    BY <1>1, <2>1, <2>2, <2>5 DEF Recent, Becomes, Same, Tool
<1>4. CASE Arrive(r)
  <2>1. PICK call \in Call, relay \in Relay : Becomes(r, Begun(relay, call))
    BY <1>0, <1>4, ArriveEffect
  <2>2. req'[r].pc # "store"
    BY <2>1 DEF Becomes, Begun
  <2> QED
    BY <1>1, <1>4, <2>1, <2>2, RecentKept DEF Becomes, Arrive
<1>5. CASE Lookup(r)
  <2>1. Becomes(r, [req[r] EXCEPT !.pc = "choose", !.ok = cache[Tool(r)].ok])
    BY <1>0, <1>5, LookupEffect
  <2>2. req'[r].pc # "store"
    BY <1>0, <2>1 DEF Becomes, Request
  <2> QED
    BY <1>0, <1>1, <1>5, <2>1, <2>2, RecentKept DEF Becomes, Lookup
<1>6. CASE Expired(r)
  <2>1. Becomes(r, [req[r] EXCEPT !.pc = "probe", !.since = 0])
    BY <1>0, <1>6, ExpiredEffect
  <2>2. req'[r].pc # "store"
    BY <1>0, <2>1 DEF Becomes, Request
  <2> QED
    BY <1>0, <1>1, <1>6, <2>1, <2>2, RecentKept DEF Becomes, Expired
<1>7. CASE Choose(r)
  <2>1. Becomes(r, [req[r] EXCEPT !.pc = "emit", !.target = Way(r),
                            !.body = Way(r).protocol, !.mode = WayMode(r)])
    BY <1>0, <1>7, ChooseEffect
  <2>2. req'[r].pc # "store"
    BY <1>0, <2>1 DEF Becomes, Request
  <2> QED
    BY <1>0, <1>1, <1>7, <2>1, <2>2, RecentKept DEF Becomes, Choose
<1>8. CASE Connect(r)
  <2>1. Becomes(r, [req[r] EXCEPT !.pc = "wait",
                 !.auth = Auth(req[r].relay, req[r].target, req[r].call)])
    BY <1>0, <1>8, ConnectEffect
  <2>2. req'[r].pc # "store"
    BY <1>0, <2>1 DEF Becomes, Request
  <2> QED
    BY <1>0, <1>1, <1>8, <2>1, <2>2, RecentKept DEF Becomes, Connect
<1>9. CASE Refused(r)
  <2>1. Becomes(r, [req[r] EXCEPT !.misses = req[r].misses + 1,
                 !.pc = IF /\ req[r].misses = 0 /\ Tool(r) # NoTool
                           /\ req[r].target.local
                        THEN "retry" ELSE "failed"])
    BY <1>0, <1>9, RefusedEffect
  <2>2. req'[r].pc # "store"
    BY <1>0, <2>1 DEF Becomes, Request
  <2> QED
    BY <1>0, <1>1, <1>9, <2>1, <2>2, RecentKept DEF Becomes, Refused
<1>10. CASE Retry(r)
  <2>1. Becomes(r, [req[r] EXCEPT !.pc = "choose", !.forced = TRUE])
    BY <1>0, <1>10, RetryEffect
  <2>2. req'[r].pc # "store"
    BY <1>0, <2>1 DEF Becomes, Request
  <2> QED
    BY <1>0, <1>1, <1>10, <2>1, <2>2, RecentKept DEF Becomes, Retry, NoHit, TypeOK
<1>11. CASE \/ Emit(r) \/ Announce(r) \/ AppendEvent(r) \/ NoAddress(r)
            \/ Reply(r) \/ TimeOut(r)
  <2>1. PICK pc \in PC \ {"store"} : Becomes(r, [req[r] EXCEPT !.pc = pc])
    BY <1>0, <1>11, GoesEffect
    DEF Emit, Announce, AppendEvent, NoAddress, Reply, TimeOut, Resolved,
        PC, Idle
  <2>2. req'[r].pc # "store"
    BY <1>0, <2>1 DEF Becomes, Request
  <2> QED
    BY <1>1, <1>11, <2>1, <2>2, RecentKept
    DEF Becomes, Emit, Announce, AppendEvent, NoAddress, Reply, TimeOut
<1> QED
  BY <1>2, <1>3, <1>4, <1>5, <1>6, <1>7, <1>8, <1>9, <1>10, <1>11 DEF RequestStep

LEMMA WorldRecent ==
  ASSUME TInv, Recent, World
  PROVE  Recent'
<1>0. TypeOK
  BY DEF TInv
<1>t. \A t \in Tools, b \in BOOLEAN : ago[t][b] \in Clocks /\ ago[t][b] \in Nat
  <2>1. \A t \in Tools : ago[t] \in [BOOLEAN -> Clocks]
    BY <1>0 DEF TypeOK
  <2>2. \A t \in Tools, b \in BOOLEAN : ago[t][b] \in Clocks
    BY <2>1, Zenon
  <2> QED
    BY <2>2, Constants
<1>b. \A t \in Tools : (t \in alive) \in BOOLEAN /\ (t \in alive') \in BOOLEAN
  OBVIOUS
<1>o. \A t \in Tools, b \in BOOLEAN : Older(ago[t][b]) \in Nat
  BY <1>t, Constants
<1>c. \A t \in Tools : cache[t].age \in Clocks /\ cache[t].ok \in BOOLEAN
  BY <1>0 DEF TypeOK
<1>r. \A r \in Threads : req[r] \in Request
  BY <1>0 DEF TypeOK
<1>s. \A r \in Threads : req[r].pc = "store" => Tool(r) \in Tools
  BY DEF TInv, Control
<1>f. \A r \in Threads : req[r].since \in Clocks /\ req[r].since \in Nat
                         /\ req[r].ok \in BOOLEAN
  BY <1>r, Constants DEF Request
<1>1. CASE Tick
  <2>1. /\ alive' = alive
        /\ \A t \in Tools, b \in BOOLEAN :
             ago'[t][b] = IF b = (t \in alive) THEN 0 ELSE Older(ago[t][b])
    BY <1>1 DEF Tick
  <2>2. \A t \in Tools, b \in BOOLEAN : ago'[t][b] <= Older(ago[t][b])
    BY <1>o, <2>1
  <2>3. \A t \in Tools : cache'[t].age = Older(cache[t].age)
                         /\ cache'[t].ok = cache[t].ok
    BY <1>0, <1>1 DEF TypeOK, Tick
  <2>4. \A t \in Tools : cache'[t].age < TTL => ago'[t][cache'[t].ok] <= cache'[t].age
    <3> TAKE t \in Tools
    <3> HAVE cache'[t].age < TTL
    <3>1. ago[t][cache[t].ok] <= cache[t].age
      BY <1>c, <2>3, OlderGrows DEF Recent
    <3>2. Older(ago[t][cache[t].ok]) <= Older(cache[t].age)
      BY <1>c, <1>t, <3>1, OlderGrows
    <3>3. /\ Older(ago[t][cache[t].ok]) \in Nat /\ Older(cache[t].age) \in Nat
          /\ ago'[t][cache[t].ok] \in Nat
      BY <1>c, <1>t, <2>1, Constants
    <3>4. ago'[t][cache[t].ok] <= Older(ago[t][cache[t].ok])
      BY <1>c, <2>2
    <3> QED
      BY <2>3, <3>2, <3>3, <3>4
  <2>5. \A r \in Threads : req'[r].pc = "store" =>
          ago'[Tool(r)'][req'[r].ok] <= req'[r].since
    <3> TAKE r \in Threads
    <3> HAVE req'[r].pc = "store"
    <3>a. \/ req[r].pc = "store" /\ req'[r] = [req[r] EXCEPT !.since = Older(req[r].since)]
          \/ req'[r] = req[r] /\ req[r].pc # "store"
          \/ req[r].pc = "probe" /\ req'[r] = [req[r] EXCEPT !.since = Older(req[r].since)]
      BY <1>0, <1>1, TickEffect
    <3>1. req[r].pc = "store" /\ req'[r] = [req[r] EXCEPT !.since = Older(req[r].since)]
      BY <1>r, <3>a DEF Request
    <3>b. /\ req'[r].ok = req[r].ok /\ Tool(r)' = Tool(r)
          /\ req'[r].since = Older(req[r].since)
      BY <1>r, <3>1 DEF Request, Tool
    <3>c. Tool(r) \in Tools /\ ago[Tool(r)][req[r].ok] <= req[r].since
      BY <1>s, <3>1 DEF Recent
    <3>2. Older(ago[Tool(r)][req[r].ok]) <= Older(req[r].since)
      BY <1>f, <1>t, <3>c, OlderGrows
    <3>3. /\ Older(ago[Tool(r)][req[r].ok]) \in Nat /\ Older(req[r].since) \in Nat
          /\ ago'[Tool(r)][req[r].ok] \in Nat
      BY <1>f, <1>t, <2>1, <3>c, Constants
    <3>4. ago'[Tool(r)][req[r].ok] <= Older(ago[Tool(r)][req[r].ok])
      BY <1>f, <2>2, <3>c
    <3> QED
      BY <3>2, <3>3, <3>4, <3>b
  <2>6. \A t \in Tools : ago'[t][(t \in alive')] = 0
    BY <1>b, <2>1, Zenon
  <2> QED
    BY <2>4, <2>5, <2>6 DEF Recent
<1>2. ASSUME NEW p \in Places, Toggle(p)
      PROVE  Recent'
  <2>1. /\ req' = req /\ cache' = cache
        /\ \A t \in Tools, b \in BOOLEAN :
             ago'[t][b] = IF b = (t \in alive') THEN 0 ELSE ago[t][b]
    BY <1>2 DEF Toggle
  <2>2. \A t \in Tools, b \in BOOLEAN, n \in Nat :
          ago[t][b] <= n => ago'[t][b] <= n
    BY <1>t, <2>1
  <2>3. \A t \in Tools : ago'[t][(t \in alive')] = 0
    BY <1>b, <2>1, Zenon
  <2>4. \A t \in Tools : cache[t].age \in Nat
    BY <1>c, Constants
  <2>5. \A r \in Threads : req[r].pc = "store" =>
          ago'[Tool(r)][req[r].ok] <= req[r].since
    BY <1>s, <1>f, <2>2 DEF Recent
  <2>6. \A t \in Tools : cache[t].age < TTL => ago'[t][cache[t].ok] <= cache[t].age
    BY <1>c, <2>2, <2>4 DEF Recent
  <2> QED
    BY <2>1, <2>3, <2>5, <2>6 DEF Recent, Tool
<1>3. ASSUME NEW a \in Apps, Switch(a)
      PROVE  Recent'
  BY <1>3 DEF Switch, Recent, Tool
<1> QED
  BY <1>1, <1>2, <1>3 DEF World

LEMMA InitRecent ==
  ASSUME Init
  PROVE  Recent
<1>1. \A t \in Tools : ago[t][(t \in alive)] = 0 /\ cache[t].age = TTL
  BY DEF Init, NoHit
<1>2. \A r \in Threads : req[r].pc = "idle"
  BY DEF Init
<1> QED
  BY <1>1, <1>2, Constants DEF Recent

LEMMA AlwaysRecent == Spec => []Recent
<1>1. TInv /\ Recent /\ [Next]_vars => Recent'
  <2>1. TInv /\ Recent /\ Next => Recent'
    BY RequestRecent, WorldRecent DEF Next
  <2>2. Recent /\ UNCHANGED vars => Recent'
    BY DEF vars, worldVars, Recent, Tool
  <2> QED
    BY <2>1, <2>2
<1> QED
  BY <1>1, InitRecent, AlwaysTyped, PTL DEF Spec

\* An answer taken from the cache was true within the last TTL ticks: the
\* clock is read before the port is tried (PortCache.online), so that the
\* answer is never younger in the cache than it is.
THEOREM AnswersAreRecent == Spec => AnswerIsRecent
<1>1. TInv /\ Recent /\ [Next]_vars =>
        [\A r \in Threads : Lookup(r) => ago[Tool(r)][cache[Tool(r)].ok] < TTL]_vars
  <2> SUFFICES ASSUME TInv, Recent, NEW r \in Threads, Lookup(r)
               PROVE  ago[Tool(r)][cache[Tool(r)].ok] < TTL
    OBVIOUS
  <2>1. Tool(r) \in Tools /\ cache[Tool(r)].age < TTL
    BY DEF Lookup, TInv, Control
  <2>2. cache[Tool(r)].age \in Nat /\ cache[Tool(r)].ok \in BOOLEAN
    BY <2>1, Constants DEF TInv, TypeOK
  <2>3. ago[Tool(r)] \in [BOOLEAN -> Clocks]
    BY <2>1 DEF TInv, TypeOK
  <2>4. ago[Tool(r)][cache[Tool(r)].ok] \in Clocks
    BY <2>2, <2>3, Zenon
  <2>5. ago[Tool(r)][cache[Tool(r)].ok] \in Nat
    BY <2>4, Constants
  <2> QED
    BY <2>1, <2>2, <2>5, Constants DEF Recent
<1> QED
  BY <1>1, AlwaysTyped, AlwaysRecent, PTL DEF Spec, AnswerIsRecent

-----------------------------------------------------------------------------
(* What a request that fails has seen *)

\* What a request has seen stays, while others move.
LEMMA ExcusedOther ==
  ASSUME NEW q \in Threads, Excused(q), req'[q] = req[q],
         fault'[q] = fault[q],
         alive' = alive, ago' = ago, archive' = archive
  PROVE  Excused(q)'
<1>1. Tool(q)' = Tool(q) /\ (Busy(q)' <=> Busy(q))
  BY DEF Tool, Busy
<1>2. Ways(q) => Ways(q)'
  BY <1>1 DEF Ways, HasDirect
<1>3. Turned(q) => Turned(q)'
  BY <1>1 DEF Turned
<1>4. Fails(q) => Fails(q)'
  BY <1>1 DEF Fails
<1> QED
  BY <1>1, <1>2, <1>3, <1>4 DEF Excused

\* A step of a thread, of a request that is under way.
LEMMA ExcusedStep ==
  ASSUME NEW r \in Threads, \A q \in Threads : Excused(q), Busy(r), Same(r),
         req'[r].relay = req[r].relay,
         alive' = alive, ago' = ago, archive' = archive, fault' = fault,
         Busy(r)' => Turned(r)', Fails(r)'
  PROVE  \A q \in Threads : Excused(q)'
<1>1. Ways(r)'
  BY DEF Excused, Ways, Tool, HasDirect
<1>2. \A q \in Threads \ {r} : Excused(q)'
  BY ExcusedOther DEF Same
<1> QED
  BY <1>1, <1>2 DEF Excused

LEMMA Unchanged ==
  ASSUME NEW r \in Threads, RequestStep(r)
  PROVE  /\ alive' = alive /\ ago' = ago /\ archive' = archive
         /\ Busy(r) /\ (~ TimeOut(r) => fault' = fault)
BY DEF RequestStep, worldVars, Lookup, Expired, Probe, Store, Choose, Emit,
   Announce, AppendEvent, Connect, Refused, NoAddress, Retry, Reply, TimeOut,
   Busy, Idle

LEMMA RequestExcused ==
  ASSUME TInv, Recent, \A q \in Threads : Address(q) /\ Excused(q),
         NEW r \in Threads, RequestStep(r), ~ TimeOut(r)
  PROVE  \A q \in Threads : Excused(q)'
<1>0. TypeOK /\ req[r] \in Request
  BY DEF TInv, TypeOK
<1>u. /\ alive' = alive /\ ago' = ago /\ archive' = archive
      /\ fault' = fault /\ Busy(r)
  BY Unchanged
<1>w. Ways(r) /\ Turned(r) /\ Address(r)
  BY <1>u DEF Excused
<1>1. CASE Lookup(r)
  <2>1. Becomes(r, [req[r] EXCEPT !.pc = "choose", !.ok = cache[Tool(r)].ok])
    BY <1>0, <1>1, LookupEffect
  <2>2. /\ req'[r].relay = req[r].relay
        /\ req'[r].pc = "choose" /\ req'[r].ok = cache[Tool(r)].ok
        /\ req'[r].forced = req[r].forced
    BY <1>0, <2>1 DEF Becomes, Request
  <2>a. ~ cache[Tool(r)].ok => fault[r].down
    <3>1. Tool(r) \in Tools /\ cache[Tool(r)].age < TTL
      BY <1>1 DEF Lookup, TInv, Control
    <3>2. cache[Tool(r)].age \in Nat /\ cache[Tool(r)].ok \in BOOLEAN
      BY <1>0, <3>1, Constants DEF TypeOK
    <3>3. ago[Tool(r)] \in [BOOLEAN -> Clocks]
      BY <1>0, <3>1 DEF TypeOK
    <3>4. ago[Tool(r)][FALSE] \in Clocks
      BY <3>3, Zenon
    <3>5. ago[Tool(r)][FALSE] \in Nat
      BY <3>4, Constants
    <3>6. CASE ~ cache[Tool(r)].ok
      <4>1. cache[Tool(r)].ok = FALSE
        BY <3>2, <3>6
      <4>2. ago[Tool(r)][FALSE] <= cache[Tool(r)].age
        BY <3>1, <4>1 DEF Recent
      <4>a. TTL \in Nat
        BY Constants
      <4>3. ago[Tool(r)][FALSE] < TTL
        BY <3>1, <3>2, <3>5, <4>2, <4>a, Between, Zenon
      <4> QED
        BY <3>1, <4>3, <1>w, Constants DEF Ways
    <3> QED
      BY <3>6
  <2>3. Turned(r)'
    BY <1>u, <1>w, <2>2, <2>a DEF Turned, Tool
  <2>4. Fails(r)'
    BY <2>2 DEF Fails
  <2> QED
    BY <1>u, <2>1, <2>2, <2>3, <2>4, ExcusedStep DEF Becomes
<1>2. CASE Expired(r)
  <2>1. Becomes(r, [req[r] EXCEPT !.pc = "probe", !.since = 0])
    BY <1>0, <1>2, ExpiredEffect
  <2>2. /\ req'[r].relay = req[r].relay
        /\ req'[r].pc = "probe"
        /\ req'[r].forced = req[r].forced
    BY <1>0, <2>1 DEF Becomes, Request
  <2>3. Turned(r)'
    BY <1>u, <1>w, <2>2 DEF Turned, Tool
  <2>4. Fails(r)'
    BY <2>2 DEF Fails
  <2> QED
    BY <1>u, <2>1, <2>2, <2>3, <2>4, ExcusedStep DEF Becomes
<1>3. CASE Probe(r)
  <2>1. Becomes(r, [req[r] EXCEPT !.pc = "store", !.ok = Tool(r) \in alive])
    BY <1>0, <1>3, ProbeEffect
  <2>2. /\ req'[r].relay = req[r].relay
        /\ req'[r].pc = "store" /\ req'[r].ok = (Tool(r) \in alive)
        /\ req'[r].forced = req[r].forced
    BY <1>0, <2>1 DEF Becomes, Request
  <2>a. ~ (Tool(r) \in alive) => fault[r].down
    <3>1. Tool(r) \in Tools
      BY <1>3 DEF Probe, TInv, Control
    <3>2. ~ (Tool(r) \in alive) => (Tool(r) \in alive) = FALSE
      OBVIOUS
    <3>3. ~ (Tool(r) \in alive) => ago[Tool(r)][FALSE] = 0
      BY <3>1, <3>2 DEF Recent
    <3>4. 0 < TTL
      BY Constants
    <3> QED
      BY <3>1, <3>3, <3>4, <1>w, Constants DEF Ways
  <2>3. Turned(r)'
    BY <1>u, <1>w, <2>2, <2>a DEF Turned, Tool
  <2>4. Fails(r)'
    BY <2>2 DEF Fails
  <2> QED
    BY <1>u, <2>1, <2>2, <2>3, <2>4, ExcusedStep DEF Becomes
<1>4. CASE Store(r)
  <2>1. Becomes(r, [req[r] EXCEPT !.pc = "choose"])
    BY <1>0, <1>4, GoesEffect DEF Store, PC
  <2>2. /\ req'[r].relay = req[r].relay
        /\ req[r].pc = "store" /\ req'[r].pc = "choose"
        /\ req'[r].ok = req[r].ok /\ req'[r].forced = req[r].forced
    BY <1>0, <1>4, <2>1 DEF Becomes, Request, Store
  <2>3. Turned(r)'
    BY <1>u, <1>w, <2>2 DEF Turned, Tool
  <2>4. Fails(r)'
    BY <2>2 DEF Fails
  <2> QED
    BY <1>u, <2>1, <2>2, <2>3, <2>4, ExcusedStep DEF Becomes
<1>5. CASE Choose(r)
  <2>1. Becomes(r, [req[r] EXCEPT !.pc = "emit", !.target = Way(r),
                            !.body = Way(r).protocol, !.mode = WayMode(r)])
    BY <1>0, <1>5, ChooseEffect
  <2>2. /\ req'[r].relay = req[r].relay
        /\ req'[r].pc = "emit" /\ req'[r].target = Way(r)
        /\ req'[r].forced = req[r].forced
    BY <1>0, <2>1 DEF Becomes, Request
  <2>a. /\ req[r].pc = "choose" /\ Tool(r) \in Tools
        /\ App(req[r].relay) \in Apps
    BY <1>0, <1>5, TargetTypes DEF Choose, TInv, Control, Request
  <2>b. Itself(req[r].relay).place = Tool(r) /\ Itself(req[r].relay).local
    BY <1>0, <1>w, <2>a, Place, Constants DEF Address, Tool, Request, Idle
  <2>c. Direct(App(req[r].relay)).place # Tool(r)
    BY <2>a DEF Direct, Apps, Tools
  <2>3. Turned(r)'
    <3>1. CASE Way(r) = Itself(req[r].relay)
      <4>1. req[r].forced => fault[r].nodirect
        BY <1>w, <2>a, <2>b, <2>c, <3>1, Constants DEF Ways, Way
      <4> QED
        BY <1>u, <1>w, <2>2, <2>b, <3>1, <4>1 DEF Turned, Tool
    <3>2. CASE Way(r) # Itself(req[r].relay)
      <4>1. Way(r) = Direct(App(req[r].relay)) /\ fault[r].down
        BY <1>w, <2>a, <3>2 DEF Way, Turned
      <4> QED
        BY <1>u, <1>w, <2>2, <2>c, <4>1 DEF Turned, Tool
    <3> QED
      BY <3>1, <3>2
  <2>4. Fails(r)'
    BY <2>2 DEF Fails
  <2> QED
    BY <1>u, <2>1, <2>2, <2>3, <2>4, ExcusedStep DEF Becomes
<1>6. CASE Emit(r) \/ Announce(r) \/ AppendEvent(r)
  <2>1. PICK pc \in {"announce", "append", Resolved(r)} :
          Becomes(r, [req[r] EXCEPT !.pc = pc])
    BY <1>0, <1>6, GoesEffect DEF Emit, Announce, AppendEvent, Resolved, PC, Idle
  <2>2. /\ req'[r].relay = req[r].relay /\ req'[r].target = req[r].target
        /\ req'[r].pc = pc /\ req'[r].forced = req[r].forced
    BY <1>0, <2>1 DEF Becomes, Request, Resolved
  <2>a. Tool(r) # NoTool /\ req[r].pc \in {"emit", "announce", "append"}
    BY <1>6, Constants DEF Emit, Announce, AppendEvent, TInv, Control
  <2>3. Turned(r)'
    BY <1>u, <1>w, <2>1, <2>2, <2>a DEF Turned, Tool, Resolved
  <2>4. Fails(r)'
    BY <1>u, <1>w, <2>1, <2>2, <2>a DEF Turned, Tool, Resolved, Fails
  <2> QED
    BY <1>u, <2>1, <2>2, <2>3, <2>4, ExcusedStep DEF Becomes
<1>7. CASE Connect(r)
  <2>1. Becomes(r, [req[r] EXCEPT !.pc = "wait",
                 !.auth = Auth(req[r].relay, req[r].target, req[r].call)])
    BY <1>0, <1>7, ConnectEffect
  <2>2. /\ req'[r].relay = req[r].relay
        /\ req'[r].pc = "wait"
        /\ req'[r].forced = req[r].forced
    BY <1>0, <2>1 DEF Becomes, Request
  <2>3. Turned(r)'
    BY <1>u, <1>w, <2>2 DEF Turned, Tool
  <2>4. Fails(r)'
    BY <2>2 DEF Fails
  <2> QED
    BY <1>u, <2>1, <2>2, <2>3, <2>4, ExcusedStep DEF Becomes
<1>8. CASE Refused(r)
  <2> DEFINE pc == IF /\ req[r].misses = 0 /\ Tool(r) # NoTool
                      /\ req[r].target.local
                   THEN "retry" ELSE "failed"
  <2>1. Becomes(r, [req[r] EXCEPT !.misses = req[r].misses + 1, !.pc = pc])
    BY <1>0, <1>8, RefusedEffect
  <2>2. /\ req'[r].relay = req[r].relay /\ req'[r].pc = pc
        /\ req'[r].forced = req[r].forced
    BY <1>0, <2>1 DEF Becomes, Request
  <2>a. /\ req[r].pc = "send" /\ req[r].target.place \in Places \ alive
        /\ req[r].forced <=> req[r].misses = 1
        /\ req[r].misses <= 1 /\ req[r].misses \in 0..2
    BY <1>0, <1>8, <1>u DEF Refused, TInv, Control, Request
  <2>b. Tool(r) = NoTool => fault[r].nodirect
    <3>1. Tool(r) = NoTool =>
            OtherWay(req[r].relay) = req[r].target.place
      BY <1>w, <1>u DEF Address, OtherWay, Tool
    <3> QED
      BY <1>w, <2>a, <3>1 DEF Ways
  <2>c. ASSUME Tool(r) # NoTool, req[r].target.place # Tool(r)
        PROVE  fault[r].nodirect /\ fault[r].down
    <3>1. OtherWay(req[r].relay) = req[r].target.place
      BY <1>w, <2>a, <2>c DEF Address, OtherWay, Tool
    <3> QED
      BY <1>w, <2>a, <2>c, <3>1 DEF Ways, Turned
  <2>d. ASSUME Tool(r) # NoTool, req[r].target.place = Tool(r)
        PROVE  fault[r].down /\ req[r].target.local /\ req[r].misses = 0
    <3>1. Tool(r) \in Tools /\ (Tool(r) \in alive) = FALSE
      BY <1>0, <2>a, <2>d, TargetTypes DEF Tool, Request
    <3>2. ago[Tool(r)][FALSE] = 0
      BY <3>1 DEF Recent
    <3>3. 0 < TTL
      BY Constants
    <3>4. fault[r].down
      BY <1>w, <2>d, <3>2, <3>3 DEF Ways
    <3> QED
      BY <1>w, <2>a, <2>d, <3>4 DEF Turned
  <2>3. Turned(r)'
    BY <1>u, <1>w, <2>2, <2>c, <2>d DEF Turned, Tool
  <2>4. Fails(r)'
    BY <1>u, <2>2, <2>b, <2>c, <2>d DEF Fails, Tool
  <2> QED
    BY <1>u, <2>1, <2>2, <2>3, <2>4, ExcusedStep DEF Becomes
<1>9. CASE NoAddress(r)
  <2>1. Becomes(r, [req[r] EXCEPT !.pc = "failed"])
    BY <1>0, <1>9, GoesEffect DEF NoAddress, PC, Idle
  <2>2. /\ req'[r].relay = req[r].relay
        /\ req'[r].pc = "failed"
    BY <1>0, <2>1 DEF Becomes, Request
  <2>a. /\ req[r].pc = "send" /\ req[r].target.place = "nowhere"
        /\ "nowhere" \notin Places /\ App(req[r].relay) \in Apps
        /\ Tool(r) \in Tools \cup {NoTool} /\ alive \subseteq Places
    BY <1>0, <1>9, TargetTypes
    DEF NoAddress, Places, Tools, Apps, TypeOK, Request, Tool
  <2>b. Tool(r) = NoTool
    BY <1>w, <2>a DEF Address, Places
  <2>c. OtherWay(req[r].relay) = "nowhere"
    BY <1>w, <1>u, <2>a, <2>b DEF Address, OtherWay, Tool
  <2>3. Busy(r)' => Turned(r)'
    BY <2>2 DEF Busy, Idle
  <2>4. Fails(r)'
    BY <1>u, <1>w, <2>2, <2>a, <2>b, <2>c DEF Fails, Ways, Tool
  <2> QED
    BY <1>u, <2>1, <2>2, <2>3, <2>4, ExcusedStep DEF Becomes
<1>10. CASE Retry(r)
  <2>1. Becomes(r, [req[r] EXCEPT !.pc = "choose", !.forced = TRUE])
    BY <1>0, <1>10, RetryEffect
  <2>2. /\ req'[r].relay = req[r].relay
        /\ req'[r].pc = "choose"
    BY <1>0, <2>1 DEF Becomes, Request
  <2>3. Turned(r)'
    BY <1>u, <1>w, <1>10, <2>2 DEF Turned, Tool, Retry
  <2>4. Fails(r)'
    BY <2>2 DEF Fails
  <2> QED
    BY <1>u, <2>1, <2>2, <2>3, <2>4, ExcusedStep DEF Becomes
<1>11. CASE Reply(r)
  <2>1. PICK pc \in {"failed", "answered"} :
          Becomes(r, [req[r] EXCEPT !.pc = pc]) /\ (pc = "failed" => fault[r].cut)
    BY <1>0, <1>11, GoesEffect DEF Reply, PC, Idle
  <2>2. req'[r].relay = req[r].relay /\ req'[r].pc = pc
    BY <1>0, <2>1 DEF Becomes, Request
  <2>3. ~ Busy(r)'
    BY <2>1, <2>2 DEF Busy, Idle
  <2>4. Fails(r)'
    BY <1>u, <2>1, <2>2 DEF Fails
  <2> QED
    BY <1>u, <2>1, <2>2, <2>3, <2>4, ExcusedStep DEF Becomes
<1> QED
  BY <1>1, <1>2, <1>3, <1>4, <1>5, <1>6, <1>7, <1>8, <1>9, <1>10, <1>11 DEF RequestStep

LEMMA TimeOutExcused ==
  ASSUME TInv, \A q \in Threads : Excused(q), NEW r \in Threads, TimeOut(r)
  PROVE  \A q \in Threads : Excused(q)'
<1>0. TypeOK /\ req[r] \in Request
  BY DEF TInv, TypeOK
<1>1. Becomes(r, [req[r] EXCEPT !.pc = "failed"])
  BY <1>0, GoesEffect DEF TimeOut, PC, Idle
<1>2. req'[r].pc = "failed"
  BY <1>0, <1>1 DEF Becomes, Request
<1>3. /\ alive' = alive /\ ago' = ago /\ archive' = archive
      /\ fault'[r].cut
      /\ \A q \in Threads \ {r} : fault'[q] = fault[q]
  BY <1>0 DEF TimeOut, worldVars, TypeOK
<1>4. Excused(r)'
  BY <1>2, <1>3 DEF Excused, Fails, Busy, Idle
<1>5. \A q \in Threads \ {r} : Excused(q)'
  BY <1>1, <1>3, ExcusedOther DEF Becomes, Same
<1> QED
  BY <1>4, <1>5

LEMMA FaultFields ==
  ASSUME NEW f, NEW down, NEW nodirect, NEW cut,
         f = [down |-> down, nodirect |-> nodirect, cut |-> cut]
  PROVE  f.down = down /\ f.nodirect = nodirect /\ f.cut = cut
OBVIOUS

LEMMA ArriveExcused ==
  ASSUME TInv, \A q \in Threads : Excused(q), NEW r \in Threads, Arrive(r)
  PROVE  \A q \in Threads : Excused(q)'
<1>0. TypeOK
  BY DEF TInv
<1>1. PICK call \in Call, relay \in Relay :
        /\ Becomes(r, Begun(relay, call))
        /\ fault' = [fault EXCEPT ![r] = Fault(relay)]
  BY <1>0, ArriveEffect
<1>2. /\ req'[r].relay = relay /\ req'[r].forced = FALSE
      /\ req'[r].pc = (IF relay.via = NoTool THEN "send" ELSE "route")
  BY <1>1 DEF Becomes, Begun
<1>3. /\ alive' = alive /\ ago' = ago /\ archive' = archive
      /\ fault'[r] = Fault(relay)
      /\ \A q \in Threads \ {r} : fault'[q] = fault[q]
  BY <1>0, <1>1 DEF Arrive, worldVars, TypeOK
<1> DEFINE down == relay.via # NoTool /\ ago[relay.via][FALSE] < TTL
           nodirect == \/ OtherWay(relay) \notin alive
                       \/ relay.via # NoTool /\ ~ HasDirect(App(relay))
<1>f. fault'[r] = [down |-> down, nodirect |-> nodirect, cut |-> FALSE]
  BY <1>3 DEF Fault
<1> HIDE DEF down, nodirect
<1>a. fault'[r].down = down /\ fault'[r].nodirect = nodirect
  BY <1>f, FaultFields
<1>4. Ways(r)'
  BY <1>2, <1>3, <1>a DEF Ways, Tool, HasDirect, down, nodirect
<1>5. Turned(r)' /\ Fails(r)'
  BY <1>2 DEF Turned, Fails, Tool
<1>6. \A q \in Threads \ {r} : Excused(q)'
  BY <1>1, <1>3, ExcusedOther DEF Becomes, Same
<1> QED
  BY <1>4, <1>5, <1>6 DEF Excused

LEMMA WorldExcused ==
  ASSUME TInv, Recent, \A q \in Threads : Excused(q), World,
         NEW r \in Threads
  PROVE  Excused(r)'
<1>0. TypeOK /\ req[r] \in Request /\ fault[r] \in [down : BOOLEAN, nodirect : BOOLEAN, cut : BOOLEAN]
  BY DEF TInv, TypeOK
<1>1. /\ App(req[r].relay) \in Apps /\ Tool(r) \in Tools \cup {NoTool}
      /\ OtherWay(req[r].relay) = IF Tool(r) = NoTool THEN Itself(req[r].relay).place
                                  ELSE App(req[r].relay)
  BY <1>0, TargetTypes DEF Request, Tool, OtherWay
<1>2. CASE Tick
  <2>1. /\ req'[r].relay = req[r].relay /\ req'[r].pc = req[r].pc
        /\ req'[r].target = req[r].target /\ req'[r].ok = req[r].ok
        /\ req'[r].forced = req[r].forced
    <3>1. \/ req'[r] = req[r]
          \/ req'[r] = [req[r] EXCEPT !.since = Older(req[r].since)]
      BY <1>0, <1>2, TickEffect
    <3> QED
      BY <1>0, <3>1 DEF Request
  <2>2. /\ alive' = alive /\ archive' = archive /\ fault' = fault
    BY <1>2 DEF Tick
  <2>3. Tool(r) # NoTool /\ ago'[Tool(r)][FALSE] < TTL => ago[Tool(r)][FALSE] < TTL
    <3> SUFFICES ASSUME Tool(r) # NoTool, ago'[Tool(r)][FALSE] < TTL
                 PROVE  ago[Tool(r)][FALSE] < TTL
      OBVIOUS
    <3>1. Tool(r) \in Tools
      BY <1>1
    <3>2. ago'[Tool(r)][FALSE] = IF FALSE = (Tool(r) \in alive) THEN 0
                                 ELSE Older(ago[Tool(r)][FALSE])
      BY <1>2, <3>1 DEF Tick
    <3>3. CASE Tool(r) \in alive
      <4>1. ago'[Tool(r)][FALSE] = Older(ago[Tool(r)][FALSE])
        BY <3>2, <3>3
      <4>2. ago[Tool(r)] \in [BOOLEAN -> Clocks]
        BY <1>0, <3>1 DEF TypeOK
      <4>3. ago[Tool(r)][FALSE] \in Clocks
        BY <4>2, Zenon
      <4> QED
        BY <4>1, <4>3, OlderGrows
    <3>4. CASE ~ (Tool(r) \in alive)
      <4>1. (Tool(r) \in alive) = FALSE
        BY <3>4
      <4>2. ago[Tool(r)][FALSE] = 0
        BY <3>1, <4>1 DEF Recent
      <4>3. 0 < TTL
        BY Constants
      <4> QED
        BY <4>2, <4>3
    <3> QED
      BY <3>3, <3>4
  <2> QED
    BY <2>1, <2>2, <2>3 DEF Excused, Ways, Turned, Fails, Busy, Tool, HasDirect
<1>3. ASSUME NEW p \in Places, Toggle(p)
      PROVE  Excused(r)'
  <2>1. /\ req' = req /\ archive' = archive
        /\ alive' = IF p \in alive THEN alive \ {p} ELSE alive \cup {p}
    BY <1>3 DEF Toggle
  <2>2. fault'[r] = IF p \in alive /\ Busy(r)
          THEN [down     |-> fault[r].down \/ p = Tool(r),
                nodirect |-> fault[r].nodirect \/ p = OtherWay(req[r].relay),
                cut      |-> \/ fault[r].cut
                             \/ req[r].pc = "wait" /\ req[r].target.place = p]
          ELSE fault[r]
    BY <1>3 DEF Toggle
  <2> DEFINE down == fault[r].down \/ p = Tool(r)
             nodirect == fault[r].nodirect \/ p = OtherWay(req[r].relay)
             cut == \/ fault[r].cut
                    \/ req[r].pc = "wait" /\ req[r].target.place = p
  <2>f. p \in alive /\ Busy(r) =>
          fault'[r] = [down |-> down, nodirect |-> nodirect, cut |-> cut]
    BY <2>2
  <2> HIDE DEF down, nodirect, cut
  <2>a. p \in alive /\ Busy(r) =>
          /\ fault'[r].down = down
          /\ fault'[r].nodirect = nodirect
          /\ fault'[r].cut = cut
    BY <2>f, FaultFields
  <2>b. ~ (p \in alive /\ Busy(r)) => fault'[r] = fault[r]
    BY <2>2
  <2>3. /\ fault[r].down => fault'[r].down
        /\ fault[r].nodirect => fault'[r].nodirect
        /\ fault[r].cut => fault'[r].cut
    BY <2>a, <2>b DEF down, nodirect, cut
  <2>4. Busy(r) /\ Tool(r) # NoTool /\ ago'[Tool(r)][FALSE] < TTL => fault'[r].down
    <3> SUFFICES ASSUME Busy(r), Tool(r) # NoTool, ago'[Tool(r)][FALSE] < TTL
                 PROVE  fault'[r].down
      OBVIOUS
    <3>1. Tool(r) \in Tools /\ Ways(r)
      BY <1>1 DEF Excused
    <3>2. ago'[Tool(r)][FALSE] = IF FALSE = (Tool(r) \in alive') THEN 0
                                 ELSE ago[Tool(r)][FALSE]
      BY <1>3, <3>1 DEF Toggle
    <3>3. CASE Tool(r) \in alive'
      BY <2>3, <3>1, <3>2, <3>3 DEF Ways
    <3>4. CASE Tool(r) \notin alive' /\ Tool(r) \in alive
      BY <2>1, <2>a, <3>4 DEF down
    <3>5. CASE Tool(r) \notin alive
      <4>1. (Tool(r) \in alive) = FALSE
        BY <3>5
      <4>2. ago[Tool(r)][FALSE] = 0
        BY <3>1, <4>1 DEF Recent
      <4>3. 0 < TTL
        BY Constants
      <4> QED
        BY <2>3, <3>1, <4>2, <4>3 DEF Ways
    <3> QED
      BY <3>3, <3>4, <3>5
  <2>5. Busy(r) /\ OtherWay(req[r].relay) \notin alive' => fault'[r].nodirect
    BY <2>1, <2>3, <2>a DEF Excused, Ways, nodirect
  <2>6. Busy(r) => Ways(r)'
    BY <2>1, <2>3, <2>4, <2>5 DEF Excused, Ways, Tool, HasDirect
  <2>7. Busy(r) => Turned(r)'
    BY <2>1, <2>3 DEF Excused, Turned, Tool
  <2>8. Fails(r)'
    BY <2>1, <2>3 DEF Excused, Fails, Tool
  <2> QED
    BY <2>1, <2>6, <2>7, <2>8 DEF Excused, Busy
<1>4. ASSUME NEW a \in Apps, Switch(a)
      PROVE  Excused(r)'
  <2>1. req' = req /\ alive' = alive /\ ago' = ago
    BY <1>4 DEF Switch
  <2>2. fault'[r] = IF Busy(r) /\ OtherWay(req[r].relay) = a /\ ~ HasDirect(a)'
                    THEN [fault[r] EXCEPT !.nodirect = TRUE] ELSE fault[r]
    BY <1>4 DEF Switch
  <2>3. /\ fault'[r].down = fault[r].down /\ fault'[r].cut = fault[r].cut
        /\ fault[r].nodirect => fault'[r].nodirect
    BY <1>0, <2>2
  <2>4. \A b \in Apps : b # a => HasDirect(b)' = HasDirect(b)
    BY <1>0, <1>4 DEF Switch, HasDirect, TypeOK
  <2>5. Busy(r) /\ Tool(r) # NoTool /\ ~ HasDirect(App(req[r].relay))' =>
          fault'[r].nodirect
    <3> SUFFICES ASSUME Busy(r), Tool(r) # NoTool,
                        ~ HasDirect(App(req[r].relay))'
                 PROVE  fault'[r].nodirect
      OBVIOUS
    <3>1. /\ App(req[r].relay)' = App(req[r].relay)
          /\ OtherWay(req[r].relay) = App(req[r].relay)
      BY <1>1, <2>1 DEF App
    <3>2. CASE App(req[r].relay) = a
      <4>1. fault'[r] = [fault[r] EXCEPT !.nodirect = TRUE]
        BY <2>1, <2>2, <3>1, <3>2 DEF HasDirect
      <4> QED
        BY <1>0, <4>1
    <3>3. CASE App(req[r].relay) # a
      <4>1. ~ HasDirect(App(req[r].relay))
        BY <1>1, <2>1, <2>4, <3>3 DEF HasDirect
      <4> QED
        BY <2>3, <4>1 DEF Excused, Ways
    <3> QED
      BY <3>2, <3>3
  <2>6. Busy(r) => Ways(r)'
    BY <2>1, <2>3, <2>5 DEF Excused, Ways, Tool
  <2> QED
    BY <2>1, <2>3, <2>6 DEF Excused, Turned, Fails, Busy, Tool
<1> QED
  BY <1>2, <1>3, <1>4 DEF World

LEMMA AlwaysExcused ==
  Spec => [](\A r \in Threads : Excused(r))
<1> DEFINE AInv == \A r \in Threads : Address(r)
           EInv == \A r \in Threads : Excused(r)
<1>1. Init => EInv
  BY DEF Init, Excused, Fails, Busy, Idle
<1>2. TInv /\ Recent /\ AInv /\ EInv /\ [Next]_vars => EInv'
  <2>1. ASSUME TInv, Recent, AInv, EInv, Next
        PROVE  EInv'
    BY <2>1, RequestExcused, TimeOutExcused, ArriveExcused, WorldExcused
    DEF Next, RequestStep
  <2>2. EInv /\ UNCHANGED vars => EInv'
    BY DEF vars, worldVars, Excused, Ways, Turned, Fails, Busy, Tool, HasDirect
  <2> QED
    BY <2>1, <2>2
<1> QED
  BY <1>1, <1>2, AlwaysTyped, AlwaysRecent, AlwaysAddressed, PTL DEF Spec

\* A request fails only when its connection broke or timed out, or both ways
\* to the provider were closed while it was under way: whatever the cache
\* says by other threads' doing, the second way is tried (server.py:284-291).
THEOREM FailsOnlyWithCause == Spec => []NoNeedlessFailure
<1>1. (\A r \in Threads : Excused(r)) => NoNeedlessFailure
  BY DEF Excused, Fails, NoNeedlessFailure
<1> QED
  BY <1>1, AlwaysExcused, PTL

-----------------------------------------------------------------------------
(* What the events tell *)

Quiet(q) == q.pc \notin {"announce", "append"}

\* A step in which no thread comes to an announcement, or goes on with one.
LEMMA ToldKept ==
  ASSUME Told, lastMode' = lastMode, events' = events, crossed' = crossed,
         \A q \in Threads :
           \/ Quiet(req[q]) /\ Quiet(req'[q])
           \/ /\ req'[q].pc = req[q].pc /\ req'[q].mode = req[q].mode
              /\ req'[q].relay = req[q].relay
  PROVE  Told'
<1> SUFFICES ASSUME NEW t \in Tools \ crossed
             PROVE  Tells(t)'
  BY DEF Told
<1>1. Tells(t)
  BY DEF Told
<1>2. \A q \in Threads :
        /\ Announcing(q, t)' = Announcing(q, t)
        /\ Announcing(q, t) => /\ req'[q].pc = req[q].pc
                               /\ req'[q].mode = req[q].mode
  BY DEF Quiet, Announcing, Tool
<1> QED
  BY <1>1, <1>2 DEF Tells

LEMMA QuietStep ==
  ASSUME Told, NEW r \in Threads, Same(r),
         lastMode' = lastMode, events' = events, crossed' = crossed,
         Quiet(req[r]), Quiet(req'[r])
  PROVE  Told'
BY ToldKept DEF Same

LEMMA QuietRequests ==
  ASSUME TInv, Told, NEW r \in Threads, Arrive(r) \/ RequestStep(r),
         ~ Emit(r), ~ Announce(r), ~ AppendEvent(r)
  PROVE  Told'
<1>0. TypeOK /\ req[r] \in Request
  BY DEF TInv, TypeOK
<1>1. /\ lastMode' = lastMode /\ events' = events /\ crossed' = crossed
      /\ Quiet(req[r])
  BY DEF RequestStep, modeVars, Arrive, Lookup, Expired, Probe, Store, Choose,
     Connect, Refused, NoAddress, Retry, Reply, TimeOut, Quiet, Busy, Idle
<1>2. CASE Arrive(r)
  <2>1. PICK call \in Call, relay \in Relay : Becomes(r, Begun(relay, call))
    BY <1>0, <1>2, ArriveEffect
  <2>2. Quiet(req'[r])
    BY <2>1 DEF Becomes, Begun, Quiet
  <2> QED
    BY <1>1, <2>1, <2>2, QuietStep DEF Becomes
<1>3. CASE Lookup(r)
  <2>1. Becomes(r, [req[r] EXCEPT !.pc = "choose", !.ok = cache[Tool(r)].ok])
    BY <1>0, <1>3, LookupEffect
  <2>2. Quiet(req'[r])
    BY <1>0, <2>1 DEF Becomes, Request, Quiet
  <2> QED
    BY <1>1, <2>1, <2>2, QuietStep DEF Becomes
<1>4. CASE Expired(r)
  <2>1. Becomes(r, [req[r] EXCEPT !.pc = "probe", !.since = 0])
    BY <1>0, <1>4, ExpiredEffect
  <2>2. Quiet(req'[r])
    BY <1>0, <2>1 DEF Becomes, Request, Quiet
  <2> QED
    BY <1>1, <2>1, <2>2, QuietStep DEF Becomes
<1>5. CASE Probe(r)
  <2>1. Becomes(r, [req[r] EXCEPT !.pc = "store", !.ok = Tool(r) \in alive])
    BY <1>0, <1>5, ProbeEffect
  <2>2. Quiet(req'[r])
    BY <1>0, <2>1 DEF Becomes, Request, Quiet
  <2> QED
    BY <1>1, <2>1, <2>2, QuietStep DEF Becomes
<1>6. CASE Choose(r)
  <2>1. Becomes(r, [req[r] EXCEPT !.pc = "emit", !.target = Way(r),
                            !.body = Way(r).protocol, !.mode = WayMode(r)])
    BY <1>0, <1>6, ChooseEffect
  <2>2. Quiet(req'[r])
    BY <1>0, <2>1 DEF Becomes, Request, Quiet
  <2> QED
    BY <1>1, <2>1, <2>2, QuietStep DEF Becomes
<1>7. CASE Connect(r)
  <2>1. Becomes(r, [req[r] EXCEPT !.pc = "wait",
                 !.auth = Auth(req[r].relay, req[r].target, req[r].call)])
    BY <1>0, <1>7, ConnectEffect
  <2>2. Quiet(req'[r])
    BY <1>0, <2>1 DEF Becomes, Request, Quiet
  <2> QED
    BY <1>1, <2>1, <2>2, QuietStep DEF Becomes
<1>8. CASE Refused(r)
  <2>1. Becomes(r, [req[r] EXCEPT !.misses = req[r].misses + 1,
                 !.pc = IF /\ req[r].misses = 0 /\ Tool(r) # NoTool
                           /\ req[r].target.local
                        THEN "retry" ELSE "failed"])
    BY <1>0, <1>8, RefusedEffect
  <2>2. Quiet(req'[r])
    BY <1>0, <2>1 DEF Becomes, Request, Quiet
  <2> QED
    BY <1>1, <2>1, <2>2, QuietStep DEF Becomes
<1>9. CASE Retry(r)
  <2>1. Becomes(r, [req[r] EXCEPT !.pc = "choose", !.forced = TRUE])
    BY <1>0, <1>9, RetryEffect
  <2>2. Quiet(req'[r])
    BY <1>0, <2>1 DEF Becomes, Request, Quiet
  <2> QED
    BY <1>1, <2>1, <2>2, QuietStep DEF Becomes
<1>10. CASE Store(r) \/ NoAddress(r) \/ Reply(r) \/ TimeOut(r)
  <2>1. PICK pc \in PC \ {"announce", "append"} :
          Becomes(r, [req[r] EXCEPT !.pc = pc])
    BY <1>0, <1>10, GoesEffect DEF Store, NoAddress, Reply, TimeOut, PC, Idle
  <2>2. Quiet(req'[r])
    BY <1>0, <2>1 DEF Becomes, Request, Quiet
  <2> QED
    BY <1>1, <2>1, <2>2, QuietStep DEF Becomes
<1> QED
  BY <1>2, <1>3, <1>4, <1>5, <1>6, <1>7, <1>8, <1>9, <1>10 DEF RequestStep

LEMMA EmitTold ==
  ASSUME TInv, Told, NEW r \in Threads, Emit(r)
  PROVE  Told'
<1>0. TypeOK /\ req[r] \in Request
  BY DEF TInv, TypeOK
<1>1. PICK pc \in {"announce", "failed", "send"} :
        /\ Becomes(r, [req[r] EXCEPT !.pc = pc])
        /\ pc = "announce" => lastMode[Tool(r)] # req[r].mode
  BY <1>0, GoesEffect DEF Emit, Resolved, PC, Idle
<1>2. /\ Same(r) /\ req'[r].pc = pc /\ req'[r].mode = req[r].mode
      /\ req'[r].relay = req[r].relay
  BY <1>0, <1>1 DEF Becomes, Request
<1>3. lastMode' = lastMode /\ events' = events /\ crossed \subseteq crossed'
  BY DEF Emit
<1> SUFFICES ASSUME NEW t \in Tools \ crossed'
             PROVE  Tells(t)'
  BY DEF Told
<1>4. Tells(t)
  BY <1>3 DEF Told
<1>5. \A q \in Threads \ {r} : Announcing(q, t)' = Announcing(q, t)
                               /\ req'[q] = req[q]
  BY <1>2 DEF Same, Announcing, Tool
<1>6. ~ Announcing(r, t)
  BY DEF Emit, Announcing
<1>7. Announcing(r, t)' => /\ Tool(r) = t /\ pc = "announce"
                           /\ \A q \in Threads \ {r} : ~ Announcing(q, t)
  BY <1>2 DEF Emit, Announcing, Tool
<1> QED
  BY <1>1, <1>2, <1>3, <1>4, <1>5, <1>6, <1>7 DEF Tells

LEMMA AnnounceTold ==
  ASSUME TInv, Told, NEW r \in Threads, Announce(r)
  PROVE  Told'
<1>0. TypeOK /\ req[r] \in Request
  BY DEF TInv, TypeOK
<1>1. Becomes(r, [req[r] EXCEPT !.pc = "append"])
  BY <1>0, GoesEffect DEF Announce, PC
<1>2. /\ Same(r) /\ req'[r].pc = "append" /\ req'[r].mode = req[r].mode
      /\ req'[r].relay = req[r].relay /\ req[r].pc = "announce"
  BY <1>0, <1>1 DEF Becomes, Request, Announce
<1>3. /\ lastMode' = [lastMode EXCEPT ![Tool(r)] = req[r].mode]
      /\ events' = events /\ crossed' = crossed
  BY DEF Announce
<1>4. \A t \in Tools : lastMode'[t] = IF t = Tool(r) THEN req[r].mode ELSE lastMode[t]
  BY <1>0, <1>3 DEF TypeOK
<1> SUFFICES ASSUME NEW t \in Tools \ crossed
             PROVE  Tells(t)'
  BY <1>3 DEF Told
<1>5. Tells(t)
  BY DEF Told
<1>6. \A q \in Threads : Announcing(q, t)' = Announcing(q, t)
  BY <1>2 DEF Same, Announcing, Tool
<1>7. \A q \in Threads \ {r} : req'[q] = req[q]
  BY <1>2 DEF Same
<1>8. CASE t = Tool(r)
  <2>1. Announcing(r, t) /\ \A q \in Threads : Announcing(q, t) => q = r
    BY <1>2, <1>5, <1>8 DEF Announcing, Tells
  <2>2. events[t] # <<>> => Last(events[t]) # req[r].mode
    BY <1>2, <1>5, <2>1 DEF Tells
  <2> QED
    BY <1>2, <1>3, <1>4, <1>5, <1>6, <1>8, <2>1, <2>2 DEF Tells
<1>9. CASE t # Tool(r)
  <2>1. ~ Announcing(r, t) /\ lastMode'[t] = lastMode[t]
    BY <1>4, <1>9 DEF Announcing
  <2> QED
    BY <1>3, <1>5, <1>6, <1>7, <2>1 DEF Tells
<1> QED
  BY <1>8, <1>9

LEMMA AppendTold ==
  ASSUME TInv, Told, NEW r \in Threads, AppendEvent(r)
  PROVE  Told'
<1>0. TypeOK /\ req[r] \in Request
  BY DEF TInv, TypeOK
<1>1. PICK pc \in {"failed", "send"} : Becomes(r, [req[r] EXCEPT !.pc = pc])
  BY <1>0, GoesEffect DEF AppendEvent, Resolved, PC, Idle
<1>2. /\ Same(r) /\ Quiet(req'[r]) /\ req[r].pc = "append"
  BY <1>0, <1>1 DEF Becomes, Request, AppendEvent, Quiet
<1>3. /\ events' = [events EXCEPT ![Tool(r)] = Append(@, req[r].mode)]
      /\ lastMode' = lastMode /\ crossed' = crossed
  BY DEF AppendEvent
<1>4. \A t \in Tools : events'[t] = IF t = Tool(r) THEN Append(events[t], req[r].mode)
                                                   ELSE events[t]
  BY <1>0, <1>3 DEF TypeOK
<1> SUFFICES ASSUME NEW t \in Tools \ crossed
             PROVE  Tells(t)'
  BY <1>3 DEF Told
<1>5. Tells(t)
  BY DEF Told
<1>6. \A q \in Threads \ {r} : /\ Announcing(q, t)' = Announcing(q, t)
                               /\ req'[q] = req[q]
  BY <1>2 DEF Same, Announcing, Tool
<1>7. ~ Announcing(r, t)'
  BY <1>2 DEF Announcing, Quiet
<1>8. CASE t = Tool(r)
  <2>1. Announcing(r, t) /\ \A q \in Threads : Announcing(q, t) => q = r
    BY <1>2, <1>5, <1>8 DEF Announcing, Tells
  <2>2. \A q \in Threads : ~ Announcing(q, t)'
    BY <1>6, <1>7, <2>1
  <2> DEFINE s == events[t]
             e == req[r].mode
  <2>3. e = lastMode[t] /\ (s # <<>> => Last(s) # e)
    BY <1>2, <1>5, <2>1 DEF Tells
  <2>4. s \in Seq(Mode) /\ e \in Mode /\ events'[t] = Append(s, e)
    BY <1>0, <1>2, <1>4, <1>8 DEF TypeOK, TInv, Control
  <2>5. \A i \in 1..Len(s) - 1 : s[i] # s[i + 1]
    BY <1>5 DEF Tells
  <2> HIDE DEF s, e
  <2>6. /\ Len(s) \in Nat /\ Len(Append(s, e)) = Len(s) + 1
        /\ \A i \in 1..Len(s) : Append(s, e)[i] = s[i]
        /\ Append(s, e)[Len(s) + 1] = e
    BY <2>4, AppendProperties, LenProperties
  <2>7. Len(s) > 0 => s # <<>>
    BY EmptySeq
  <2>8. \A i \in 1..Len(Append(s, e)) - 1 : Append(s, e)[i] # Append(s, e)[i + 1]
    <3> TAKE i \in 1..Len(Append(s, e)) - 1
    <3>1. i \in 1..Len(s)
      BY <2>6
    <3>2. CASE i = Len(s)
      BY <2>3, <2>6, <2>7, <3>1, <3>2 DEF Last
    <3>3. CASE i # Len(s)
      <4>1. i \in 1..Len(s) - 1 /\ i + 1 \in 1..Len(s)
        BY <2>6, <3>1, <3>3
      <4> QED
        BY <2>5, <2>6, <3>1, <4>1
    <3> QED
      BY <3>2, <3>3
  <2>9. Last(Append(s, e)) = e
    BY <2>6 DEF Last
  <2> QED
    BY <1>3, <2>2, <2>3, <2>4, <2>8, <2>9 DEF Tells
<1>9. CASE t # Tool(r)
  <2>1. ~ Announcing(r, t) /\ events'[t] = events[t]
    BY <1>4, <1>9 DEF Announcing
  <2> QED
    <3>1. \A q \in Threads :
            /\ Announcing(q, t)' <=> Announcing(q, t)
            /\ Announcing(q, t) => req'[q].pc = req[q].pc
                                  /\ req'[q].mode = req[q].mode
      BY <1>6, <1>7, <2>1
    <3> QED
      BY <1>3, <1>5, <2>1, <3>1 DEF Tells
<1> QED
  BY <1>8, <1>9

LEMMA WorldTold ==
  ASSUME TInv, Told, World
  PROVE  Told'
<1>1. lastMode' = lastMode /\ events' = events /\ crossed' = crossed
  BY DEF World, Tick, Toggle, Switch, modeVars
<1>2. \A q \in Threads : /\ req'[q].pc = req[q].pc /\ req'[q].mode = req[q].mode
                         /\ req'[q].relay = req[q].relay
  <2>1. CASE Tick
    <3>1. \A q \in Threads :
            \/ req'[q] = req[q]
            \/ req'[q] = [req[q] EXCEPT !.since = Older(req[q].since)]
      BY <2>1, TickEffect DEF TInv
    <3>2. \A q \in Threads : req[q] \in Request
      BY DEF TInv, TypeOK
    <3> QED
      BY <3>1, <3>2 DEF Request
  <2>2. CASE UNCHANGED req
    BY <2>2
  <2> QED
    BY <2>1, <2>2 DEF World, Toggle, Switch
<1> QED
  BY <1>1, <1>2, ToldKept

LEMMA AlwaysTold == Spec => []Told
<1>1. Init => Told
  <2> SUFFICES ASSUME Init, NEW t \in Tools
               PROVE  Tells(t)
    BY DEF Told
  <2>1. events[t] = <<>> /\ \A r \in Threads : req[r].pc = "idle"
    BY DEF Init
  <2> QED
    BY <2>1, EmptySeq DEF Tells, Announcing
<1>2. TInv /\ Told /\ [Next]_vars => Told'
  <2>1. ASSUME TInv, Told, Next
        PROVE  Told'
    BY <2>1, QuietRequests, EmitTold, AnnounceTold, AppendTold, WorldTold
    DEF Next
  <2>2. Told /\ UNCHANGED vars => Told'
    <3> SUFFICES ASSUME Told, UNCHANGED vars
                 PROVE  Told'
      OBVIOUS
    <3> QED
      BY ToldKept DEF vars, modeVars
  <2> QED
    BY <2>1, <2>2
<1> QED
  BY <1>1, <1>2, AlwaysTyped, PTL DEF Spec

\* The events tell every change of a tool's mode once, unless two threads
\* have announced a mode of the tool together (route_fallback.py:182-195).
THEOREM ChangesToldOnce == Spec => []EventsAlternate
<1>1. Told => EventsAlternate
  <2> SUFFICES ASSUME Told, NEW t \in Tools \ crossed
               PROVE  /\ \A i \in 1..Len(events[t]) - 1 :
                           events[t][i] # events[t][i + 1]
                      /\ events[t] # <<>>
                           /\ (\A r \in Threads : req[r].pc # "append") =>
                           events[t][Len(events[t])] = lastMode[t]
    BY DEF EventsAlternate
  <2>1. Tells(t)
    BY DEF Told
  <2> QED
    BY <2>1 DEF Tells, Last
<1> QED
  BY <1>1, AlwaysTold, PTL
=============================================================================
