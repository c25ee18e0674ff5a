---------------------------- MODULE RouteFallback ----------------------------
(***************************************************************************)
(* The way of a request to its upstream: do_POST of server.py with         *)
(* route_fallback.py.  A relay that goes through a local tool (cc-switch,  *)
(* codex-plus) is asked at the tool's port while the port answers; when it *)
(* does not, the tool's own archive says where the current provider is.    *)
(*                                                                         *)
(* Request threads share the port cache, whose answers hold for TTL ticks  *)
(* of the clock, and the last announced mode of each tool.  Neither has a  *)
(* lock.  Tools, providers and archives change at any step.                *)
(***************************************************************************)
EXTENDS RelaySelection

CONSTANTS
  Threads,      \* of the server
  Settings,     \* configurations [relays, off], each with the places that
                \* come and go (moving), which bounds what is explored; no
                \* relay has the name of the one _select_relay makes up
  Calls,        \* the requests clients send
  Archives,     \* Archives[a]: what the archive of app a may hold
  TTL,          \* of the port cache
  MaxRequests,  \* bounds: requests in a behaviour,
  MaxChanges    \* and changes of the environment and ticks of the clock

Apps == {"claude", "codex", "codexpp"}

\* Where a request can be sent: a tool's port, the provider in an archive,
\* or the address of a relay that goes through no tool.
Places == Tools \cup Apps \cup {"upstream"}

\* An archive: found (it can be read and names a current provider), api (it
\* is no official login), base (it has an address), wire, key, local (the
\* address is on this machine).
Archive == [found : BOOLEAN, api : BOOLEAN, base : BOOLEAN, key : BOOLEAN,
            wire : {"chat", "chatcompletions", "responses", "none"},
            local : BOOLEAN]

ASSUME RouteAssumption ==
  /\ Settings \subseteq [relays : Seq(Relay), off : SUBSET Names,
                         moving : SUBSET Places]
  /\ \A s \in Settings : \A i \in DOMAIN s.relays :
       s.relays[i].name # "default"
  /\ Calls \subseteq Call
  /\ \A a \in Apps : Archives[a] \subseteq Archive
  /\ TTL \in Nat \ {0} /\ MaxRequests \in Nat /\ MaxChanges \in Nat

VARIABLES
  setting,    \* the configuration
  alive,      \* the places that accept connections
  archive,    \* archive[a]
  cache,      \* cache[t]: PortCache._state, or NoHit
  lastMode,   \* lastMode[t]: _last_mode
  events,     \* events[t]: modes of the relay_fallback events, in file order
  req,        \* req[r]: where r's request is
  fault,      \* history, fault[r]: what has gone wrong since it arrived
  ago,        \* history, ago[t][b]: ticks since t's port was in state b
  crossed,    \* history: tools whose mode two threads announced together
  requests, changes

worldVars == <<setting, alive, archive, ago>>
modeVars  == <<lastMode, events, crossed>>
bounds    == <<requests, changes>>
vars == <<worldVars, modeVars, bounds, cache, req, fault>>

NoHit    == [ok |-> FALSE, age |-> TTL]
NoMode   == "no mode"
NoCall   == CHOOSE call \in Call : TRUE
NoTarget == [place |-> "nowhere", protocol |-> "chat", key |-> FALSE,
             local |-> FALSE]

Clocks == 0..TTL
Older(n) == IF n = TTL THEN n ELSE n + 1
Harmless == [down |-> FALSE, nodirect |-> FALSE, cut |-> FALSE]

-----------------------------------------------------------------------------
(* Targets *)

App(relay) ==
  IF relay.via = "codex-plus" THEN "codexpp"
  ELSE IF relay.protocol = "anthropic" THEN "claude" ELSE "codex"

\* The relay as it stands.  The tools' ports are on this machine.
Itself(relay) ==
  [place |-> IF relay.name = "default" THEN "nowhere"
             ELSE IF relay.via = NoTool THEN "upstream" ELSE relay.via,
   protocol |-> relay.protocol, key |-> relay.key,
   local |-> relay.via # NoTool]

\* archive_direct: the archive names a provider that can be called directly.
HasDirect(a) ==
  /\ archive[a].found /\ archive[a].base
  /\ a = "codexpp" => archive[a].api

\* Faulty variant: the archive's own word for its wire is not translated.
DirectWire(a) == archive[a].wire

DirectProtocol(a) ==
  CASE a = "claude" -> "anthropic"
    [] a = "codex"   -> IF archive[a].wire \in {"chat", "chatcompletions"}
                        THEN "chat" ELSE "responses"
    [] a = "codexpp" -> IF archive[a].wire = "chatcompletions"
                        THEN "chat" ELSE "responses"

Direct(a) == [place |-> a, protocol |-> DirectProtocol(a),
              key |-> archive[a].key, local |-> archive[a].local]

\* Where a request of the relay is sent when it is not sent to a tool.
OtherWay(relay) ==
  IF relay.via = NoTool THEN Itself(relay).place ELSE App(relay)

Tool(r) == req[r].relay.via
Idle    == {"idle", "answered", "failed"}
Busy(r) == req[r].pc \notin Idle

\* r goes to pc.
Goes(r, pc) == req' = [req EXCEPT ![r].pc = pc]

Init ==
  /\ setting \in Settings
  /\ alive \in {Places, Places \ Tools}
  /\ archive \in {f \in [Apps -> UNION {Archives[a] : a \in Apps}] :
                    \A a \in Apps : f[a] \in Archives[a]}
  /\ cache = [t \in Tools |-> NoHit]
  /\ lastMode = [t \in Tools |-> NoMode]
  /\ events = [t \in Tools |-> <<>>]
  /\ req = [r \in Threads |->
              [pc |-> "idle", relay |-> Default(NoCall), call |-> NoCall,
               target |-> NoTarget, ok |-> FALSE, since |-> 0,
               forced |-> FALSE, mode |-> NoMode, misses |-> 0,
               body |-> "chat", auth |-> "none"]]
  /\ fault = [r \in Threads |-> Harmless]
  /\ ago = [t \in Tools |-> [b \in BOOLEAN |-> IF b = (t \in alive) THEN 0
                                                               ELSE TTL]]
  /\ crossed = {}
  /\ requests = 0
  /\ changes = 0

-----------------------------------------------------------------------------
(* The world *)

\* A place stops or starts to accept connections; the ones it has break.
Toggle(p) ==
  /\ p \in setting.moving
  /\ changes < MaxChanges
  /\ changes' = changes + 1
  /\ alive' = IF p \in alive THEN alive \ {p} ELSE alive \cup {p}
  /\ ago' = [t \in Tools |-> [b \in BOOLEAN |->
               IF b = (t \in alive') THEN 0 ELSE ago[t][b]]]
  /\ fault' = [r \in Threads |->
       IF p \in alive /\ Busy(r)
       THEN [down     |-> fault[r].down \/ p = Tool(r),
             nodirect |-> fault[r].nodirect \/ p = OtherWay(req[r].relay),
             cut      |-> \/ fault[r].cut
                          \/ req[r].pc = "wait" /\ req[r].target.place = p]
       ELSE fault[r]]
  /\ UNCHANGED <<setting, archive, modeVars, cache, req, requests>>

\* The user switches a tool's provider, or its archive becomes unreadable.
Switch(a) ==
  /\ changes < MaxChanges
  /\ changes' = changes + 1
  /\ \E new \in Archives[a] \ {archive[a]} :
       archive' = [archive EXCEPT ![a] = new]
  /\ fault' = [r \in Threads |->
       IF Busy(r) /\ OtherWay(req[r].relay) = a /\ ~ HasDirect(a)'
       THEN [fault[r] EXCEPT !.nodirect = TRUE] ELSE fault[r]]
  /\ UNCHANGED <<setting, alive, ago, modeVars, cache, req, requests>>

\* Time passes.
Tick ==
  /\ changes < MaxChanges
  /\ changes' = changes + 1
  /\ cache' = [t \in Tools |-> [cache[t] EXCEPT !.age = Older(@)]]
  /\ ago' = [t \in Tools |-> [b \in BOOLEAN |->
               IF b = (t \in alive) THEN 0 ELSE Older(ago[t][b])]]
  /\ req' = [r \in Threads |->
               IF req[r].pc \in {"probe", "store"}
               THEN [req[r] EXCEPT !.since = Older(@)] ELSE req[r]]
  /\ UNCHANGED <<setting, alive, archive, modeVars, fault, requests>>

-----------------------------------------------------------------------------
(* Faulty variants of actions below, one per property, that a mistake in   *)
(* server.py or route_fallback.py would give.  Nothing uses them.          *)

\* The answer is dated when it is stored.
StoreNow(r) ==
  /\ req[r].pc = "store"
  /\ cache' = [cache EXCEPT ![Tool(r)] = [ok |-> req[r].ok, age |-> 0]]
  /\ Goes(r, "choose")
  /\ UNCHANGED <<worldVars, modeVars, bounds, fault>>

\* The mode is not remembered.
AnnounceForgets(r) ==
  /\ req[r].pc = "announce"
  /\ Goes(r, "append")
  /\ UNCHANGED <<worldVars, modeVars, bounds, cache, fault>>

\* The client's headers follow the target, not the relay.
AuthByTarget(relay, target, call) ==
  IF target.key THEN "own"
  ELSE IF target.place \in Tools \/ PrintOf(call) = NoPrint THEN "none"
  ELSE "client"

\* The retry sends the body it has.
ChooseKeepsBody(r) ==
  LET a      == App(req[r].relay)
      online == req[r].ok /\ ~ req[r].forced
      target == IF ~ online /\ HasDirect(a) THEN Direct(a)
                                            ELSE Itself(req[r].relay)
  IN
  /\ req[r].pc = "choose"
  /\ req' = [req EXCEPT ![r] =
       [@ EXCEPT !.pc = "emit", !.target = target,
                 !.body = IF req[r].forced THEN req[r].body
                                           ELSE target.protocol,
                 !.mode = IF online THEN "two-layer"
                          ELSE IF HasDirect(a) THEN "direct"
                          ELSE "dead-no-direct"]]
  /\ UNCHANGED <<worldVars, modeVars, bounds, cache, fault>>

\* The retry asks the port again instead of taking it for dead.
RetryByCache(r) ==
  /\ req[r].pc = "retry"
  /\ req' = [req EXCEPT ![r] = [@ EXCEPT !.pc = "route"]]
  /\ cache' = [cache EXCEPT ![Tool(r)].age = TTL]
  /\ UNCHANGED <<worldVars, modeVars, bounds, fault>>

\* A broken connection is a failed one.
ReplyRetries(r) ==
  /\ req[r].pc = "wait"
  /\ Goes(r, IF ~ fault[r].cut THEN "answered"
             ELSE IF Tool(r) # NoTool /\ req[r].misses = 0 THEN "retry"
             ELSE "failed")
  /\ UNCHANGED <<worldVars, modeVars, bounds, cache, fault>>

-----------------------------------------------------------------------------
(* A request *)

\* do_POST up to _select_relay.
Arrive(r) ==
  /\ ~ Busy(r)
  /\ requests < MaxRequests
  /\ requests' = requests + 1
  /\ \E call \in Calls :
       LET relay == Selected(setting.relays, setting.off, call)
       IN  /\ req' = [req EXCEPT ![r] =
                [pc |-> IF relay.via = NoTool THEN "send" ELSE "route",
                 relay |-> relay, call |-> call, target |-> Itself(relay),
                 ok |-> FALSE, since |-> 0, forced |-> FALSE,
                 mode |-> NoMode, misses |-> 0, body |-> relay.protocol,
                 auth |-> "none"]]
           /\ fault' = [fault EXCEPT ![r] =
                [down |-> relay.via # NoTool /\ ago[relay.via][FALSE] < TTL,
                 nodirect |-> \/ OtherWay(relay) \notin alive
                              \/ relay.via # NoTool /\ ~ HasDirect(App(relay)),
                 cut |-> FALSE]]
  /\ UNCHANGED <<worldVars, modeVars, cache, changes>>

\* PortCache.online, with an answer that holds still,
Lookup(r) ==
  /\ req[r].pc = "route" /\ cache[Tool(r)].age < TTL
  /\ req' = [req EXCEPT ![r] = [@ EXCEPT !.pc = "choose",
                                         !.ok = cache[Tool(r)].ok]]
  /\ UNCHANGED <<worldVars, modeVars, bounds, cache, fault>>

\* or without one: "now" is read before the port is tried.
Expired(r) ==
  /\ req[r].pc = "route" /\ cache[Tool(r)].age = TTL
  /\ req' = [req EXCEPT ![r] = [@ EXCEPT !.pc = "probe", !.since = 0]]
  /\ UNCHANGED <<worldVars, modeVars, bounds, cache, fault>>

Probe(r) ==
  /\ req[r].pc = "probe"
  /\ req' = [req EXCEPT ![r] = [@ EXCEPT !.pc = "store",
                                         !.ok = Tool(r) \in alive]]
  /\ UNCHANGED <<worldVars, modeVars, bounds, cache, fault>>

Store(r) ==
  /\ req[r].pc = "store"
  /\ cache' = [cache EXCEPT ![Tool(r)] =
                 [ok |-> req[r].ok, age |-> req[r].since]]
  /\ Goes(r, "choose")
  /\ UNCHANGED <<worldVars, modeVars, bounds, fault>>

\* resolve_effective_relay: the relay itself while the tool is taken for
\* online, else what the archive says at this moment, else the relay again.
\* The body is serialized in the protocol of what came out.
Choose(r) ==
  LET a      == App(req[r].relay)
      online == req[r].ok /\ ~ req[r].forced
      target == IF ~ online /\ HasDirect(a) THEN Direct(a)
                                            ELSE Itself(req[r].relay)
  IN
  /\ req[r].pc = "choose"
  /\ req' = [req EXCEPT ![r] =
       [@ EXCEPT !.pc = "emit", !.target = target, !.body = target.protocol,
                 !.mode = IF online THEN "two-layer"
                          ELSE IF HasDirect(a) THEN "direct"
                          ELSE "dead-no-direct"]]
  /\ UNCHANGED <<worldVars, modeVars, bounds, cache, fault>>

\* After the resolution: of the retry, nothing else is left to try when the
\* relay itself came out again.
Resolved(r) ==
  IF req[r].forced /\ req[r].target.place = Tool(r) THEN "failed" ELSE "send"

\* _emit_mode: the comparison,
Emit(r) ==
  /\ req[r].pc = "emit"
  /\ Goes(r, IF lastMode[Tool(r)] = req[r].mode THEN Resolved(r)
                                                ELSE "announce")
  /\ crossed' = IF \E q \in Threads \ {r} :
                     req[q].pc \in {"announce", "append"} /\ Tool(q) = Tool(r)
                THEN crossed \cup {Tool(r)} ELSE crossed
  /\ UNCHANGED <<worldVars, lastMode, events, bounds, cache, fault>>

\* the assignment,
Announce(r) ==
  /\ req[r].pc = "announce"
  /\ lastMode' = [lastMode EXCEPT ![Tool(r)] = req[r].mode]
  /\ Goes(r, "append")
  /\ UNCHANGED <<worldVars, events, crossed, bounds, cache, fault>>

\* and the event.
AppendEvent(r) ==
  /\ req[r].pc = "append"
  /\ events' = [events EXCEPT ![Tool(r)] = Append(@, req[r].mode)]
  /\ Goes(r, Resolved(r))
  /\ UNCHANGED <<worldVars, lastMode, crossed, bounds, cache, fault>>

\* _passthrough_headers_for and _forward: the target's own key, else what
\* the client sent, but never on the way of a relay that goes by a tool.
Auth(relay, target, call) ==
  IF target.key THEN "own"
  ELSE IF relay.via # NoTool \/ PrintOf(call) = NoPrint THEN "none"
  ELSE "client"

\* _forward: connected,
Connect(r) ==
  /\ req[r].pc = "send" /\ req[r].target.place \in alive
  /\ req' = [req EXCEPT ![r] =
       [@ EXCEPT !.pc = "wait",
                 !.auth = Auth(req[r].relay, req[r].target, req[r].call)]]
  /\ UNCHANGED <<worldVars, modeVars, bounds, cache, fault>>

\* or not (ConnectError).  Only the first failure at an address of this
\* machine, of a relay that goes by a tool, is tried again.
Refused(r) ==
  /\ req[r].pc = "send" /\ req[r].target.place \in Places \ alive
  /\ req' = [req EXCEPT ![r] =
       [@ EXCEPT !.misses = req[r].misses + 1,
                 !.pc = IF /\ req[r].misses = 0 /\ Tool(r) # NoTool
                           /\ req[r].target.local
                        THEN "retry" ELSE "failed"]]
  /\ UNCHANGED <<worldVars, modeVars, bounds, cache, fault>>

\* The default relay has no address: no ConnectError, but a failure.
NoAddress(r) ==
  /\ req[r].pc = "send" /\ req[r].target.place = "nowhere"
  /\ Goes(r, "failed")
  /\ UNCHANGED <<worldVars, modeVars, bounds, cache, fault>>

\* The cached answer is discarded and the relay resolved as offline.
Retry(r) ==
  /\ req[r].pc = "retry"
  /\ cache' = [cache EXCEPT ![Tool(r)] = NoHit]
  /\ req' = [req EXCEPT ![r] = [@ EXCEPT !.pc = "choose", !.forced = TRUE]]
  /\ UNCHANGED <<worldVars, modeVars, bounds, fault>>

\* The answer, unless the connection broke.
Reply(r) ==
  /\ req[r].pc = "wait"
  /\ Goes(r, IF fault[r].cut THEN "failed" ELSE "answered")
  /\ UNCHANGED <<worldVars, modeVars, bounds, cache, fault>>

\* No answer within the client's timeout.
TimeOut(r) ==
  /\ req[r].pc = "wait"
  /\ Goes(r, "failed")
  /\ fault' = [fault EXCEPT ![r].cut = TRUE]
  /\ UNCHANGED <<worldVars, modeVars, bounds, cache>>

RequestStep(r) ==
  \/ Lookup(r) \/ Expired(r) \/ Probe(r) \/ Store(r) \/ Choose(r)
  \/ Emit(r) \/ Announce(r) \/ AppendEvent(r)
  \/ Connect(r) \/ Refused(r) \/ NoAddress(r) \/ Retry(r)
  \/ Reply(r) \/ TimeOut(r)

World == Tick \/ (\E p \in Places : Toggle(p)) \/ (\E a \in Apps : Switch(a))

Next == World \/ \E r \in Threads : Arrive(r) \/ RequestStep(r)

Spec == Init /\ [][Next]_vars

-----------------------------------------------------------------------------
(* Properties *)

Target == [place : Places \cup {"nowhere"}, protocol : Protocols,
           key : BOOLEAN, local : BOOLEAN]

Mode == {"two-layer", "direct", "dead-no-direct"}

PC == Idle \cup {"route", "probe", "store", "choose", "emit", "announce",
                 "append", "send", "retry", "wait"}

Request ==
  [pc : PC, relay : Relay, call : Call, target : Target, ok : BOOLEAN,
   since : Clocks, forced : BOOLEAN, mode : Mode \cup {NoMode},
   misses : 0..2, body : Protocols, auth : {"none", "own", "client"}]

TypeOK ==
  /\ setting \in Settings
  /\ alive \subseteq Places
  /\ archive \in [Apps -> Archive]
  /\ cache \in [Tools -> [ok : BOOLEAN, age : Clocks]]
  /\ lastMode \in [Tools -> Mode \cup {NoMode}]
  /\ events \in [Tools -> Seq(Mode)]
  /\ req \in [Threads -> Request]
  /\ fault \in [Threads -> [down : BOOLEAN, nodirect : BOOLEAN, cut : BOOLEAN]]
  /\ ago \in [Tools -> [BOOLEAN -> Clocks]]
  /\ crossed \subseteq Tools
  /\ requests \in 0..MaxRequests
  /\ changes \in 0..MaxChanges

\* "Never worse than no proxy" (server.py:318): a request fails only when
\* its connection broke or timed out, or when both ways were closed while it
\* was under way (the tool's up to the TTL before), however tools, archives
\* and other requests' answers in the cache change meanwhile.  A relay that
\* goes by no tool has the one way.
NoNeedlessFailure ==
  \A r \in Threads :
    req[r].pc = "failed" =>
      \/ fault[r].cut
      \/ fault[r].nodirect /\ (Tool(r) = NoTool \/ fault[r].down)

\* The client's key goes to no tool and to no provider of a tool's archive
\* (server.py:180), and to a relay pinned to another key only when every
\* relay of the protocol that is not suppressed is pinned (server.py:76-78).
ClientKeyStays ==
  \A r \in Threads :
    req[r].auth = "client" =>
      /\ req[r].target.place = "upstream"
      /\ Foreign(req[r].relay, req[r].call) =>
           \A i \in Shown(setting.relays, setting.off) :
             Speaks(setting.relays[i], req[r].call) =>
               Pinned(setting.relays[i])

\* What is sent is in the protocol of the address it is sent to, also when
\* the retry turns to a provider that speaks another one
\* (route_fallback.py:5-6).
BodyFitsTarget ==
  \A r \in Threads :
    req[r].pc = "wait" => req[r].body = req[r].target.protocol

\* An answer taken from the cache was true within the last TTL ticks, though
\* threads probe, are delayed, store and discard in any order
\* (route_fallback.py:53).
AnswerIsRecent ==
  [][\A r \in Threads : Lookup(r) => ago[Tool(r)][cache[Tool(r)].ok] < TTL]_vars

\* The events tell every change of the mode once (route_fallback.py:182),
\* unless two threads have announced a mode of the tool together.
EventsAlternate ==
  \A t \in Tools \ crossed :
    /\ \A i \in 1..Len(events[t]) - 1 : events[t][i] # events[t][i + 1]
    /\ events[t] # <<>> /\ (\A r \in Threads : req[r].pc # "append") =>
         events[t][Len(events[t])] = lastMode[t]

Promise == INSTANCE Delivery WITH
  phase <- [r \in Threads |->
              CASE req[r].pc \in Idle  -> req[r].pc
                [] req[r].pc = "wait"  -> "delivered"
                [] OTHER               -> "pending"],
  misses <- [r \in Threads |-> req[r].misses]

\* No request is put to upstreams twice (Delivery).
AtMostOnce == Promise!Spec
=============================================================================
