---------------------------- MODULE RelaySelection ----------------------------
(***************************************************************************)
(* Which relay a request goes by: _select_relay (server.py) and the        *)
(* fingerprint of the client's key it is decided with (fingerprint.py).    *)
(*                                                                         *)
(* A relay's patterns are the set of models they match (serves); its       *)
(* auth_hints the set of fingerprints it is pinned to, empty for a relay   *)
(* that is pinned to none; suppressed_relays a set of names.               *)
(***************************************************************************)
EXTENDS Naturals, Sequences

CONSTANTS
  Names,      \* what a relay can be called
  Models,
  Keys,       \* what a client can put into an authentication header
  KeyPrint    \* KeyPrint[k]: key_fingerprint(k); keys may share one

NoKey   == "no key"
NoPrint == "no print"
NoTool  == "no tool"
Tools   == {"cc-switch", "codex-plus"}

Protocols == {"anthropic", "responses", "chat"}

ASSUME SelectionAssumption ==
  /\ Models # {} /\ "default" \in Names
  /\ NoKey \notin Keys
  /\ NoPrint \notin {KeyPrint[k] : k \in Keys}

Prints == {KeyPrint[k] : k \in Keys}

Relay == [name : Names, protocol : Protocols, serves : SUBSET Models,
          hints : SUBSET Prints, via : Tools \cup {NoTool}, key : BOOLEAN]

Call == [protocol : Protocols, model : Models,
         authorization : Keys \cup {NoKey}, apikey : Keys \cup {NoKey}]

Default(call) ==
  [name |-> "default", protocol |-> call.protocol, serves |-> {},
   hints |-> {}, via |-> NoTool, key |-> FALSE]

\* The Authorization header goes before x-api-key.
PrintOf(call) ==
  LET key == IF call.authorization # NoKey THEN call.authorization
                                           ELSE call.apikey
  IN  IF key = NoKey THEN NoPrint ELSE KeyPrint[key]

Pinned(relay) == relay.hints # {}

\* The key of the call belongs to somebody else than the relay is pinned to.
Foreign(relay, call) ==
  Pinned(relay) /\ PrintOf(call) # NoPrint /\ PrintOf(call) \notin relay.hints

-----------------------------------------------------------------------------
(* Faulty variants of definitions below.  Nothing uses them.               *)

\* The second layer takes any relay that serves the model.
NamedAnyKey(relay, call) ==
  relay.protocol = call.protocol /\ call.model \in relay.serves

-----------------------------------------------------------------------------
(* The four layers *)

Speaks(relay, call) == relay.protocol = call.protocol

Exact(relay, call) ==
  /\ Speaks(relay, call)
  /\ PrintOf(call) \in relay.hints
  /\ call.model \in relay.serves

Named(relay, call) ==
  /\ Speaks(relay, call)
  /\ call.model \in relay.serves
  /\ ~ Foreign(relay, call)

Open(relay, call) == Speaks(relay, call) /\ ~ Pinned(relay)

\* Positions of the relays that are not suppressed.
Shown(relays, off) == {i \in DOMAIN relays : relays[i].name \notin off}

\* The first layer that has a relay decides.
Candidates(relays, off, call) ==
  LET exact == {i \in Shown(relays, off) : Exact(relays[i], call)}
      named == {i \in Shown(relays, off) : Named(relays[i], call)}
      open  == {i \in Shown(relays, off) : Open(relays[i], call)}
  IN  IF exact # {} THEN exact
      ELSE IF named # {} THEN named
      ELSE IF open # {} THEN open
      ELSE {i \in Shown(relays, off) : Speaks(relays[i], call)}

\* And in it the relay that is listed first.
Selected(relays, off, call) ==
  LET among == Candidates(relays, off, call)
  IN  IF among = {} THEN Default(call)
      ELSE relays[CHOOSE i \in among : \A j \in among : i <= j]
=============================================================================
