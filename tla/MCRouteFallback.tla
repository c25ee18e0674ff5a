--------------------------- MODULE MCRouteFallback ---------------------------
(***************************************************************************)
(* Small instances.  Two client keys that have different fingerprints, one *)
(* model, and settings that put relays of all sorts before and after each  *)
(* other.                                                                  *)
(***************************************************************************)
EXTENDS RouteFallback, TLC

MCNames == {"default", "general", "other", "mine", "theirs", "codex-plus",
            "cc-codex"}

MCKeyPrint == [k \in Keys |-> k]

Made(name, protocol, serves, hints, via) ==
  [name |-> name, protocol |-> protocol, serves |-> serves, hints |-> hints,
   via |-> via, key |-> FALSE]

CONSTANTS m1, k1, k2

General == Made("general", "chat", {m1}, {}, NoTool)
Other   == Made("other", "chat", {}, {}, NoTool)
Mine    == Made("mine", "chat", {m1}, {k1}, NoTool)
Theirs  == Made("theirs", "chat", {m1}, {k2}, NoTool)
Plus    == Made("codex-plus", "responses", {m1}, {}, "codex-plus")
Switch1 == Made("cc-codex", "responses", {m1}, {}, "cc-switch")

Set(relays, off, moving) == [relays |-> relays, off |-> off, moving |-> moving]

MCSettings ==
  {Set(<<Theirs, General, Mine, Plus>>, off, {"codex-plus", "codexpp"}) :
     off \in {{}, {"general"}, {"mine"}}}
  \cup
  {Set(<<Theirs, Other, Switch1>>, off, {"cc-switch", "codex"}) :
     off \in {{}, {"theirs", "other"}}}

Ask(protocol, key) == [protocol |-> protocol, model |-> m1,
                       authorization |-> key, apikey |-> NoKey]

MCCalls == {Ask("chat", k1), Ask("chat", NoKey), Ask("responses", k1)}

Good == [found |-> TRUE, api |-> TRUE, base |-> TRUE, key |-> FALSE,
         wire |-> "chatcompletions", local |-> FALSE]
Near == [Good EXCEPT !.local = TRUE, !.wire = "responses", !.key = TRUE]
Official == [Good EXCEPT !.api = FALSE]

MCArchives == [a \in Apps |-> IF a = "codexpp" THEN {Good, Near, Official}
                                               ELSE {Good}]

\* No definition tells one thread from another.
ThreadSymmetry == Permutations(Threads)
=============================================================================
