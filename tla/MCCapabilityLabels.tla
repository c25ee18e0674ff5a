-------------------------- MODULE MCCapabilityLabels --------------------------
(***************************************************************************)
(* Small instances.  A provider that serves two harnesses, a line of the   *)
(* matrix without a provider, and a harness that calls its provider        *)
(* directly: there the matrix takes the name from the domain, the service  *)
(* the name of the relay.                                                  *)
(***************************************************************************)
EXTENDS CapabilityLabels

Row(harness, provider, asked) ==
  [harness |-> harness, provider |-> provider, asked |-> asked]

MCRows == {Row("claude", "p1", "p1"), Row("codex", "p1", "p1"),
           Row("codex", "?", "cc-switch")}

DirectRows == {Row("qwen-code", "dashscope", "qwen-dashscope.aliyuncs.com")}

Empty ==
  [label |-> Nothing(Slots), source |-> Nothing(Slots),
   group |-> Nothing(Harnesses), global |-> Nothing(Keys),
   top |-> Nothing(Keys), probed |-> Nothing(Providers),
   confirmed |-> FALSE]

\* Of a first run, of two older versions, and with a label from a catalog.
MCFiles ==
  {Empty,
   [Empty EXCEPT !.top["pattern"] = "vision", !.group["codex"] = "vision"],
   [Empty EXCEPT !.label["claude", "p1"] = "image",
                 !.source["claude", "p1"] = "catalog", !.confirmed = TRUE]}

NewFile == {Empty}
=============================================================================
