-------------------------- MODULE MCProviderEntries --------------------------
(***************************************************************************)
(* Small instances: files whose entries share an envKey or an address or   *)
(* have neither, one entry more that may come, two providers and one tool. *)
(***************************************************************************)
EXTENDS ProviderEntries

CONSTANTS a, b, c, t1, t2, u1, u2, p1

One(id, tag, url, gate) == [id |-> id, tag |-> tag, url |-> url, gate |-> gate]

MCFiles ==
  [h \in Harnesses |->
     IF h = "qwen-code"
     THEN {[base |-> u1,
            file |-> <<One(a, t1, u1, "none"), One(b, t1, u2, "shut")>>],
           [base |-> NoUrl, file |-> <<One(a, t2, p1, "shut")>>]}
     ELSE {[base |-> NoUrl,
            file |-> <<One(a, t1, u1, "shut"), One(b, t2, u1, "open")>>]}]

MCNews ==
  [h \in Harnesses |->
     IF h = "qwen-code" THEN {One(c, NoEnv, u1, "shut")}
                        ELSE {One(c, t1, u2, "shut")}]
=============================================================================
