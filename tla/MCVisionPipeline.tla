-------------------------- MODULE MCVisionPipeline --------------------------
EXTENDS VisionPipeline, TLC

CONSTANTS r1, r2, k1, k2, k3

Image(place, key) == [place |-> place, key |-> key]

(***************************************************************************)
(* Two conversations: r1 shows an image and has two more in the golden     *)
(* window; r2 shows one of those, has the image of r1 in the golden window *)
(* and its own a second time in the deep history.                          *)
(***************************************************************************)
MCPlan ==
  r1 :> <<Image("current", k1), Image("golden", k2), Image("golden", k3)>>
  @@ r2 :> <<Image("current", k2), Image("golden", k1), Image("deep", k2)>>
=============================================================================
