-------------------------- MODULE MCProcessorRoots --------------------------
(***************************************************************************)
(* Two branches from different genesis states, so that a reorganization    *)
(* goes all the way down, and comes back over states validated before:     *)
(* p1 < p2 = q1 < q2 < p3.                                                 *)
(***************************************************************************)
EXTENDS Processor, TLC

CONSTANTS p1, p2, p3, q1, q2, P, Q

MCBlocks == {p1, p2, p3, q1, q2}
MCPeers == {P, Q}
MCPrev == p1 :> NoBlock @@ p2 :> p1 @@ p3 :> p2 @@ q1 :> NoBlock @@ q2 :> q1
MCHeight == p1 :> 1 @@ p2 :> 2 @@ p3 :> 3 @@ q1 :> 1 @@ q2 :> 2
MCPath == p1 :> {p1} @@ p2 :> {p1, p2} @@ p3 :> {p1, p2, p3} @@ q1 :> {q1}
          @@ q2 :> {q1, q2}
MCDifficulty == p1 :> 1 @@ p2 :> 1 @@ p3 :> 3 @@ q1 :> 2 @@ q2 :> 2
MCWork == p1 :> 1 @@ p2 :> 2 @@ p3 :> 5 @@ q1 :> 2 @@ q2 :> 4
MCBodies == p1 :> {<<P, "ok">>} @@ p2 :> {<<P, "ok">>, <<Q, "ok">>, <<Q, "context">>}
            @@ p3 :> {<<P, "ok">>, <<P, "proof">>}
            @@ q1 :> {<<Q, "ok">>, <<P, "proof">>} @@ q2 :> {<<Q, "ok">>, <<Q, "garbled">>}
=============================================================================
