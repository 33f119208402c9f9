----------------------------- MODULE MCProcessor -----------------------------
(***************************************************************************)
(* Two branches over a common state p1 whose chainworks interleave:        *)
(* a2 = b2 < b3 < a3 < b4.  The longest reorganization undoes MaxRollback  *)
(* states, up to the fossil height.                                        *)
(*                                                                         *)
(*        p1 --- a2 --- a3                                                 *)
(*          \--- b2 --- b3 --- b4                                          *)
(***************************************************************************)
EXTENDS Processor, TLC

CONSTANTS p1, a2, a3, b2, b3, b4, P, Q

MCBlocks == {p1, a2, a3, b2, b3, b4}
MCPeers == {P, Q}
MCPrev == p1 :> NoBlock @@ a2 :> p1 @@ a3 :> a2 @@ b2 :> p1 @@ b3 :> b2 @@ b4 :> b3
MCHeight == p1 :> 1 @@ a2 :> 2 @@ a3 :> 3 @@ b2 :> 2 @@ b3 :> 3 @@ b4 :> 4
MCPath == p1 :> {p1} @@ a2 :> {p1, a2} @@ a3 :> {p1, a2, a3} @@ b2 :> {p1, b2}
          @@ b3 :> {p1, b2, b3} @@ b4 :> {p1, b2, b3, b4}
MCDifficulty == p1 :> 1 @@ a2 :> 1 @@ a3 :> 4 @@ b2 :> 1 @@ b3 :> 2 @@ b4 :> 3
MCWork == p1 :> 1 @@ a2 :> 2 @@ a3 :> 6 @@ b2 :> 2 @@ b3 :> 4 @@ b4 :> 7

(***************************************************************************)
(* The header b3 claims less work than its predecessor.                    *)
(***************************************************************************)
MCWorkLow == [MCWork EXCEPT ![b3] = 1]

(***************************************************************************)
(* Who delivers what: each branch mixes peers, good and bad bodies.        *)
(***************************************************************************)
MCBodies == p1 :> {<<P, "ok">>}
            @@ a2 :> {<<P, "ok">>, <<Q, "proof">>}
            @@ a3 :> {<<P, "ok">>, <<P, "context">>, <<Q, "ok">>}
            @@ b2 :> {<<P, "ok">>, <<Q, "ok">>}
            @@ b3 :> {<<Q, "ok">>, <<Q, "proof">>, <<Q, "garbled">>}
            @@ b4 :> {<<P, "ok">>, <<Q, "context">>}
=============================================================================
