------------------------------ MODULE MCNodeDB ------------------------------
(***************************************************************************)
(* A tree for TLC: a chain of four with a fork in its middle, a second     *)
(* genesis candidate, and a header whose predecessor never exists.         *)
(*                                                                         *)
(*      1 -- 2 -- 3 -- 4       6        7                                  *)
(*             \- 5                                                        *)
(***************************************************************************)
EXTENDS NodeDB

MCPrev   == << 0, 1, 2, 3, 2, 0, 0 >>
MCHeight == << 1, 2, 3, 4, 3, 1, 2 >>
MCPath   == << {1}, {1, 2}, {1, 2, 3}, {1, 2, 3, 4}, {1, 2, 5}, {6}, {7} >>
=============================================================================
