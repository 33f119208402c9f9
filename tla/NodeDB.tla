------------------------------- MODULE NodeDB -------------------------------
(***************************************************************************)
(* The tree of block headers kept by the node database: the tables States, *)
(* Tips and TipsReachable and the cursor of src/node/db.cpp.               *)
(*                                                                         *)
(* Headers arrive in any order, bodies arrive in any order, and either may *)
(* be deleted again.  The database answers the question "which chain can   *)
(* be interpreted now?" only from its incrementally maintained flags,      *)
(* child counters and tip tables, so these must stay exact.                *)
(*                                                                         *)
(* A header names its predecessor by hash, so the shape of the tree is     *)
(* fixed: Prev and Height are constants, and what varies is which headers  *)
(* are stored, linked, functional (have a body), reachable and active.     *)
(***************************************************************************)
EXTENDS Naturals, FiniteSets

CONSTANTS
    Blocks,    \* all headers that may ever be received
    NoBlock,   \* a NULL row reference; the cursor before the first block
    Prev,      \* Prev[b]: the header b names as its predecessor, or NoBlock
    Height,    \* Height[b]: the height field of the header
    Path       \* Path[b]: b and everything below it, as far as Prev leads

HeightGenesis == 1

(***************************************************************************)
(* A predecessor is looked up by (height - 1, hash), so it can only be one *)
(* level below; a header of the genesis height has no predecessor.  A      *)
(* higher header without predecessor is one whose hashPrev matches nothing.*)
(***************************************************************************)
ASSUME TreeAssumption ==
    /\ NoBlock \notin Blocks
    /\ Height \in [Blocks -> Nat \ {0}]
    /\ Prev \in [Blocks -> Blocks \cup {NoBlock}]
    /\ \A b \in Blocks : Prev[b] # NoBlock => Height[b] = Height[Prev[b]] + 1

ASSUME PathAssumption ==
    /\ Path \in [Blocks -> SUBSET Blocks]
    /\ \A b \in Blocks :
          Path[b] = {b} \cup (IF Prev[b] = NoBlock THEN {} ELSE Path[Prev[b]])

VARIABLES
    rows,           \* the rows of States
    rowPrev,        \* column RowPrev
    functional,     \* rows with StateFlags::Functional
    reachable,      \* rows with StateFlags::Reachable
    active,         \* rows with StateFlags::Active
    countNext,      \* column CountNext
    countNextF,     \* column CountNextF
    tips,           \* table Tips
    tipsReachable,  \* table TipsReachable
    cursor          \* parameters CursorRow and CursorHeight

dbVars == << rows, rowPrev, functional, reachable, active, countNext,
             countNextF, tips, tipsReachable, cursor >>

If(cond, S) == IF cond THEN S ELSE {}

(***************************************************************************)
(* What the queries of the code select.                                    *)
(***************************************************************************)
FindPrev(s) == IF Prev[s] \in rows THEN Prev[s] ELSE NoBlock

NoAdoption(s) == {}
FindNext(s) == {c \in rows : Prev[c] = s}

CountForgotten(s) == 0
CountNextFunctional(s) == Cardinality(FindNext(s) \cap functional)

NextFunctional(b, F) == {c \in rows \cap F : rowPrev[c] = b}

(***************************************************************************)
(* The rows OnStateReachable visits when it starts from s and F are the    *)
(* functional rows: s, and every row joined to s by functional rows.       *)
(***************************************************************************)
OnlyTheStart(s, F) == {s}
FunctionalSubtree(s, F) ==
    {d \in rows : /\ s \in Path[d]
                  /\ \A x \in Path[d] \ {s} :
                        s \in Path[x] => /\ x \in rows \cap F
                                         /\ rowPrev[x] = Prev[x]}

Toggle(S, T) == (S \ T) \cup (T \ S)

Init ==
    /\ rows = {}
    /\ rowPrev = [b \in Blocks |-> NoBlock]
    /\ functional = {}
    /\ reachable = {}
    /\ active = {}
    /\ countNext = [b \in Blocks |-> 0]
    /\ countNextF = [b \in Blocks |-> 0]
    /\ tips = {}
    /\ tipsReachable = {}
    /\ cursor = NoBlock

InsertState(s) ==
    LET prev == FindPrev(s)
        next == FindNext(s)
    IN  /\ s \notin rows
        /\ rows' = rows \cup {s}
        /\ rowPrev' = [b \in Blocks |-> IF b = s THEN prev
                                        ELSE IF b \in next THEN s
                                        ELSE rowPrev[b]]
        /\ countNext' = [b \in Blocks |-> IF b = s THEN Cardinality(next)
                                          ELSE IF b = prev THEN countNext[b] + 1
                                          ELSE countNext[b]]
        /\ countNextF' = [countNextF EXCEPT ![s] = CountNextFunctional(s)]
        /\ tips' = (tips \ {b \in {prev} \cap Blocks : countNext[b] = 0})
                     \cup If(next = {}, {s})
        /\ UNCHANGED << functional, reachable, active, tipsReachable, cursor >>

(***************************************************************************)
(* The predecessor of the last deleted successor becomes a tip again.      *)
(***************************************************************************)
NoNewTip(prev) == {}
NullTip(prev) == {prev}
NewTip(prev) == {b \in {prev} \cap Blocks : countNext[b] = 1}

(***************************************************************************)
(* DeleteState refuses a row with successors, and throws for an active one.*)
(***************************************************************************)
DeleteState(s) ==
    LET prev == rowPrev[s]
        isF  == s \in functional
        isR  == s \in reachable
    IN  /\ s \in rows
        /\ countNext[s] = 0
        /\ s \notin active
        /\ rows' = rows \ {s}
        /\ rowPrev' = [rowPrev EXCEPT ![s] = NoBlock]
        /\ functional' = functional \ {s}
        /\ reachable' = reachable \ {s}
        /\ countNext' = [b \in Blocks |-> IF b = s THEN 0
                                          ELSE IF b = prev THEN countNext[b] - 1
                                          ELSE countNext[b]]
        /\ countNextF' = [b \in Blocks |-> IF b = s THEN 0
                                           ELSE IF b = prev /\ isF THEN countNextF[b] - 1
                                           ELSE countNextF[b]]
        /\ tips' = (tips \ {s}) \cup NewTip(prev)
        /\ tipsReachable' = (tipsReachable \ If(isR, {s}))
              \cup {b \in {prev} \cap Blocks : isF /\ isR /\ countNextF[b] = 1}
        /\ UNCHANGED << active, cursor >>

SetStateFunctional(s) ==
    LET prev == IF Height[s] > HeightGenesis THEN rowPrev[s] ELSE NoBlock
        isR  == Height[s] = HeightGenesis \/ prev \in reachable
        walk == FunctionalSubtree(s, functional)
    IN  /\ s \in rows \ functional
        /\ functional' = functional \cup {s}
        /\ countNextF' = [b \in Blocks |-> IF b = prev THEN countNextF[b] + 1
                                           ELSE countNextF[b]]
        /\ reachable' = IF isR THEN Toggle(reachable, walk \ {s}) \cup {s}
                               ELSE reachable
        /\ tipsReachable' =
              IF isR THEN (tipsReachable \ {b \in {prev} \cap Blocks : countNextF[b] = 0})
                            \cup {b \in walk : NextFunctional(b, functional) = {}}
                     ELSE tipsReachable
        /\ UNCHANGED << rows, rowPrev, active, countNext, tips, cursor >>

SetStateNotFunctional(s) ==
    LET prev == IF Height[s] > HeightGenesis THEN rowPrev[s] ELSE NoBlock
        isR  == s \in reachable
        walk == FunctionalSubtree(s, functional)
    IN  /\ s \in rows \cap functional
        /\ functional' = functional \ {s}
        /\ countNextF' = [b \in Blocks |-> IF b = prev THEN countNextF[b] - 1
                                           ELSE countNextF[b]]
        /\ reachable' = IF isR THEN Toggle(reachable, walk \ {s}) \ {s}
                               ELSE reachable
        /\ tipsReachable' =
              IF isR THEN (tipsReachable \ {b \in walk : NextFunctional(b, functional) = {}})
                            \cup {b \in {prev} \cap Blocks : countNextF[b] = 1}
                     ELSE tipsReachable
        /\ UNCHANGED << rows, rowPrev, active, countNext, tips, cursor >>

(***************************************************************************)
(* The cursor moves one row at a time, to a successor of the current row   *)
(* (TryGoTo walks a path upwards) or to its predecessor (RollbackTo).      *)
(***************************************************************************)
MoveFwd(s) ==
    /\ s \in rows
    /\ rowPrev[s] = cursor
    /\ cursor = NoBlock => Height[s] = HeightGenesis
    /\ active' = active \cup {s}
    /\ cursor' = s
    /\ UNCHANGED << rows, rowPrev, functional, reachable, countNext,
                    countNextF, tips, tipsReachable >>

StaysActive ==
    /\ cursor # NoBlock
    /\ cursor' = rowPrev[cursor]
    /\ UNCHANGED << rows, rowPrev, functional, reachable, active, countNext,
                    countNextF, tips, tipsReachable >>

MoveBack ==
    /\ cursor # NoBlock
    /\ active' = active \ {cursor}
    /\ cursor' = rowPrev[cursor]
    /\ UNCHANGED << rows, rowPrev, functional, reachable, countNext,
                    countNextF, tips, tipsReachable >>

Next ==
    \/ \E s \in Blocks : \/ InsertState(s)
                         \/ DeleteState(s)
                         \/ SetStateFunctional(s)
                         \/ SetStateNotFunctional(s)
                         \/ MoveFwd(s)
    \/ MoveBack

Spec == Init /\ [][Next]_dbVars

-----------------------------------------------------------------------------
TypeOK ==
    /\ rows \in SUBSET Blocks /\ IsFiniteSet(rows)
    /\ rowPrev \in [Blocks -> Blocks \cup {NoBlock}]
    /\ functional \in SUBSET rows
    /\ reachable \in SUBSET functional
    /\ active \in SUBSET rows
    /\ countNext \in [Blocks -> Nat]
    /\ countNextF \in [Blocks -> Nat]
    /\ tips \in SUBSET rows
    /\ tipsReachable \in SUBSET reachable
    /\ cursor \in rows \cup {NoBlock}

(***************************************************************************)
(* RowPrev always is what a fresh search by (height - 1, hashPrev) would   *)
(* find, whatever the order in which a header and its successors arrived   *)
(* and left: InsertState adopts the orphans waiting for it, DeleteState    *)
(* leaves no dangling reference.                                           *)
(***************************************************************************)
LinksExact ==
    \A b \in Blocks : rowPrev[b] = IF b \in rows THEN FindPrev(b) ELSE NoBlock

(***************************************************************************)
(* The counters CountNext and CountNextF, which every operation adjusts by *)
(* one, equal the number of stored (functional) successors: the queries    *)
(* Dbg3 and Dbg4 of NodeDB::assert_valid.                                  *)
(***************************************************************************)
CountsExact ==
    \A b \in rows :
        /\ countNext[b] = Cardinality({c \in rows : Prev[c] = b})
        /\ countNextF[b] = Cardinality({c \in functional : Prev[c] = b})

(***************************************************************************)
(* The table Tips, from which PruneOld and the sync logic work, holds the  *)
(* rows without successor and nothing else (Dbg1 of assert_valid), so that *)
(* no TipDel or TipAdd ever misses its row.                                *)
(***************************************************************************)
TipsExact ==
    tips = {b \in rows : \A c \in rows : Prev[c] # b}

(***************************************************************************)
(* The flag Reachable means what db.h says of it, "has only functional     *)
(* nodes up to the genesis state", for every order of header arrivals,     *)
(* body arrivals and deletions; and TipsReachable, the only table TryGoUp  *)
(* consults, holds exactly the ends of such chains.                        *)
(***************************************************************************)
ReachableExact ==
    /\ reachable = {b \in functional : /\ Path[b] \subseteq functional
                                       /\ \E g \in Path[b] : Height[g] = HeightGenesis}
    /\ tipsReachable = {b \in reachable : \A c \in functional : Prev[c] # b}

(***************************************************************************)
(* The active rows are the cursor and everything below it down to a        *)
(* genesis state: moves of the cursor keep the flag Active and the saved   *)
(* cursor consistent, and no deletion cuts the chain.                      *)
(***************************************************************************)
ActiveIsPath ==
    /\ active = IF cursor = NoBlock THEN {} ELSE Path[cursor]
    /\ cursor # NoBlock => \E g \in active : Height[g] = HeightGenesis
=============================================================================
