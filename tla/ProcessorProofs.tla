--------------------------- MODULE ProcessorProofs ---------------------------
(***************************************************************************)
(* Chain selection implements the header tree of NodeDB, for every tree of *)
(* headers, every set of peers and every horizon; hence the theorems about *)
(* NodeDB hold of it.                                                      *)
(***************************************************************************)
EXTENDS Processor, TLAPS

DBP == INSTANCE NodeDBProofs

(***************************************************************************)
(* Every step of the processor is a step of the database or leaves it      *)
(* alone.                                                                  *)
(***************************************************************************)
LEMMA StepImplements ==
  ASSUME rows \subseteq Blocks, [Next]_vars
  PROVE  [DB!Next]_dbVars
<1>1. CASE Message
  BY <1>1 DEF Message, OnState, OnBlock, Refused, OnTreasury, DB!Next, vars
<1>2. CASE OnGoUpTimer
  BY <1>2 DEF OnGoUpTimer
<1>3. CASE VerifierFails
  BY <1>3 DEF VerifierFails
<1>4. CASE Step
  <2>1. CASE \/ NowhereToGo \/ (\E t \in Blocks : TryGoTo(t)) \/ RolledBack
             \/ HandleBlockFails \/ AtPosition \/ VerificationFailed \/ Blame
             \/ RangeDeleted \/ PruneTip \/ Pruned \/ RaiseFossil \/ FossilRaised
    BY <2>1 DEF NowhereToGo, TryGoTo, RolledBack, HandleBlockFails, AtPosition,
         VerificationFailed, Blame, RangeDeleted, PruneTip, Pruned, RaiseFossil,
         FossilRaised
  <2>2. CASE RollbackOne
    BY <2>2 DEF RollbackOne, DB!Next
  <2>3. CASE HandleBlock
    BY <2>3 DEF HandleBlock, DB!Next, DB!MoveFwd
  <2>4. CASE DeleteBlocksInRange
    BY <2>4 DEF DeleteBlocksInRange, DeleteBlock, DB!Next, DB!SetStateNotFunctional
  <2>5. CASE PruneState
    BY <2>5 DEF PruneState, DB!Next, DB!DeleteState
  <2>6. CASE Fossilize
    BY <2>6 DEF Fossilize, DelStateBlockPPR, DeleteBlock, DB!Next, DB!SetStateNotFunctional
  <2> QED
    BY <1>4, <2>1, <2>2, <2>3, <2>4, <2>5, <2>6 DEF Step
<1>5. CASE UNCHANGED vars
  BY <1>5 DEF vars
<1> QED
  BY <1>1, <1>2, <1>3, <1>4, <1>5 DEF Next

(***************************************************************************)
(* No operation of the database stores anything but a received header.     *)
(***************************************************************************)
LEMMA RowsStayHeaders ==
  ASSUME rows \subseteq Blocks, [DB!Next]_dbVars
  PROVE  rows' \subseteq Blocks
<1>1. ASSUME NEW s \in Blocks, DB!InsertState(s) PROVE rows' = rows \cup {s}
  BY <1>1 DEF DB!InsertState
<1>2. ASSUME NEW s \in Blocks, DB!DeleteState(s) PROVE rows' = rows \ {s}
  BY <1>2 DEF DB!DeleteState
<1>3. ASSUME NEW s \in Blocks,
             DB!SetStateFunctional(s) \/ DB!SetStateNotFunctional(s) \/ DB!MoveFwd(s)
      PROVE  rows' = rows
  BY <1>3 DEF DB!SetStateFunctional, DB!SetStateNotFunctional, DB!MoveFwd
<1>4. DB!MoveBack \/ UNCHANGED dbVars => rows' = rows
  BY DEF DB!MoveBack, dbVars
<1> QED
  BY <1>1, <1>2, <1>3, <1>4 DEF DB!Next

(***************************************************************************)
(* NodeProcessor implements NodeDB: whatever messages arrive and whichever *)
(* blocks fail, TryGoUp, TryGoTo, RollbackTo and PruneOld change the tree  *)
(* at most one operation of the database at a time.  It says nothing of    *)
(* the bodies, which NodeDB does not have: BodiesCorrect does.             *)
(***************************************************************************)
THEOREM Implements == Spec => ImplementsNodeDB
<1>1. Init => DB!Init /\ rows \subseteq Blocks
  BY DEF Init, DB!Init
<1>2. rows \subseteq Blocks /\ [Next]_vars => [DB!Next]_dbVars
  BY StepImplements
<1>3. rows \subseteq Blocks /\ [DB!Next]_dbVars => (rows \subseteq Blocks)'
  BY RowsStayHeaders
<1> QED
  BY <1>1, <1>2, <1>3, PTL DEF Spec, ImplementsNodeDB, DB!Spec, DB!dbVars, dbVars

(***************************************************************************)
(* So the flag Reachable and the table TipsReachable, from which TryGoUp   *)
(* chooses, are exact throughout chain selection, and the active states    *)
(* are the path below the cursor.                                          *)
(***************************************************************************)
THEOREM SelectionSeesTheTree == Spec => [](DB!ReachableExact /\ DB!ActiveIsPath)
<1>1. DB!Init <=> DBP!Init
  BY DEF DB!Init, DBP!Init
<1>2. DB!Next <=> DBP!Next
  <2>1. ASSUME NEW s \in Blocks PROVE DB!InsertState(s) <=> DBP!InsertState(s)
    <3>1. DB!FindPrev(s) = DBP!FindPrev(s)
      BY DEF DB!FindPrev, DBP!FindPrev
    <3>2. DB!FindNext(s) = DBP!FindNext(s)
      BY DEF DB!FindNext, DBP!FindNext
    <3>3. \A S : DB!Cardinality(S) = DBP!Cardinality(S)
      BY DEF DB!Cardinality, DBP!Cardinality
    <3> QED
      BY <3>1, <3>2, <3>3 DEF DB!InsertState, DBP!InsertState, DB!If, DBP!If,
             DB!CountNextFunctional, DBP!CountNextFunctional
  <2>2. ASSUME NEW s \in Blocks PROVE DB!DeleteState(s) <=> DBP!DeleteState(s)
    BY DEF DB!DeleteState, DBP!DeleteState, DB!NewTip, DBP!NewTip, DB!If, DBP!If
  <2>3. ASSUME NEW s \in Blocks PROVE DB!SetStateFunctional(s) <=> DBP!SetStateFunctional(s)
    BY DEF DB!SetStateFunctional, DBP!SetStateFunctional, DB!FunctionalSubtree,
           DBP!FunctionalSubtree, DB!Toggle, DBP!Toggle, DB!NextFunctional,
           DBP!NextFunctional, DB!HeightGenesis, DBP!HeightGenesis
  <2>4. ASSUME NEW s \in Blocks PROVE DB!SetStateNotFunctional(s) <=> DBP!SetStateNotFunctional(s)
    BY DEF DB!SetStateNotFunctional, DBP!SetStateNotFunctional,
           DB!FunctionalSubtree, DBP!FunctionalSubtree, DB!Toggle, DBP!Toggle,
           DB!NextFunctional, DBP!NextFunctional, DB!HeightGenesis,
           DBP!HeightGenesis
  <2>5. ASSUME NEW s \in Blocks PROVE DB!MoveFwd(s) <=> DBP!MoveFwd(s)
    BY DEF DB!MoveFwd, DBP!MoveFwd, DB!HeightGenesis, DBP!HeightGenesis
  <2>6. DB!MoveBack <=> DBP!MoveBack
    BY DEF DB!MoveBack, DBP!MoveBack
  <2> QED
    BY <2>1, <2>2, <2>3, <2>4, <2>5, <2>6 DEF DB!Next, DBP!Next
<1>3. /\ DB!ReachableExact <=> DBP!ReachableExact
      /\ DB!ActiveIsPath <=> DBP!ActiveIsPath
  BY DEF DB!ReachableExact, DBP!ReachableExact, DB!ActiveIsPath,
         DBP!ActiveIsPath, DB!HeightGenesis, DBP!HeightGenesis
<1>4. DBP!Spec => [](DBP!ReachableExact)
  BY DBP!ReachableCorrect, TreeAssumption, PathAssumption
<1>5. DBP!Spec => [](DBP!ActiveIsPath)
  BY DBP!ActiveCorrect, TreeAssumption, PathAssumption
<1> QED
  BY <1>1, <1>2, <1>3, <1>4, <1>5, Implements, PTL
     DEF ImplementsNodeDB, DB!Spec, DBP!Spec, DB!dbVars, DBP!dbVars
-----------------------------------------------------------------------------
(***************************************************************************)
(* The inductive form of BodiesMatchFlags.  RaiseFossil drops bodies one   *)
(* state at a time; the states it still has to visit are not above the     *)
(* fossil height, which it raised before, and no other loop leaves states  *)
(* to visit behind.                                                        *)
(***************************************************************************)
BodyInv ==
    /\ rows \subseteq Blocks
    /\ body \in [Blocks -> BodyKinds \cup {NoBody}]
    /\ fossil \in Nat
    /\ pc \notin {"prune", "fossil"} => todo = {}
    /\ pc = "fossil" => \A b \in todo : Height[b] <= fossil
    /\ BodiesMatchFlags

(***************************************************************************)
(* A body and its flag arrive together in OnBlock.                         *)
(***************************************************************************)
LEMMA ArrivalKeepsBodies ==
  ASSUME BodyInv, NEW s \in Blocks, NEW d \in Bodies[s], OnBlock(s, d[1], d[2])
  PROVE  BodyInv'
<1>1. d[2] \in BodyKinds /\ d[2] # NoBody
  BY ParamAssumption DEF BodyKinds, NoBody
<1>2. /\ body' = [body EXCEPT ![s] = d[2]]
      /\ functional' = functional \cup {s}
      /\ UNCHANGED << rows, fossil, pc, todo >>
  BY DEF OnBlock, DB!SetStateFunctional, extra
<1> QED
  BY <1>1, <1>2 DEF BodyInv, BodiesMatchFlags

(***************************************************************************)
(* A body and its flag are removed together, by DeleteBlock and by         *)
(* DeleteState.                                                            *)
(***************************************************************************)
LEMMA RemovalKeepsBodies ==
  ASSUME BodyInv, NEW s, body' = [body EXCEPT ![s] = NoBody],
         functional' = functional \ {s}, UNCHANGED fossil
  PROVE  /\ body' \in [Blocks -> BodyKinds \cup {NoBody}]
         /\ BodiesMatchFlags'
BY DEF BodyInv, BodiesMatchFlags

(***************************************************************************)
(* What DeleteBlock does to the row it is given: if the flag was not set,  *)
(* removing it changes nothing.                                            *)
(***************************************************************************)
LEMMA DeleteBlockRemoves ==
  ASSUME NEW s, DeleteBlock(s)
  PROVE  /\ body' = [body EXCEPT ![s] = NoBody]
         /\ functional' = functional \ {s}
         /\ UNCHANGED rows
<1>1. CASE s \in functional
  BY <1>1 DEF DeleteBlock, DelColumns, DB!SetStateNotFunctional
<1>2. CASE s \notin functional
  BY <1>2 DEF DeleteBlock, DelColumns, dbVars
<1> QED
  BY <1>1, <1>2

(***************************************************************************)
(* No step of chain selection separates a body from its flag above the     *)
(* fossil height.                                                          *)
(***************************************************************************)
LEMMA BodyStep ==
  ASSUME BodyInv, [Next]_vars
  PROVE  BodyInv'
<1>1. CASE Message
  <2>1. ASSUME NEW s \in Blocks, OnState(s) PROVE BodyInv'
    BY <2>1 DEF OnState, DB!InsertState, columns, extra, BodyInv, BodiesMatchFlags
  <2>2. ASSUME NEW s \in Blocks, Refused(s) PROVE BodyInv'
    BY <2>2 DEF Refused, vars, dbVars, columns, extra, BodyInv, BodiesMatchFlags
  <2>3. CASE OnTreasury
    BY <2>3 DEF OnTreasury, EnterTryGoUp, dbVars, columns, BodyInv, BodiesMatchFlags
  <2> QED
    BY <1>1, <2>1, <2>2, <2>3, ArrivalKeepsBodies DEF Message
<1>2. CASE OnGoUpTimer
  BY <1>2 DEF OnGoUpTimer, EnterTryGoUp, dbVars, columns, BodyInv, BodiesMatchFlags
<1>3. CASE VerifierFails
  BY <1>3 DEF VerifierFails, dbVars, columns, extra, BodyInv, BodiesMatchFlags
<1>4. CASE Step
  <2>1. CASE \/ NowhereToGo \/ (\E t \in Blocks : TryGoTo(t)) \/ VerificationFailed
             \/ HandleBlockFails \/ AtPosition \/ Blame
    BY <2>1 DEF NowhereToGo, TryGoTo, HandleBlockFails, AtPosition,
         VerificationFailed, Blame, dbVars, columns, extra, BodyInv, BodiesMatchFlags
  <2>2. CASE RollbackOne
    BY <2>2 DEF RollbackOne, DB!MoveBack, columns, extra, BodyInv, BodiesMatchFlags
  <2>3. CASE HandleBlock
    <3>1. /\ todo = {} /\ todo' = {}
          /\ UNCHANGED << rows, functional, body, fossil >>
      BY <2>3 DEF HandleBlock, DB!MoveFwd, BodyInv
    <3> QED
      BY <3>1 DEF BodyInv, BodiesMatchFlags
  <2>4. CASE DeleteBlocksInRange
    <3>1. /\ DeleteBlock(sidFwd)
          /\ UNCHANGED << fossil, pc, todo >>
      BY <2>4 DEF DeleteBlocksInRange, extra
    <3>2. /\ body' = [body EXCEPT ![sidFwd] = NoBody]
          /\ functional' = functional \ {sidFwd}
          /\ UNCHANGED rows
      BY <3>1, DeleteBlockRemoves
    <3>3. /\ body' \in [Blocks -> BodyKinds \cup {NoBody}]
          /\ BodiesMatchFlags'
      BY <3>1, <3>2, RemovalKeepsBodies
    <3> QED
      BY <3>1, <3>2, <3>3 DEF BodyInv
  <2>5. CASE RolledBack \/ RangeDeleted
    <3>1. todo = {} /\ UNCHANGED << rows, functional, body, fossil, todo >>
      BY <2>5 DEF RolledBack, RangeDeleted, dbVars, columns, extra, BodyInv
    <3> QED
      BY <3>1 DEF BodyInv, BodiesMatchFlags
  <2>6. CASE PruneTip \/ Pruned
    BY <2>6 DEF PruneTip, Pruned, dbVars, columns, extra, BodyInv, BodiesMatchFlags
  <2>7. CASE PruneState
    <3>1. pc = "prune" /\ UNCHANGED << pc, fossil >>
      BY <2>7 DEF PruneState, extra
    <3>2. PICK t \in todo :
             \/ DB!DeleteState(t) /\ DelColumns(t)
             \/ UNCHANGED << dbVars, columns >>
      BY <2>7 DEF PruneState
    <3>3. CASE DB!DeleteState(t) /\ DelColumns(t)
      <4>1. /\ body' = [body EXCEPT ![t] = NoBody]
            /\ functional' = functional \ {t}
            /\ rows' = rows \ {t}
        BY <3>3 DEF DB!DeleteState, DelColumns
      <4>2. /\ body' \in [Blocks -> BodyKinds \cup {NoBody}]
            /\ BodiesMatchFlags'
        BY <3>1, <4>1, RemovalKeepsBodies
      <4> QED
        BY <3>1, <4>1, <4>2 DEF BodyInv
    <3>4. CASE UNCHANGED << dbVars, columns >>
      BY <3>1, <3>4 DEF dbVars, columns, BodyInv, BodiesMatchFlags
    <3> QED
      BY <3>2, <3>3, <3>4
  <2>8. CASE RaiseFossil
    <3>1. /\ pc = "fossil" /\ fossil' = fossil + 1
          /\ todo' = {b \in rows : Height[b] = fossil + 1}
          /\ UNCHANGED << pc, rows, functional, body >>
      BY <2>8 DEF RaiseFossil, dbVars, columns
    <3>2. \A b \in Blocks : Height[b] > fossil + 1 => Height[b] > fossil
      BY TreeAssumption DEF BodyInv
    <3>3. \A b \in todo' : Height[b] <= fossil'
      BY <3>1 DEF BodyInv
    <3> QED
      BY <3>1, <3>2, <3>3 DEF BodyInv, BodiesMatchFlags
  <2>9. CASE Fossilize
    <3>1. pc = "fossil" /\ UNCHANGED << pc, fossil >>
      BY <2>9 DEF Fossilize, extra
    <3>2. PICK t \in todo : /\ DelStateBlockPPR(t) \/ DeleteBlock(t)
                            /\ todo' = todo \ {t}
      BY <2>9 DEF Fossilize
    <3>3. Height[t] <= fossil
      BY <3>1, <3>2 DEF BodyInv
    <3>4. CASE DelStateBlockPPR(t)
      <4>1. /\ body' = [body EXCEPT ![t] = NoBody]
            /\ UNCHANGED << rows, functional >>
        BY <3>4 DEF DelStateBlockPPR, dbVars
      <4>2. \A b \in Blocks : Height[b] > fossil => b # t
        BY <3>3, TreeAssumption DEF BodyInv
      <4> QED
        BY <3>1, <3>2, <4>1, <4>2 DEF BodyInv, BodiesMatchFlags
    <3>5. CASE DeleteBlock(t)
      <4>1. /\ body' = [body EXCEPT ![t] = NoBody]
            /\ functional' = functional \ {t}
            /\ UNCHANGED rows
        BY <3>5, DeleteBlockRemoves
      <4>2. /\ body' \in [Blocks -> BodyKinds \cup {NoBody}]
            /\ BodiesMatchFlags'
        BY <3>1, <4>1, RemovalKeepsBodies
      <4> QED
        BY <3>1, <3>2, <4>1, <4>2 DEF BodyInv
    <3> QED
      BY <3>2, <3>4, <3>5
  <2>10. CASE FossilRaised
    BY <2>10 DEF FossilRaised, dbVars, columns, extra, BodyInv, BodiesMatchFlags
  <2> QED
    BY <1>4, <2>1, <2>2, <2>3, <2>4, <2>5, <2>6, <2>7, <2>8, <2>9, <2>10 DEF Step
<1>5. CASE UNCHANGED vars
  BY <1>5 DEF vars, dbVars, columns, extra, BodyInv, BodiesMatchFlags
<1> QED
  BY <1>1, <1>2, <1>3, <1>4, <1>5 DEF Next

(***************************************************************************)
(* Whatever arrives and whatever fails, the flag Functional tells exactly  *)
(* which states have a body, except that RaiseFossil has taken the bodies  *)
(* of states at or below the fossil height and left them the flag.  For    *)
(* every tree of headers, all peers and every horizon.                     *)
(***************************************************************************)
THEOREM BodiesCorrect == Spec => []BodiesMatchFlags
<1>1. Init => BodyInv
  BY DEF Init, DB!Init, BodyInv, BodiesMatchFlags
<1>2. BodyInv /\ [Next]_vars => BodyInv'
  BY BodyStep
<1>3. BodyInv => BodiesMatchFlags
  BY DEF BodyInv
<1> QED
  BY <1>1, <1>2, <1>3, PTL DEF Spec
=============================================================================
