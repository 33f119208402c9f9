-------------------------- MODULE UtxoImageProofs --------------------------
(***************************************************************************)
(* The image protocol is right for any set of states and any number of     *)
(* commits and kills, as long as no kill falls between an ID pushed or     *)
(* popped and the dirty flag.                                              *)
(***************************************************************************)
EXTENDS UtxoImage, TLAPS

\* The file is absent and the database is empty when the node first starts.
LEMMA ImageInit == Init => ImageInv
BY StatesAssumption
   DEF Init, ImageInv, TypeOK, StampMeansCommitted, PlaceOK, Trees

\* Opening, testing and rebuilding the image leads to the committed tree.
LEMMA InitializeStep ==
  ImageInv /\ (InitUtxoMapping \/ TestDefinition \/ Rebuild) => ImageInv'
<1> SUFFICES ASSUME ImageInv, InitUtxoMapping \/ TestDefinition \/ Rebuild
             PROVE  ImageInv'
  OBVIOUS
<1> USE StatesAssumption DEF ImageInv, TypeOK, StampMeansCommitted, PlaceOK, Trees, db, hdr
<1>1. CASE InitUtxoMapping /\ Accepted
  BY <1>1 DEF InitUtxoMapping, Accepted, Reuse
<1>2. CASE InitUtxoMapping /\ ~Accepted
  BY <1>2 DEF InitUtxoMapping, Reset
<1>3. CASE TestDefinition
  BY <1>3 DEF TestDefinition, Reset, HashOf, get_Hash
<1>4. CASE Rebuild
  BY <1>4 DEF Rebuild
<1> QED BY <1>1, <1>2, <1>3, <1>4

\* A change marks the image before the process can be killed.
LEMMA ChangeStep ==
  ASSUME NEW t \in States,
         ImageInv, ChangeLeaf(t) \/ ChangeID(t) \/ MarkID \/ Changed \/ Evaluate
  PROVE  ImageInv'
<1> USE StatesAssumption DEF ImageInv, TypeOK, StampMeansCommitted, PlaceOK, Trees, db, hdr
<1>1. CASE ChangeLeaf(t)
  BY <1>1 DEF ChangeLeaf
<1>2. CASE ChangeID(t)
  BY <1>2 DEF ChangeID
<1>3. CASE MarkID
  BY <1>3 DEF MarkID
<1>4. CASE Changed
  BY <1>4 DEF Changed
<1>5. CASE Evaluate
  BY <1>5 DEF Evaluate, get_Hash
<1> QED BY <1>1, <1>2, <1>3, <1>4, <1>5

\* The database gets the fresh stamp first, the header gets it last, and a
\* kill in between leaves a header whose stamp is too old.
LEMMA CommitStep ==
  ImageInv /\ (Commit \/ FlushDirty \/ FlushRoot \/ FlushStamp \/ Kill) => ImageInv'
<1> SUFFICES ASSUME ImageInv, Commit \/ FlushDirty \/ FlushRoot \/ FlushStamp \/ Kill
             PROVE  ImageInv'
  OBVIOUS
<1> USE StatesAssumption DEF ImageInv, TypeOK, StampMeansCommitted, PlaceOK, Trees, db, hdr
<1>1. CASE Commit /\ dirty = 1
  BY <1>1 DEF Commit
<1>2. CASE Commit /\ dirty # 1
  BY <1>2 DEF Commit
<1>3. CASE FlushDirty
  BY <1>3 DEF FlushDirty
<1>4. CASE FlushRoot
  BY <1>4 DEF FlushRoot
<1>5. CASE FlushStamp
  BY <1>5 DEF FlushStamp
<1>6. CASE Kill
  BY <1>6 DEF Kill, KillAt
<1> QED BY <1>1, <1>2, <1>3, <1>4, <1>5, <1>6

\* The invariant holds in every reachable state, in particular what a clean
\* header with the database's stamp means (UtxoTreeMapped::Open).
THEOREM ImageInvariant == Spec => []ImageInv
<1>1. ImageInv /\ [Next]_vars => ImageInv'
  <2> SUFFICES ASSUME ImageInv, [Next]_vars PROVE ImageInv'
    OBVIOUS
  <2>1. CASE UNCHANGED vars
    BY <2>1 DEF vars, ImageInv, TypeOK, StampMeansCommitted, PlaceOK, Trees
  <2>2. CASE Work
    BY <2>2, InitializeStep, ChangeStep, CommitStep, StatesAssumption DEF Work
  <2>3. ASSUME NEW t \in States, ChangeLeaf(t) \/ ChangeID(t) PROVE ImageInv'
    BY <2>3, ChangeStep
  <2>4. CASE Evaluate
    BY <2>4, ChangeStep, StatesAssumption
  <2>5. CASE Commit \/ Kill
    BY <2>5, CommitStep
  <2> QED BY <2>1, <2>2, <2>3, <2>4, <2>5 DEF Next
<1> QED BY <1>1, ImageInit, PTL DEF Spec

\* Between blocks the mapped tree is the tree of the current state, however
\* often the process was killed and wherever: CommitUtxosAndDB's order and
\* Initialize's tests are enough.
THEOREM ImageCorrect == Spec => []ImageIsCurrent
<1>1. ImageInv => ImageIsCurrent
  BY DEF ImageInv, PlaceOK, ImageIsCurrent
<1> QED BY <1>1, ImageInvariant, PTL

\* A clean image of a running node carries the committed stamp and root, so a
\* restart finds it usable.
THEOREM CleanCorrect == Spec => []CleanIsReusable
<1>1. ImageInv => CleanIsReusable
  BY StatesAssumption DEF ImageInv, PlaceOK, CleanIsReusable
<1> QED BY <1>1, ImageInvariant, PTL
=============================================================================
