---------------------------- MODULE NodeDBProofs ----------------------------
(***************************************************************************)
(* Proof that every operation on the header tree keeps the database valid, *)
(* for every tree of headers and every order of operations.                *)
(*                                                                         *)
(* The conjunction of the module's invariants is inductive as it stands.   *)
(* The work is in the paths: OnStateReachable flips the rows joined to s   *)
(* by functional rows, and these have to be the rows whose path became (or *)
(* is no longer) completely functional.  That needs four facts about paths *)
(* (transitive, linear, growing in height, leaving a row by a successor),  *)
(* each proved by the least height at which it could fail.                 *)
(***************************************************************************)
EXTENDS NodeDB, FiniteSetTheorems, WellFoundedInduction, TLAPS

(***************************************************************************)
(* What NodeDB::assert_valid asserts, and the consistency of the cursor.   *)
(***************************************************************************)
Inv ==
    /\ TypeOK
    /\ LinksExact
    /\ CountsExact
    /\ TipsExact
    /\ ReachableExact
    /\ ActiveIsPath

(***************************************************************************)
(* Every nonempty set of naturals has a least element: the form of         *)
(* induction the proofs below use.                                         *)
(***************************************************************************)
LEMMA LeastNatural ==
    ASSUME NEW S \in SUBSET Nat, S # {}
    PROVE  \E m \in S : \A n \in S : m <= n
<1> DEFINE R == {ss \in Nat \X Nat : ss[1] < ss[2]}
<1>0. IsWellFoundedOn(R, Nat)
    BY NatLessThanWellFounded DEF OpToRel
<1>1. PICK m \in S : \A n \in S : ~ (<<n, m>> \in R)
  <2> HIDE DEF R
  <2> QED BY WFMin, <1>0
<1>2. \A n \in S : ~ (n < m)
    BY <1>1
<1> QED
    BY <1>2

(***************************************************************************)
(* Being below is transitive.                                              *)
(***************************************************************************)
LEMMA PathTransitive ==
    \A d \in Blocks : \A x \in Path[d] : Path[x] \subseteq Path[d]
<1> DEFINE Bad == {d \in Blocks : ~ \A x \in Path[d] : Path[x] \subseteq Path[d]}
           H   == {Height[d] : d \in Bad}
<1>1. SUFFICES ASSUME Bad # {} PROVE FALSE
    OBVIOUS
<1>2. H \in SUBSET Nat /\ H # {}
    BY <1>1, TreeAssumption
<1>3. PICK d \in Bad : \A e \in Bad : Height[d] <= Height[e]
  <2>1. PICK m \in H : \A n \in H : m <= n
    BY <1>2, LeastNatural
  <2> QED
    BY <2>1
<1>4. PICK x \in Path[d] : ~ (Path[x] \subseteq Path[d])
    OBVIOUS
<1>5. /\ d \in Blocks /\ x # d /\ Prev[d] # NoBlock /\ x \in Path[Prev[d]]
      /\ Prev[d] \in Blocks /\ Path[Prev[d]] \subseteq Path[d]
    BY <1>4, PathAssumption, TreeAssumption
<1>6. Prev[d] \notin Bad
    BY <1>3, <1>5, TreeAssumption
<1> QED
    BY <1>4, <1>5, <1>6

(***************************************************************************)
(* The immediate facts about paths.                                        *)
(***************************************************************************)
LEMMA PathStep ==
    ASSUME NEW b \in Blocks
    PROVE  /\ b \in Path[b] /\ Path[b] \subseteq Blocks
           /\ Prev[b] \in Blocks \cup {NoBlock}
           /\ Height[b] = HeightGenesis => Prev[b] = NoBlock
           /\ Prev[b] = NoBlock => Path[b] = {b}
           /\ Prev[b] # NoBlock => /\ Prev[b] \in Blocks
                                  /\ Path[b] = {b} \cup Path[Prev[b]]
                                  /\ Prev[b] \in Path[b]
                                  /\ Prev[b] # b
<1>1. b \in Path[b] /\ Path[b] \subseteq Blocks
    BY PathAssumption
<1>2. Prev[b] \in Blocks \cup {NoBlock}
    BY TreeAssumption
<1>3. Height[b] = HeightGenesis => Prev[b] = NoBlock
    BY TreeAssumption DEF HeightGenesis
<1>4. Prev[b] = NoBlock => Path[b] = {b}
    BY PathAssumption
<1>5. ASSUME Prev[b] # NoBlock
      PROVE  /\ Prev[b] \in Blocks /\ Path[b] = {b} \cup Path[Prev[b]]
             /\ Prev[b] \in Path[b] /\ Prev[b] # b
  <2>1. Prev[b] \in Blocks /\ Path[b] = {b} \cup Path[Prev[b]]
    BY <1>2, <1>5, PathAssumption
  <2>2. Prev[b] # b
    BY <1>5, <2>1, TreeAssumption
  <2> QED
    BY <2>1, <2>2, PathAssumption
<1> QED
    BY <1>1, <1>2, <1>3, <1>4, <1>5

(***************************************************************************)
(* Everything strictly below a block has a smaller height.                 *)
(***************************************************************************)
LEMMA PathHeight ==
    \A d \in Blocks : \A x \in Path[d] : x = d \/ Height[x] < Height[d]
<1> DEFINE Bad == {d \in Blocks : ~ \A x \in Path[d] : x = d \/ Height[x] < Height[d]}
           H   == {Height[d] : d \in Bad}
<1>1. SUFFICES ASSUME Bad # {} PROVE FALSE
    OBVIOUS
<1>2. H \in SUBSET Nat /\ H # {}
    BY <1>1, TreeAssumption
<1>3. PICK d \in Bad : \A e \in Bad : Height[d] <= Height[e]
  <2>1. PICK m \in H : \A n \in H : m <= n
    BY <1>2, LeastNatural
  <2> QED
    BY <2>1
<1>4. PICK x \in Path[d] : x # d /\ ~ (Height[x] < Height[d])
    OBVIOUS
<1>5. /\ Prev[d] \in Blocks /\ x \in Path[Prev[d]] /\ x \in Blocks
      /\ Height[d] = Height[Prev[d]] + 1
    BY <1>4, PathAssumption, TreeAssumption
<1>6. Prev[d] \notin Bad
    BY <1>3, <1>5, TreeAssumption
<1> QED
    BY <1>4, <1>5, <1>6, TreeAssumption

(***************************************************************************)
(* Two blocks below the same block are one below the other.                *)
(***************************************************************************)
LEMMA PathLinear ==
    \A d \in Blocks : \A x, y \in Path[d] : x \in Path[y] \/ y \in Path[x]
<1> DEFINE Bad == {d \in Blocks : ~ \A x, y \in Path[d] : x \in Path[y] \/ y \in Path[x]}
           H   == {Height[d] : d \in Bad}
<1>1. SUFFICES ASSUME Bad # {} PROVE FALSE
    OBVIOUS
<1>2. H \in SUBSET Nat /\ H # {}
    BY <1>1, TreeAssumption
<1>3. PICK d \in Bad : \A e \in Bad : Height[d] <= Height[e]
  <2>1. PICK m \in H : \A n \in H : m <= n
    BY <1>2, LeastNatural
  <2> QED
    BY <2>1
<1>4. PICK x \in Path[d], y \in Path[d] : x \notin Path[y] /\ y \notin Path[x]
    OBVIOUS
<1>5. x # d /\ y # d
    BY <1>4
<1>6. /\ Prev[d] \in Blocks /\ x \in Path[Prev[d]] /\ y \in Path[Prev[d]]
      /\ Height[d] = Height[Prev[d]] + 1
    BY <1>5, PathAssumption, TreeAssumption
<1>7. Prev[d] \notin Bad
    BY <1>3, <1>6, TreeAssumption
<1> QED
    BY <1>4, <1>6, <1>7

(***************************************************************************)
(* A path that passes through s above s leaves s through a successor of s. *)
(***************************************************************************)
LEMMA PathChild ==
    \A d \in Blocks : \A s \in Path[d] : s = d \/ \E c \in Path[d] : Prev[c] = s
<1> DEFINE Bad == {d \in Blocks : ~ \A s \in Path[d] : s = d \/ \E c \in Path[d] : Prev[c] = s}
           H   == {Height[d] : d \in Bad}
<1>1. SUFFICES ASSUME Bad # {} PROVE FALSE
    OBVIOUS
<1>2. H \in SUBSET Nat /\ H # {}
    BY <1>1, TreeAssumption
<1>3. PICK d \in Bad : \A e \in Bad : Height[d] <= Height[e]
  <2>1. PICK m \in H : \A n \in H : m <= n
    BY <1>2, LeastNatural
  <2> QED
    BY <2>1
<1>4. PICK s \in Path[d] : s # d /\ \A c \in Path[d] : Prev[c] # s
    OBVIOUS
<1>5. /\ Prev[d] \in Blocks /\ s \in Path[Prev[d]] /\ s # Prev[d]
      /\ Path[Prev[d]] \subseteq Path[d] /\ Height[d] = Height[Prev[d]] + 1
    BY <1>4, PathAssumption, TreeAssumption
<1>6. Prev[d] \notin Bad
    BY <1>3, <1>5, TreeAssumption
<1> QED
    BY <1>4, <1>5, <1>6

-----------------------------------------------------------------------------
(***************************************************************************)
(* The empty database is valid.                                            *)
(***************************************************************************)
LEMMA InitInv == Init => Inv
<1> SUFFICES ASSUME Init PROVE Inv
    OBVIOUS
<1>1. IsFiniteSet(rows)
    BY FS_EmptySet DEF Init
<1>2. TypeOK
    BY <1>1 DEF Init, TypeOK
<1> QED
    BY <1>2 DEF Init, Inv, LinksExact, CountsExact, TipsExact, ReachableExact,
               ActiveIsPath, FindPrev

(***************************************************************************)
(* Counting the successors of b in a finite set of rows: the count is zero *)
(* exactly when there is none, and adding or removing a successor changes  *)
(* it by one.                                                              *)
(***************************************************************************)
Succ(R, b) == {c \in R : Prev[c] = b}

LEMMA CountSucc ==
    ASSUME NEW R, IsFiniteSet(R), NEW b
    PROVE  /\ Cardinality(Succ(R, b)) \in Nat
           /\ Cardinality(Succ(R, b)) = 0 <=> \A c \in R : Prev[c] # b
<1>1. Succ(R, b) \in SUBSET R
    BY DEF Succ
<1>2. IsFiniteSet(Succ(R, b))
    BY <1>1, FS_Subset
<1>3. Cardinality(Succ(R, b)) \in Nat /\ (Cardinality(Succ(R, b)) = 0 <=> Succ(R, b) = {})
    BY <1>2, FS_CardinalityType, FS_EmptySet
<1> QED
    BY <1>3 DEF Succ

(***************************************************************************)
(* A new row adds one to the count of its predecessor only.                *)
(***************************************************************************)
LEMMA CountSuccAdd ==
    ASSUME NEW R, IsFiniteSet(R), NEW b, NEW s, s \notin R
    PROVE  Cardinality(Succ(R \cup {s}, b)) =
              IF Prev[s] = b THEN Cardinality(Succ(R, b)) + 1 ELSE Cardinality(Succ(R, b))
<1>1. Succ(R, b) \in SUBSET R /\ s \notin Succ(R, b)
    BY DEF Succ
<1>2. IsFiniteSet(Succ(R, b))
    BY <1>1, FS_Subset
<1>3. Cardinality(Succ(R, b) \cup {s}) = Cardinality(Succ(R, b)) + 1
    BY <1>1, <1>2, FS_AddElement
<1>4. Succ(R \cup {s}, b) = IF Prev[s] = b THEN Succ(R, b) \cup {s} ELSE Succ(R, b)
    BY DEF Succ
<1> QED
    BY <1>3, <1>4

(***************************************************************************)
(* A removed row takes one from the count of its predecessor only.         *)
(***************************************************************************)
LEMMA CountSuccRemove ==
    ASSUME NEW R, IsFiniteSet(R), NEW b, NEW s \in R
    PROVE  Cardinality(Succ(R \ {s}, b)) =
              IF Prev[s] = b THEN Cardinality(Succ(R, b)) - 1 ELSE Cardinality(Succ(R, b))
<1>1. Succ(R, b) \in SUBSET R
    BY DEF Succ
<1>2. IsFiniteSet(Succ(R, b))
    BY <1>1, FS_Subset
<1>3. Prev[s] = b => Cardinality(Succ(R, b) \ {s}) = Cardinality(Succ(R, b)) - 1
    BY <1>2, FS_RemoveElement DEF Succ
<1>4. Succ(R \ {s}, b) = IF Prev[s] = b THEN Succ(R, b) \ {s} ELSE Succ(R, b)
    BY DEF Succ
<1> QED
    BY <1>3, <1>4

(***************************************************************************)
(* The counters in these terms.                                            *)
(***************************************************************************)
LEMMA Counters ==
    ASSUME TypeOK, CountsExact
    PROVE  /\ IsFiniteSet(rows) /\ IsFiniteSet(functional)
           /\ \A b \in rows : /\ countNext[b] = Cardinality(Succ(rows, b))
                              /\ countNextF[b] = Cardinality(Succ(functional, b))
                              /\ countNext[b] = 0 <=> \A c \in rows : Prev[c] # b
                              /\ countNextF[b] = 0 <=> \A c \in functional : Prev[c] # b
<1>1. IsFiniteSet(rows) /\ IsFiniteSet(functional)
    BY FS_Subset DEF TypeOK
<1>2. \A b \in rows : /\ countNext[b] = Cardinality(Succ(rows, b))
                      /\ countNextF[b] = Cardinality(Succ(functional, b))
    BY DEF CountsExact, Succ
<1>3. \A b : /\ Cardinality(Succ(rows, b)) = 0 <=> \A c \in rows : Prev[c] # b
             /\ Cardinality(Succ(functional, b)) = 0 <=> \A c \in functional : Prev[c] # b
    BY <1>1, CountSucc
<1> QED
    BY <1>1, <1>2, <1>3

(***************************************************************************)
(* Inserting a header keeps the database valid, orphan adoption included.  *)
(***************************************************************************)
LEMMA InsertStateInv ==
    ASSUME Inv, NEW s \in Blocks, InsertState(s)
    PROVE  Inv'
<1> USE DEF Inv
<1>0. /\ s \notin rows /\ rows' = rows \cup {s}
      /\ UNCHANGED << functional, reachable, active, tipsReachable, cursor >>
    BY DEF InsertState
<1>1. IsFiniteSet(rows') /\ rows' \in SUBSET Blocks
    BY <1>0, FS_AddElement DEF TypeOK
<1>2. FindPrev(s) \in Blocks \cup {NoBlock} /\ FindPrev(s) # s
    BY <1>0, TreeAssumption DEF FindPrev, TypeOK
<1>3. LinksExact'
  <2>1. rowPrev' = [b \in Blocks |-> IF b = s THEN FindPrev(s)
                                     ELSE IF b \in FindNext(s) THEN s ELSE rowPrev[b]]
    BY DEF InsertState
  <2>2. \A b \in Blocks : Prev[b] # NoBlock => Prev[b] # b
    BY PathStep
  <2> QED
    BY <1>0, <2>1, <2>2, PathStep DEF LinksExact, FindPrev, FindNext, TypeOK
<1>4. CountsExact'
  <2> SUFFICES ASSUME NEW b \in rows'
               PROVE  /\ countNext'[b] = Cardinality(Succ(rows \cup {s}, b))
                      /\ countNextF'[b] = Cardinality(Succ(functional, b))
    BY <1>0 DEF CountsExact, Succ
  <2>1. b \in Blocks /\ Prev[s] # s
    BY <1>1, PathStep, TreeAssumption
  <2>2. CASE b = s
    <3>1. Succ(rows \cup {s}, s) = FindNext(s)
      BY <1>0, <2>1 DEF FindNext, Succ
    <3>2. Succ(functional, s) = FindNext(s) \cap functional
      BY <1>0 DEF FindNext, TypeOK, Succ
    <3>3. countNext'[s] = Cardinality(FindNext(s)) /\ countNextF'[s] = CountNextFunctional(s)
      BY DEF InsertState, TypeOK
    <3> QED
      BY <2>2, <3>1, <3>2, <3>3 DEF CountNextFunctional
  <2>3. CASE b # s
    <3>1. b \in rows
      BY <1>0, <2>3
    <3>2. countNextF'[b] = countNextF[b]
      BY <2>1, <2>3 DEF InsertState, TypeOK
    <3>3. countNext'[b] = IF Prev[s] = b THEN countNext[b] + 1 ELSE countNext[b]
      <4>1. FindPrev(s) = b <=> Prev[s] = b
        BY <2>1, <3>1, TreeAssumption DEF FindPrev
      <4> QED
        BY <2>1, <2>3, <4>1 DEF InsertState
    <3> QED
      BY <1>0, <3>1, <3>2, <3>3, Counters, CountSuccAdd
  <2> QED
    BY <2>2, <2>3
<1>5. TypeOK'
  <2>1. FindNext(s) \subseteq rows /\ IsFiniteSet(FindNext(s))
    BY FS_Subset DEF FindNext, TypeOK
  <2>2. Cardinality(FindNext(s)) \in Nat
    BY <2>1, FS_CardinalityType
  <2>3. IsFiniteSet(FindNext(s) \cap functional)
    BY <2>1, FS_Intersection
  <2>4. CountNextFunctional(s) \in Nat
    BY <2>3, FS_CardinalityType DEF CountNextFunctional
  <2>5. countNext' \in [Blocks -> Nat] /\ countNextF' \in [Blocks -> Nat]
    BY <2>2, <2>4 DEF InsertState, TypeOK
  <2>6. rowPrev' \in [Blocks -> Blocks \cup {NoBlock}]
    BY <1>2 DEF InsertState, TypeOK
  <2>7. tips' \in SUBSET rows'
    BY <1>0 DEF InsertState, TypeOK, If
  <2> QED
    BY <1>0, <1>1, <2>5, <2>6, <2>7 DEF TypeOK
<1>6. TipsExact'
  <2>1. tips' = (tips \ {b \in {FindPrev(s)} \cap Blocks : countNext[b] = 0})
                  \cup If(FindNext(s) = {}, {s})
    BY DEF InsertState
  <2>2. Prev[s] # s /\ s \notin tips
    BY <1>0, PathStep, TreeAssumption DEF TypeOK
  <2>3. ASSUME NEW b \in rows
        PROVE  b \in tips' <=> \A c \in rows' : Prev[c] # b
    <3>1. b \in tips' <=> b \in tips /\ ~ (b = FindPrev(s) /\ countNext[b] = 0)
      BY <1>0, <2>1, <2>3 DEF If, TypeOK
    <3>2. b = FindPrev(s) <=> Prev[s] = b
      BY <2>3, TreeAssumption DEF FindPrev, TypeOK
    <3> QED
      BY <1>0, <2>3, <3>1, <3>2, Counters DEF TipsExact
  <2>4. s \in tips' <=> \A c \in rows' : Prev[c] # s
    BY <1>0, <2>1, <2>2 DEF FindNext, If
  <2> QED
    BY <1>0, <1>5, <2>3, <2>4 DEF TipsExact, TypeOK
<1>7. ReachableExact' /\ ActiveIsPath'
    BY <1>0 DEF ReachableExact, ActiveIsPath
<1> QED
    BY <1>3, <1>4, <1>5, <1>6, <1>7

(***************************************************************************)
(* Deleting a leaf that is not active keeps the database valid.            *)
(***************************************************************************)
LEMMA DeleteStateInv ==
    ASSUME Inv, NEW s \in Blocks, DeleteState(s)
    PROVE  Inv'
<1> USE DEF Inv
<1>0. /\ s \in rows /\ countNext[s] = 0 /\ s \notin active
      /\ rows' = rows \ {s} /\ functional' = functional \ {s} /\ reachable' = reachable \ {s}
      /\ UNCHANGED << active, cursor >>
    BY DEF DeleteState
<1>1. /\ \A c \in rows : Prev[c] # s
      /\ Prev[s] # s
      /\ rowPrev[s] = FindPrev(s) /\ FindPrev(s) # s
    BY <1>0, Counters, PathStep, TreeAssumption DEF LinksExact, FindPrev
<1>2. \A b \in Blocks : b \in rows => (b = FindPrev(s) <=> Prev[s] = b)
    BY TreeAssumption DEF FindPrev, TypeOK
<1>3. IsFiniteSet(rows')
    BY <1>0, FS_RemoveElement DEF TypeOK
<1>4. LinksExact'
  <2>1. rowPrev' = [rowPrev EXCEPT ![s] = NoBlock]
    BY DEF DeleteState
  <2> QED
    BY <1>0, <1>1, <2>1 DEF LinksExact, FindPrev, TypeOK
<1>5. CountsExact'
  <2> SUFFICES ASSUME NEW b \in rows'
               PROVE  /\ countNext'[b] = Cardinality(Succ(rows \ {s}, b))
                      /\ countNextF'[b] = Cardinality(Succ(functional \ {s}, b))
    BY <1>0 DEF CountsExact, Succ
  <2>1. b \in Blocks /\ b \in rows /\ b # s
    BY <1>0 DEF TypeOK
  <2>2. /\ countNext'[b] = IF Prev[s] = b THEN countNext[b] - 1 ELSE countNext[b]
        /\ countNextF'[b] = IF Prev[s] = b /\ s \in functional THEN countNextF[b] - 1
                                                            ELSE countNextF[b]
    BY <1>1, <1>2, <2>1 DEF DeleteState
  <2>0. /\ IsFiniteSet(rows) /\ IsFiniteSet(functional)
        /\ countNext[b] = Cardinality(Succ(rows, b)) /\ countNextF[b] = Cardinality(Succ(functional, b))
    BY <2>1, Counters
  <2>3. countNext'[b] = Cardinality(Succ(rows \ {s}, b))
    <3>1. Cardinality(Succ(rows \ {s}, b)) =
             IF Prev[s] = b THEN Cardinality(Succ(rows, b)) - 1 ELSE Cardinality(Succ(rows, b))
      BY <1>0, <2>0, CountSuccRemove
    <3> QED
      BY <2>0, <2>2, <3>1
  <2>4. countNextF'[b] = Cardinality(Succ(functional \ {s}, b))
    <3>1. CASE s \in functional
      <4>1. Cardinality(Succ(functional \ {s}, b)) =
               IF Prev[s] = b THEN Cardinality(Succ(functional, b)) - 1
                              ELSE Cardinality(Succ(functional, b))
        BY <2>0, <3>1, CountSuccRemove
      <4> QED
        BY <2>0, <2>2, <3>1, <4>1
    <3>2. CASE s \notin functional
      <4>1. functional \ {s} = functional
        BY <3>2
      <4> QED
        BY <2>1, <2>2, <3>2, <4>1, Counters
    <3> QED
      BY <3>1, <3>2
  <2> QED
    BY <2>3, <2>4
<1>6. \A b \in rows' : /\ Cardinality(Succ(rows \ {s}, b)) \in Nat
                       /\ Cardinality(Succ(functional \ {s}, b)) \in Nat
                       /\ countNext'[b] = 0 <=> \A c \in rows \ {s} : Prev[c] # b
                       /\ countNextF'[b] = 0 <=> \A c \in functional \ {s} : Prev[c] # b
  <2>1. IsFiniteSet(rows \ {s}) /\ IsFiniteSet(functional \ {s})
    BY <1>0, <1>3, Counters, FS_RemoveElement
  <2>2. \A b \in rows' : /\ countNext'[b] = Cardinality(Succ(rows \ {s}, b))
                         /\ countNextF'[b] = Cardinality(Succ(functional \ {s}, b))
    BY <1>0, <1>5 DEF CountsExact, Succ
  <2>3. \A b : /\ Cardinality(Succ(rows \ {s}, b)) \in Nat
               /\ Cardinality(Succ(rows \ {s}, b)) = 0 <=> \A c \in rows \ {s} : Prev[c] # b
    BY <2>1, CountSucc
  <2>4. \A b : /\ Cardinality(Succ(functional \ {s}, b)) \in Nat
               /\ Cardinality(Succ(functional \ {s}, b)) = 0
                    <=> \A c \in functional \ {s} : Prev[c] # b
    BY <2>1, CountSucc
  <2> QED
    BY <2>2, <2>3, <2>4
<1>7. TipsExact'
  <2>1. tips' = (tips \ {s}) \cup {b \in {FindPrev(s)} \cap Blocks : countNext[b] = 1}
    BY <1>1 DEF DeleteState, NewTip
  <2>2. ASSUME NEW b \in rows'
        PROVE  b \in tips' <=> \A c \in rows' : Prev[c] # b
    <3>1. b \in Blocks /\ b \in rows /\ b # s
      BY <1>0, <2>2 DEF TypeOK
    <3>2. b = FindPrev(s) => countNext'[b] = countNext[b] - 1 /\ countNext[b] \in Nat
      BY <1>1, <3>1 DEF DeleteState, TypeOK
    <3>3. b # FindPrev(s) => (b \in tips' <=> b \in tips)
      BY <2>1, <3>1
    <3>4. b = FindPrev(s) => (b \in tips' <=> b \in tips \/ countNext[b] = 1)
      BY <2>1, <3>1
    <3>5. b = FindPrev(s) => countNext[b] # 0
      BY <1>0, <1>2, <3>1, Counters
    <3>6. b \in tips <=> countNext[b] = 0
      BY <3>1, Counters DEF TipsExact
    <3>7. b # FindPrev(s) => ((\A c \in rows' : Prev[c] # b) <=> (\A c \in rows : Prev[c] # b))
      BY <1>0, <1>2, <3>1
    <3>8. CASE b = FindPrev(s)
      <4>1. countNext'[b] = 0 <=> \A c \in rows' : Prev[c] # b
        <5>1. countNext'[b] = 0 <=> \A c \in rows \ {s} : Prev[c] # b
          BY <1>6, <2>2
        <5> QED
          BY <1>0, <5>1
      <4> HIDE DEF Inv
      <4> QED
        BY <3>2, <3>4, <3>5, <3>6, <3>8, <4>1
    <3>9. CASE b # FindPrev(s)
      BY <3>1, <3>3, <3>7, <3>9 DEF TipsExact
    <3> QED
      BY <3>8, <3>9
  <2>3. tips' \subseteq rows'
    BY <1>0, <1>1, <2>1, TreeAssumption DEF TypeOK, FindPrev
  <2> QED
    BY <2>2, <2>3 DEF TipsExact
<1>8. ReachableExact'
  <2>1. reachable' = {b \in functional' : /\ Path[b] \subseteq functional'
                                         /\ \E g \in Path[b] : Height[g] = HeightGenesis}
    <3>1. \A b \in functional' : Path[b] \subseteq functional => s \notin Path[b]
      BY <1>0, <1>1, PathChild DEF TypeOK
    <3>2. s \in Path[s]
      BY PathStep
    <3> QED
      BY <1>0, <3>1, <3>2 DEF ReachableExact, TypeOK
  <2>2. tipsReachable' = (tipsReachable \ {s})
              \cup {b \in {FindPrev(s)} \cap Blocks : s \in functional /\ s \in reachable /\ countNextF[b] = 1}
    BY <1>1 DEF DeleteState, If, TypeOK
  <2>3. s \in reachable /\ Prev[s] # NoBlock => FindPrev(s) = Prev[s] /\ Prev[s] \in reachable /\ s \in functional
    <3> SUFFICES ASSUME s \in reachable, Prev[s] # NoBlock
                 PROVE  FindPrev(s) = Prev[s] /\ Prev[s] \in reachable /\ s \in functional
      OBVIOUS
    <3>1. Path[s] = {s} \cup Path[Prev[s]] /\ Prev[s] \in Path[s] /\ Prev[s] \in Blocks
      BY PathStep
    <3>2. Path[s] \subseteq functional
      BY DEF ReachableExact
    <3>3. PICK g \in Path[s] : Height[g] = HeightGenesis
      BY DEF ReachableExact
    <3>4. g # s
      BY <3>3, PathStep
    <3> QED
      BY <3>1, <3>2, <3>3, <3>4 DEF ReachableExact, FindPrev, TypeOK
  <2>4. ASSUME NEW b \in reachable'
        PROVE  b \in tipsReachable' <=> \A c \in functional' : Prev[c] # b
    <3>1. b \in Blocks /\ b \in rows /\ b # s /\ b \in reachable
      BY <1>0, <2>4 DEF TypeOK
    <3>2. b \in tipsReachable <=> countNextF[b] = 0
      BY <3>1, Counters DEF ReachableExact
    <3>3. CASE b = FindPrev(s) /\ s \in functional
      <4>1. Prev[s] = b
        BY <1>2, <3>1, <3>3
      <4>2. s \in reachable
        <5>1. Path[s] = {s} \cup Path[b]
          BY <3>1, <4>1, PathStep, TreeAssumption
        <5> QED
          BY <3>1, <3>3, <5>1 DEF ReachableExact
      <4>3. countNextF'[b] = countNextF[b] - 1 /\ countNextF[b] \in Nat
        BY <1>1, <3>1, <3>3 DEF DeleteState, TypeOK
      <4>4. countNextF[b] # 0
        BY <3>1, <3>3, <4>1, Counters
      <4>5. b \in tipsReachable' <=> countNextF[b] = 1
        BY <2>2, <3>1, <3>2, <3>3, <4>2, <4>4
      <4> QED
        BY <1>0, <1>6, <3>1, <4>3, <4>5
    <3>4. CASE ~ (b = FindPrev(s) /\ s \in functional)
      <4>1. b \in tipsReachable' <=> b \in tipsReachable
        BY <2>2, <3>1, <3>4
      <4>2. (\A c \in functional' : Prev[c] # b) <=> (\A c \in functional : Prev[c] # b)
        BY <1>0, <1>2, <3>1, <3>4
      <4> QED
        BY <3>1, <4>1, <4>2 DEF ReachableExact
    <3> QED
      BY <3>3, <3>4
  <2>5. tipsReachable' \subseteq reachable'
    BY <1>0, <1>1, <2>2, <2>3, TreeAssumption DEF TypeOK, FindPrev
  <2> QED
    BY <2>1, <2>4, <2>5 DEF ReachableExact
<1>9. TypeOK'
  <2>1. countNext' \in [Blocks -> Nat]
    <3> SUFFICES ASSUME NEW b \in Blocks, b = FindPrev(s) PROVE countNext[b] # 0
      BY <1>1 DEF DeleteState, TypeOK
    <3>1. b \in rows /\ Prev[s] = b
      BY TreeAssumption DEF FindPrev
    <3> QED
      BY <1>0, <3>1, Counters
  <2>2. countNextF' \in [Blocks -> Nat]
    <3> SUFFICES ASSUME NEW b \in Blocks, b = FindPrev(s), s \in functional PROVE countNextF[b] # 0
      BY <1>1 DEF DeleteState, TypeOK
    <3>1. b \in rows /\ Prev[s] = b
      BY TreeAssumption DEF FindPrev
    <3> QED
      BY <3>1, Counters
  <2>3. rowPrev' \in [Blocks -> Blocks \cup {NoBlock}]
    BY DEF DeleteState, TypeOK
  <2>4. cursor' \in rows' \cup {NoBlock}
    BY <1>0, PathStep DEF TypeOK, ActiveIsPath
  <2>5. tips' \in SUBSET rows' /\ tipsReachable' \in SUBSET reachable'
    BY <1>7, <1>8 DEF TipsExact, ReachableExact
  <2> QED
    BY <1>0, <1>3, <2>1, <2>2, <2>3, <2>4, <2>5 DEF TypeOK
<1>10. ActiveIsPath'
    BY <1>0 DEF ActiveIsPath
<1> QED
    BY <1>4, <1>5, <1>7, <1>8, <1>9, <1>10

(***************************************************************************)
(* The rows the walk visits, when it starts at a row s of the genesis      *)
(* height or above a chain of functional rows: the rows above s (or s)     *)
(* whose path holds only functional rows, s itself not counted.            *)
(***************************************************************************)
LEMMA WalkIsSubtree ==
    ASSUME Inv, NEW s \in rows
    PROVE  /\ s \in FunctionalSubtree(s, functional)
           /\ \A b \in rows : s \in Path[b] /\ Path[b] \subseteq functional \cup {s}
                               => b \in FunctionalSubtree(s, functional)
           /\ \A b \in FunctionalSubtree(s, functional) :
                 /\ b \in rows /\ s \in Path[b]
                 /\ Path[s] \subseteq functional \cup {s} => Path[b] \subseteq functional \cup {s}
                 /\ b = s \/ b \in functional
<1> USE DEF Inv
<1>1. s \in Blocks /\ s \in Path[s] /\ rows \subseteq Blocks
    BY PathStep DEF TypeOK
<1>2. s \in FunctionalSubtree(s, functional)
  <2>1. \A x \in Path[s] \ {s} : s \notin Path[x]
    BY <1>1, PathHeight, PathStep, TreeAssumption
  <2> QED
    BY <1>1, <2>1 DEF FunctionalSubtree
<1>3. ASSUME NEW b \in rows, s \in Path[b], Path[b] \subseteq functional \cup {s}
      PROVE  b \in FunctionalSubtree(s, functional)
  <2>1. SUFFICES ASSUME NEW x \in Path[b], x # s, s \in Path[x]
                 PROVE  x \in rows \cap functional /\ rowPrev[x] = Prev[x]
    BY <1>3 DEF FunctionalSubtree
  <2>2. x \in functional /\ x \in rows /\ x \in Blocks
    BY <1>3, <2>1 DEF TypeOK
  <2>3. Prev[x] # NoBlock
    BY <2>1, <2>2, PathStep
  <2>4. Prev[x] \in Path[x]
    BY <2>2, <2>3, PathStep
  <2>5. Prev[x] \in rows
    BY <1>1, <1>3, <2>1, <2>4, PathTransitive DEF TypeOK
  <2> QED
    BY <2>2, <2>5 DEF LinksExact, FindPrev
<1>4. ASSUME NEW b \in FunctionalSubtree(s, functional)
      PROVE  /\ b \in rows /\ s \in Path[b]
             /\ Path[s] \subseteq functional \cup {s} => Path[b] \subseteq functional \cup {s}
             /\ b = s \/ b \in functional
  <2>1. /\ b \in rows /\ s \in Path[b] /\ b \in Blocks
        /\ \A x \in Path[b] \ {s} : s \in Path[x] => x \in functional
    BY <1>1, <1>4 DEF FunctionalSubtree
  <2>2. \A x \in Path[b] : s \in Path[x] \/ x \in Path[s]
    BY <2>1, PathLinear
  <2>3. b \in Path[b]
    BY <2>1, PathStep
  <2> QED
    BY <2>1, <2>2, <2>3
<1> QED
    BY <1>2, <1>3, <1>4

(***************************************************************************)
(* The rows found by RowPrev are the successors by hash.                   *)
(***************************************************************************)
LEMMA NextFunctionalExact ==
    ASSUME Inv, NEW b \in rows
    PROVE  NextFunctional(b, functional) = {} <=> \A c \in functional : Prev[c] # b
BY TreeAssumption DEF Inv, NextFunctional, LinksExact, FindPrev, TypeOK

(***************************************************************************)
(* Chains that are completely functional when F are the functional rows.   *)
(***************************************************************************)
Complete(F) == {b \in F : /\ Path[b] \subseteq F
                          /\ \E g \in Path[b] : Height[g] = HeightGenesis}

(***************************************************************************)
(* A row other than a genesis state is on a complete chain exactly when it *)
(* is functional and its predecessor is on one.                            *)
(***************************************************************************)
LEMMA CompleteStep ==
    ASSUME NEW F \in SUBSET Blocks, NEW s \in F
    PROVE  s \in Complete(F) <=> \/ Height[s] = HeightGenesis
                                \/ Prev[s] \in Complete(F)
<1>1. s \in Path[s]
    BY PathStep
<1>2. CASE Prev[s] = NoBlock
  <2>1. Path[s] = {s}
    BY <1>2, PathStep
  <2>2. NoBlock \notin Complete(F)
    BY TreeAssumption DEF Complete
  <2> QED
    BY <1>2, <2>1, <2>2 DEF Complete
<1>3. CASE Prev[s] # NoBlock
  <2>1. /\ Path[s] = {s} \cup Path[Prev[s]] /\ Height[s] # HeightGenesis
        /\ Prev[s] \in Path[s] /\ Prev[s] \in Blocks
    BY <1>3, PathStep
  <2>2. Prev[s] \in Path[Prev[s]]
    BY <2>1, PathStep
  <2> QED
    BY <2>1, <2>2 DEF Complete
<1> QED
    BY <1>2, <1>3

(***************************************************************************)
(* The arrival of a body keeps the database valid: the chains it           *)
(* completes become reachable, all of them and no other.                   *)
(***************************************************************************)
LEMMA SetStateFunctionalInv ==
    ASSUME Inv, NEW s \in Blocks, SetStateFunctional(s)
    PROVE  Inv'
<1> USE DEF Inv
<1> DEFINE prev == IF Height[s] > HeightGenesis THEN rowPrev[s] ELSE NoBlock
           isR  == Height[s] = HeightGenesis \/ prev \in reachable
           walk == FunctionalSubtree(s, functional)
<1>0. /\ s \in rows /\ s \notin functional /\ functional' = functional \cup {s}
      /\ UNCHANGED << rows, rowPrev, active, countNext, tips, cursor >>
      /\ reachable' = IF isR THEN Toggle(reachable, walk \ {s}) \cup {s} ELSE reachable
    BY DEF SetStateFunctional
<1>1. prev = FindPrev(s)
  <2>1. Height[s] \in Nat \ {0} /\ (Height[s] = HeightGenesis => Prev[s] = NoBlock)
    BY PathStep, TreeAssumption
  <2>2. rowPrev[s] = FindPrev(s)
    BY <1>0 DEF LinksExact
  <2>3. NoBlock \notin rows
    BY TreeAssumption DEF TypeOK
  <2> HIDE DEF Inv, isR, walk
  <2> QED
    BY <2>1, <2>2, <2>3 DEF FindPrev, HeightGenesis
<1>2. \A b \in Blocks : b \in rows => (b = prev <=> Prev[s] = b)
    BY <1>1, TreeAssumption DEF FindPrev, TypeOK
<1>3. reachable = Complete(functional) /\ functional \subseteq Blocks
    BY DEF ReachableExact, Complete, TypeOK
<1>4. s \in Complete(functional') <=> isR
  <2>1. Prev[s] \in Complete(functional') <=> Prev[s] \in Complete(functional)
    <3>1. CASE Prev[s] = NoBlock
      BY <3>1, TreeAssumption, <1>0, <1>3 DEF Complete
    <3>2. CASE Prev[s] # NoBlock
      <4>1. Prev[s] \in Blocks /\ Prev[s] # s /\ Height[Prev[s]] < Height[s]
        BY <3>2, PathStep, TreeAssumption
      <4>2. s \notin Path[Prev[s]]
        BY <4>1, PathHeight, TreeAssumption
      <4> QED
        BY <1>0, <4>1, <4>2 DEF Complete
    <3> QED
      BY <3>1, <3>2
  <2>2. prev \in reachable <=> Prev[s] \in Complete(functional)
    <3>1. NoBlock \notin reachable
      BY TreeAssumption DEF TypeOK
    <3>2. Prev[s] \in Complete(functional) => Prev[s] \in rows
      BY <1>3 DEF TypeOK
    <3> QED
      BY <1>1, <1>3, <3>1, <3>2 DEF FindPrev
  <2> QED
    BY <1>0, <1>3, <2>1, <2>2, CompleteStep
<1>5. \A b \in Blocks : s \notin Path[b] => (b \in Complete(functional') <=> b \in Complete(functional))
  <2>1. \A b \in Blocks : b \in Path[b]
    BY PathStep
  <2> QED
    BY <1>0, <2>1 DEF Complete
<1>6. \A b \in Blocks : s \in Path[b] =>
           /\ b \notin Complete(functional)
           /\ b \in Complete(functional') <=> isR /\ b \in walk
  <2> SUFFICES ASSUME NEW b \in Blocks, s \in Path[b]
               PROVE  /\ b \notin Complete(functional)
                      /\ b \in Complete(functional') <=> isR /\ b \in walk
    OBVIOUS
  <2>1. b \notin Complete(functional)
    BY <1>0 DEF Complete
  <2>2. Path[s] \subseteq Path[b]
    BY PathTransitive
  <2>3. ASSUME b \in Complete(functional') PROVE isR /\ b \in walk
    <3>1. Path[b] \subseteq functional \cup {s} /\ b \in rows
      BY <1>0, <2>3 DEF Complete, TypeOK
    <3>2. b \in walk
      BY <1>0, <3>1, WalkIsSubtree
    <3>3. PICK g \in Path[b] : Height[g] = HeightGenesis
      BY <2>3 DEF Complete
    <3>4. g \in Path[s]
      <4>1. g \in Path[s] \/ s \in Path[g]
        BY <3>3, PathLinear
      <4>2. g \in Blocks
        BY <3>3, PathStep
      <4>3. Path[g] = {g}
        BY <3>3, <4>2, PathStep
      <4> QED
        BY <4>1, <4>3, PathStep
    <3>5. s \in Complete(functional')
      BY <1>0, <2>2, <3>1, <3>3, <3>4 DEF Complete
    <3> QED
      BY <1>4, <3>2, <3>5
  <2>4. ASSUME isR, b \in walk PROVE b \in Complete(functional')
    <3>1. s \in Complete(functional')
      BY <1>4, <2>4
    <3>2. Path[s] \subseteq functional \cup {s} /\ \E g \in Path[s] : Height[g] = HeightGenesis
      BY <1>0, <3>1 DEF Complete
    <3>3. Path[b] \subseteq functional \cup {s} /\ b \in functional \cup {s}
      BY <1>0, <2>4, <3>2, WalkIsSubtree
    <3> QED
      BY <1>0, <2>2, <3>2, <3>3 DEF Complete
  <2> QED
    BY <2>1, <2>3, <2>4
<1>7. /\ reachable' = Complete(functional')
      /\ isR => reachable' = reachable \cup walk
  <2>1. walk \cap reachable = {} /\ s \in walk /\ walk \subseteq Blocks
    BY <1>0, <1>3, <1>6, WalkIsSubtree DEF TypeOK
  <2>2. isR => reachable' = reachable \cup walk
    BY <1>0, <2>1 DEF Toggle
  <2>3. \A b \in walk : s \in Path[b]
    BY <1>0, WalkIsSubtree
  <2>4. Complete(functional') \subseteq Blocks /\ reachable \subseteq Blocks
    BY <1>0, <1>3 DEF Complete
  <2>5. CASE isR
    <3> HIDE DEF walk, isR
    <3> QED
    BY <1>3, <1>5, <1>6, <2>1, <2>2, <2>3, <2>4, <2>5
  <2>6. CASE ~ isR
    <3>1. reachable' = reachable
      BY <1>0, <2>6
    <3> HIDE DEF walk, isR
    <3> QED
    BY <1>3, <1>5, <1>6, <2>4, <2>6, <3>1
  <2> QED
    BY <2>2, <2>5, <2>6
<1>8. CountsExact' /\ countNextF' \in [Blocks -> Nat]
  <2>1. countNextF' = [b \in Blocks |-> IF b = prev THEN countNextF[b] + 1 ELSE countNextF[b]]
    BY DEF SetStateFunctional
  <2>2. ASSUME NEW b \in rows
        PROVE  countNextF'[b] = Cardinality(Succ(functional \cup {s}, b))
    <3>1. b \in Blocks
      BY DEF TypeOK
    <3>2. countNextF'[b] = IF Prev[s] = b THEN countNextF[b] + 1 ELSE countNextF[b]
      BY <1>2, <2>1, <3>1
    <3>3. IsFiniteSet(functional) /\ countNextF[b] = Cardinality(Succ(functional, b))
      BY Counters
    <3>4. Cardinality(Succ(functional \cup {s}, b)) =
             IF Prev[s] = b THEN Cardinality(Succ(functional, b)) + 1
                            ELSE Cardinality(Succ(functional, b))
      BY <1>0, <3>3, CountSuccAdd
    <3> HIDE DEF Inv, prev, isR, walk
    <3> QED
      BY <3>2, <3>3, <3>4
  <2>3. CountsExact'
    <3>1. \A b \in rows : countNext'[b] = countNext[b]
      BY <1>0
    <3> QED
      BY <1>0, <2>2, <3>1 DEF CountsExact, Succ
  <2> QED
    BY <2>1, <2>3 DEF TypeOK
<1>9. ReachableExact'
  <2>1. ASSUME NEW b \in reachable'
        PROVE  b \in tipsReachable' <=> \A c \in functional' : Prev[c] # b
    <3>1. b \in Blocks /\ b \in rows
      BY <1>0, <1>3, <1>7, <2>1 DEF Complete, TypeOK
    <3>2. (\A c \in functional' : Prev[c] # b) <=> Prev[s] # b /\ (\A c \in functional : Prev[c] # b)
      BY <1>0
    <3>3. CASE ~ isR
      <4>1. tipsReachable' = tipsReachable /\ b \in reachable /\ b # prev
        BY <1>0, <2>1, <3>3 DEF SetStateFunctional
      <4> QED
        BY <1>2, <3>1, <3>2, <4>1 DEF ReachableExact
    <3>4. CASE isR
      <4>1. tipsReachable' = (tipsReachable \ {x \in {prev} \cap Blocks : countNextF[x] = 0})
                               \cup {x \in walk : NextFunctional(x, functional) = {}}
        BY <3>4 DEF SetStateFunctional
      <4>2. CASE b \in walk
        <5>1. b \notin tipsReachable
          BY <1>0, <1>3, <1>6, <3>1, <4>2, WalkIsSubtree DEF TypeOK
        <5>2. b \in tipsReachable' <=> NextFunctional(b, functional) = {}
          BY <4>1, <4>2, <5>1
        <5>3. Prev[s] # b
          <6> SUFFICES ASSUME Prev[s] = b PROVE FALSE
            OBVIOUS
          <6>1. s \in Path[b]
            BY <1>0, <4>2, WalkIsSubtree
          <6>2. Height[s] = Height[b] + 1 /\ Height[s] \in Nat /\ Height[b] \in Nat
            BY <3>1, TreeAssumption
          <6> QED
            BY <3>1, <6>1, <6>2, PathHeight
        <5> QED
          BY <3>1, <3>2, <5>2, <5>3, NextFunctionalExact
      <4>3. CASE b \notin walk
        <5>1. b \in reachable
          BY <1>7, <2>1, <3>4, <4>3
        <5>2. b \in tipsReachable' <=> b \in tipsReachable /\ ~ (b = prev /\ countNextF[b] = 0)
          BY <3>1, <4>1, <4>3
        <5>3. b \in tipsReachable <=> \A c \in functional : Prev[c] # b
          BY <5>1 DEF ReachableExact
        <5>4. countNextF[b] = 0 <=> \A c \in functional : Prev[c] # b
          BY <3>1, Counters
        <5> QED
          BY <1>2, <3>1, <3>2, <5>2, <5>3, <5>4
      <4> QED
        BY <4>2, <4>3
    <3> QED
      BY <3>3, <3>4
  <2>2. tipsReachable' \subseteq reachable'
    <3>1. CASE isR
      <4>1. tipsReachable' \subseteq tipsReachable \cup walk
        BY <3>1 DEF SetStateFunctional
      <4> QED
        BY <1>7, <3>1, <4>1 DEF TypeOK
    <3>2. CASE ~ isR
      BY <1>0, <3>2 DEF SetStateFunctional, TypeOK
    <3> QED
      BY <3>1, <3>2
  <2> QED
    BY <1>7, <2>1, <2>2 DEF ReachableExact, Complete
<1>10. TypeOK'
    BY <1>0, <1>8, <1>9 DEF TypeOK, ReachableExact
<1>11. LinksExact' /\ TipsExact' /\ ActiveIsPath'
    BY <1>0 DEF LinksExact, FindPrev, TipsExact, ActiveIsPath
<1> QED
    BY <1>8, <1>9, <1>10, <1>11

(***************************************************************************)
(* Losing a body keeps the database valid.                                 *)
(***************************************************************************)
LEMMA SetStateNotFunctionalInv ==
    ASSUME Inv, NEW s \in Blocks, SetStateNotFunctional(s)
    PROVE  Inv'
<1> USE DEF Inv
<1> DEFINE prev == IF Height[s] > HeightGenesis THEN rowPrev[s] ELSE NoBlock
           isR  == s \in reachable
           walk == FunctionalSubtree(s, functional)
<1>0. /\ s \in rows /\ s \in functional /\ functional' = functional \ {s}
      /\ UNCHANGED << rows, rowPrev, active, countNext, tips, cursor >>
      /\ reachable' = IF isR THEN Toggle(reachable, walk \ {s}) \ {s} ELSE reachable
    BY DEF SetStateNotFunctional
<1>1. prev = FindPrev(s)
  <2>1. Height[s] \in Nat \ {0} /\ (Height[s] = HeightGenesis => Prev[s] = NoBlock)
    BY PathStep, TreeAssumption
  <2>2. rowPrev[s] = FindPrev(s)
    BY <1>0 DEF LinksExact
  <2>3. NoBlock \notin rows
    BY TreeAssumption DEF TypeOK
  <2> HIDE DEF Inv, isR, walk
  <2> QED
    BY <2>1, <2>2, <2>3 DEF FindPrev, HeightGenesis
<1>2. \A b \in Blocks : b \in rows => (b = prev <=> Prev[s] = b)
    BY <1>1, TreeAssumption DEF FindPrev, TypeOK
<1>3. reachable = Complete(functional) /\ functional \subseteq Blocks
    BY DEF ReachableExact, Complete, TypeOK
<1>4. \A b \in Blocks : s \notin Path[b] => (b \in Complete(functional') <=> b \in Complete(functional))
  <2>1. \A b \in Blocks : b \in Path[b]
    BY PathStep
  <2> QED
    BY <1>0, <2>1 DEF Complete
<1>5. \A b \in Blocks : s \in Path[b] =>
           /\ b \notin Complete(functional')
           /\ b \in Complete(functional) <=> isR /\ b \in walk
  <2> SUFFICES ASSUME NEW b \in Blocks, s \in Path[b]
               PROVE  /\ b \notin Complete(functional')
                      /\ b \in Complete(functional) <=> isR /\ b \in walk
    OBVIOUS
  <2>1. b \notin Complete(functional')
    BY <1>0 DEF Complete
  <2>2. Path[s] \subseteq Path[b]
    BY PathTransitive
  <2>3. ASSUME b \in Complete(functional) PROVE isR /\ b \in walk
    <3>1. Path[b] \subseteq functional /\ b \in rows
      BY <2>3 DEF Complete, TypeOK
    <3>2. b \in walk
      BY <1>0, <3>1, WalkIsSubtree
    <3>3. PICK g \in Path[b] : Height[g] = HeightGenesis
      BY <2>3 DEF Complete
    <3>4. g \in Path[s]
      <4>1. g \in Path[s] \/ s \in Path[g]
        BY <3>3, PathLinear
      <4>2. g \in Blocks
        BY <3>3, PathStep
      <4>3. Path[g] = {g}
        BY <3>3, <4>2, PathStep
      <4> QED
        BY <4>1, <4>3, PathStep
    <3>5. s \in Complete(functional)
      BY <1>0, <2>2, <3>1, <3>3, <3>4 DEF Complete
    <3> QED
      BY <1>3, <3>2, <3>5
  <2>4. ASSUME isR, b \in walk PROVE b \in Complete(functional)
    <3>1. Path[s] \subseteq functional /\ \E g \in Path[s] : Height[g] = HeightGenesis
      BY <1>3, <2>4 DEF Complete
    <3>2. Path[b] \subseteq functional \cup {s} /\ (b = s \/ b \in functional)
      BY <1>0, <2>4, <3>1, WalkIsSubtree
    <3> QED
      BY <1>0, <2>2, <3>1, <3>2 DEF Complete
  <2> QED
    BY <2>1, <2>3, <2>4
<1>6. /\ reachable' = Complete(functional')
      /\ isR => reachable' = reachable \ walk
  <2>1. s \in walk /\ walk \subseteq Blocks /\ \A b \in walk : s \in Path[b]
    BY <1>0, WalkIsSubtree DEF TypeOK
  <2>2. isR => walk \subseteq reachable
    BY <1>3, <1>5, <2>1
  <2>3. isR => reachable' = reachable \ walk
    BY <1>0, <2>1, <2>2 DEF Toggle
  <2>4. Complete(functional') \subseteq Blocks /\ reachable \subseteq Blocks
    BY <1>0, <1>3 DEF Complete
  <2>5. CASE isR
    <3> HIDE DEF walk, isR
    <3> QED
      BY <1>3, <1>4, <1>5, <2>1, <2>3, <2>4, <2>5
  <2>6. CASE ~ isR
    <3>1. reachable' = reachable
      BY <1>0, <2>6
    <3> HIDE DEF walk, isR
    <3> QED
      BY <1>3, <1>4, <1>5, <2>4, <2>6, <3>1
  <2> QED
    BY <2>3, <2>5, <2>6
<1>7. CountsExact' /\ countNextF' \in [Blocks -> Nat]
  <2>1. countNextF' = [b \in Blocks |-> IF b = prev THEN countNextF[b] - 1 ELSE countNextF[b]]
    BY DEF SetStateNotFunctional
  <2>2. ASSUME NEW b \in rows
        PROVE  countNextF'[b] = Cardinality(Succ(functional \ {s}, b))
    <3>1. b \in Blocks
      BY DEF TypeOK
    <3>2. countNextF'[b] = IF Prev[s] = b THEN countNextF[b] - 1 ELSE countNextF[b]
      BY <1>2, <2>1, <3>1
    <3>3. IsFiniteSet(functional) /\ countNextF[b] = Cardinality(Succ(functional, b))
      BY Counters
    <3>4. Cardinality(Succ(functional \ {s}, b)) =
             IF Prev[s] = b THEN Cardinality(Succ(functional, b)) - 1
                            ELSE Cardinality(Succ(functional, b))
      BY <1>0, <3>3, CountSuccRemove
    <3> HIDE DEF Inv, prev, isR, walk
    <3> QED
      BY <3>2, <3>3, <3>4
  <2>3. CountsExact'
    <3>1. \A b \in rows : countNext'[b] = countNext[b]
      BY <1>0
    <3> QED
      BY <1>0, <2>2, <3>1 DEF CountsExact, Succ
  <2>4. countNextF' \in [Blocks -> Nat]
    <3> SUFFICES ASSUME NEW b \in Blocks, b = prev PROVE countNextF[b] # 0
      BY <2>1 DEF TypeOK
    <3>1. b \in rows /\ Prev[s] = b
      BY <1>1, TreeAssumption DEF FindPrev
    <3> QED
      BY <1>0, <3>1, Counters
  <2> QED
    BY <2>3, <2>4
<1>8. \A b \in rows : countNextF'[b] = 0 <=> \A c \in functional' : Prev[c] # b
  <2>1. IsFiniteSet(functional \ {s})
    BY Counters, FS_RemoveElement
  <2>2. \A b \in rows : countNextF'[b] = Cardinality(Succ(functional \ {s}, b))
    BY <1>0, <1>7 DEF CountsExact, Succ
  <2> HIDE DEF Inv, prev, isR, walk
  <2>3. \A b : Cardinality(Succ(functional \ {s}, b)) = 0
                  <=> \A c \in functional \ {s} : Prev[c] # b
    BY <2>1, CountSucc
  <2> QED
    BY <1>0, <2>2, <2>3
<1>9. ReachableExact'
  <2>1. ASSUME NEW b \in reachable'
        PROVE  b \in tipsReachable' <=> \A c \in functional' : Prev[c] # b
    <3>1. b \in Blocks /\ b \in rows /\ b \in reachable
      BY <1>0, <1>3, <1>6, <2>1 DEF Complete, TypeOK
    <3>2. b \in tipsReachable <=> \A c \in functional : Prev[c] # b
      BY <3>1 DEF ReachableExact
    <3>3. CASE ~ isR
      <4>1. tipsReachable' = tipsReachable
        BY <3>3 DEF SetStateNotFunctional
      <4>2. Prev[s] # b
        BY <1>0, <1>3, <3>1, <3>3, CompleteStep
      <4> QED
        BY <1>0, <3>2, <4>1, <4>2
    <3>4. CASE isR
      <4>1. tipsReachable' = (tipsReachable \ {x \in walk : NextFunctional(x, functional) = {}})
                               \cup {x \in {prev} \cap Blocks : countNextF[x] = 1}
        BY <3>4 DEF SetStateNotFunctional
      <4>2. b \notin walk
        BY <1>6, <2>1, <3>4
      <4>3. CASE b = prev
        <5>1. countNextF'[b] = countNextF[b] - 1 /\ countNextF[b] \in Nat
          BY <3>1, <4>3 DEF SetStateNotFunctional, TypeOK
        <5>2. countNextF[b] = 0 <=> \A c \in functional : Prev[c] # b
          BY <3>1, Counters
        <5>3. Prev[s] = b
          BY <1>2, <3>1, <4>3
        <5>4. countNextF'[b] = 0 <=> \A c \in functional' : Prev[c] # b
          BY <1>8, <3>1
        <5>5. b \in tipsReachable' <=> b \in tipsReachable \/ countNextF[b] = 1
          <6> HIDE DEF Inv, prev, isR, walk
          <6> QED
            BY <3>1, <4>1, <4>2, <4>3
        <5> HIDE DEF Inv, prev, isR, walk
        <5> QED
          BY <1>0, <3>2, <5>1, <5>2, <5>3, <5>4, <5>5
      <4>4. CASE b # prev
        BY <1>0, <1>2, <3>1, <3>2, <4>1, <4>2, <4>4
      <4> QED
        BY <4>3, <4>4
    <3> QED
      BY <3>3, <3>4
  <2>2. tipsReachable' \subseteq reachable'
    <3>1. CASE isR
      <4>1. tipsReachable' = (tipsReachable \ {x \in walk : NextFunctional(x, functional) = {}})
                               \cup {x \in {prev} \cap Blocks : countNextF[x] = 1}
        BY <3>1 DEF SetStateNotFunctional
      <4>2. ASSUME NEW b \in tipsReachable, b \in walk PROVE NextFunctional(b, functional) = {}
        BY <4>2, NextFunctionalExact DEF TypeOK, ReachableExact
      <4>3. prev \in Blocks => prev \in reachable /\ prev \notin walk
        <5> SUFFICES ASSUME prev \in Blocks PROVE prev \in reachable /\ prev \notin walk
          OBVIOUS
        <5>1. Prev[s] = prev /\ prev \in rows /\ Height[s] # HeightGenesis
          <6>1. Height[s] = HeightGenesis => Prev[s] = NoBlock
            BY PathStep
          <6> HIDE DEF Inv, prev, isR, walk
          <6> QED
            BY <1>1, <6>1, TreeAssumption DEF FindPrev
        <5>2. prev \in reachable
          <6>1. s \in Complete(functional) /\ s \in functional
            BY <1>0, <1>3, <3>1
          <6> HIDE DEF Inv, prev, isR, walk
          <6> QED
            BY <1>3, <5>1, <6>1, CompleteStep
        <5>3. s \notin Path[prev]
          <6>1. Height[s] = Height[prev] + 1 /\ Height[s] \in Nat /\ Height[prev] \in Nat
            BY <5>1, TreeAssumption
          <6> QED
            BY <6>1, PathHeight
        <5> QED
          BY <1>0, <5>2, <5>3, WalkIsSubtree
      <4> QED
        BY <1>6, <3>1, <4>1, <4>2, <4>3 DEF TypeOK
    <3>2. CASE ~ isR
      BY <1>0, <3>2 DEF SetStateNotFunctional, TypeOK
    <3> QED
      BY <3>1, <3>2
  <2> QED
    BY <1>6, <2>1, <2>2 DEF ReachableExact, Complete
<1>10. TypeOK'
    BY <1>0, <1>7, <1>9 DEF TypeOK, ReachableExact
<1>11. LinksExact' /\ TipsExact' /\ ActiveIsPath'
    BY <1>0 DEF LinksExact, FindPrev, TipsExact, ActiveIsPath
<1> QED
    BY <1>7, <1>9, <1>10, <1>11

(***************************************************************************)
(* Moving the cursor to a successor keeps the database valid.              *)
(***************************************************************************)
LEMMA MoveFwdInv ==
    ASSUME Inv, NEW s \in Blocks, MoveFwd(s)
    PROVE  Inv'
<1> USE DEF Inv
<1>0. /\ s \in rows /\ rowPrev[s] = cursor /\ (cursor = NoBlock => Height[s] = HeightGenesis)
      /\ active' = active \cup {s} /\ cursor' = s
      /\ UNCHANGED << rows, rowPrev, functional, reachable, countNext, countNextF, tips, tipsReachable >>
    BY DEF MoveFwd
<1>1. TypeOK' /\ LinksExact' /\ CountsExact' /\ TipsExact' /\ ReachableExact'
    BY <1>0 DEF TypeOK, LinksExact, FindPrev, CountsExact, TipsExact, ReachableExact
<1>2. ActiveIsPath'
  <2>1. CASE cursor = NoBlock
    <3>1. Path[s] = {s}
      BY <1>0, <2>1, PathStep
    <3> QED
      BY <1>0, <2>1, <3>1, TreeAssumption DEF ActiveIsPath
  <2>2. CASE cursor # NoBlock
    <3>1. Prev[s] = cursor
      BY <1>0, <2>2 DEF LinksExact, FindPrev
    <3>2. Path[s] = {s} \cup Path[cursor]
      BY <2>2, <3>1, PathStep
    <3> QED
      BY <1>0, <2>2, <3>2, TreeAssumption DEF ActiveIsPath
  <2> QED
    BY <2>1, <2>2
<1> QED
    BY <1>1, <1>2

(***************************************************************************)
(* Moving the cursor to its predecessor keeps the database valid.          *)
(***************************************************************************)
LEMMA MoveBackInv ==
    ASSUME Inv, MoveBack
    PROVE  Inv'
<1> USE DEF Inv
<1>0. /\ cursor # NoBlock /\ active' = active \ {cursor} /\ cursor' = rowPrev[cursor]
      /\ UNCHANGED << rows, rowPrev, functional, reachable, countNext, countNextF, tips, tipsReachable >>
    BY DEF MoveBack
<1>1. cursor \in Blocks /\ cursor \in rows /\ active = Path[cursor] /\ active \subseteq rows
    BY <1>0 DEF TypeOK, ActiveIsPath
<1>2. cursor' = Prev[cursor]
    BY <1>0, <1>1, PathStep DEF LinksExact, FindPrev
<1>3. ActiveIsPath'
  <2>1. CASE Prev[cursor] = NoBlock
    BY <1>0, <1>1, <1>2, <2>1, PathStep DEF ActiveIsPath
  <2>2. CASE Prev[cursor] # NoBlock
    <3>1. /\ Path[cursor] = {cursor} \cup Path[Prev[cursor]] /\ Prev[cursor] \in Blocks
          /\ Height[cursor] # HeightGenesis
      BY <1>1, <2>2, PathStep
    <3>2. cursor \notin Path[Prev[cursor]]
      <4>1. Height[cursor] = Height[Prev[cursor]] + 1 /\ Height[Prev[cursor]] \in Nat
        BY <1>1, <2>2, <3>1, TreeAssumption
      <4> QED
        BY <1>1, <3>1, <4>1, PathHeight, PathStep
    <3>3. active' = Path[Prev[cursor]]
      BY <1>0, <1>1, <3>1, <3>2
    <3> QED
      BY <1>0, <1>1, <1>2, <2>2, <3>1, <3>3 DEF ActiveIsPath
  <2> QED
    BY <2>1, <2>2
<1>4. TypeOK'
  <2>1. cursor' \in rows \cup {NoBlock}
    BY <1>1, <1>2, PathStep
  <2> QED
    BY <1>0, <2>1 DEF TypeOK
<1>5. LinksExact' /\ CountsExact' /\ TipsExact' /\ ReachableExact'
    BY <1>0 DEF LinksExact, FindPrev, CountsExact, TipsExact, ReachableExact
<1> QED
    BY <1>3, <1>4, <1>5

-----------------------------------------------------------------------------
(***************************************************************************)
(* Whatever the tree of headers and however its operations interleave, the *)
(* database satisfies everything NodeDB::assert_valid asserts, and its     *)
(* flag Reachable means what db.h says.                                    *)
(***************************************************************************)
THEOREM DatabaseValid == Spec => []Inv
<1>1. Init => Inv
    BY InitInv
<1>2. Inv /\ [Next]_dbVars => Inv'
  <2> SUFFICES ASSUME Inv, [Next]_dbVars PROVE Inv'
    OBVIOUS
  <2>1. ASSUME NEW s \in Blocks, InsertState(s) PROVE Inv'
    BY <2>1, InsertStateInv
  <2>2. ASSUME NEW s \in Blocks, DeleteState(s) PROVE Inv'
    BY <2>2, DeleteStateInv
  <2>3. ASSUME NEW s \in Blocks, SetStateFunctional(s) PROVE Inv'
    BY <2>3, SetStateFunctionalInv
  <2>4. ASSUME NEW s \in Blocks, SetStateNotFunctional(s) PROVE Inv'
    BY <2>4, SetStateNotFunctionalInv
  <2>5. ASSUME NEW s \in Blocks, MoveFwd(s) PROVE Inv'
    BY <2>5, MoveFwdInv
  <2>6. CASE MoveBack
    BY <2>6, MoveBackInv
  <2>7. CASE UNCHANGED dbVars
    BY <2>7 DEF dbVars, Inv, TypeOK, LinksExact, FindPrev, CountsExact, TipsExact,
               ReachableExact, ActiveIsPath
  <2> QED
    BY <2>1, <2>2, <2>3, <2>4, <2>5, <2>6, <2>7 DEF Next
<1> QED
    BY <1>1, <1>2, PTL DEF Spec

(***************************************************************************)
(* The flag Reachable and the table TipsReachable are exact: TryGoUp never *)
(* overlooks a complete chain and never starts on an incomplete one.       *)
(***************************************************************************)
THEOREM ReachableCorrect == Spec => []ReachableExact
<1>1. Inv => ReachableExact
    BY DEF Inv
<1> QED
    BY <1>1, DatabaseValid, PTL

(***************************************************************************)
(* The child counters, links and tip table are exact, so ThrowInconsistent *)
(* and the changed-row tests of the tip operations never fire.             *)
(***************************************************************************)
THEOREM TablesCorrect == Spec => [](TypeOK /\ LinksExact /\ CountsExact /\ TipsExact)
<1>1. Inv => TypeOK /\ LinksExact /\ CountsExact /\ TipsExact
    BY DEF Inv
<1> QED
    BY <1>1, DatabaseValid, PTL

(***************************************************************************)
(* The rows flagged Active are the path from the cursor to a genesis state.*)
(***************************************************************************)
THEOREM ActiveCorrect == Spec => []ActiveIsPath
<1>1. Inv => ActiveIsPath
    BY DEF Inv
<1> QED
    BY <1>1, DatabaseValid, PTL
=============================================================================
