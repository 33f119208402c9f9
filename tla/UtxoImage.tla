----------------------------- MODULE UtxoImage -----------------------------
(***************************************************************************)
(* The memory-mapped image of the UTXO tree beside the database.  The tree *)
(* is changed in place, in a shared mapping: whatever was written when the *)
(* process dies stays in the file, while the database loses the            *)
(* transaction it had not committed.  A dirty flag and a stamp, which      *)
(* CommitUtxosAndDB puts into the database first and into the file's       *)
(* header last, tell a restart whether the image belongs to the committed  *)
(* state; TestDefinition looks at the tree's hash; otherwise the tree is   *)
(* rebuilt from the database.                                              *)
(*                                                                         *)
(* A state of the database determines the tree it stands for, so the       *)
(* module identifies the two: States are both, Torn is a tree that belongs *)
(* to no state (a block half applied).  Losing mapped pages that the       *)
(* system had not written (a power failure) is not modelled.               *)
(***************************************************************************)
EXTENDS Integers

CONSTANTS
  States,      \* database states, each with its tree
  Empty,       \* the state without any output
  NoHeight,    \* states below the first block: the image is not used
  Checked,     \* states whose Definition TestDefinition can compare
  Torn,        \* a tree of no state
  NoHash,      \* the tree's hash is not cached
  MaxStamp     \* bound: stamps the database gives out

ASSUME StatesAssumption ==
  /\ Empty \in NoHeight
  /\ NoHeight \subseteq States
  /\ Checked \subseteq States
  /\ Torn \notin States /\ NoHash \notin States \cup {Torn}
  /\ MaxStamp \in Nat

VARIABLES
  dbState, dbStamp,    \* committed: the cursor's state, ParamID::UtxoStamp
  curState, curStamp,  \* the same in the open transaction
  tree,                \* the mapped nodes
  hash,                \* the hash cached in the nodes, NoHash if invalidated
  dirty, root, stamp,  \* the header; root is the tree m_Root belongs to
  next,                \* the state the change in progress leads to
  pc                   \* where the node is

vars == <<dbState, dbStamp, curState, curStamp, tree, hash, dirty, root, stamp,
          next, pc>>
db   == <<dbState, dbStamp>>
hdr  == <<dirty, root, stamp>>

Trees == States \cup {Torn}

Init ==
  /\ dbState = Empty /\ dbStamp = 0
  /\ curState = Empty /\ curStamp = 0
  /\ tree = Empty /\ hash = NoHash
  /\ dirty = 0 /\ root = Empty /\ stamp = 0
  /\ next = Empty
  /\ pc = "down"

-----------------------------------------------------------------------------
(* Initialize *)

\* The file is truncated: an empty tree and a header of zeroes.
Reset ==
  /\ tree' = Empty /\ hash' = NoHash
  /\ dirty' = 0 /\ root' = Empty /\ stamp' = 0
  /\ pc' = "rebuild"

\* UtxoTreeMapped::Open: m_RootOffset is the header's root, whatever it is.
Reuse ==
  /\ tree' = IF root = tree THEN tree ELSE Torn
  /\ pc' = "test"
  /\ UNCHANGED <<hash, hdr>>

\* The stamp asked for is an impossible one when there is no height, or none
\* was stored.
Accepted ==
  /\ dbState \notin NoHeight /\ dbStamp # 0
  /\ dirty = 0
  /\ stamp = dbStamp

InitUtxoMapping ==
  /\ pc = "down"
  /\ curState' = dbState /\ curStamp' = dbStamp
  /\ IF Accepted THEN Reuse ELSE Reset
  /\ UNCHANGED <<db, next>>

\* The hash is the cached one where the nodes are not invalidated.
HashOf == IF hash = NoHash THEN tree ELSE hash

\* RadixHashTree::get_Hash caches what it evaluates, and marks the image.
get_Hash ==
  IF hash = NoHash /\ tree # Empty
  THEN hash' = tree /\ dirty' = 1
  ELSE UNCHANGED <<hash, dirty>>

TestDefinition ==
  /\ pc = "test"
  /\ IF curState \in Checked /\ HashOf # curState
     THEN Reset
     ELSE /\ pc' = "run"
          /\ IF curState \in Checked THEN get_Hash ELSE UNCHANGED <<hash, dirty>>
          /\ UNCHANGED <<tree, root, stamp>>
  /\ UNCHANGED <<db, curState, curStamp, next>>

\* InitializeUtxos without an image: every unspent output is pushed.
Rebuild ==
  /\ pc = "rebuild"
  /\ IF curState = Empty
     THEN pc' = "run" /\ UNCHANGED <<tree, dirty, next>>
     ELSE tree' = Torn /\ dirty' = 1 /\ next' = curState /\ pc' = "change"
  /\ UNCHANGED <<db, curState, curStamp, hash, root, stamp>>

-----------------------------------------------------------------------------
(* A block applied, undone or rolled back: a sequence of elements *)

\* A mutant: the nodes change and the flag stays.
NotMarked(t) ==
  /\ pc = "run"
  /\ tree' = Torn /\ hash' = NoHash
  /\ next' = t
  /\ pc' = "change"
  /\ UNCHANGED <<db, curState, curStamp, hdr>>

\* The first element creates or deletes a leaf: OnDirty precedes the change.
ChangeLeaf(t) ==
  /\ pc = "run"
  /\ dirty' = 1
  /\ tree' = Torn /\ hash' = NoHash
  /\ next' = t
  /\ pc' = "change"
  /\ UNCHANGED <<db, curState, curStamp, root, stamp>>

\* It pushes or pops an ID of a leaf that stays: the change comes first,
ChangeID(t) ==
  /\ pc = "run"
  /\ tree' = Torn
  /\ next' = t
  /\ pc' = "id"
  /\ UNCHANGED <<db, curState, curStamp, hash, hdr>>

\* then InvalidateElement and OnDirty.
MarkID ==
  /\ pc = "id"
  /\ hash' = NoHash
  /\ dirty' = 1
  /\ pc' = "change"
  /\ UNCHANGED <<db, curState, curStamp, tree, root, stamp, next>>

\* A mutant: the cursor moves and the last element is missing.
CursorFirst ==
  /\ pc = "change"
  /\ curState' = tree
  /\ hash' = NoHash
  /\ pc' = "run"
  /\ UNCHANGED <<db, curStamp, tree, hdr, next>>

\* The last element; the hash may have been evaluated, for the Definition.
Changed ==
  /\ pc = "change"
  /\ tree' = next
  /\ curState' = next
  /\ hash' \in IF next = Empty THEN {NoHash} ELSE {NoHash, next}
  /\ pc' = "run"
  /\ UNCHANGED <<db, curStamp, hdr, next>>

\* The hash is asked for between blocks, for a block template.
Evaluate ==
  /\ pc = "run"
  /\ get_Hash
  /\ UNCHANGED <<db, curState, curStamp, tree, root, stamp, next, pc>>

-----------------------------------------------------------------------------
(* CommitUtxosAndDB *)

\* A mutant: the stamp in the database stays.
SameStamp ==
  /\ pc = "run"
  /\ dirty = 1 => curStamp < MaxStamp
  /\ curStamp' = IF curStamp = 0 THEN 1 ELSE curStamp
  /\ pc' = IF dirty = 1 THEN "dirty" ELSE "run"
  /\ dbState' = curState /\ dbStamp' = curStamp'
  /\ UNCHANGED <<curState, tree, hash, hdr, next>>

\* The next stamp is the hash of the previous one, a fresh value.
Commit ==
  /\ pc = "run"
  /\ dirty = 1 => curStamp < MaxStamp
  /\ curStamp' = IF dirty = 1 THEN curStamp + 1 ELSE curStamp
  /\ pc' = IF dirty = 1 THEN "dirty" ELSE "run"
  /\ dbState' = curState /\ dbStamp' = curStamp'
  /\ UNCHANGED <<curState, tree, hash, hdr, next>>

\* FlushStrict: the flag, the root, the stamp.
FlushDirty ==
  /\ pc = "dirty"
  /\ dirty' = 0
  /\ pc' = "root"
  /\ UNCHANGED <<db, curState, curStamp, tree, hash, root, stamp, next>>

FlushRoot ==
  /\ pc = "root"
  /\ root' = tree
  /\ pc' = "stamp"
  /\ UNCHANGED <<db, curState, curStamp, tree, hash, dirty, stamp, next>>

\* A mutant: the header keeps the stamp of the previous flush.
StampForgotten ==
  /\ pc = "stamp"
  /\ pc' = "run"
  /\ UNCHANGED <<db, curState, curStamp, tree, hash, hdr, next>>

FlushStamp ==
  /\ pc = "stamp"
  /\ stamp' = curStamp
  /\ pc' = "run"
  /\ UNCHANGED <<db, curState, curStamp, tree, hash, dirty, root, next>>

\* The process dies; the mapping is shared, so the file keeps every write.
KillAt(places) ==
  /\ pc \in places
  /\ pc' = "down"
  /\ UNCHANGED <<db, curState, curStamp, tree, hash, hdr, next>>

Kill == KillAt({"test", "rebuild", "run", "change", "dirty", "root", "stamp"})

\* The same between PopID or PushID and OnDirty.
KillInside == KillAt({"id"})

Work ==
  \/ InitUtxoMapping \/ TestDefinition \/ Rebuild
  \/ MarkID \/ Changed
  \/ FlushDirty \/ FlushRoot \/ FlushStamp

Next ==
  \/ Work
  \/ \E t \in States : ChangeLeaf(t) \/ ChangeID(t)
  \/ Evaluate
  \/ Commit
  \/ Kill

Spec == Init /\ [][Next]_vars

\* With kills inside an element too.
SpecKillInside == Init /\ [][Next \/ KillInside]_vars

-----------------------------------------------------------------------------
(* What must hold *)

\* The committed and the open state, the header and the tree are of their
\* types.
TypeOK ==
  /\ dbState \in States /\ curState \in States /\ next \in States
  /\ dbStamp \in 0..MaxStamp /\ curStamp \in 0..MaxStamp
  /\ stamp \in 0..MaxStamp
  /\ tree \in Trees /\ root \in Trees
  /\ hash \in Trees \cup {NoHash}
  /\ dirty \in {0, 1}
  /\ pc \in {"down", "test", "rebuild", "run", "id", "change", "dirty", "root",
             "stamp"}

\* Whenever the node is between blocks the mapped tree is the tree of the
\* database's current state, wherever the process was killed before and
\* however Initialize came by the tree.
ImageIsCurrent == pc = "run" => tree = curState

\* A clean image in the hands of a running node carries the stamp of the
\* database, so that a kill at this point costs no rebuild.
CleanIsReusable ==
  pc = "run" /\ dirty = 0 /\ curState \notin NoHeight
    => stamp = dbStamp /\ root = tree /\ curState = dbState

-----------------------------------------------------------------------------
(* Why: the inductive invariant *)

\* The stamp in the file was committed before.  A clean header with the
\* database's stamp belongs to the committed tree, its root and its hash,
\* wherever the process is or was killed: what Initialize relies on.
StampMeansCommitted ==
  /\ stamp <= dbStamp
  /\ pc # "id" /\ dirty = 0 /\ stamp = dbStamp /\ dbStamp # 0
       => tree = dbState /\ root = tree /\ hash \in {NoHash, tree}

\* The image and the transaction at each place of the node.
PlaceOK ==
  /\ pc # "down" => curStamp = dbStamp
  /\ pc = "test" =>
        /\ curState = dbState /\ tree = dbState /\ root = tree
        /\ dirty = 0 /\ stamp = dbStamp /\ hash \in {NoHash, tree}
  /\ pc = "rebuild" =>
        curState = dbState /\ tree = Empty /\ root = tree /\ dirty = 0 /\ hash = NoHash
  /\ pc = "run" =>
        /\ tree = curState /\ hash \in {NoHash, tree}
        /\ dirty = 0 => /\ curState = dbState /\ root = tree
                        /\ stamp = dbStamp \/ curState = Empty
  /\ pc = "change" => dirty = 1 /\ hash = NoHash
  /\ pc \in {"dirty", "root", "stamp"} =>
        /\ tree = curState /\ curState = dbState /\ hash \in {NoHash, tree}
        /\ stamp < dbStamp
  /\ pc = "stamp" => root = tree

ImageInv == TypeOK /\ StampMeansCommitted /\ PlaceOK
=============================================================================
