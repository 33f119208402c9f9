----------------------------- MODULE UtxoState -----------------------------
(***************************************************************************)
(* The unspent outputs of a node, kept twice: the table of transaction     *)
(* outputs (TXOs) in the database, one row per output with the height that *)
(* spent it, and the UTXO tree, whose leaf for a commitment and a maturity *)
(* holds a LIFO stack of the IDs of the equal outputs.  Applying a block   *)
(* (HandleBlock), giving it up half way (HandleValidatedTx backwards),     *)
(* rolling the chain back (RollbackTo), forgetting old spent outputs       *)
(* (RaiseTxoLo) and rebuilding the tree (InitializeUtxos) must keep the    *)
(* two together.                                                           *)
(*                                                                         *)
(* The tree pops by key, the table deletes by ID: that both name the same  *)
(* output is what the module is about.                                     *)
(***************************************************************************)
EXTENDS Integers, Sequences, FiniteSets, SequencesExt

CONSTANTS
  Commitments,  \* what an input and an output are matched by
  Incubations,  \* additional maturities an output may ask for
  Tip,          \* bound: blocks in the chain
  MaxIns,       \* bound: inputs of a block
  MaxOuts,      \* bound: outputs of a block
  MaxRollback   \* blocks whose undo data RaiseTxoLo leaves alone

ASSUME BoundsAssumption ==
  /\ Incubations \subseteq Nat
  /\ {Tip, MaxIns, MaxOuts, MaxRollback} \subseteq Nat

VARIABLES
  tree,    \* m_Utxos: key -> stack of IDs, top last
  txo,     \* TblTxo: ID -> the output and the height that spent it
  states,  \* the active states: m_Txos after the block, its StateInputs
  nTxos,   \* m_Extra.m_Txos
  txoLo,   \* m_Extra.m_TxoLo
  saved    \* history: the table as it was at each height

vars == <<tree, txo, states, nTxos, txoLo, saved>>

\* The height of no block: the spend height of an unspent output.
MaxHeight == Tip + 1

\* m_TxosTreasury of a chain without treasury: an artificial gap.
TxosTreasury == 1

Outputs == [c : Commitments, inc : Incubations]

Keys == {<<c, h + i>> : c \in Commitments, h \in 1..Tip, i \in Incubations}

-----------------------------------------------------------------------------
(* The tree's elements *)

Push(t, key, id) == [t EXCEPT ![key] = Append(@, id)]

\* A leaf without a stack is deleted; one that was just created too.
Pop(t, key) == [t EXCEPT ![key] = IF @ = <<>> THEN @ ELSE Front(@)]

\* The key of an output created at height h (Std maturity is zero).
get_MinMaturity(o, h) == <<o.c, h + o.inc>>

\* The leaves an input of a block at height h may take.
Spendable(t, c, h) ==
  {key \in DOMAIN t : key[1] = c /\ key[2] < h /\ t[key] # <<>>}

\* Traverse stops at the leaf of the lowest maturity; its top ID is spent.
InputFwd(u, c, h) ==
  LET keys == Spendable(u.tree, c, h)
      key  == CHOOSE k \in keys : \A l \in keys : k[2] <= l[2]
  IN IF u.ok /\ keys # {}
     THEN [ok |-> TRUE, tree |-> Pop(u.tree, key),
           used |-> Append(u.used, [key |-> key, id |-> Last(u.tree[key])])]
     ELSE [u EXCEPT !.ok = FALSE]

InputsFwd(t, ins, h) ==
  FoldLeft(LAMBDA u, c : InputFwd(u, c, h),
           [ok |-> TRUE, tree |-> t, used |-> <<>>], ins)

OutputsFwd(t, outs, h, n) ==
  FoldLeft(LAMBDA u, o : [tree |-> Push(u.tree, get_MinMaturity(o, h), u.n),
                          n |-> u.n + 1],
           [tree |-> t, n |-> n], outs)

\* A mutant: the inputs are given back in the order they were taken.
SameOrder(t, used) ==
  FoldLeft(LAMBDA u, x : Push(u, x.key, x.id), t, used)

\* HandleElementVecBwd: the last element first.
InputsBwd(t, used) ==
  FoldLeft(LAMBDA u, x : Push(u, x.key, x.id), t, Reverse(used))

OutputsBwd(t, outs, h) ==
  FoldLeft(LAMBDA u, o : Pop(u, get_MinMaturity(o, h)), t, Reverse(outs))

-----------------------------------------------------------------------------
(* The table *)

\* FindStateByTxoID: the first block after which the ID is taken.
FindStateByTxoID(id) ==
  CHOOSE h \in 1..Len(states) :
    /\ id < states[h].txos
    /\ \A g \in 1..(h - 1) : states[g].txos <= id

\* m_Txos before the block of height h + 1.
get_TxosBefore(h) == IF h = 0 THEN TxosTreasury ELSE states[h].txos

ToInputWithMaturity(id) == get_MinMaturity(txo[id], FindStateByTxoID(id))

IsUnspent(table, id) == table[id].spent = MaxHeight

\* A mutant: the walk starts after the first output of the range.
SkipFirst(table, id0) ==
  SetToSortSeq({id \in DOMAIN table : id > id0 /\ IsUnspent(table, id)}, <)

\* The rows the walker of unspent outputs visits, in the order of their IDs.
EnumTxos(table, id0) ==
  SetToSortSeq({id \in DOMAIN table : id >= id0 /\ IsUnspent(table, id)}, <)

-----------------------------------------------------------------------------
Init ==
  /\ tree = [key \in Keys |-> <<>>]
  /\ txo = <<>>
  /\ states = <<>>
  /\ nTxos = TxosTreasury
  /\ txoLo = 0
  /\ saved = <<>>

\* The rows of a block's outputs, and the spend height of its inputs.
Recorded(used, outs, h) ==
  LET spent == {used[i].id : i \in DOMAIN used}
      new   == nTxos .. (nTxos + Len(outs) - 1)
  IN [id \in DOMAIN txo \cup new |->
        IF id \in new
        THEN [c |-> outs[id - nTxos + 1].c, inc |-> outs[id - nTxos + 1].inc,
              spent |-> MaxHeight]
        ELSE IF id \in spent THEN [txo[id] EXCEPT !.spent = h] ELSE txo[id]]

\* A block applies.  A gap in the IDs keeps the blocks apart.
HandleBlock(ins, outs) ==
  LET h == Len(states) + 1
      u == InputsFwd(tree, ins, h)
      v == OutputsFwd(u.tree, outs, h, nTxos)
      table == Recorded(u.used, outs, h)
  IN /\ h <= Tip
     /\ u.ok
     /\ \A i \in DOMAIN u.used : u.used[i].id \in DOMAIN txo
     /\ tree' = v.tree
     /\ nTxos' = v.n + 1
     /\ txo' = table
     /\ states' = Append(states,
                    [txos |-> v.n + 1,
                     ins  |-> [i \in DOMAIN u.used |-> u.used[i].id]])
     /\ saved' = Append(saved, table)
     /\ UNCHANGED txoLo

\* An input is missing: the ones already taken are given back.
InputMissing(ins) ==
  LET u == InputsFwd(tree, ins, Len(states) + 1)
  IN /\ Len(states) < Tip
     /\ ~u.ok
     /\ tree' = InputsBwd(u.tree, u.used)
     /\ UNCHANGED <<txo, states, nTxos, txoLo, saved>>

\* A kernel, or the Definition the header states, is wrong: all is undone.
KernelOrDefinitionWrong(ins, outs) ==
  LET h == Len(states) + 1
      u == InputsFwd(tree, ins, h)
      v == OutputsFwd(u.tree, outs, h, nTxos)
  IN /\ h <= Tip
     /\ u.ok
     /\ tree' = InputsBwd(OutputsBwd(v.tree, outs, h), u.used)
     /\ nTxos' = v.n - Len(outs)
     /\ UNCHANGED <<txo, states, txoLo, saved>>

\* A mutant: only the top block's inputs are given back.
TopBlockOnly(h, id0) ==
  SelectSeq(states[Len(states)].ins, LAMBDA id : id < id0)

\* RollbackTo, the IDs of the inputs it gives back, from the top block down.
\* Outputs created and spent within the range are skipped.
UndoneInputs(h, id0) ==
  LET n == Len(states) - h
  IN SelectSeq(FlattenSeq([k \in 1..n |-> states[Len(states) + 1 - k].ins]),
               LAMBDA id : id < id0)

\* RollbackTo does not test TxoLo.  The guard txoLo <= h states what its
\* callers are relied on for: Horizon::Normalize keeps m_Local.Lo above
\* MaxRollback, so that TxoLo stays below what a reorganization undoes.
RollbackTo(h) ==
  LET id0   == get_TxosBefore(h)
      ids   == UndoneInputs(h, id0)
      given == FoldLeft(LAMBDA t, id : Push(t, ToInputWithMaturity(id), id),
                        tree, ids)
      table == [id \in DOMAIN txo |->
                  IF id \in Range(ids)
                  THEN [txo[id] EXCEPT !.spent = MaxHeight] ELSE txo[id]]
  IN /\ txoLo <= h /\ h < Len(states)
     /\ tree' = FoldLeft(LAMBDA t, id : Pop(t, ToInputWithMaturity(id)),
                         given, EnumTxos(table, id0))
     /\ txo' = [id \in {i \in DOMAIN txo : i < id0} |-> table[id]]
     /\ states' = SubSeq(states, 1, h)
     /\ nTxos' = id0
     /\ saved' = SubSeq(saved, 1, h)
     /\ UNCHANGED txoLo

\* The inputs of old blocks, and the rows they spent, are forgotten.
RaiseTxoLo(hTrg) ==
  LET gone == UNION {Range(states[h].ins) : h \in (txoLo + 1)..hTrg}
  IN /\ txoLo < hTrg /\ hTrg + MaxRollback <= Len(states)
     /\ txo' = [id \in DOMAIN txo \ gone |-> txo[id]]
     /\ states' = [h \in DOMAIN states |->
                     IF txoLo < h /\ h <= hTrg
                     THEN [states[h] EXCEPT !.ins = <<>>] ELSE states[h]]
     /\ txoLo' = hTrg
     /\ UNCHANGED <<tree, nTxos, saved>>

\* A restart that cannot use the saved image builds the tree from the table.
InitializeUtxos ==
  /\ tree' = FoldLeft(LAMBDA t, id : Push(t, ToInputWithMaturity(id), id),
                      [key \in Keys |-> <<>>], EnumTxos(txo, 0))
  /\ UNCHANGED <<txo, states, nTxos, txoLo, saved>>

BlockInputs  == UNION {[1..n -> Commitments] : n \in 0..MaxIns}
BlockOutputs == UNION {[1..n -> Outputs] : n \in 0..MaxOuts}

Next ==
  \/ \E ins \in BlockInputs, outs \in BlockOutputs :
        HandleBlock(ins, outs) \/ KernelOrDefinitionWrong(ins, outs)
  \/ \E ins \in BlockInputs : InputMissing(ins)
  \/ \E h \in 0..Tip : RollbackTo(h) \/ RaiseTxoLo(h)
  \/ InitializeUtxos

Spec == Init /\ [][Next]_vars

-----------------------------------------------------------------------------
(* What must hold *)

\* The rows, the stacks and the counters are of their types.
TypeOK ==
  /\ DOMAIN tree = Keys
  /\ \A key \in Keys : tree[key] \in Seq(0..(nTxos - 1))
  /\ \A id \in DOMAIN txo :
        /\ id \in TxosTreasury..(nTxos - 1)
        /\ txo[id] \in [c : Commitments, inc : Incubations, spent : 1..MaxHeight]
  /\ nTxos = get_TxosBefore(Len(states))
  /\ txoLo \in 0..Len(states)
  /\ Len(saved) = Len(states)

\* The IDs on the stack of a key are the unspent rows of the table with that
\* commitment and maturity, each once: the next input to spend the key marks
\* a row that exists, is unspent and is worth what the leaf says.
TreeMatchesTable ==
  \A key \in Keys :
    /\ IsInjective(tree[key])
    /\ Range(tree[key]) =
         {id \in DOMAIN txo : IsUnspent(txo, id) /\ ToInputWithMaturity(id) = key}

\* A block refused after any part of it was applied leaves the stacks and the
\* counter exactly as they were, the order of equal outputs included.
FailedBlockLeavesNoTrace ==
  [][\A ins \in BlockInputs, outs \in BlockOutputs :
        InputMissing(ins) \/ KernelOrDefinitionWrong(ins, outs)
          => UNCHANGED <<tree, nTxos>>]_vars

\* Every ID on a stack has its row: what TxoSetSpent's TestChanged1Row, which
\* throws when no row is updated, takes for granted of the input it marks.
SpentRowExists ==
  \A key \in Keys : Range(tree[key]) \subseteq DOMAIN txo

\* RollbackTo(h) gives back the table of height h: every output that is
\* unspent there is unspent again, none created later stays, and only rows
\* RaiseTxoLo was entitled to forget are missing.
RollbackRestores ==
  \A h \in {Len(states)} \ {0} :
    txo = [id \in {i \in DOMAIN saved[h] : saved[h][i].spent > txoLo}
             |-> saved[h][id]]
=============================================================================
