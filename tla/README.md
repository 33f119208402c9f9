# A TLA+ development of the Beam node

Beam (`src/`) is a Mimblewimble blockchain in C++: a full node, wallets and
tools. This directory holds a model of the node's core: which chain it selects,
what it keeps of the unspent outputs, and what survives when it is killed. TLC
checks the models on small instances, TLAPS proves the central facts for every
value of the constants.

## The system

| part | where | state | operations and what makes them hard |
|---|---|---|---|
| header tree | `node/db.cpp` | tables `States`, `Tips`, `TipsReachable`, cursor | headers and bodies arrive and leave in any order; flags, counters and tips are maintained incrementally |
| chain selection | `node/processor.cpp`: `OnState`, `OnBlock`, `TryGoUp`, `TryGoTo`, `RollbackTo`, `PruneOld`, `RaiseFossil` | cursor, columns of a state, `m_Extra` | blocks are recorded before the verifier threads have answered; several peers in one batch; failure half way up |
| unspent outputs | `processor.cpp`, `core/radixtree.cpp` | UTXO tree with a stack of IDs per leaf, TXO table, state inputs | tree pops by key, table deletes by ID; partial failure; rollback over several blocks |
| UTXO image | `core/radixtree.cpp`, `core/mapped_file.cpp`, `CommitUtxosAndDB` | mapped file with dirty flag, root, stamp | the process may die between any two writes |
| fast-sync | `processor.cpp` (`m_SyncData`, `OnFastSyncOver`, `OnFastSyncFailed`) | target, start height, sum | persisted half way, retried |
| congestion cache | `processor.cpp:387-678` | cached header ranges | stale rows |
| kernels, shielded pool, assets | `processor.cpp`, `core/shielded.cpp` | kernel table, MMRs, asset table | apply and undo |
| pools, Dandelion | `node/txpool.cpp`, `node/node.cpp` | stem and fluff pools, timers | aggregation races timeouts |
| peers and tasks | `node/node.cpp`, `core/peer_manager.cpp` | tasks, ratings | disconnects, timeouts, late answers |
| light client | `core/fly_client.cpp` | history, requests | reorganisations |
| wallet, swaps, channels | `wallet/`, `core/lightning.cpp`, `core/negotiator.cpp` | transactions, coins, channel states | late or repeated messages, restarts, two chains |
| protocol, I/O, timers | `core/proto.cpp`, `p2p/`, `utility/` | connections, queues | framing, ordering |
| cryptography | `core/ecc*.cpp`, `core/lelantus.cpp`, `pow/` | - | large numbers |

The node's reactor thread handles one message or timer at a time. A body that
arrives goes to the database (`OnBlock`), which asks for a run of `TryGoUp` by a
timer; `TryGoUp` climbs towards the reachable tip of largest chainwork, changing
the UTXO tree block by block, while the executor's threads verify signatures
and range proofs; `CommitUtxosAndDB` later makes database and image durable.

## Modules

`NodeDB` <- `Processor` (by `INSTANCE`, the same variables); `UtxoState` and
`UtxoImage` stand by themselves and split the UTXO tree's concerns: what is in
it, and whether the file holds it.

**NodeDB** models the header tree. A header names its predecessor by hash, so
the shape of the tree (`Prev`, `Height`, `Path`) is constant; which headers are
stored, linked, functional, reachable, active is state. Actions are the
functions of the same names. `OnStateReachable`'s recursion is replaced by the
set of rows it visits (`FunctionalSubtree`).

**Processor** models chain selection. A body is one of four kinds: fine, not
decodable, wrong in its context, or rejected by the verifiers. One `TryGoUp` is
cut into steps of at most one database operation; `pc` says where it is, and no
message is handled unless `pc = "idle"`. A verifier's report may come at any
time (`VerifierFails`, `MaybeReported`). `m_pidLast`, which the constructor of
`MultiblockContext` leaves uninitialised, is any peer when it is used unset.
The node is configured without fast-sync, so `m_SyncData` is zero; the
comparison of `m_InProgress.m_Max` with the zero target height is kept, since
it is true for a walk from height zero over blocks validated before. The
`OnFastSyncOver` it calls is modelled for chains without naked outputs, where it
succeeds: its failure branch (`processor.cpp:1544-1586`), and `bKeepBlocks`, which
only that branch sets, are left out.

**UtxoState** models the outputs: leaves are stacks of IDs, blocks are short
sequences of inputs and outputs. `HandleBlock`, the two ways it fails
(`InputMissing`, `KernelOrDefinitionWrong`), `RollbackTo`, `RaiseTxoLo` and
`InitializeUtxos` (a restart without image) are the actions. `saved` is a
history variable: the table at each height. `RollbackTo` in the code does not
look at `TxoLo`; the model's guard `txoLo <= h` is an assumption about its callers.
`Horizon::Normalize` (`processor.cpp:60-79`) justifies it: it makes `m_Local.Lo`
larger than `MaxRollback`, so that `PruneOld` keeps `TxoLo` below the blocks a
reorganization undoes.

**UtxoImage** models the file. A database state and its tree are one value;
`Torn` is a tree of no state. A change is split at the order of its writes: a
leaf created or deleted is marked dirty first, an ID pushed or popped changes
the leaf first. `KillAt` is external: the process dies, the shared mapping keeps
every write, the database loses the open transaction.

## Runs

| run | checks | states |
|---|---|---|
| `nodedb` | flags, counters and tables are what a full scan computes | 7,803 |
| `processor` | best chain, verified records, just blame, pruning, rollback data, bodies and flags, legal calls; termination | 99,051 |
| `processor_roots` | two genesis blocks, where the zero target is taken for reached in the middle of a walk: verified records, legal calls | 53,014 |
| `utxo_state` | tree and table name the same outputs; a rollback restores the table; a refused block leaves no trace | 11,187 |
| `utxo_image` | no kill lets a wrong image be used; a clean one is usable | 4,417 |

Seven further runs show where the code disagrees with what it says of itself:

- `assert_fossil`: a header is accepted at `cursor - MaxRollback`, and its branch
  point, where `RollbackTo` must go, is one lower, below the fossil height the
  assertion at `processor.cpp:3554` demands. `RollbackDataKept`, which holds, is
  about the heights above the fossil height only.
- `assert_in_progress`: over blocks validated before, `m_InProgress` stays behind
  the cursor, against the assertion at `processor.cpp:1256`. When the first new
  block fails, the validated ones below it are rolled back and deleted with it,
  also when they are the chain the node was on before the run.
- `assert_target_work`: a header may claim less work than its predecessor, and
  the best tip is then below the cursor, against `processor.cpp:1396`.
- `already_at_maximum`: for the same reason the best tip may equal the cursor
  while its predecessor, reachable too, claims more; `TryGoUp` stops there as
  "already at maximum" (`processor.cpp:1398`).
- `return_height`: `OnFastSyncOver` in the middle of a walk from height zero raises
  `TxoHi` and the fossil height to the cursor and deletes the other branch; when a
  later block of the walk fails, the cursor goes back to height zero, below the
  "lowest height to which it's possible to rollback" (`processor.h:316`), and
  states below that height are refused from then on.
- `utxo_incubation`: `RollbackTo` gives the inputs of a block back in forward
  order, which reverses a stack of equal outputs; when these were created in
  different blocks and have the same maturity, a second rollback removes the
  wrong ID, and the tree holds an ID whose row is gone. `TxoSetSpent` throws for
  such an ID. With one maturity per height (`utxo_state`) equal keys come from
  one block only, and nothing goes wrong.
- `utxo_image_kill`: a kill between `PopID` and `OnDirty` leaves a clean header
  and a cached hash over a changed tree. The proofs and `utxo_image` are about
  kills everywhere else.

### What the properties of chain selection assume and leave open

- `BestChain` assumes that claimed chainworks grow along a branch (`ClaimsGrow`,
  part of the property). Headers are stored without a test of it; what happens
  otherwise is the subject of `assert_target_work` and `already_at_maximum`.
- `BlameIsJust` says nothing of a walk that ends at a block that cannot be
  deserialized. `m_pidLast` is then the peer of an earlier block or uninitialised,
  and an innocent peer may be reported. What is deleted on that account is still
  only what may be deleted (`CallsAreLegal`).
- `BodiesMatchFlags` ties the bodies to the flag `Functional`, which `NodeDB` alone
  cannot: there a body is not part of the state. It excepts states at or below
  the fossil height, from which `RaiseFossil` takes the body and not the flag.
- `GoUpHappens` is about the timer. A body lost between two runs would show in
  `BestChain`.
- In `utxo_state` equal keys come from one block only. The effect of the order in
  which inputs are given back across blocks shows in `SpentRowExists`
  (`utxo_incubation`) and not in `TreeMatchesTable`.

### Bounds

- `nodedb`: seven headers: a fork in the middle of a chain, a second genesis, an
  orphan whose predecessor never comes. That has every position a header can
  have relative to an insertion or a walk; the proofs cover all trees.
- `processor`: six headers in two branches whose chainworks interleave, so that
  the cursor changes sides up to three times; two peers; every kind of bad body
  at a different height; `MaxRollback` 2 and `Branching` 1, so that pruning and
  fossils happen. `assert_fossil` has `MaxRollback` 1; `assert_target_work` and
  `already_at_maximum` have one header that claims less than its predecessor.
- `processor_roots`, `return_height`: five headers on two genesis blocks;
  `MaxRollback` 3 is the height of the tree, so that nothing but `OnFastSyncOver`
  raises the fossil height.
- `utxo_state`: two commitments, three blocks of up to two inputs and outputs:
  created, spent and given back in one range or in different ones. Commitments
  are interchangeable, hence the symmetry.
- `utxo_image`: states without height, without a checkable Definition, and two
  ordinary ones; three stamps, so that a stamp can be current, old or older.

### Fairness

`FairSpec` assumes weak fairness of the timer behind `TryGoUpAsync` (the reactor
fires an expired timer) and of the steps of a run (a handler runs to its end).
Nothing is assumed of peers, nor of how soon a verifier reports.
`TryGoUpEnds` and `GoUpHappens` hold under it.

## Proofs

- `NodeDBProofs`: `Inv` (types, links, counters, tips, reachability, active
  path) is inductive. The hard cases are `SetStateFunctional` and its inverse:
  `WalkIsSubtree` shows that the rows visited are exactly those whose chain the
  row completes or cuts. Facts about paths (transitive, linear, heights) are
  proved by least height. Active rows need not be functional in `NodeDB`, so the
  invariant does not tie the two. Assumptions: `TreeAssumption`,
  `PathAssumption`, the shape of a tree linked by hash.
- `ProcessorProofs`: `Implements` shows that every step is one operation of
  `NodeDB` or none, so that `SelectionSeesTheTree` carries exactness of
  reachability and of the active chain over to chain selection. The model's
  actions contain the guards of `NodeDB`; that these guards hold where the code
  calls (`CallsAreLegal`, `PruneSparesActive`) is model-checked. `BodiesCorrect`
  proves `BodiesMatchFlags`, with the inductive invariant `BodyInv`: the property
  alone does not survive `Fossilize`, which needs that the states `RaiseFossil`
  still has to visit are not above the fossil height it has just raised.
- `UtxoImageProofs`: `ImageInv` is inductive. `ImageIsCurrent` alone is not: it
  says nothing while the node is down. `StampMeansCommitted` says what a clean
  header with the database's stamp means at any time, `PlaceOK` what holds at
  each place of the commit.

Only model-checked: liveness (fairness is out of the prover's reach), the
invariants of `Processor` beyond the tree, and `UtxoState`, whose folds need
induction over sequences.

## Not modelled

Power failures that lose mapped pages (`radixtree.cpp:898` has "TODO: flush");
fast-sync; kernels, shielded elements and assets; naked outputs (`RaiseTxoHi`)
and the treasury's outputs; everything outside the node's core in the table
above. Cryptography enters only as the verdict on a block.

## Plan

1. Done: `NodeDB`, `Processor`, `UtxoState`, `UtxoImage`, their runs and proofs.
2. Fast-sync as an extension of `Processor` (target, `TxoLo`, failure and retry,
   restart from the saved `m_SyncData`).
3. Transaction pools and Dandelion: stem, aggregation, timers, fluff.
4. Task assignment among peers; congestion cache against a fresh walk; the
   buffer of recent states.
5. Merkle mountain ranges as operators against a reference tree; assets applied
   and undone.
6. Wallet: simple transaction over unreliable messages with restarts; atomic
   swap; payment channel. The message queue and coarse timer beneath them.
7. Proofs: `PruneSparesActive`, `CallsAreLegal` and `RecordedIsVerified` of
   `Processor` for all trees; what can be had of `UtxoState` without induction;
   the safety invariants of the new modules.
