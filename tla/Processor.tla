------------------------------ MODULE Processor ------------------------------
(***************************************************************************)
(* Chain selection: the part of NodeProcessor (src/node/processor.cpp)     *)
(* that takes headers and bodies, moves the cursor to the reachable tip    *)
(* with the largest chainwork, verifies blocks on the way (partly in other *)
(* threads), undoes what failed, and removes what is too old.              *)
(*                                                                         *)
(* One TryGoUp is a long run over the database.  It is cut here into steps *)
(* that each perform at most one operation of NodeDB, so that the whole    *)
(* module is an implementation of NodeDB!Spec; no message is handled while *)
(* it runs (pc # "idle"), but the verifier threads run beside it.          *)
(*                                                                         *)
(* The node is configured without fast-sync (Horizon.m_Sync infinite), so  *)
(* m_SyncData is zero and SyncTarget, its target height, is 0.             *)
(***************************************************************************)
EXTENDS Integers, Sequences, FiniteSets

CONSTANTS
    Blocks, NoBlock, Prev, Height, Path,   \* as in NodeDB
    Work,          \* Work[b]: the chainwork the header claims
    Difficulty,    \* Difficulty[b]: the difficulty of its proof of work
    Peers,         \* peers that deliver bodies
    NoPeer,        \* PeerID zero, or a NULL column
    Bodies,        \* Bodies[b]: the <<peer, body>> pairs that may arrive for b
    MaxRollback,   \* Rules::MaxRollback
    Branching,     \* Horizon::m_Branching
    LocalHi        \* Horizon::m_Local.Hi

(***************************************************************************)
(* A body is abstracted to what its processing can tell: it is fine, does  *)
(* not deserialize, fails a check of HandleBlock that needs the context    *)
(* ("context"), or fails the verification of signatures, range proofs and  *)
(* sums, which needs no context and is left to the verifiers ("proof").    *)
(***************************************************************************)
BodyKinds == {"ok", "garbled", "context", "proof"}
NoBody == "none"
Uninitialized == "uninitialized"
SyncTarget == 0

ASSUME TreeAssumption ==
    /\ NoBlock \notin Blocks
    /\ Height \in [Blocks -> Nat \ {0}]
    /\ Prev \in [Blocks -> Blocks \cup {NoBlock}]
    /\ \A b \in Blocks : Prev[b] # NoBlock => Height[b] = Height[Prev[b]] + 1

ASSUME PathAssumption ==
    /\ Path \in [Blocks -> SUBSET Blocks]
    /\ \A b \in Blocks :
          Path[b] = {b} \cup (IF Prev[b] = NoBlock THEN {} ELSE Path[Prev[b]])

ASSUME ParamAssumption ==
    /\ Work \in [Blocks -> Nat]
    /\ Difficulty \in [Blocks -> Nat]
    /\ NoPeer \notin Peers /\ Uninitialized \notin Peers
    /\ Bodies \in [Blocks -> SUBSET (Peers \X BodyKinds)]
    /\ MaxRollback \in Nat /\ Branching \in Nat \ {0} /\ LocalHi \in Nat

VARIABLES
    rows, rowPrev, functional, reachable, active, countNext, countNextF,
    tips, tipsReachable, cursor,           \* as in NodeDB
    body,        \* columns BodyP and BodyE
    peer,        \* column Peer of a row that has a body
    txos,        \* rows whose column Txos is set: applied successfully once
    rollback,    \* rows whose column Rollback is set
    fossil,      \* m_Extra.m_Fossil
    txoHi,       \* m_Extra.m_TxoHi
    treasury,    \* IsTreasuryHandled()
    goUpPending, \* m_bGoUpPending of the timer behind TryGoUpAsync
    pc,          \* where the processor is
    ret,         \* where RollbackTo or RaiseFossil returns to
    rowid,       \* local of TryGoUp: the cursor when it started
    bDirty,      \* local of TryGoUp
    vPath,       \* local of TryGoTo: what is still to be applied, in order
    sidFwd,      \* local of TryGoTo; then the row being deleted
    mbc,         \* the MultiblockContext of TryGoTo
    hStop,       \* height at which the current RollbackTo, RaiseFossil or
                 \*   DeleteBlocksInRange stops
    todo         \* rows the current loop of PruneOld or RaiseFossil will visit

DB == INSTANCE NodeDB

dbVars == << rows, rowPrev, functional, reachable, active, countNext,
             countNextF, tips, tipsReachable, cursor >>
columns == << body, peer, txos, rollback >>
extra == << fossil, txoHi, treasury >>
locals == << rowid, bDirty, vPath, sidFwd, mbc >>
vars == << dbVars, columns, extra, goUpPending, pc, ret, locals, hStop, todo >>

Max2(a, b) == IF a >= b THEN a ELSE b
CursorHeight == IF cursor = NoBlock THEN 0 ELSE Height[cursor]
CursorWork == IF cursor = NoBlock THEN 0 ELSE Work[cursor]

get_LowestReturnHeight ==
    Max2(txoHi, IF CursorHeight > MaxRollback THEN CursorHeight - MaxRollback ELSE 0)

(***************************************************************************)
(* The interval min..max is m_InProgress, fail is m_bFail, pid m_pidLast,  *)
(* which the constructor leaves uninitialized.  bad says that a block is   *)
(* being verified that the verifiers will reject.                          *)
(***************************************************************************)
NewMultiblockContext ==
    [min |-> CursorHeight + 1, max |-> CursorHeight, fail |-> FALSE,
     pid |-> Uninitialized, bad |-> FALSE]

Init ==
    /\ DB!Init
    /\ body = [b \in Blocks |-> NoBody]
    /\ peer = [b \in Blocks |-> NoPeer]
    /\ txos = {} /\ rollback = {}
    /\ fossil = 0 /\ txoHi = 0
    /\ treasury \in BOOLEAN
    /\ goUpPending = FALSE
    /\ pc = "idle" /\ ret = "idle"
    /\ rowid = NoBlock /\ bDirty = FALSE
    /\ vPath = << >> /\ sidFwd = NoBlock /\ mbc = NewMultiblockContext
    /\ hStop = 0 /\ todo = {}

-----------------------------------------------------------------------------
(***************************************************************************)
(* Messages, handled between two runs of TryGoUp.                          *)
(***************************************************************************)
OnState(b) ==
    /\ pc = "idle"
    /\ Height[b] >= get_LowestReturnHeight
    /\ DB!InsertState(b)
    /\ UNCHANGED << columns, extra, goUpPending, pc, ret, locals, hStop, todo >>

OnBlock(b, p, k) ==
    /\ pc = "idle"
    /\ Height[b] >= get_LowestReturnHeight
    /\ DB!SetStateFunctional(b)
    /\ body' = [body EXCEPT ![b] = k]
    /\ peer' = [peer EXCEPT ![b] = p]
    /\ goUpPending' = TRUE
    /\ UNCHANGED << txos, rollback, extra, pc, ret, locals, hStop, todo >>

(***************************************************************************)
(* A header that is too low or known, a body that is too low or present,   *)
(* is refused (Unreachable, Rejected), and nothing changes.                *)
(***************************************************************************)
Refused(b) ==
    /\ pc = "idle"
    /\ b \in rows \/ Height[b] < get_LowestReturnHeight
    /\ UNCHANGED vars

EnterTryGoUp ==
    /\ pc' = IF treasury' THEN "select" ELSE "idle"
    /\ rowid' = IF treasury' THEN cursor ELSE NoBlock

OnTreasury ==
    /\ pc = "idle"
    /\ ~treasury
    /\ treasury' = TRUE
    /\ EnterTryGoUp
    /\ UNCHANGED << dbVars, columns, fossil, txoHi, goUpPending, ret, bDirty,
                    vPath, sidFwd, mbc, hStop, todo >>

StillPending ==
    /\ pc = "idle"
    /\ goUpPending
    /\ UNCHANGED << goUpPending, treasury >>
    /\ EnterTryGoUp
    /\ UNCHANGED << dbVars, columns, fossil, txoHi, ret, bDirty,
                    vPath, sidFwd, mbc, hStop, todo >>

OnGoUpTimer ==
    /\ pc = "idle"
    /\ goUpPending
    /\ goUpPending' = FALSE
    /\ UNCHANGED treasury
    /\ EnterTryGoUp
    /\ UNCHANGED << dbVars, columns, fossil, txoHi, ret, bDirty,
                    vPath, sidFwd, mbc, hStop, todo >>

-----------------------------------------------------------------------------
(***************************************************************************)
(* TryGoUp: EnumFunctionalTips lists the largest chainwork first.          *)
(***************************************************************************)
AnyTip == tipsReachable
BestTips == {t \in tipsReachable : \A u \in tipsReachable : Work[u] <= Work[t]}

NowhereToGo ==
    /\ pc = "select"
    /\ \A t \in BestTips : Work[t] = CursorWork
    /\ pc' = IF bDirty THEN "prune" ELSE "idle"
    /\ rowid' = IF bDirty THEN rowid ELSE NoBlock
    /\ UNCHANGED << dbVars, columns, extra, goUpPending, ret, bDirty, vPath,
                    sidFwd, mbc, hStop, todo >>

(***************************************************************************)
(* The path TryGoTo climbs: from above the highest active state below the  *)
(* target (or from genesis) up to the target.                              *)
(***************************************************************************)
ForkHeight(t) == Cardinality(Path[t] \cap active)
Climb(t) == [i \in 1..Cardinality(Path[t] \ active) |->
                CHOOSE b \in Path[t] : Height[b] = ForkHeight(t) + i]

TryGoTo(t) ==
    /\ pc = "select"
    /\ t \in BestTips
    /\ Work[t] # CursorWork
    /\ bDirty' = TRUE
    /\ vPath' = Climb(t)
    /\ hStop' = ForkHeight(t)
    /\ pc' = "rollback" /\ ret' = "apply"
    /\ UNCHANGED << dbVars, columns, extra, goUpPending, rowid, sidFwd, mbc, todo >>

(***************************************************************************)
(* RollbackTo, one state at a time.                                        *)
(***************************************************************************)
RollbackOne ==
    /\ pc = "rollback"
    /\ CursorHeight > hStop
    /\ DB!MoveBack
    /\ UNCHANGED << columns, extra, goUpPending, pc, ret, locals, hStop, todo >>

RolledBack ==
    /\ pc = "rollback"
    /\ CursorHeight <= hStop
    /\ pc' = ret
    /\ mbc' = IF ret = "apply" THEN NewMultiblockContext ELSE mbc
    /\ sidFwd' = IF ret = "apply" THEN cursor ELSE sidFwd
    /\ UNCHANGED << dbVars, columns, extra, goUpPending, ret, rowid, bDirty,
                    vPath, hStop, todo >>

-----------------------------------------------------------------------------
(***************************************************************************)
(* MultiblockContext: Flush waits for the verifiers, OnBlock hands them a  *)
(* block, after a Flush if it comes from another peer than the last one.   *)
(***************************************************************************)
Flush(m) ==
    IF m.fail \/ m.max < m.min THEN m
    ELSE IF m.bad THEN [m EXCEPT !.fail = TRUE]
    ELSE [m EXCEPT !.min = m.max + 1]

Push(m, b) ==
    [m EXCEPT !.pid = peer[b], !.max = @ + 1, !.bad = @ \/ body[b] = "proof"]

NeverFlushes(m, b) == IF m.fail THEN m ELSE Push(m, b)

MbcOnBlock(m, b) ==
    LET bMustFlush == m.max >= m.min /\ m.pid # peer[b]
        flushed == IF bMustFlush THEN Flush(m) ELSE m
    IN  IF flushed.fail THEN flushed ELSE Push(flushed, b)

(***************************************************************************)
(* A verifier thread finds the error; TryGoTo may see m_bFail at any time. *)
(***************************************************************************)
VerifierFails ==
    /\ pc = "apply"
    /\ mbc.bad /\ ~mbc.fail
    /\ mbc' = [mbc EXCEPT !.fail = TRUE]
    /\ UNCHANGED << dbVars, columns, extra, goUpPending, pc, ret, rowid, bDirty,
                    vPath, sidFwd, hStop, todo >>

(***************************************************************************)
(* HandleBlock, with the outcome of its OnBlock in m.  A block that has    *)
(* its Txos recorded has passed all checks before.                         *)
(***************************************************************************)
Decodable(b) == body[b] \notin {"garbled", NoBody}
FirstTime(b) == b \notin txos
ContextOk(b) ==
    FirstTime(b) => body[b] # "context" /\ Work[b] = CursorWork + Difficulty[b]

MaybeReported(m) == {m} \cup {[m EXCEPT !.fail = @ \/ m.bad]}

AfterOnBlock(b) ==
    IF FirstTime(b) THEN {MbcOnBlock(m, b) : m \in MaybeReported(mbc)} ELSE {mbc}

HandleBlockFails ==
    /\ pc = "apply"
    /\ vPath # << >> /\ ~mbc.fail
    /\ LET b == Head(vPath)
       IN  /\ \E m \in IF Decodable(b) THEN AfterOnBlock(b) ELSE {mbc} :
                 mbc' = [m EXCEPT !.fail = TRUE]
           /\ ~(Decodable(b) /\ ContextOk(b))
           /\ sidFwd' = b
    /\ vPath' = Tail(vPath)
    /\ UNCHANGED << dbVars, columns, extra, goUpPending, pc, ret, rowid, bDirty,
                    hStop, todo >>

(***************************************************************************)
(* After a success the cursor moves.  While no block was handed to the     *)
(* verifiers, m_InProgress.m_Max is still the height the walk started at;  *)
(* if that is the (zero) target height, OnFastSyncOver is called.  It is   *)
(* modelled for chains without naked outputs (stripped of their proofs):   *)
(* then it succeeds, raises the fossil height and TxoHi to the cursor, and *)
(* bKeepBlocks stays false.                                                *)
(***************************************************************************)
HandleBlock ==
    /\ pc = "apply"
    /\ vPath # << >> /\ ~mbc.fail
    /\ LET b == Head(vPath)
       IN  /\ Decodable(b) /\ ContextOk(b)
           /\ DB!MoveFwd(b)
           /\ txos' = txos \cup {b}
           /\ rollback' = rollback \cup {b}
           /\ sidFwd' = b
           /\ \E m \in AfterOnBlock(b) :
                 IF m.max = SyncTarget
                 THEN /\ mbc' = [m EXCEPT !.pid = NoPeer]
                      /\ pc' = "fossil" /\ ret' = "apply" /\ hStop' = Height[b]
                      /\ txoHi' = Max2(txoHi, Height[b])
                 ELSE mbc' = m /\ UNCHANGED << pc, ret, hStop, txoHi >>
    /\ vPath' = Tail(vPath)
    /\ UNCHANGED << body, peer, fossil, treasury, goUpPending, rowid, bDirty, todo >>

(***************************************************************************)
(* The end of TryGoTo: everything applied and verified, or a failure.      *)
(***************************************************************************)
AtPosition ==
    /\ pc = "apply"
    /\ vPath = << >>
    /\ ~Flush(mbc).fail
    /\ pc' = "select"
    /\ sidFwd' = NoBlock
    /\ mbc' = [mbc EXCEPT !.min = 1, !.max = 0, !.pid = Uninitialized]
    /\ UNCHANGED << dbVars, columns, extra, goUpPending, ret, rowid, bDirty,
                    vPath, hStop, todo >>

VerificationFailed ==
    /\ pc = "apply"
    /\ vPath = << >> \/ mbc.fail
    /\ Flush(mbc).fail
    /\ mbc' = Flush(mbc)
    /\ hStop' = mbc.min - 1
    /\ pc' = "rollback" /\ ret' = "blame"
    /\ UNCHANGED << dbVars, columns, extra, goUpPending, rowid, bDirty, vPath,
                    sidFwd, todo >>

(***************************************************************************)
(* The last peer is reported, and the blocks that follow from the same     *)
(* peer are deleted together with the ones that failed.                    *)
(***************************************************************************)
FromPeer(p) ==
    {i \in 0..Len(vPath) : p # NoPeer /\ \A j \in 1..i : peer[vPath[j]] = p}

Blame ==
    /\ pc = "blame"
    /\ \E p \in IF mbc.pid = Uninitialized THEN Peers \cup {NoPeer} ELSE {mbc.pid} :
          \E n \in FromPeer(p) \cup {0} :
             /\ \A i \in FromPeer(p) : i <= n
             /\ sidFwd' = IF n = 0 THEN sidFwd ELSE vPath[n]
    /\ vPath' = << >>
    /\ hStop' = CursorHeight
    /\ pc' = "delete" /\ ret' = "select"
    /\ mbc' = [mbc EXCEPT !.min = 1, !.max = 0, !.pid = Uninitialized,
                          !.fail = FALSE, !.bad = FALSE]
    /\ UNCHANGED << dbVars, columns, extra, goUpPending, rowid, bDirty, todo >>

(***************************************************************************)
(* DeleteBlock: DelStateBlockAll and SetStateNotFunctional.                *)
(***************************************************************************)
KeepTxos(b) ==
    /\ body' = [body EXCEPT ![b] = NoBody]
    /\ peer' = [peer EXCEPT ![b] = NoPeer]
    /\ UNCHANGED << txos, rollback >>

DelColumns(b) ==
    /\ body' = [body EXCEPT ![b] = NoBody]
    /\ peer' = [peer EXCEPT ![b] = NoPeer]
    /\ txos' = txos \ {b}
    /\ rollback' = rollback \ {b}

BodyOnly(b) ==
    /\ DelColumns(b)
    /\ UNCHANGED dbVars

DeleteBlock(b) ==
    /\ DelColumns(b)
    /\ IF b \in functional THEN DB!SetStateNotFunctional(b) ELSE UNCHANGED dbVars

StopsLate == IF sidFwd = NoBlock THEN 0 ELSE Height[sidFwd] + 1
SidHeight == IF sidFwd = NoBlock THEN 0 ELSE Height[sidFwd]

DeleteBlocksInRange ==
    /\ pc = "delete"
    /\ SidHeight > hStop
    /\ DeleteBlock(sidFwd)
    /\ sidFwd' = rowPrev[sidFwd]
    /\ UNCHANGED << extra, goUpPending, pc, ret, rowid, bDirty, vPath, mbc,
                    hStop, todo >>

GivesUp ==
    /\ pc = "delete"
    /\ SidHeight <= hStop
    /\ pc' = "prune"
    /\ sidFwd' = NoBlock
    /\ UNCHANGED << dbVars, columns, extra, goUpPending, ret, rowid, bDirty,
                    vPath, mbc, hStop, todo >>

RangeDeleted ==
    /\ pc = "delete"
    /\ SidHeight <= hStop
    /\ pc' = ret
    /\ sidFwd' = NoBlock
    /\ UNCHANGED << dbVars, columns, extra, goUpPending, ret, rowid, bDirty,
                    vPath, mbc, hStop, todo >>

-----------------------------------------------------------------------------
(***************************************************************************)
(* PruneOld: delete branches that ended Branching below the cursor, from   *)
(* their tip down to the first state that has another successor; then      *)
(* raise the fossil height (and TxoHi) behind the cursor.                  *)
(***************************************************************************)
PruneEverything == tips
LowTips == {t \in tips : CursorHeight > Branching /\ Height[t] < CursorHeight - Branching}

PruneTip ==
    /\ pc = "prune"
    /\ todo = {}
    /\ \E t \in LowTips : /\ \A u \in LowTips : Height[t] <= Height[u]
                          /\ todo' = {t}
    /\ UNCHANGED << dbVars, columns, extra, goUpPending, pc, ret, locals, hStop >>

PruneState ==
    /\ pc = "prune"
    /\ \E t \in todo :
          \/ /\ DB!DeleteState(t)
             /\ DelColumns(t)
             /\ todo' = {rowPrev[t]} \cap Blocks
          \/ /\ countNext[t] # 0
             /\ todo' = {}
             /\ UNCHANGED << dbVars, columns >>
    /\ UNCHANGED << extra, goUpPending, pc, ret, locals, hStop >>

IsBigger2(a, b1, b2) == a > b1 + b2

Pruned ==
    /\ pc = "prune"
    /\ todo = {} /\ LowTips = {}
    /\ hStop' = IF IsBigger2(CursorHeight, fossil, MaxRollback)
                THEN CursorHeight - MaxRollback ELSE fossil
    /\ txoHi' = IF IsBigger2(CursorHeight, txoHi, LocalHi)
                THEN CursorHeight - LocalHi ELSE txoHi
    /\ pc' = "fossil" /\ ret' = "idle"
    /\ UNCHANGED << dbVars, columns, fossil, treasury, goUpPending, locals, todo >>

OneTooHigh ==
    /\ pc = "fossil"
    /\ todo = {} /\ fossil < hStop
    /\ fossil' = fossil + 1
    /\ todo' = {b \in rows : Height[b] = fossil + 2}
    /\ UNCHANGED << dbVars, columns, txoHi, treasury, goUpPending, pc, ret,
                    locals, hStop >>

RaiseFossil ==
    /\ pc = "fossil"
    /\ todo = {} /\ fossil < hStop
    /\ fossil' = fossil + 1
    /\ todo' = {b \in rows : Height[b] = fossil + 1}
    /\ UNCHANGED << dbVars, columns, txoHi, treasury, goUpPending, pc, ret,
                    locals, hStop >>

DelStateBlockPPR(b) ==
    /\ body' = [body EXCEPT ![b] = NoBody]
    /\ peer' = [peer EXCEPT ![b] = NoPeer]
    /\ rollback' = rollback \ {b}
    /\ UNCHANGED << dbVars, txos >>

Fossilize ==
    /\ pc = "fossil"
    /\ \E b \in todo : /\ IF b \in active THEN DelStateBlockPPR(b) ELSE DeleteBlock(b)
                       /\ todo' = todo \ {b}
    /\ UNCHANGED << extra, goUpPending, pc, ret, locals, hStop >>

FossilRaised ==
    /\ pc = "fossil"
    /\ todo = {} /\ fossil >= hStop
    /\ pc' = ret
    /\ hStop' = 0
    /\ rowid' = IF ret = "idle" THEN NoBlock ELSE rowid
    /\ bDirty' = (bDirty /\ ret # "idle")
    /\ UNCHANGED << dbVars, columns, extra, goUpPending, ret, vPath, sidFwd, mbc, todo >>

-----------------------------------------------------------------------------
Message ==
    \/ \E b \in Blocks : OnState(b) \/ Refused(b)
    \/ \E b \in Blocks : \E d \in Bodies[b] : OnBlock(b, d[1], d[2])
    \/ OnTreasury

Step ==
    \/ NowhereToGo \/ (\E t \in Blocks : TryGoTo(t))
    \/ RollbackOne \/ RolledBack
    \/ HandleBlock \/ HandleBlockFails \/ AtPosition \/ VerificationFailed
    \/ Blame \/ DeleteBlocksInRange \/ RangeDeleted
    \/ PruneTip \/ PruneState \/ Pruned
    \/ RaiseFossil \/ Fossilize \/ FossilRaised

Next == Message \/ OnGoUpTimer \/ Step \/ VerifierFails

Spec == Init /\ [][Next]_vars

(***************************************************************************)
(* The reactor fires an expired timer, and a handler runs to its end.      *)
(* Nothing is assumed of peers or of how soon a verifier reports.          *)
(***************************************************************************)
FairSpec == Spec /\ WF_vars(OnGoUpTimer) /\ WF_vars(Step)

-----------------------------------------------------------------------------
TypeOK ==
    /\ body \in [Blocks -> BodyKinds \cup {NoBody}]
    /\ peer \in [Blocks -> Peers \cup {NoPeer}]
    /\ txos \in SUBSET rows /\ rollback \in SUBSET rows
    /\ fossil \in Nat /\ txoHi \in Nat /\ hStop \in Nat
    /\ treasury \in BOOLEAN /\ goUpPending \in BOOLEAN /\ bDirty \in BOOLEAN
    /\ pc \in {"idle", "select", "rollback", "apply", "blame", "delete", "prune", "fossil"}
    /\ ret \in {"idle", "select", "apply", "blame"}
    /\ rowid \in Blocks \cup {NoBlock} /\ sidFwd \in Blocks \cup {NoBlock}
    /\ vPath \in Seq(Blocks)
    /\ mbc \in [min : Nat, max : Nat, fail : BOOLEAN, bad : BOOLEAN,
                pid : Peers \cup {NoPeer, Uninitialized}]
    /\ todo \in SUBSET rows

(***************************************************************************)
(* Chain selection changes the tree only through the operations of NodeDB, *)
(* at most one per step of TryGoUp, whatever it does to other columns.     *)
(***************************************************************************)
ImplementsNodeDB == DB!Spec

(***************************************************************************)
(* The flag Functional and the body of a state are written and deleted by  *)
(* different statements (SetStateBlock and SetStateFunctional in OnBlock,  *)
(* DelStateBlockAll and SetStateNotFunctional in DeleteBlock, and          *)
(* DelStateBlockPPR in RaiseFossil, which leaves the flag).  Still, no     *)
(* state without the flag has a body, which OnBlock would overwrite; and a *)
(* state with the flag, which chain selection may try to apply, lacks its  *)
(* body only at or below the fossil height.                                *)
(***************************************************************************)
BodiesMatchFlags ==
    \A b \in Blocks :
        /\ body[b] # NoBody => b \in functional
        /\ (b \in functional /\ Height[b] > fossil) => body[b] # NoBody

(***************************************************************************)
(* The database's operations are called where they may be.  After any      *)
(* rollback the next block of TryGoTo's path is a stored successor of the  *)
(* cursor, so that MoveFwd continues the active chain; and what is deleted *)
(* after a failure, together with the peer's further blocks, is stored and *)
(* is not part of the chain that stays.                                    *)
(***************************************************************************)
CallsAreLegal ==
    /\ (pc = "apply" /\ vPath # << >> /\ ~mbc.fail) =>
          LET b == Head(vPath)
          IN  b \in functional /\ rowPrev[b] = cursor /\ Height[b] = CursorHeight + 1
    /\ (pc = "delete" /\ SidHeight > hStop) => sidFwd \in rows \ active

(***************************************************************************)
(* What TryGoUp takes for granted of the claimed chainworks when it looks  *)
(* at the tips only: no header claims less than its predecessor.  Headers  *)
(* are stored without a test of it (AlreadyAtMaximum is about the others). *)
(***************************************************************************)
ClaimsGrow ==
    \A b \in Blocks : Prev[b] # NoBlock => Work[Prev[b]] <= Work[b]

(***************************************************************************)
(* As long as claims grow: between two runs of TryGoUp, with none pending, *)
(* no state the database could reach claims more work than the cursor,     *)
(* although blocks fail half way up a branch, further bodies arrive while  *)
(* a run is pending, and old branches are pruned after the choice.         *)
(***************************************************************************)
BestChain ==
    (ClaimsGrow /\ pc = "idle" /\ ~goUpPending /\ treasury) =>
        \A b \in reachable : Work[b] <= CursorWork

(***************************************************************************)
(* Between two runs, the active chain and every other block marked as      *)
(* already validated (which HandleBlock will never verify again) passed    *)
(* the context checks and the verifiers, although the mark is written      *)
(* before the verifiers have answered.                                     *)
(***************************************************************************)
RecordedIsVerified ==
    pc \in {"idle", "select"} => /\ active \subseteq txos \cap reachable
                                 /\ \A b \in txos : body[b] \in {"ok", NoBody}

(***************************************************************************)
(* The peer reported by OnPeerInsane delivered one of the blocks that are  *)
(* deleted and that block is bad, although several peers' blocks are in    *)
(* one MultiblockContext and the failure shows later.  Nothing is said of  *)
(* a walk that ends at a block that cannot be deserialized: HandleBlock    *)
(* gives up before the block's peer becomes m_pidLast, which is then the   *)
(* peer of an earlier block, or uninitialized.                             *)
(***************************************************************************)
BlameIsJust ==
    (pc = "blame" /\ mbc.pid \in Peers) =>
        \/ ~Decodable(sidFwd)
        \/ \E b \in Path[sidFwd] \ active : /\ peer[b] = mbc.pid
                                            /\ body[b] \in {"context", "proof"}

(***************************************************************************)
(* PruneOld never walks into the active chain, where DeleteState throws    *)
(* "attempt to delete an active state".                                    *)
(***************************************************************************)
PruneSparesActive ==
    pc = "prune" => \A t \in todo : countNext[t] = 0 => t \notin active

(***************************************************************************)
(* RollbackTo finds the rollback data of every state it undoes, except     *)
(* those at or below the fossil height.                                    *)
(***************************************************************************)
RollbackDataKept ==
    \A b \in active : Height[b] > fossil => b \in rollback

(***************************************************************************)
(* TryGoUp always comes to an end, and a requested run always happens.     *)
(***************************************************************************)
TryGoUpEnds == (pc # "idle") ~> (pc = "idle")
GoUpHappens == goUpPending ~> ~goUpPending

(***************************************************************************)
(* assert(h >= m_Extra.m_Fossil) in RollbackTo.                            *)
(***************************************************************************)
AssertAboveFossil ==
    (pc = "rollback" /\ CursorHeight > hStop) => hStop >= fossil

(***************************************************************************)
(* assert(m_InProgress.m_Max == pShared->m_Ctx.m_Height.m_Min), where      *)
(* MultiblockContext::OnBlock has taken a block in.                        *)
(***************************************************************************)
AssertInProgress ==
    [][\A b \in Blocks :
          (pc = "apply" /\ vPath # << >> /\ b = Head(vPath) /\ mbc'.max = mbc.max + 1)
             => mbc'.max = Height[b]]_vars

(***************************************************************************)
(* assert(wrkTrg >= m_Cursor.m_Full.m_ChainWork) in TryGoUp.               *)
(***************************************************************************)
AssertTargetWork ==
    pc = "select" => \A t \in BestTips : Work[t] >= CursorWork

(***************************************************************************)
(* "already at maximum (though maybe at different tip)", where TryGoUp     *)
(* stops because the best tip claims the cursor's work: no reachable state *)
(* claims more.                                                            *)
(***************************************************************************)
AlreadyAtMaximum ==
    (pc = "select" /\ \A t \in BestTips : Work[t] = CursorWork) =>
        \A b \in reachable : Work[b] <= CursorWork

(***************************************************************************)
(* get_LowestReturnHeight is the "lowest height to which it's possible to  *)
(* rollback": between two runs of TryGoUp the cursor is never below it.    *)
(* (States below it are refused, those the node would need included.)      *)
(***************************************************************************)
ReturnHeightIsLowest ==
    pc = "idle" => CursorHeight >= get_LowestReturnHeight
=============================================================================
