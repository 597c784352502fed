------------------------------ MODULE Bootstrap ------------------------------
(***************************************************************************)
(* The UTXO bootstrap (services/bootstrap/utxo_sync.go): StartBootstrap    *)
(* loads a snapshot if it is far from the tip, then feeds the heights from *)
(* startHeight to targetHeight through a bounded channel to a pool of      *)
(* workers, each of which writes its block's spends and outputs to Scylla  *)
(* one CQL statement at a time.  The first error a worker reports ends the *)
(* call; the other workers go on.  The context may be cancelled, and Stop  *)
(* called, at any time.                                                    *)
(*                                                                         *)
(* Scylla and the peer that serves blocks are external: a statement is one *)
(* upsert of a row, made visible when it executes, and any call may fail.  *)
(* The table maps an outpoint to "absent", "unspent" or "spent"; the other *)
(* columns travel with the row.  It may be empty when the call begins, or  *)
(* hold what an earlier sync has left, up to any height: the code does not *)
(* look.  The peer answers with the snapshot of whatever height it has.    *)
(***************************************************************************)
EXTENDS Integers, Sequences, FiniteSets

CONSTANTS
    Worker,             \* the pool (8 goroutines in the code)
    Outpoint,
    Target,             \* the network's height when the bootstrap starts
    Txs,                \* Txs[h]: the transactions of block h
    Starts,             \* the height a call is given, and that below which the table is synced
    SnapshotHeights,    \* heights the peer may have a snapshot of
    BatchSize,          \* 100 in the code
    SnapshotMargin,     \* 1000 in the code
    Wrap,               \* 2^64: heights are uint64
    MaxFaults           \* bound: calls to Scylla or to the peer that fail

Height == 0..Target

Tx == [ins : Seq(Outpoint), outs : Seq(Outpoint)]

ASSUME WorkerAssumption == IsFiniteSet(Worker) /\ Worker # {}
ASSUME TargetAssumption ==
    /\ Target \in Nat
    /\ Starts \subseteq Height \X Height
    /\ SnapshotHeights \subseteq Height
ASSUME TxsAssumption    == Txs \in [Height -> Seq(Tx)]
ASSUME BoundsAssumption ==
    /\ BatchSize \in Nat \ {0} /\ SnapshotMargin \in Nat
    /\ Wrap \in Nat \ {0} /\ MaxFaults \in Nat

(***************************************************************************)
(* The chain.                                                              *)
(***************************************************************************)
Elements(s) == {s[i] : i \in DOMAIN s}

Created(h) == UNION {Elements(tx.outs) : tx \in Elements(Txs[h])}
Spent(h)   == UNION {Elements(tx.ins)  : tx \in Elements(Txs[h])}

\* The chain's UTXO set before block h.
UtxosBefore(h) ==
    {o \in Outpoint : /\ \E g \in Height : g < h /\ o \in Created(g)
                      /\ \A g \in Height : g < h => o \notin Spent(g)}

\* The table that a sync of the blocks below k leaves.
TableBefore(k) ==
    [o \in Outpoint |->
        IF o \in UtxosBefore(k) THEN "unspent"
        ELSE IF \E g \in Height : g < k /\ o \in Spent(g) THEN "spent" ELSE "absent"]

\* A valid chain creates an output in one block, and spends it in one, later or in a later
\* transaction of the same block.
ChainIsValid ==
    \A o \in Outpoint : \A g, h \in Height :
        /\ o \in Created(g) /\ o \in Created(h) => g = h
        /\ o \in Spent(g) /\ o \in Spent(h) => g = h
        /\ o \in Spent(h) => \E f \in Height : f <= h /\ o \in Created(f)
        /\ \A i, j \in DOMAIN Txs[h] :
              o \in Elements(Txs[h][i].ins) /\ o \in Elements(Txs[h][j].outs) => j < i

VARIABLES
    table,      \* metamorph.utxos
    sync,       \* SyncState: current, target and processed heights, isActive
    main,       \* StartBootstrap: pc, the height to start from, its result
    snapshot,   \* the snapshot: its height, or -1, and (history) whether all of it is in
    todo,       \* snapshot rows not yet inserted
    feeder,     \* the next height to send, or -1 when the goroutine has returned
    chan,       \* blockChan
    worker,     \* worker[w]: pc, and its height, transaction and statement
    errs,       \* errors in errChan
    cancelled,  \* ctx.Done()
    stopped,    \* Stop has been called
    faults,     \* calls that failed so far
    done,       \* history: heights whose processBlock succeeded
    origin      \* history: the height below which the table was synced at the start

vars == <<table, sync, main, snapshot, todo, feeder, chan, worker, errs, cancelled,
          stopped, faults, done, origin>>
env  == <<cancelled, stopped, origin>>
pool == <<feeder, chan, worker, errs, done>>

ChanCap == 2 * Cardinality(Worker)

Idle == [pc |-> "receive", h |-> 0, tx |-> 1, stmt |-> 1]

Init ==
    /\ \E start \in Starts :
          /\ main = [pc |-> "start", from |-> start[1], result |-> "none"]
          /\ origin = start[2]
    /\ table = TableBefore(origin)
    /\ sync = [current |-> 0, target |-> 0, processed |-> 0, active |-> FALSE]
    /\ snapshot = [height |-> -1, loaded |-> FALSE]
    /\ todo = {}
    /\ feeder = -1
    /\ chan = <<>>
    /\ worker = [w \in Worker |-> Idle]
    /\ errs = 0
    /\ cancelled = FALSE
    /\ stopped = FALSE
    /\ faults = 0
    /\ done = {}

(***************************************************************************)
(* External calls.  A fault is a call that fails; every call under a       *)
(* cancelled context fails too.                                            *)
(***************************************************************************)
Fault == faults < MaxFaults /\ faults' = faults + 1

CallSucceeds == ~cancelled /\ UNCHANGED faults
CallFails    == Fault \/ (cancelled /\ UNCHANGED faults)

(***************************************************************************)
(* StartBootstrap.                                                         *)
(***************************************************************************)
Start ==
    /\ main.pc = "start"
    /\ sync' = [sync EXCEPT !.active = TRUE, !.current = main.from]
    /\ main' = [main EXCEPT !.pc = "height"]
    /\ UNCHANGED <<table, snapshot, todo, pool, env, faults>>

\* The margin is subtracted in uint64: below it, the difference is huge.
WantsSnapshot(from) == from > 0 /\ from < (Target - SnapshotMargin) % Wrap

GetHeight ==
    /\ main.pc = "height"
    /\ \/ /\ UNCHANGED faults
          /\ sync' = [sync EXCEPT !.target = Target]
          /\ main' = [main EXCEPT !.pc = IF WantsSnapshot(main.from) THEN "snapshot" ELSE "sync"]
       \/ /\ Fault
          /\ main' = [main EXCEPT !.pc = "returned", !.result = "error"]
          /\ UNCHANGED sync
    /\ UNCHANGED <<table, snapshot, todo, pool, env>>

\* GetUTXOSnapshot takes no context.  The snapshot need not be of the height asked for.
\* Without one the call goes on to sync from the height it was given.
GetSnapshot ==
    /\ main.pc = "snapshot"
    /\ \/ /\ UNCHANGED faults
          /\ \E s \in SnapshotHeights :
                /\ snapshot' = [snapshot EXCEPT !.height = s]
                /\ todo' = UtxosBefore(s + 1)
          /\ main' = [main EXCEPT !.pc = "insert"]
       \/ /\ Fault
          /\ main' = [main EXCEPT !.pc = "sync"]
          /\ UNCHANGED <<snapshot, todo>>
    /\ UNCHANGED <<table, sync, pool, env>>

Inserted(batch) == [o \in Outpoint |-> IF o \in batch THEN "unspent" ELSE table[o]]

\* One logged batch, of the rows a map iteration yields next; the last may be smaller.
\* A batch that fails may have been applied all the same.
InsertBatch ==
    /\ main.pc = "insert"
    /\ todo # {}
    /\ \E batch \in SUBSET todo :
          /\ Cardinality(batch) = BatchSize \/ batch = todo
          /\ Cardinality(batch) <= BatchSize
          /\ \/ /\ CallSucceeds
                /\ table' = Inserted(batch)
                /\ todo' = todo \ batch
                /\ UNCHANGED main
             \/ /\ CallFails
                /\ table' \in {table, Inserted(batch)}
                /\ todo' = {}
                /\ main' = [main EXCEPT !.pc = "sync"]
    /\ UNCHANGED <<sync, snapshot, pool, env>>

\* Mutant: the sync starts at the height that was asked for.
SnapshotDoneAsAsked ==
    /\ main.pc = "insert"
    /\ todo = {}
    /\ sync' = [sync EXCEPT !.current = main.from]
    /\ main' = [main EXCEPT !.pc = "sync"]
    /\ snapshot' = [snapshot EXCEPT !.loaded = TRUE]
    /\ UNCHANGED <<table, todo, pool, env, faults>>

\* The sync starts at the snapshot's own height, which is processed again.
SnapshotDone ==
    /\ main.pc = "insert"
    /\ todo = {}
    /\ sync' = [sync EXCEPT !.current = snapshot.height]
    /\ main' = [main EXCEPT !.pc = "sync", !.from = snapshot.height]
    /\ snapshot' = [snapshot EXCEPT !.loaded = TRUE]
    /\ UNCHANGED <<table, todo, pool, env, faults>>

\* syncBlocks starts the workers and the feeder.
SpawnPool ==
    /\ main.pc = "sync"
    /\ main' = [main EXCEPT !.pc = "wait"]
    /\ feeder' = main.from
    /\ UNCHANGED <<table, sync, snapshot, todo, chan, worker, errs, done, env, faults>>

Exited(w) == worker[w].pc \in {"returned", "failed"}

\* Mutant: the call collects an error of every worker.
ReturnAllErrors ==
    /\ main.pc = "wait"
    /\ errs = Cardinality(Worker)
    /\ main' = [main EXCEPT !.pc = "returned", !.result = "error"]
    /\ UNCHANGED <<table, sync, snapshot, todo, pool, env, faults>>

\* The first error ends syncBlocks; without one it ends when every worker has returned
\* and errChan is closed.
ReturnError ==
    /\ main.pc = "wait"
    /\ errs > 0
    /\ main' = [main EXCEPT !.pc = "returned", !.result = "error"]
    /\ UNCHANGED <<table, sync, snapshot, todo, pool, env, faults>>

\* Mutant: the call waits for one worker.
ReturnNilEarly ==
    /\ main.pc = "wait"
    /\ errs = 0
    /\ \E w \in Worker : Exited(w)
    /\ main' = [main EXCEPT !.pc = "returned", !.result = "nil"]
    /\ UNCHANGED <<table, sync, snapshot, todo, pool, env, faults>>

ReturnNil ==
    /\ main.pc = "wait"
    /\ errs = 0
    /\ \A w \in Worker : Exited(w)
    /\ main' = [main EXCEPT !.pc = "returned", !.result = "nil"]
    /\ UNCHANGED <<table, sync, snapshot, todo, pool, env, faults>>

\* Mutant: the channel has no bound.
FeedUnbounded ==
    /\ feeder \in 0..Target
    /\ chan' = Append(chan, feeder)
    /\ feeder' = feeder + 1
    /\ UNCHANGED <<table, sync, main, snapshot, todo, worker, errs, done, env, faults>>

\* Mutant: a bare send, without the context's case.
FeedDeaf ==
    /\ feeder \in 0..Target
    /\ Len(chan) < ChanCap
    /\ chan' = Append(chan, feeder)
    /\ feeder' = feeder + 1
    /\ UNCHANGED <<table, sync, main, snapshot, todo, worker, errs, done, env, faults>>

(***************************************************************************)
(* The feeder goroutine.  A select with both cases ready takes either.     *)
(***************************************************************************)
Feed ==
    /\ feeder \in 0..Target
    /\ \/ /\ Len(chan) < ChanCap
          /\ chan' = Append(chan, feeder)
          /\ feeder' = feeder + 1
       \/ /\ cancelled
          /\ feeder' = -1
          /\ UNCHANGED chan
    /\ UNCHANGED <<table, sync, main, snapshot, todo, worker, errs, done, env, faults>>

FeedDone ==
    /\ feeder > Target
    /\ feeder' = -1
    /\ UNCHANGED <<table, sync, main, snapshot, todo, chan, worker, errs, done, env, faults>>

ChanClosed == main.pc \in {"wait", "returned"} /\ feeder = -1

(***************************************************************************)
(* The workers.                                                            *)
(***************************************************************************)
Go(w, pc) == worker' = [worker EXCEPT ![w].pc = pc]

\* Mutant: progress is recorded before the block is processed.
ReceiveCounted(w) ==
    /\ worker[w].pc = "receive"
    /\ chan # <<>>
    /\ chan' = Tail(chan)
    /\ worker' = [worker EXCEPT ![w] =
            [Idle EXCEPT !.pc = IF cancelled THEN "returned" ELSE "fetch", !.h = Head(chan)]]
    /\ sync' = [sync EXCEPT !.current = Head(chan)]
    /\ UNCHANGED <<table, main, snapshot, todo, feeder, errs, done, env, faults>>

\* One turn of the range loop; the context is looked at once per block.
Receive(w) ==
    /\ worker[w].pc = "receive"
    /\ chan # <<>>
    /\ chan' = Tail(chan)
    /\ worker' = [worker EXCEPT ![w] =
            [Idle EXCEPT !.pc = IF cancelled THEN "returned" ELSE "fetch", !.h = Head(chan)]]
    /\ UNCHANGED <<table, sync, main, snapshot, todo, feeder, errs, done, env, faults>>

RangeEnds(w) ==
    /\ worker[w].pc = "receive"
    /\ chan = <<>>
    /\ ChanClosed
    /\ Go(w, "returned")
    /\ UNCHANGED <<table, sync, main, snapshot, todo, feeder, chan, errs, done, env, faults>>

\* errChan has room for one error of each worker; a send to a full channel would wait.
Report(w) ==
    /\ errs < Cardinality(Worker)
    /\ errs' = errs + 1
    /\ Go(w, "failed")
    /\ UNCHANGED <<sync, main, snapshot, todo, feeder, chan, done, env>>

\* GetBlockByHeight takes no context.
Fetch(w) ==
    /\ worker[w].pc = "fetch"
    /\ \/ /\ Go(w, "write")
          /\ UNCHANGED <<table, sync, main, snapshot, todo, feeder, chan, errs, done, env, faults>>
       \/ Fault /\ Report(w) /\ UNCHANGED table

\* The statements of a transaction: its inputs are marked spent, then its outputs are
\* inserted.  Both are upserts.
Statements(tx) ==
    [i \in 1..Len(tx.ins)  |-> [row |-> tx.ins[i],  value |-> "spent"]] \o
    [i \in 1..Len(tx.outs) |-> [row |-> tx.outs[i], value |-> "unspent"]]

Block(w) == Txs[worker[w].h]

\* One statement.  A statement that fails may have been applied all the same.
Write(w) ==
    /\ worker[w].pc = "write"
    /\ worker[w].tx <= Len(Block(w))
    /\ LET stmts   == Statements(Block(w)[worker[w].tx])
           written == [table EXCEPT ![stmts[worker[w].stmt].row] = stmts[worker[w].stmt].value]
       IN  /\ worker[w].stmt <= Len(stmts)
           /\ \/ /\ CallSucceeds
                 /\ table' = written
                 /\ worker' = [worker EXCEPT ![w].stmt = @ + 1]
                 /\ UNCHANGED <<sync, main, snapshot, todo, feeder, chan, errs, done, env>>
              \/ CallFails /\ Report(w) /\ table' \in {table, written}

\* Mutant: the last statement may be left out.
NextTxEarly(w) ==
    /\ worker[w].pc = "write"
    /\ worker[w].tx <= Len(Block(w))
    /\ worker[w].stmt >= Len(Statements(Block(w)[worker[w].tx]))
    /\ worker' = [worker EXCEPT ![w].tx = @ + 1, ![w].stmt = 1]
    /\ UNCHANGED <<table, sync, main, snapshot, todo, feeder, chan, errs, done, env, faults>>

NextTx(w) ==
    /\ worker[w].pc = "write"
    /\ worker[w].tx <= Len(Block(w))
    /\ worker[w].stmt > Len(Statements(Block(w)[worker[w].tx]))
    /\ worker' = [worker EXCEPT ![w].tx = @ + 1, ![w].stmt = 1]
    /\ UNCHANGED <<table, sync, main, snapshot, todo, feeder, chan, errs, done, env, faults>>

\* Progress: a count of blocks, and the greatest height processed.
Finish(w) ==
    /\ worker[w].pc = "write"
    /\ worker[w].tx > Len(Block(w))
    /\ sync' = [sync EXCEPT !.processed = @ + 1,
                            !.current = IF worker[w].h > @ THEN worker[w].h ELSE @]
    /\ done' = done \cup {worker[w].h}
    /\ Go(w, "receive")
    /\ UNCHANGED <<table, main, snapshot, todo, feeder, chan, errs, env, faults>>

WorkerStep(w) ==
    \/ Receive(w) \/ RangeEnds(w)
    \/ Fetch(w) \/ Write(w) \/ NextTx(w) \/ Finish(w)

(***************************************************************************)
(* The caller.                                                             *)
(***************************************************************************)
Cancel ==
    /\ ~cancelled
    /\ cancelled' = TRUE
    /\ UNCHANGED <<table, sync, main, snapshot, todo, pool, stopped, origin, faults>>

Stop ==
    /\ ~stopped
    /\ main.pc # "start"
    /\ stopped' = TRUE
    /\ sync' = [sync EXCEPT !.active = FALSE]
    /\ UNCHANGED <<table, main, snapshot, todo, pool, cancelled, origin, faults>>

MainStep ==
    \/ Start \/ GetHeight \/ GetSnapshot \/ InsertBatch \/ SnapshotDone
    \/ SpawnPool \/ ReturnError \/ ReturnNil

Next ==
    \/ MainStep
    \/ Feed \/ FeedDone
    \/ \E w \in Worker : WorkerStep(w)
    \/ Cancel \/ Stop

Spec == Init /\ [][Next]_vars

\* The Go scheduler runs every goroutine that can run; calls to Scylla and to the peer
\* answer, with an error if need be.
Fairness ==
    /\ WF_vars(MainStep)
    /\ WF_vars(Feed \/ FeedDone)
    /\ \A w \in Worker : WF_vars(WorkerStep(w))

FairSpec == Spec /\ Fairness

-----------------------------------------------------------------------------
TypeOK ==
    /\ table \in [Outpoint -> {"absent", "unspent", "spent"}]
    /\ sync \in [current : Height, target : Height, processed : Nat, active : BOOLEAN]
    /\ main \in [pc : {"start", "height", "snapshot", "insert", "sync", "wait", "returned"},
                 from : Height, result : {"none", "nil", "error"}]
    /\ snapshot \in [height : -1..Target, loaded : BOOLEAN]
    /\ main.pc = "insert" => snapshot.height \in Height
    /\ todo \subseteq Outpoint
    /\ feeder \in -1..(Target + 1)
    /\ chan \in Seq(Height) /\ Len(chan) <= ChanCap
    /\ worker \in [Worker -> [pc   : {"receive", "fetch", "write", "returned", "failed"},
                             h    : Height,
                             tx   : Nat \ {0},
                             stmt : Nat \ {0}]]
    /\ errs \in Nat
    /\ cancelled \in BOOLEAN /\ stopped \in BOOLEAN
    /\ faults \in 0..MaxFaults
    /\ done \subseteq Height
    /\ origin \in Height

Unspent == {o \in Outpoint : table[o] = "unspent"}

Synced == main.pc \in {"wait", "returned"} /\ done = main.from..Target

\* "Remove spent UTXOs" (utxo_sync.go:274), "Add new UTXOs" (281): once every block from
\* genesis to the target is processed, the rows marked unspent are the chain's
\* UTXO set.  Two workers break it.
SyncedIsExact == Synced /\ main.from = 0 => Unspent = UtxosBefore(Target + 1)

\* The blocks that the sync leaves out and rows from before it, exact up to k, do not know.
Gap(k) == k..(main.from - 1)

\* What can be wrong in a table once the range is processed, whatever the table held, which
\* snapshot the peer had and how much of it was inserted (utxo_sync.go:127-135):
\*   - an output of the chain is missing only if its block lies between what the table held
\*     and the start of the sync, and no snapshot was loaded to bridge that;
\*   - an output that is spent is left unspent only if two blocks of the range, which two
\*     workers applied in the wrong order, create and spend it (:245, 284-293), or a block
\*     spends it that the sync leaves out and the row, of the table or of a snapshot of
\*     another height, is older than.
OnlyRacesAndGapsAreWrong ==
    Synced =>
        /\ \A o \in UtxosBefore(Target + 1) \ Unspent :
              ~snapshot.loaded /\ \E g \in Gap(origin) : o \in Created(g)
        /\ \A o \in Unspent \ UtxosBefore(Target + 1) :
              \/ \E g, h \in main.from..Target : g < h /\ o \in Created(g) /\ o \in Spent(h)
              \/ \E k \in {origin, snapshot.height + 1} :
                    o \in UtxosBefore(k) /\ \E h \in Gap(k) : o \in Spent(h)

\* The height that GetSyncProgress reports is the greatest processed (utxo_sync.go:253-255),
\* and how far it is from a watermark is bounded: of the blocks from the starting height to
\* it, fewer than there are workers are not in the table yet, or never will be because
\* their worker failed or was cancelled.  With one worker it is a watermark.
ProgressIsNearWatermark ==
    sync.processed > 0 =>
        Cardinality((main.from..sync.current) \ done) < Cardinality(Worker)

\* A call that returns nil, its context alive, has processed every block of the range.
\* With the context cancelled it need not have: a worker that finds the context done
\* returns without an error (utxo_sync.go:239-241), and so does the call.
NilMeansSynced ==
    main.result = "nil" /\ ~cancelled => done = main.from..Target

\* StartBootstrap returns, whatever fails and whenever the context is cancelled: an
\* error channel with room for every worker (utxo_sync.go:196) makes no worker wait.
Returns == <>(main.pc = "returned")

\* Every worker goroutine ends, and so does the feeder (utxo_sync.go:206-215), unless all
\* workers died of errors and left it in front of a full channel that only a
\* cancellation can free it from.
GoroutinesEnd ==
    main.pc = "wait" ~>
        \/ main.pc = "returned" /\ feeder = -1 /\ \A w \in Worker : Exited(w)
        \/ ~cancelled /\ Len(chan) = ChanCap /\ \A w \in Worker : worker[w].pc = "failed"
=============================================================================
