--------------------------- MODULE MiningService ---------------------------
(***************************************************************************)
(* The mining service (services/miner/mining_service.go) in the process    *)
(* that runs it (cmd/mining-demo/main.go): Start, the workers, the two     *)
(* tickers, Stop, and the program's interrupt.  The workers share one      *)
(* template under an RWMutex, and create the first one with no more than   *)
(* the read lock.  A critical section under the write lock is one action,  *)
(* enabled while nobody is at a program counter that holds a read lock.    *)
(*                                                                         *)
(* Time is in units of a second, the resolution of a template's timestamp. *)
(* Tickers fire at any time after Start has made its goroutines (their     *)
(* first tick is 30 seconds away).  Published events are abstracted to     *)
(* what they report.  Hash rates are left out.                             *)
(***************************************************************************)
EXTENDS Integers, FiniteSets, FiniteSetsExt, Merkle

CONSTANTS
    Worker,         \* the workers Start makes
    Networks,       \* networks the service may be configured for
    Coinbase,       \* the id of the coinbase transaction, the same for every template
    LastNonce,      \* mineBlock tries 0..LastNonce
    HeaderHash,     \* HeaderHash[t, n]: hash of the header with timestamp t and nonce n
    MaxTime,        \* bound: seconds that pass
    MaxBlocks,      \* bound: rounds begun are as many as may end in MaxBlocks solutions
    None

ASSUME MiningAssumption ==
    /\ IsFiniteSet(Worker)
    /\ LastNonce \in Nat /\ MaxTime \in Nat /\ MaxBlocks \in Nat
    /\ HeaderHash \in [(0..MaxTime) \X (0..LastNonce) -> Nat]
    /\ Networks \subseteq {"testnet", "mainnet"}
    /\ None \notin [timestamp : Nat, root : {CalculateMerkleRoot(<<Coinbase>>)}, target : {1, 1000000}]

VARIABLES
    network,        \* the network, fixed when the service is made
    clock,          \* seconds
    server,         \* the goroutine that runs Start, waits, and runs Stop
    main,           \* the goroutine of main
    reporter,       \* the goroutine that logs a status report
    cancelled,      \* the service's context
    isActive,       \* the service's flag, written by Start without the lock
    enabled,        \* the workers whose IsActive is set
    blockTemplate,  \* the shared template
    blocksFound,    \* the service's counter
    pc,             \* pc[w]: where w is in runMiningWorker
    hand,           \* hand[w]: the template w has
    shares,         \* shares[w]: SharesFound of w
    manager,        \* manageBlockTemplates
    monitor,        \* monitorMiningProgress
    tally,          \* what the monitor has read so far
    stoppedWith,    \* the blocks_found of the stopped event
    managed         \* history: the manager has replaced the template

process  == <<network, server, main, reporter, cancelled, isActive, enabled, stoppedWith>>
work     == <<pc, hand, shares, blocksFound>>
watching == <<monitor, tally>>
vars     == <<process, clock, work, blockTemplate, manager, managed, watching>>

-----------------------------------------------------------------------------
\* The target of a template is the network's difficulty, the number that a hash may not
\* exceed: on testnet, whose number is the lower "for easier mining", fewer hashes do it.
Difficulty(n) == IF n = "testnet" THEN 1 ELSE 1000000

CreateBlockTemplate(now) ==
    [timestamp |-> now, root |-> CalculateMerkleRoot(<<Coinbase>>), target |-> Difficulty(network)]

Meets(hash, target) == hash <= target

Solves(template, nonce) == Meets(HeaderHash[template.timestamp, nonce], template.target)

\* mineBlock returns the first of these.
SolvingNonces(template) == {n \in 0..LastNonce : Solves(template, n)}

EmptyTally == [seen |-> {}, active |-> 0, shares |-> 0]

\* Those at a program counter in a section under the read lock.
Readers == {w \in Worker : pc[w] \in {"create", "return"}} \cup (IF monitor = "reading" THEN {"monitor"} ELSE {})

WriteLockFree == Readers = {}

InRound(w) == pc[w] \in {"read", "create", "return", "mine", "handle"}

Pending == {w \in Worker : InRound(w)}

\* Bound: enough rounds for MaxBlocks solutions have not been begun.
RoundsLeft == blocksFound + Cardinality(Pending) < MaxBlocks

\* The demo is made for the network of the environment and starts its two goroutines.
DemoStarts ==
    /\ network \in Networks
    /\ server = "starting" /\ main = "waiting" /\ reporter = "running"

Init ==
    /\ DemoStarts
    /\ clock = 0
    /\ cancelled = FALSE
    /\ isActive = FALSE
    /\ enabled = {}
    /\ blockTemplate = None
    /\ blocksFound = 0
    /\ pc = [w \in Worker |-> "new"]
    /\ hand = [w \in Worker |-> None]
    /\ shares = [w \in Worker |-> 0]
    /\ manager = "new" /\ monitor = "new"
    /\ tally = EmptyTally
    /\ stoppedWith = None
    /\ managed = FALSE

TimePasses ==
    /\ clock < MaxTime
    /\ clock' = clock + 1
    /\ UNCHANGED <<process, work, blockTemplate, manager, managed, watching>>

(***************************************************************************)
(* Start: the workers run as soon as they are made.                        *)
(***************************************************************************)
StartWorker(w) ==
    /\ server = "starting"
    /\ pc[w] = "new"
    /\ pc' = [pc EXCEPT ![w] = "loop"]
    /\ enabled' = enabled \cup {w}
    /\ UNCHANGED <<network, server, main, reporter, cancelled, isActive, stoppedWith, clock,
                   hand, shares, blocksFound, blockTemplate, manager, managed, watching>>

StartRoutines ==
    /\ server = "starting"
    /\ \A w \in Worker : pc[w] # "new"
    /\ manager' = "running"
    /\ monitor' = "running"
    /\ isActive' = TRUE
    /\ server' = "waiting"
    /\ UNCHANGED <<network, main, reporter, cancelled, enabled, stoppedWith, clock, work,
                   blockTemplate, managed, tally>>

(***************************************************************************)
(* runMiningWorker.  The context is looked at before the worker's flag.    *)
(***************************************************************************)
At(w, from, to) ==
    /\ main # "exited"
    /\ pc[w] = from
    /\ pc' = [pc EXCEPT ![w] = to]
    /\ UNCHANGED <<process, clock, manager, managed, watching>>

\* Mutant: the flag, which Stop clears, is looked at before the context.
LoopByFlag(w) ==
    /\ w \in enabled
    /\ \/ cancelled /\ At(w, "loop", "done")
       \/ ~cancelled /\ RoundsLeft /\ At(w, "loop", "read")
    /\ UNCHANGED <<hand, shares, blocksFound, blockTemplate>>

Loop(w) ==
    /\ \/ cancelled /\ At(w, "loop", "done")
       \/ ~cancelled /\ w \in enabled /\ RoundsLeft /\ At(w, "loop", "read")
    /\ UNCHANGED <<hand, shares, blocksFound, blockTemplate>>

\* getCurrentBlockTemplate, under the read lock: a missing template is created, ...
HandOutTemplate(w) ==
    /\ At(w, "read", "mine")
    /\ hand' = [hand EXCEPT ![w] = blockTemplate]
    /\ UNCHANGED <<shares, blocksFound, blockTemplate>>

ReadTemplate(w) ==
    \/ /\ blockTemplate = None
       /\ At(w, "read", "create")
       /\ hand' = [hand EXCEPT ![w] = CreateBlockTemplate(clock)]
       /\ UNCHANGED <<shares, blocksFound, blockTemplate>>
    \/ /\ blockTemplate # None
       /\ HandOutTemplate(w)

\* ... stored, ...
StoreTemplate(w) ==
    /\ At(w, "create", "return")
    /\ blockTemplate' = hand[w]
    /\ UNCHANGED <<hand, shares, blocksFound>>

\* ... and read back.
ReturnTemplate(w) ==
    /\ At(w, "return", "mine")
    /\ hand' = [hand EXCEPT ![w] = blockTemplate]
    /\ UNCHANGED <<shares, blocksFound, blockTemplate>>

\* mineBlock tries every nonce, of a template that may no longer be the shared one.
Mine(w) ==
    /\ At(w, "mine", IF SolvingNonces(hand[w]) # {} THEN "handle" ELSE "loop")
    /\ UNCHANGED <<hand, shares, blocksFound, blockTemplate>>

HandleBlockSolution(w) ==
    /\ WriteLockFree
    /\ At(w, "handle", "share")
    /\ blocksFound' = blocksFound + 1
    /\ UNCHANGED <<hand, shares, blockTemplate>>

\* Mutant: a worker that has found a block goes on with the template it has.
CountShareAndMine(w) ==
    /\ At(w, "share", "mine")
    /\ shares' = [shares EXCEPT ![w] = @ + 1]
    /\ UNCHANGED <<hand, blocksFound, blockTemplate>>

\* SharesFound is counted outside the lock.
CountShare(w) ==
    /\ At(w, "share", "loop")
    /\ shares' = [shares EXCEPT ![w] = @ + 1]
    /\ UNCHANGED <<hand, blocksFound, blockTemplate>>

(***************************************************************************)
(* manageBlockTemplates.  With a tick and a cancelled context both ready,  *)
(* its select takes either.                                                *)
(***************************************************************************)
UpdateTemplate ==
    /\ main # "exited"
    /\ manager = "running"
    /\ blockTemplate' = CreateBlockTemplate(clock)
    /\ managed' = TRUE
    /\ UNCHANGED <<process, clock, work, manager, watching>>

ManagerTick ==
    /\ WriteLockFree
    /\ UpdateTemplate

ManagerEnds ==
    /\ main # "exited"
    /\ manager = "running"
    /\ cancelled
    /\ manager' = "done"
    /\ UNCHANGED <<process, clock, work, blockTemplate, managed, watching>>

(***************************************************************************)
(* monitorMiningProgress reads the workers one by one, under the read      *)
(* lock, and the number of blocks after them.                              *)
(***************************************************************************)
Monitor(from, to) ==
    /\ main # "exited"
    /\ monitor = from
    /\ monitor' = to
    /\ UNCHANGED <<process, clock, work, blockTemplate, manager, managed>>

MonitorBegin ==
    /\ Monitor("running", "reading")
    /\ tally' = EmptyTally

MonitorRead(w) ==
    /\ Monitor("reading", "reading")
    /\ w \notin tally.seen
    /\ tally' = [seen   |-> tally.seen \cup {w},
                 active |-> tally.active + (IF w \in enabled THEN 1 ELSE 0),
                 shares |-> tally.shares + (IF w \in enabled THEN shares[w] ELSE 0)]

\* Mutant: the read lock is given back by a defer, which waits for the loop's end.
MonitorPublishLocked ==
    /\ Monitor("reading", "reading")
    /\ tally.seen = Worker
    /\ tally' = EmptyTally

MonitorPublish ==
    /\ Monitor("reading", "running")
    /\ tally.seen = Worker
    /\ tally' = EmptyTally

MonitorEnds ==
    /\ cancelled
    /\ Monitor("running", "done")
    /\ UNCHANGED tally

(***************************************************************************)
(* The program: an interrupt cancels the demo's context, on which the      *)
(* goroutine of the server runs Stop and the reporter ends; main waits for *)
(* both and returns, whatever the service's goroutines are doing.          *)
(***************************************************************************)
Elsewhere == <<network, clock, enabled, work, blockTemplate, manager, managed, watching>>

Interrupt ==
    /\ main = "waiting"
    /\ main' = "stopping"
    /\ UNCHANGED <<server, reporter, cancelled, isActive, stoppedWith, Elsewhere>>

StopCancels ==
    /\ server = "waiting"
    /\ main = "stopping"
    /\ server' = "stopping"
    /\ cancelled' = TRUE
    /\ UNCHANGED <<main, reporter, isActive, stoppedWith, Elsewhere>>

StopSection ==
    /\ server = "stopping"
    /\ server' = "stopped"
    /\ enabled' = {}
    /\ isActive' = FALSE
    /\ stoppedWith' = blocksFound
    /\ UNCHANGED <<network, main, reporter, cancelled, clock, work, blockTemplate, manager,
                   managed, watching>>

StopWorkers ==
    /\ WriteLockFree
    /\ StopSection

\* A report of the reporter only reads and logs.
ReporterEnds ==
    /\ main = "stopping"
    /\ reporter = "running"
    /\ reporter' = "done"
    /\ UNCHANGED <<main, server, cancelled, isActive, stoppedWith, Elsewhere>>

Exit ==
    /\ main = "stopping"
    /\ server = "stopped" /\ reporter = "done"
    /\ main' = "exited"
    /\ UNCHANGED <<server, reporter, cancelled, isActive, stoppedWith, Elsewhere>>

ProcessIsOver ==
    /\ main = "exited"
    /\ UNCHANGED vars

-----------------------------------------------------------------------------
WorkerStep(w) ==
    \/ Loop(w) \/ ReadTemplate(w) \/ StoreTemplate(w) \/ ReturnTemplate(w)
    \/ Mine(w) \/ HandleBlockSolution(w) \/ CountShare(w)

MonitorStep == MonitorBegin \/ (\E w \in Worker : MonitorRead(w)) \/ MonitorPublish \/ MonitorEnds

StartStep == (\E w \in Worker : StartWorker(w)) \/ StartRoutines

Next ==
    \/ TimePasses
    \/ StartStep
    \/ \E w \in Worker : WorkerStep(w)
    \/ ManagerTick \/ ManagerEnds
    \/ MonitorStep
    \/ Interrupt \/ StopCancels \/ StopWorkers \/ ReporterEnds \/ Exit
    \/ ProcessIsOver

Spec == Init /\ [][Next]_vars

\* The scheduler runs every goroutine.  A Mutex lets a waiting writer in before later
\* readers, and a select with several ready cases takes each of them at some time: strong
\* fairness.  That an interrupt comes, that time passes and that the process gets as far
\* as its exit is not assumed.
FairSpec ==
    /\ Spec
    /\ WF_vars(StartStep) /\ WF_vars(StopCancels) /\ WF_vars(ReporterEnds)
    /\ \A w \in Worker : WF_vars(WorkerStep(w)) /\ SF_vars(HandleBlockSolution(w))
    /\ WF_vars(ManagerEnds)
    /\ WF_vars(MonitorStep) /\ SF_vars(MonitorEnds)
    /\ SF_vars(StopWorkers)

-----------------------------------------------------------------------------
Place == {"new", "loop", "read", "create", "return", "mine", "handle", "share", "done"}

Template == [timestamp : 0..MaxTime, root : {CalculateMerkleRoot(<<Coinbase>>)}, target : {Difficulty(network)}]

\* Every variable has its type, and a worker past the read of the template has one.
TypeOK ==
    /\ network \in Networks
    /\ clock \in 0..MaxTime
    /\ server \in {"starting", "waiting", "stopping", "stopped"}
    /\ main \in {"waiting", "stopping", "exited"}
    /\ reporter \in {"running", "done"}
    /\ cancelled \in BOOLEAN /\ isActive \in BOOLEAN /\ managed \in BOOLEAN
    /\ enabled \subseteq Worker
    /\ blockTemplate \in Template \cup {None}
    /\ blocksFound \in 0..MaxBlocks
    /\ pc \in [Worker -> Place]
    /\ \A w \in Worker : hand[w] \in Template \cup IF InRound(w) /\ pc[w] # "read" THEN {} ELSE {None}
    /\ shares \in [Worker -> 0..MaxBlocks]
    /\ manager \in {"new", "running", "done"}
    /\ monitor \in {"new", "running", "reading", "done"}
    /\ tally \in [seen : SUBSET Worker, active : 0..Cardinality(Worker), shares : 0..MaxBlocks]
    /\ stoppedWith \in 0..MaxBlocks \cup {None}

\* A progress event (monitorMiningProgress publishes the tally and blocksFound once all
\* workers are read) shows one state of the service: all of the workers or none of them,
\* and, although a worker counts its share without the lock and after its block was
\* counted, no share without its block and no more blocks without a share than workers.
ProgressIsConsistent ==
    monitor = "reading" /\ tally.seen = Worker =>
        /\ tally.active \in {0, Cardinality(Worker)}
        /\ tally.active > 0 =>
              /\ tally.shares <= blocksFound
              /\ blocksFound <= tally.shares + Cardinality(Worker)

\* The number of blocks the stopped event gives (Stop) is not the last word, a worker
\* that was mining when the service was stopped still counts its block (handleBlockSolution):
\* but no worker counts a second one.
AfterStop == stoppedWith # None => blocksFound <= stoppedWith + Cardinality(Worker)

\* The workers' race to create the first template under a read lock (getCurrentBlockTemplate)
\* may put an older one over a newer one; once manageBlockTemplates has replaced the
\* template, that is over, and no worker that was creating one puts it back.
TemplateNeverGoesBack ==
    [][managed => blockTemplate'.timestamp >= blockTemplate.timestamp]_vars

\* After an interrupt the demo stops: Stop gets the lock against the workers and the
\* tickers that take it again and again, and main is let go.
DemoStops == main = "stopping" ~> server = "stopped" /\ reporter = "done"

\* Once the service's context is cancelled, all of its goroutines end, unless the
\* process is over first.
GoroutinesEnd ==
    cancelled ~> \/ main = "exited"
                 \/ manager = "done" /\ monitor = "done" /\ \A w \in Worker : pc[w] = "done"

=============================================================================
