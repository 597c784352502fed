------------------------ MODULE MiningServiceProofs ------------------------
(***************************************************************************)
(* The template of the mining service, the blocks it counts after it has   *)
(* announced their number, and the numbers it announces while it runs, for *)
(* any number of workers.                                                  *)
(***************************************************************************)
EXTENDS MiningService, FiniteSetTheorems, TLAPS

\* There is a template, it is not of the future, and no worker is creating another.
TemplateIsSettled ==
    /\ blockTemplate # None
    /\ blockTemplate.timestamp \in Nat
    /\ blockTemplate.timestamp <= clock
    /\ \A w \in Worker : pc[w] # "create"

\* What the rule about the template rests on: once it is managed it is settled, because
\* the manager replaced it under the write lock and a worker creates only a missing one.
TemplateInv ==
    /\ clock \in Nat
    /\ pc \in [Worker -> Place]
    /\ managed \in BOOLEAN
    /\ managed => TemplateIsSettled

\* There is no template yet.
LEMMA TemplateInit == Init => TemplateInv
<1> SUFFICES ASSUME Init PROVE TemplateInv
  OBVIOUS
<1>1. clock \in Nat /\ pc \in [Worker -> Place]
  BY DEF Init, Place
<1>2. managed = FALSE
  BY DEF Init
<1> QED
  BY <1>1, <1>2 DEF TemplateInv

\* A created template is one, with the time it was created at.
LEMMA CreatedTemplate ==
    ASSUME NEW now \in Nat
    PROVE  /\ CreateBlockTemplate(now) # None
           /\ CreateBlockTemplate(now).timestamp = now
<1>1. Difficulty(network) \in {1, 1000000}
  BY DEF Difficulty
<1>2. CreateBlockTemplate(now) \in [timestamp : Nat, root : {CalculateMerkleRoot(<<Coinbase>>)}, target : {1, 1000000}]
  BY <1>1 DEF CreateBlockTemplate
<1> QED
  BY <1>2, MiningAssumption DEF CreateBlockTemplate

\* A worker that moves to another place than "create" and leaves template and clock alone
\* keeps the invariant.
LEMMA MovesOn ==
    ASSUME TemplateInv, NEW w \in Worker, NEW from, NEW to \in Place \ {"create"},
           At(w, from, to), UNCHANGED blockTemplate
    PROVE  TemplateInv'
<1>1. UNCHANGED <<clock, managed>> /\ pc' = [pc EXCEPT ![w] = to]
  BY DEF At
<1>2. pc' \in [Worker -> Place]
  BY <1>1 DEF TemplateInv
<1>3. ASSUME TemplateIsSettled PROVE TemplateIsSettled'
  <2>1. \A v \in Worker : pc'[v] # "create"
    BY <1>1, <1>3 DEF TemplateInv, TemplateIsSettled
  <2> QED
    BY <1>1, <1>3, <2>1 DEF TemplateIsSettled
<1> QED
  BY <1>1, <1>2, <1>3 DEF TemplateInv

\* Storing a template that was created needs a worker at "create": there is none once the
\* template is managed.
LEMMA NotStoredWhenManaged ==
    ASSUME TemplateInv, managed, NEW w \in Worker
    PROVE  ~StoreTemplate(w)
  BY DEF TemplateInv, TemplateIsSettled, StoreTemplate, At

\* The steps of a worker keep a managed template settled.
LEMMA WorkerKeepsTemplate ==
    ASSUME TemplateInv, NEW w \in Worker, WorkerStep(w)
    PROVE  TemplateInv'
<1> USE DEF Place
<1>1. CASE Loop(w)
  <2>1. At(w, "loop", "done") \/ At(w, "loop", "read")
    BY <1>1 DEF Loop
  <2>2. UNCHANGED blockTemplate
    BY <1>1 DEF Loop
  <2> QED
    BY <2>1, <2>2, MovesOn
<1>2. CASE ReadTemplate(w)
  <2>1. CASE blockTemplate = None /\ At(w, "read", "create")
    <3>1. UNCHANGED <<clock, managed>> /\ pc' = [pc EXCEPT ![w] = "create"]
      BY <2>1 DEF At
    <3>2. managed = FALSE
      BY <2>1 DEF TemplateInv, TemplateIsSettled
    <3>3. pc' \in [Worker -> Place]
      BY <3>1 DEF TemplateInv
    <3> QED
      BY <3>1, <3>2, <3>3 DEF TemplateInv
  <2>2. CASE HandOutTemplate(w)
    <3>1. At(w, "read", "mine") /\ UNCHANGED blockTemplate
      BY <2>2 DEF HandOutTemplate
    <3> QED
      BY <3>1, MovesOn
  <2> QED
    BY <1>2, <2>1, <2>2 DEF ReadTemplate
<1>3. CASE StoreTemplate(w)
  <2>1. managed = FALSE
    BY <1>3, NotStoredWhenManaged DEF TemplateInv
  <2>2. UNCHANGED <<clock, managed>> /\ pc' = [pc EXCEPT ![w] = "return"]
    BY <1>3 DEF StoreTemplate, At
  <2>3. pc' \in [Worker -> Place]
    BY <2>2 DEF TemplateInv
  <2> QED
    BY <2>1, <2>2, <2>3 DEF TemplateInv
<1>4. CASE ReturnTemplate(w)
  <2>1. At(w, "return", "mine") /\ UNCHANGED blockTemplate
    BY <1>4 DEF ReturnTemplate
  <2> QED
    BY <2>1, MovesOn
<1>5. CASE Mine(w)
  <2>1. At(w, "mine", "handle") \/ At(w, "mine", "loop")
    BY <1>5 DEF Mine
  <2>2. UNCHANGED blockTemplate
    BY <1>5 DEF Mine
  <2> QED
    BY <2>1, <2>2, MovesOn
<1>6. CASE HandleBlockSolution(w)
  <2>1. At(w, "handle", "share") /\ UNCHANGED blockTemplate
    BY <1>6 DEF HandleBlockSolution
  <2> QED
    BY <2>1, MovesOn
<1>7. CASE CountShare(w)
  <2>1. At(w, "share", "loop") /\ UNCHANGED blockTemplate
    BY <1>7 DEF CountShare
  <2> QED
    BY <2>1, MovesOn
<1> QED
  BY <1>1, <1>2, <1>3, <1>4, <1>5, <1>6, <1>7 DEF WorkerStep

\* The manager replaces the template while no worker holds the read lock.
LEMMA ManagerKeepsTemplate ==
    ASSUME TemplateInv, ManagerTick
    PROVE  TemplateInv' /\ blockTemplate'.timestamp = clock
<1>1. blockTemplate' # None /\ blockTemplate'.timestamp = clock
  BY CreatedTemplate DEF TemplateInv, ManagerTick, UpdateTemplate
<1>2. UNCHANGED <<clock, pc>> /\ managed' = TRUE
  BY DEF ManagerTick, UpdateTemplate, work
<1>3. \A w \in Worker : pc[w] # "create"
  BY DEF ManagerTick, WriteLockFree, Readers
<1>4. clock \in Nat
  BY DEF TemplateInv
<1>5. TemplateIsSettled'
  BY <1>1, <1>2, <1>3, <1>4 DEF TemplateIsSettled
<1> QED
  BY <1>1, <1>2, <1>5 DEF TemplateInv

\* Every step keeps the invariant.
LEMMA TemplateNext == TemplateInv /\ [Next]_vars => TemplateInv'
<1> SUFFICES ASSUME TemplateInv, [Next]_vars PROVE TemplateInv'
  OBVIOUS
<1> USE DEF process, work, watching, Elsewhere
<1>1. ASSUME UNCHANGED <<clock, pc, blockTemplate, managed>> PROVE TemplateInv'
  BY <1>1 DEF TemplateInv, TemplateIsSettled
<1>2. CASE TimePasses
  <2>1. clock' = clock + 1 /\ UNCHANGED <<pc, blockTemplate, managed>>
    BY <1>2 DEF TimePasses
  <2>2. clock \in Nat
    BY DEF TemplateInv
  <2>3. ASSUME TemplateIsSettled PROVE TemplateIsSettled'
    BY <2>1, <2>2, <2>3 DEF TemplateIsSettled
  <2> QED
    BY <2>1, <2>2, <2>3 DEF TemplateInv
<1>3. CASE StartStep
  <2>1. ASSUME NEW w \in Worker, StartWorker(w) PROVE TemplateInv'
    <3>1. UNCHANGED <<clock, blockTemplate, managed>> /\ pc' = [pc EXCEPT ![w] = "loop"]
      BY <2>1 DEF StartWorker
    <3>2. pc' \in [Worker -> Place]
      BY <3>1 DEF TemplateInv, Place
    <3>3. ASSUME TemplateIsSettled PROVE TemplateIsSettled'
      <4>1. \A v \in Worker : pc'[v] # "create"
        BY <3>1, <3>3 DEF TemplateInv, TemplateIsSettled
      <4> QED
        BY <3>1, <3>3, <4>1 DEF TemplateIsSettled
    <3> QED
      BY <3>1, <3>2, <3>3 DEF TemplateInv
  <2>2. CASE StartRoutines
    BY <1>1, <2>2 DEF StartRoutines
  <2> QED
    BY <1>3, <2>1, <2>2 DEF StartStep
<1>4. CASE \E w \in Worker : WorkerStep(w)
  BY <1>4, WorkerKeepsTemplate
<1>5. CASE ManagerTick
  BY <1>5, ManagerKeepsTemplate
<1>6. CASE ManagerEnds
  BY <1>1, <1>6 DEF ManagerEnds
<1>7. CASE MonitorStep
  BY <1>1, <1>7 DEF MonitorStep, MonitorBegin, MonitorRead, MonitorPublish, MonitorEnds, Monitor
<1>8. CASE Interrupt \/ StopCancels \/ StopWorkers \/ ReporterEnds \/ Exit
  BY <1>1, <1>8 DEF Interrupt, StopCancels, StopWorkers, StopSection, ReporterEnds, Exit
<1>9. CASE ProcessIsOver \/ UNCHANGED vars
  BY <1>1, <1>9 DEF ProcessIsOver, vars
<1> QED
  BY <1>2, <1>3, <1>4, <1>5, <1>6, <1>7, <1>8, <1>9 DEF Next

\* Only the manager changes a managed template.
LEMMA OnlyTheManagerReplaces ==
    ASSUME TemplateInv, managed, [Next]_vars
    PROVE  ManagerTick \/ UNCHANGED blockTemplate
<1> USE DEF process, work, watching, Elsewhere
<1>1. ASSUME NEW w \in Worker, WorkerStep(w) PROVE UNCHANGED blockTemplate
  BY <1>1, NotStoredWhenManaged
     DEF WorkerStep, Loop, ReadTemplate, HandOutTemplate, ReturnTemplate, Mine, HandleBlockSolution, CountShare
<1>2. CASE TimePasses \/ StartStep \/ ManagerEnds \/ MonitorStep
  BY <1>2 DEF TimePasses, StartStep, StartWorker, StartRoutines, ManagerEnds, MonitorStep, MonitorBegin,
              MonitorRead, MonitorPublish, MonitorEnds, Monitor
<1>3. CASE Interrupt \/ StopCancels \/ StopWorkers \/ ReporterEnds \/ Exit \/ ProcessIsOver \/ UNCHANGED vars
  BY <1>3 DEF Interrupt, StopCancels, StopWorkers, StopSection, ReporterEnds, Exit, ProcessIsOver, vars
<1> QED
  BY <1>1, <1>2, <1>3 DEF Next

\* Once manageBlockTemplates has replaced the template, no step puts an older one back,
\* however many workers raced to create the first.
THEOREM TemplateIsMonotone == Spec => TemplateNeverGoesBack
<1>1. TemplateInv /\ [Next]_vars => [managed => blockTemplate'.timestamp >= blockTemplate.timestamp]_vars
  <2> SUFFICES ASSUME TemplateInv, [Next]_vars, managed
               PROVE  blockTemplate'.timestamp >= blockTemplate.timestamp
    OBVIOUS
  <2>1. blockTemplate.timestamp \in Nat /\ blockTemplate.timestamp <= clock /\ clock \in Nat
    BY DEF TemplateInv, TemplateIsSettled
  <2>2. CASE ManagerTick
    BY <2>1, <2>2, ManagerKeepsTemplate
  <2>3. CASE UNCHANGED blockTemplate
    BY <2>1, <2>3
  <2> QED
    BY <2>2, <2>3, OnlyTheManagerReplaces
<1> QED
  BY <1>1, TemplateInit, TemplateNext, PTL DEF Spec, TemplateNeverGoesBack
-----------------------------------------------------------------------------
\* The blocks that may still be counted after the stopped event are those of the workers
\* in a round.
StopIsCounted ==
    /\ stoppedWith \in Nat
    /\ cancelled = TRUE
    /\ blocksFound + Cardinality(Pending) <= stoppedWith + Cardinality(Worker)

StopInv ==
    /\ pc \in [Worker -> Place]
    /\ blocksFound \in Nat
    /\ cancelled \in BOOLEAN
    /\ server = "stopping" => cancelled = TRUE
    /\ stoppedWith # None => StopIsCounted

\* The workers in a round are a finite part of the workers.
LEMMA PendingIsFinite ==
    /\ IsFiniteSet(Worker) /\ Cardinality(Worker) \in Nat
    /\ IsFiniteSet(Pending) /\ Cardinality(Pending) \in Nat /\ Cardinality(Pending) <= Cardinality(Worker)
<1>1. IsFiniteSet(Worker) /\ Pending \subseteq Worker
  BY MiningAssumption DEF Pending
<1> QED
  BY <1>1, FS_Subset, FS_CardinalityType

\* Nothing is stopped or counted yet.
LEMMA StopInit == Init => StopInv
<1> SUFFICES ASSUME Init PROVE StopInv
  OBVIOUS
<1>1. pc \in [Worker -> Place] /\ blocksFound \in Nat /\ cancelled \in BOOLEAN
  BY DEF Init, Place
<1>2. server = "starting" /\ stoppedWith = None
  BY DEF Init, DemoStarts
<1> QED
  BY <1>1, <1>2 DEF StopInv

\* No new round: the count of what may come does not grow.
LEMMA NoNewRound ==
    ASSUME StopInv, StopIsCounted, Pending' \subseteq Pending, UNCHANGED <<blocksFound, cancelled, stoppedWith>>
    PROVE  StopIsCounted'
<1>1. Cardinality(Pending') \in Nat /\ Cardinality(Pending') <= Cardinality(Pending)
  BY PendingIsFinite, FS_Subset, FS_CardinalityType
<1>2. blocksFound \in Nat /\ stoppedWith \in Nat
  BY DEF StopInv, StopIsCounted
<1> QED
  BY <1>1, <1>2, PendingIsFinite DEF StopIsCounted

\* A worker that does not begin a round and counts no block keeps the invariant.
LEMMA GoesOn ==
    ASSUME StopInv, NEW w \in Worker, NEW from, NEW to \in Place, At(w, from, to), UNCHANGED blocksFound,
           stoppedWith # None => from \in {"read", "create", "return", "mine"} \/ to \in {"loop", "done"}
    PROVE  StopInv'
<1>1. pc[w] = from /\ pc' = [pc EXCEPT ![w] = to] /\ UNCHANGED <<cancelled, server, stoppedWith>>
  BY DEF At, process
<1>2. pc' \in [Worker -> Place]
  BY <1>1 DEF StopInv
<1>3. ASSUME stoppedWith # None PROVE StopIsCounted'
  <2>1. Pending' \subseteq Pending
    BY <1>1, <1>3 DEF Pending, InRound, StopInv
  <2> QED
    BY <1>1, <1>3, <2>1, NoNewRound DEF StopInv
<1> QED
  BY <1>1, <1>2, <1>3 DEF StopInv

\* A block that is counted was in a round, and its worker leaves it.
LEMMA CountsItsRound ==
    ASSUME StopInv, NEW w \in Worker, HandleBlockSolution(w)
    PROVE  StopInv'
<1>1. /\ pc[w] = "handle" /\ pc' = [pc EXCEPT ![w] = "share"]
      /\ UNCHANGED <<cancelled, server, stoppedWith>>
      /\ blocksFound' = blocksFound + 1
  BY DEF HandleBlockSolution, At, process
<1>2. pc' \in [Worker -> Place] /\ blocksFound \in Nat
  BY <1>1 DEF StopInv, Place
<1>3. w \in Pending /\ Pending' = Pending \ {w}
  BY <1>1, <1>2 DEF Pending, InRound, StopInv
<1>4. Cardinality(Pending') = Cardinality(Pending) - 1
  BY <1>3, PendingIsFinite, FS_RemoveElement
<1>5. ASSUME stoppedWith # None PROVE StopIsCounted'
  <2>1. StopIsCounted
    BY <1>5 DEF StopInv
  <2> QED
    BY <1>1, <1>2, <1>4, <2>1, PendingIsFinite DEF StopIsCounted
<1> QED
  BY <1>1, <1>2, <1>5 DEF StopInv

\* The steps of a worker keep the count of what may still come.
LEMMA WorkerKeepsStop ==
    ASSUME StopInv, NEW w \in Worker, WorkerStep(w)
    PROVE  StopInv'
<1> USE DEF Place
<1>1. CASE Loop(w)
  <2>1. UNCHANGED blocksFound
    BY <1>1 DEF Loop
  <2>2. CASE At(w, "loop", "done")
    BY <2>1, <2>2, GoesOn
  <2>3. CASE cancelled = FALSE /\ At(w, "loop", "read")
    <3>1. stoppedWith = None
      BY <2>3 DEF StopInv, StopIsCounted
    <3> QED
      BY <2>1, <2>3, <3>1, GoesOn
  <2> QED
    BY <1>1, <2>2, <2>3 DEF Loop, StopInv
<1>2. CASE ReadTemplate(w)
  <2>1. (At(w, "read", "create") \/ At(w, "read", "mine")) /\ UNCHANGED blocksFound
    BY <1>2 DEF ReadTemplate, HandOutTemplate
  <2> QED
    BY <2>1, GoesOn
<1>3. CASE StoreTemplate(w)
  <2>1. At(w, "create", "return") /\ UNCHANGED blocksFound
    BY <1>3 DEF StoreTemplate
  <2> QED
    BY <2>1, GoesOn
<1>4. CASE ReturnTemplate(w)
  <2>1. At(w, "return", "mine") /\ UNCHANGED blocksFound
    BY <1>4 DEF ReturnTemplate
  <2> QED
    BY <2>1, GoesOn
<1>5. CASE Mine(w)
  <2>1. (At(w, "mine", "handle") \/ At(w, "mine", "loop")) /\ UNCHANGED blocksFound
    BY <1>5 DEF Mine
  <2> QED
    BY <2>1, GoesOn
<1>6. CASE HandleBlockSolution(w)
  BY <1>6, CountsItsRound
<1>7. CASE CountShare(w)
  <2>1. At(w, "share", "loop") /\ UNCHANGED blocksFound
    BY <1>7 DEF CountShare
  <2> QED
    BY <2>1, GoesOn
<1> QED
  BY <1>1, <1>2, <1>3, <1>4, <1>5, <1>6, <1>7 DEF WorkerStep

\* Every step keeps it.
LEMMA StopNext == StopInv /\ [Next]_vars => StopInv'
<1> SUFFICES ASSUME StopInv, [Next]_vars PROVE StopInv'
  OBVIOUS
<1> USE DEF process, work, watching, Elsewhere
<1>1. ASSUME UNCHANGED <<pc, blocksFound, cancelled, stoppedWith>>, server' # "stopping" \/ UNCHANGED server
      PROVE  StopInv'
  <2>1. UNCHANGED Pending
    BY <1>1 DEF Pending, InRound
  <2>2. ASSUME StopIsCounted PROVE StopIsCounted'
    BY <1>1, <2>1, <2>2, NoNewRound
  <2> QED
    BY <1>1, <2>2 DEF StopInv
<1>2. CASE TimePasses \/ ManagerTick \/ ManagerEnds \/ MonitorStep
  BY <1>1, <1>2 DEF TimePasses, ManagerTick, UpdateTemplate, ManagerEnds, MonitorStep, MonitorBegin, MonitorRead,
                    MonitorPublish, MonitorEnds, Monitor
<1>3. ASSUME NEW w \in Worker, StartWorker(w) PROVE StopInv'
  <2>1. /\ pc[w] = "new" /\ pc' = [pc EXCEPT ![w] = "loop"]
        /\ UNCHANGED <<blocksFound, cancelled, stoppedWith, server>>
    BY <1>3 DEF StartWorker
  <2>2. pc' \in [Worker -> Place] /\ Pending' \subseteq Pending
    BY <2>1 DEF StopInv, Place, Pending, InRound
  <2>3. ASSUME StopIsCounted PROVE StopIsCounted'
    BY <2>1, <2>2, <2>3, NoNewRound
  <2> QED
    BY <2>1, <2>2, <2>3 DEF StopInv
<1>4. CASE StartRoutines
  BY <1>1, <1>4 DEF StartRoutines
<1>5. CASE \E w \in Worker : WorkerStep(w)
  BY <1>5, WorkerKeepsStop
<1>6. CASE Interrupt \/ ReporterEnds \/ Exit
  BY <1>1, <1>6 DEF Interrupt, ReporterEnds, Exit
<1>7. CASE StopCancels
  <2>1. cancelled' = TRUE /\ UNCHANGED <<pc, blocksFound, stoppedWith>>
    BY <1>7 DEF StopCancels
  <2>2. ASSUME StopIsCounted PROVE StopIsCounted'
    <3>1. UNCHANGED <<cancelled, Pending>>
      BY <2>1, <2>2 DEF StopIsCounted, Pending, InRound
    <3> QED
      BY <2>1, <2>2, <3>1, NoNewRound
  <2> QED
    BY <2>1, <2>2 DEF StopInv
<1>8. CASE StopWorkers
  <2>1. /\ server = "stopping" /\ server' = "stopped" /\ stoppedWith' = blocksFound
        /\ UNCHANGED <<pc, blocksFound, cancelled>>
    BY <1>8 DEF StopWorkers, StopSection
  <2>2. cancelled = TRUE /\ blocksFound \in Nat
    BY <2>1 DEF StopInv
  <2>3. UNCHANGED Pending
    BY <2>1 DEF Pending, InRound
  <2>4. StopIsCounted'
    BY <2>1, <2>2, <2>3, PendingIsFinite DEF StopIsCounted
  <2> QED
    BY <2>1, <2>2, <2>4 DEF StopInv
<1>9. CASE ProcessIsOver \/ UNCHANGED vars
  BY <1>1, <1>9 DEF ProcessIsOver, vars
<1> QED
  BY <1>2, <1>3, <1>4, <1>5, <1>6, <1>7, <1>8, <1>9 DEF Next, StartStep

\* The number of the stopped event is exceeded by no more blocks than there are workers.
THEOREM StopIsNearlyFinal == Spec => []AfterStop
<1>1. StopInv => AfterStop
  <2> SUFFICES ASSUME StopInv, stoppedWith # None PROVE blocksFound <= stoppedWith + Cardinality(Worker)
    BY DEF AfterStop
  <2>1. StopIsCounted /\ blocksFound \in Nat
    BY DEF StopInv
  <2> QED
    BY <2>1, PendingIsFinite DEF StopIsCounted
<1> QED
  BY <1>1, StopInit, StopNext, PTL DEF Spec

-----------------------------------------------------------------------------
(***************************************************************************)
(* What a progress event shows.  The shares of a set of workers are pairs  *)
(* of a worker and a number, so that to add the counters up is to count    *)
(* the pairs.  A counted block is a share, or its worker is about to count *)
(* it; the monitor's read lock keeps blocks from being counted and workers *)
(* from being stopped while it reads, but not shares.                      *)
(***************************************************************************)
Shared(S, sh) == {p \in S \X Nat : p[2] \in 1..sh[p[1]]}

Waiting(S, at) == {w \in S : at[w] = "share"}

\* Sets of pairs with the same pairs are equal.
LEMMA SamePairs ==
    ASSUME NEW S, NEW A, NEW B, A \subseteq S \X Nat, B \subseteq S \X Nat,
           \A v \in S : \A i \in Nat : <<v, i>> \in A <=> <<v, i>> \in B
    PROVE  A = B
<1>1. ASSUME NEW p \in S \X Nat PROVE p \in A <=> p \in B
  <2>1. PICK v \in S, i \in Nat : p = <<v, i>>
    OBVIOUS
  <2>2. <<v, i>> \in A <=> <<v, i>> \in B
    OBVIOUS
  <2> QED
    BY <2>1, <2>2, Zenon
<1>2. \A p : p \in A <=> p \in B
  BY <1>1
<1> QED
  BY <1>2, Zenon

\* A worker of the set counts one share more.
LEMMA OneShareMore ==
    ASSUME NEW S \in SUBSET Worker, NEW sh \in [Worker -> Nat], NEW w \in S,
           IsFiniteSet(Shared(S, sh)),
           NEW more, more = [sh EXCEPT ![w] = @ + 1]
    PROVE  /\ IsFiniteSet(Shared(S, more))
           /\ Cardinality(Shared(S, more)) = Cardinality(Shared(S, sh)) + 1
<1>1. sh[w] \in Nat /\ more[w] = sh[w] + 1 /\ \A v \in S \ {w} : more[v] = sh[v]
  OBVIOUS
<1> DEFINE q == <<w, sh[w] + 1>>
<1>2. q \notin Shared(S, sh)
  BY <1>1 DEF Shared
<1>3. Shared(S, more) = Shared(S, sh) \cup {q}
  <2>1. ASSUME NEW v \in S, NEW i \in Nat
        PROVE  <<v, i>> \in Shared(S, more) <=> <<v, i>> \in Shared(S, sh) \cup {q}
    <3>1. CASE v = w
      <4>1. i \in 1..(sh[w] + 1) <=> i \in 1..sh[w] \/ i = sh[w] + 1
        BY <1>1
      <4> QED
        BY <1>1, <3>1, <4>1 DEF Shared
    <3>2. CASE v # w
      BY <1>1, <3>2 DEF Shared
    <3> QED
      BY <3>1, <3>2
  <2>2. q \in S \X Nat /\ Shared(S, more) \subseteq S \X Nat /\ Shared(S, sh) \subseteq S \X Nat
    BY <1>1 DEF Shared
  <2>3. {q} \subseteq S \X Nat
    BY <2>2
  <2> HIDE DEF q
  <2>4. Shared(S, sh) \cup {q} \subseteq S \X Nat
    BY <2>2, <2>3
  <2> DEFINE A == Shared(S, more)
             B == Shared(S, sh) \cup {q}
  <2>5. \A v \in S : \A i \in Nat : <<v, i>> \in A <=> <<v, i>> \in B
    BY <2>1, Zenon
  <2>6. A \subseteq S \X Nat /\ B \subseteq S \X Nat
    BY <2>2, <2>4, Zenon
  <2> HIDE DEF A, B
  <2>7. A = B
    BY <2>5, <2>6, SamePairs
  <2> QED
    BY <2>7 DEF A, B
<1> HIDE DEF q
<1>4. /\ IsFiniteSet(Shared(S, sh) \cup {q})
      /\ Cardinality(Shared(S, sh) \cup {q}) =
            IF q \in Shared(S, sh) THEN Cardinality(Shared(S, sh)) ELSE Cardinality(Shared(S, sh)) + 1
  BY FS_AddElement
<1> QED
  BY <1>2, <1>3, <1>4

\* A worker outside of the set does not matter to it.
LEMMA NotOurShare ==
    ASSUME NEW S \in SUBSET Worker, NEW sh \in [Worker -> Nat], NEW w \in Worker \ S
    PROVE  Shared(S, [sh EXCEPT ![w] = @ + 1]) = Shared(S, sh)
<1>1. \A v \in S : [sh EXCEPT ![w] = @ + 1][v] = sh[v]
  OBVIOUS
<1> QED
  BY <1>1 DEF Shared

\* A worker joins the set with the shares it has.
LEMMA OneWorkerMore ==
    ASSUME NEW S \in SUBSET Worker, NEW sh \in [Worker -> Nat], NEW w \in Worker \ S,
           IsFiniteSet(Shared(S, sh))
    PROVE  /\ IsFiniteSet(Shared(S \cup {w}, sh))
           /\ Cardinality(Shared(S \cup {w}, sh)) = Cardinality(Shared(S, sh)) + sh[w]
<1> DEFINE own == {w} \X (1..sh[w])
<1>1. sh[w] \in Nat
  OBVIOUS
<1>2. IsFiniteSet(1..sh[w]) /\ Cardinality(1..sh[w]) = sh[w]
  <2>1. /\ IsFiniteSet(1..sh[w])
        /\ Cardinality(1..sh[w]) = IF 1 > sh[w] THEN 0 ELSE sh[w] - 1 + 1
    BY <1>1, 1 \in Int, sh[w] \in Int, FS_Interval
  <2> QED
    BY <1>1, <2>1
<1>3. IsFiniteSet(own) /\ Cardinality(own) = sh[w]
  <2>1. IsFiniteSet({w}) /\ Cardinality({w}) = 1
    BY FS_Singleton
  <2>2. IsFiniteSet(own) /\ Cardinality(own) = Cardinality({w}) * Cardinality(1..sh[w])
    BY <1>2, <2>1, FS_Product
  <2> QED
    BY <1>1, <1>2, <2>1, <2>2
<1>4. Shared(S \cup {w}, sh) = Shared(S, sh) \cup own
  <2>1. ASSUME NEW v \in S \cup {w}, NEW i \in Nat
        PROVE  <<v, i>> \in Shared(S \cup {w}, sh) <=> <<v, i>> \in Shared(S, sh) \cup own
    BY DEF Shared
  <2>2. /\ Shared(S \cup {w}, sh) \subseteq (S \cup {w}) \X Nat
        /\ Shared(S, sh) \subseteq (S \cup {w}) \X Nat
        /\ own \subseteq (S \cup {w}) \X Nat
    BY <1>1 DEF Shared
  <2> HIDE DEF own
  <2>3. Shared(S, sh) \cup own \subseteq (S \cup {w}) \X Nat
    BY <2>2
  <2> DEFINE T == S \cup {w}
             A == Shared(S \cup {w}, sh)
             B == Shared(S, sh) \cup own
  <2>4. \A v \in T : \A i \in Nat : <<v, i>> \in A <=> <<v, i>> \in B
    BY <2>1, Zenon
  <2>5. A \subseteq T \X Nat /\ B \subseteq T \X Nat
    BY <2>2, <2>3, Zenon
  <2> HIDE DEF T, A, B
  <2>6. A = B
    BY <2>4, <2>5, SamePairs
  <2> QED
    BY <2>6 DEF A, B
<1>5. Shared(S, sh) \cap own = {}
  BY DEF Shared
<1> HIDE DEF own
<1>6. Cardinality(Shared(S, sh) \cap own) = 0
  BY <1>5, FS_EmptySet
<1>7. Cardinality(Shared(S, sh)) \in Nat
  BY FS_CardinalityType
<1>8. /\ IsFiniteSet(Shared(S, sh) \cup own)
      /\ Cardinality(Shared(S, sh) \cup own) =
            Cardinality(Shared(S, sh)) + Cardinality(own) - Cardinality(Shared(S, sh) \cap own)
  BY <1>3, FS_Union
<1>9. Cardinality(Shared(S, sh) \cup own) = Cardinality(Shared(S, sh)) + sh[w]
  BY <1>1, <1>3, <1>6, <1>7, <1>8
<1> QED
  BY <1>4, <1>8, <1>9, Zenon

\* A part of the workers has a part of the shares.
LEMMA FewerShares ==
    ASSUME NEW S \in SUBSET Worker, NEW sh, IsFiniteSet(Shared(Worker, sh))
    PROVE  /\ IsFiniteSet(Shared(S, sh)) /\ Cardinality(Shared(S, sh)) \in Nat
           /\ Cardinality(Shared(Worker, sh)) \in Nat
           /\ Cardinality(Shared(S, sh)) <= Cardinality(Shared(Worker, sh))
<1>1. Shared(S, sh) \in SUBSET Shared(Worker, sh)
  BY DEF Shared
<1> QED
  BY <1>1, FS_Subset, FS_CardinalityType

\* The workers that are about to count, of a set, are finitely many.
LEMMA WaitingIsFinite ==
    ASSUME NEW S \in SUBSET Worker, NEW at
    PROVE  /\ IsFiniteSet(Waiting(S, at)) /\ Cardinality(Waiting(S, at)) \in Nat
           /\ IsFiniteSet(S) /\ Cardinality(S) \in Nat /\ Cardinality(S) <= Cardinality(Worker)
           /\ Cardinality(Worker) \in Nat
<1>1. IsFiniteSet(Worker) /\ Waiting(S, at) \in SUBSET Worker
  BY MiningAssumption DEF Waiting
<1> QED
  BY <1>1, FS_Subset, FS_CardinalityType

-----------------------------------------------------------------------------
\* The types of what the program's goroutines, its clock and its flags are.
FlagTypes ==
    /\ network \in Networks
    /\ clock \in 0..MaxTime
    /\ server \in {"starting", "waiting", "stopping", "stopped"}
    /\ main \in {"waiting", "stopping", "exited"}
    /\ reporter \in {"running", "done"}
    /\ cancelled \in BOOLEAN /\ isActive \in BOOLEAN /\ managed \in BOOLEAN
    /\ enabled \subseteq Worker
    /\ manager \in {"new", "running", "done"}
    /\ monitor \in {"new", "running", "reading", "done"}

\* The types of the counters, without their bounds.
CountTypes ==
    /\ pc \in [Worker -> Place]
    /\ shares \in [Worker -> Nat]
    /\ blocksFound \in Nat
    /\ tally \in [seen : SUBSET Worker, active : Nat, shares : Nat]
    /\ stoppedWith \in Nat \cup {None}

\* A worker that mines has a template, and one that reads back what it created finds one.
HasTemplate(w) == InRound(w) /\ pc[w] # "read"

HandTypes ==
    /\ blockTemplate \in Template \cup {None}
    /\ hand \in [Worker -> Template \cup {None}]
    /\ \A w \in Worker :
          /\ HasTemplate(w) => hand[w] \in Template
          /\ pc[w] = "return" => blockTemplate \in Template

\* A round is begun only while it may end in one of MaxBlocks solutions.
RoundsAreBounded ==
    /\ blocksFound + Cardinality(Pending) <= MaxBlocks
    /\ stoppedWith # None => stoppedWith <= blocksFound

\* Every counted block is a share of its worker, or its worker is about to count it.
SharesAreBlocks ==
    /\ IsFiniteSet(Shared(Worker, shares))
    /\ blocksFound = Cardinality(Shared(Worker, shares)) + Cardinality(Waiting(Worker, pc))

\* How far Start and Stop are, and which workers and which monitor there are then.
PhaseInv ==
    /\ server = "starting" => monitor = "new" /\ enabled = {w \in Worker : pc[w] # "new"}
    /\ server \in {"waiting", "stopping"} => enabled = Worker
    /\ server = "stopped" => enabled = {}
    /\ monitor = "reading" => server # "starting"

\* What the monitor has read of the workers: all were enabled, and the shares it has added
\* are those they had, but for the shares counted since by workers whose blocks had been
\* counted before; or none was enabled.
ReadOfAll ==
    /\ tally.active = Cardinality(tally.seen)
    /\ tally.shares <= Cardinality(Shared(tally.seen, shares))
    /\ Cardinality(Shared(tally.seen, shares)) + Cardinality(Waiting(tally.seen, pc))
          <= tally.shares + Cardinality(tally.seen)

TallyInv ==
    /\ monitor # "reading" => tally = EmptyTally
    /\ monitor = "reading" /\ enabled = Worker => ReadOfAll
    /\ monitor = "reading" /\ enabled = {} => tally.active = 0 /\ tally.shares = 0

ProgressInv ==
    /\ FlagTypes
    /\ CountTypes
    /\ HandTypes
    /\ RoundsAreBounded
    /\ SharesAreBlocks
    /\ PhaseInv
    /\ TallyInv

\* No worker is made, nothing is counted, nothing is read.
LEMMA ProgressInit == Init => ProgressInv
<1> SUFFICES ASSUME Init PROVE ProgressInv
  OBVIOUS
<1>1. FlagTypes
  <2>1. 0 \in 0..MaxTime /\ FALSE \in BOOLEAN
    BY MiningAssumption
  <2> QED
    BY <2>1 DEF Init, DemoStarts, FlagTypes
<1>2. pc = [w \in Worker |-> "new"] /\ shares = [w \in Worker |-> 0] /\ blocksFound = 0 /\ stoppedWith = None
  BY DEF Init
<1>3. tally = EmptyTally /\ EmptyTally \in [seen : SUBSET Worker, active : Nat, shares : Nat]
  BY DEF Init, EmptyTally
<1>4. CountTypes
  BY <1>2, <1>3 DEF CountTypes, Place
<1>5. HandTypes
  BY <1>2 DEF Init, HandTypes, HasTemplate, InRound
<1>6. Pending = {} /\ Waiting(Worker, pc) = {} /\ Shared(Worker, shares) = {}
  <2>1. \A w \in Worker : pc[w] = "new" /\ shares[w] = 0
    BY <1>2
  <2>2. \A n \in Nat : n \notin 1..0
    OBVIOUS
  <2> QED
    BY <2>1, <2>2 DEF Pending, InRound, Waiting, Shared
<1>7. RoundsAreBounded /\ SharesAreBlocks
  <2>1. IsFiniteSet({}) /\ Cardinality({}) = 0
    BY FS_EmptySet
  <2>2. MaxBlocks \in Nat
    BY MiningAssumption
  <2>3. RoundsAreBounded
    BY <1>2, <1>6, <2>1, <2>2 DEF RoundsAreBounded
  <2>4. SharesAreBlocks
    BY <1>2, <1>6, <2>1 DEF SharesAreBlocks
  <2> QED
    BY <2>3, <2>4
<1>8. PhaseInv
  BY <1>2 DEF Init, DemoStarts, PhaseInv
<1>9. TallyInv
  BY <1>3 DEF Init, TallyInv
<1> QED
  BY <1>1, <1>4, <1>5, <1>7, <1>8, <1>9 DEF ProgressInv

-----------------------------------------------------------------------------
\* The steps of a worker, by what they do to the counters: it begins a round, ...
Begins(w) ==
    /\ pc[w] = "loop" /\ RoundsLeft
    /\ pc' = [pc EXCEPT ![w] = "read"]
    /\ UNCHANGED <<shares, blocksFound>>

\* ... goes on with it or ends it, ...
Continues(w) ==
    /\ pc[w] \notin {"new", "share"}
    /\ \E to \in {"create", "return", "mine", "handle", "loop", "done"} :
          /\ InRound(w) \/ to \in {"loop", "done"}
          /\ pc' = [pc EXCEPT ![w] = to]
    /\ UNCHANGED <<shares, blocksFound>>

\* ... counts a block ...
CountsBlock(w) ==
    /\ pc[w] = "handle" /\ WriteLockFree
    /\ pc' = [pc EXCEPT ![w] = "share"]
    /\ blocksFound' = blocksFound + 1
    /\ UNCHANGED shares

\* ... or a share.
CountsShare(w) ==
    /\ pc[w] = "share"
    /\ pc' = [pc EXCEPT ![w] = "loop"]
    /\ shares' = [shares EXCEPT ![w] = @ + 1]
    /\ UNCHANGED blocksFound

\* Each of the steps of a worker is one of these.
LEMMA WorkerMoves ==
    ASSUME NEW w \in Worker, WorkerStep(w)
    PROVE  /\ UNCHANGED <<process, clock, manager, managed, watching>>
           /\ Begins(w) \/ Continues(w) \/ CountsBlock(w) \/ CountsShare(w)
<1> USE DEF At
<1>1. CASE Loop(w)
  BY <1>1 DEF Loop, Begins, Continues
<1>2. CASE ReadTemplate(w)
  BY <1>2 DEF ReadTemplate, HandOutTemplate, Continues, InRound
<1>3. CASE StoreTemplate(w) \/ ReturnTemplate(w) \/ Mine(w)
  BY <1>3 DEF StoreTemplate, ReturnTemplate, Mine, Continues, InRound
<1>4. CASE HandleBlockSolution(w)
  BY <1>4 DEF HandleBlockSolution, CountsBlock
<1>5. CASE CountShare(w)
  BY <1>5 DEF CountShare, CountsShare
<1> QED
  BY <1>1, <1>2, <1>3, <1>4, <1>5 DEF WorkerStep

\* Every other step but the start of a worker leaves the workers alone.
LEMMA WorkersRest ==
    ASSUME [Next]_vars
    PROVE  \/ \E w \in Worker : StartWorker(w)
           \/ \E w \in Worker : WorkerStep(w)
           \/ UNCHANGED work
<1> USE DEF Elsewhere
<1>1. CASE TimePasses \/ StartStep \/ ManagerTick \/ ManagerEnds \/ MonitorStep
  BY <1>1 DEF TimePasses, StartStep, StartRoutines, ManagerTick, UpdateTemplate, ManagerEnds, MonitorStep,
              MonitorBegin, MonitorRead, MonitorPublish, MonitorEnds, Monitor
<1>2. CASE Interrupt \/ StopCancels \/ StopWorkers \/ ReporterEnds \/ Exit \/ ProcessIsOver \/ UNCHANGED vars
  BY <1>2 DEF Interrupt, StopCancels, StopWorkers, StopSection, ReporterEnds, Exit, ProcessIsOver, vars
<1> QED
  BY <1>1, <1>2 DEF Next

\* Every step keeps the types of goroutines, clock and flags.
LEMMA FlagsNext == FlagTypes /\ [Next]_vars => FlagTypes'
<1> SUFFICES ASSUME FlagTypes, [Next]_vars PROVE FlagTypes'
  OBVIOUS
<1> USE DEF FlagTypes, process, work, watching, Elsewhere
<1>1. CASE TimePasses
  <2>1. clock' \in 0..MaxTime
    <3>1. MaxTime \in Nat
      BY MiningAssumption
    <3> QED
      BY <1>1, <3>1 DEF TimePasses
  <2> QED
    BY <1>1, <2>1 DEF TimePasses
<1>2. ASSUME NEW w \in Worker, StartWorker(w) PROVE FlagTypes'
  BY <1>2 DEF StartWorker
<1>3. CASE StartRoutines
  <2>1. isActive' \in BOOLEAN
    BY <1>3 DEF StartRoutines
  <2> QED
    BY <1>3, <2>1 DEF StartRoutines
<1>4. ASSUME NEW w \in Worker, WorkerStep(w) PROVE FlagTypes'
  BY <1>4, WorkerMoves
<1>5. CASE ManagerTick \/ ManagerEnds
  BY <1>5 DEF ManagerTick, UpdateTemplate, ManagerEnds
<1>6. CASE MonitorStep
  BY <1>6 DEF MonitorStep, MonitorBegin, MonitorRead, MonitorPublish, MonitorEnds, Monitor
<1>7. CASE Interrupt \/ StopCancels \/ ReporterEnds \/ Exit
  BY <1>7 DEF Interrupt, StopCancels, ReporterEnds, Exit
<1>8. CASE StopWorkers
  BY <1>8 DEF StopWorkers, StopSection
<1>9. CASE ProcessIsOver \/ UNCHANGED vars
  BY <1>9 DEF ProcessIsOver, vars
<1> QED
  BY <1>1, <1>2, <1>3, <1>4, <1>5, <1>6, <1>7, <1>8, <1>9 DEF Next, StartStep

\* A worker that was made stays made, and so do the workers that were not.
LEMMA StaysMade ==
    ASSUME CountTypes, NEW w \in Worker, WorkerStep(w)
    PROVE  /\ pc' \in [Worker -> Place]
           /\ \A v \in Worker : pc'[v] = "new" <=> pc[v] = "new"
<1>1. PICK to \in Place \ {"new"} : pc[w] # "new" /\ pc' = [pc EXCEPT ![w] = to]
  BY WorkerMoves DEF Begins, Continues, CountsBlock, CountsShare, Place
<1>2. pc \in [Worker -> Place]
  BY DEF CountTypes
<1> QED
  BY <1>1, <1>2

\* Every step keeps what is known of the phases of Start and Stop.
LEMMA PhaseNext == CountTypes /\ FlagTypes /\ PhaseInv /\ [Next]_vars => PhaseInv'
<1> SUFFICES ASSUME CountTypes, FlagTypes, PhaseInv, [Next]_vars PROVE PhaseInv'
  OBVIOUS
<1> USE DEF PhaseInv, process, work, watching, Elsewhere
<1>1. CASE TimePasses \/ ManagerTick \/ ManagerEnds
  BY <1>1 DEF TimePasses, ManagerTick, UpdateTemplate, ManagerEnds
<1>2. ASSUME NEW w \in Worker, StartWorker(w) PROVE PhaseInv'
  <2>1. pc \in [Worker -> Place]
    BY DEF CountTypes
  <2>2. /\ server = "starting" /\ UNCHANGED <<server, monitor>>
        /\ enabled' = enabled \cup {w} /\ pc' = [pc EXCEPT ![w] = "loop"]
    BY <1>2 DEF StartWorker
  <2>3. enabled' = {v \in Worker : pc'[v] # "new"}
    BY <2>1, <2>2
  <2> QED
    BY <2>2, <2>3
<1>3. CASE StartRoutines
  BY <1>3 DEF StartRoutines
<1>4. ASSUME NEW w \in Worker, WorkerStep(w) PROVE PhaseInv'
  <2>1. UNCHANGED <<server, monitor, enabled>>
    BY <1>4, WorkerMoves
  <2>2. {v \in Worker : pc'[v] # "new"} = {v \in Worker : pc[v] # "new"}
    BY <1>4, StaysMade
  <2> QED
    BY <2>1, <2>2
<1>5. CASE MonitorStep
  BY <1>5 DEF MonitorStep, MonitorBegin, MonitorRead, MonitorPublish, MonitorEnds, Monitor
<1>6. CASE Interrupt \/ StopCancels \/ ReporterEnds \/ Exit
  BY <1>6 DEF Interrupt, StopCancels, ReporterEnds, Exit
<1>7. CASE StopWorkers
  BY <1>7 DEF StopWorkers, StopSection
<1>8. CASE ProcessIsOver \/ UNCHANGED vars
  BY <1>8 DEF ProcessIsOver, vars
<1> QED
  BY <1>1, <1>2, <1>3, <1>4, <1>5, <1>6, <1>7, <1>8 DEF Next, StartStep

\* A created template is of the type of the network's.
LEMMA CreatedType ==
    ASSUME clock \in 0..MaxTime
    PROVE  CreateBlockTemplate(clock) \in Template
BY DEF CreateBlockTemplate, Template

\* The types of the templates, where only the pc of one worker changes.
LEMMA HandsNext == FlagTypes /\ CountTypes /\ HandTypes /\ [Next]_vars => HandTypes'
<1> SUFFICES ASSUME FlagTypes, CountTypes, HandTypes, [Next]_vars PROVE HandTypes'
  OBVIOUS
<1> USE DEF HandTypes
<1>1. pc \in [Worker -> Place] /\ CreateBlockTemplate(clock) \in Template
  BY CreatedType DEF FlagTypes, CountTypes
<1>2. ASSUME UNCHANGED network PROVE UNCHANGED Template
  BY <1>2 DEF Template, Difficulty
<1>3. ASSUME UNCHANGED <<network, blockTemplate, pc, hand>> PROVE HandTypes'
  BY <1>2, <1>3 DEF HasTemplate, InRound
<1> USE DEF process, work, watching, Elsewhere
<1>4. CASE TimePasses \/ StartRoutines \/ ManagerEnds \/ MonitorStep
  BY <1>3, <1>4 DEF TimePasses, StartRoutines, ManagerEnds, MonitorStep, MonitorBegin, MonitorRead,
                    MonitorPublish, MonitorEnds, Monitor
<1>5. CASE Interrupt \/ StopCancels \/ StopWorkers \/ ReporterEnds \/ Exit \/ ProcessIsOver \/ UNCHANGED vars
  BY <1>3, <1>5 DEF Interrupt, StopCancels, StopWorkers, StopSection, ReporterEnds, Exit, ProcessIsOver, vars
<1>6. CASE ManagerTick
  <2>1. blockTemplate' \in Template /\ UNCHANGED <<network, pc, hand>>
    BY <1>1, <1>6 DEF ManagerTick, UpdateTemplate
  <2> QED
    BY <1>2, <2>1 DEF HasTemplate, InRound
<1>7. ASSUME NEW w \in Worker, NEW to, NEW t \in Template \cup {None},
             pc' = [pc EXCEPT ![w] = to], hand' = [hand EXCEPT ![w] = t], UNCHANGED network,
             blockTemplate' \in Template \/ UNCHANGED blockTemplate,
             to \in {"create", "return", "mine", "handle"} => t \in Template,
             to = "return" => blockTemplate' \in Template
      PROVE  HandTypes'
  <2>1. \A v \in Worker : pc'[v] = IF v = w THEN to ELSE pc[v]
    BY <1>1, <1>7
  <2>2. \A v \in Worker : hand'[v] = IF v = w THEN t ELSE hand[v]
    BY <1>7
  <2>3. hand' \in [Worker -> Template \cup {None}]
    BY <1>7
  <2>4. ASSUME NEW v \in Worker
        PROVE  /\ HasTemplate(v)' => hand'[v] \in Template
               /\ pc'[v] = "return" => blockTemplate' \in Template
    <3>1. CASE v = w
      BY <1>7, <2>1, <2>2, <3>1 DEF HasTemplate, InRound
    <3>2. CASE v # w
      BY <1>7, <2>1, <2>2, <3>2 DEF HasTemplate, InRound
    <3> QED
      BY <3>1, <3>2
  <2>5. blockTemplate' \in Template \cup {None} /\ Template' = Template
    BY <1>2, <1>7
  <2> QED
    BY <2>3, <2>4, <2>5
<1>8. ASSUME NEW w \in Worker, NEW from, NEW to, At(w, from, to), UNCHANGED <<hand, blockTemplate>>,
             to \in {"create", "return", "mine", "handle"} => hand[w] \in Template,
             to # "return"
      PROVE  HandTypes'
  <2>1. pc' = [pc EXCEPT ![w] = to] /\ UNCHANGED network
    BY <1>8 DEF At
  <2>2. hand' = [hand EXCEPT ![w] = hand[w]] /\ hand[w] \in Template \cup {None}
    BY <1>8
  <2> QED
    BY <1>7, <1>8, <2>1, <2>2
<1>9. ASSUME NEW w \in Worker, StartWorker(w) PROVE HandTypes'
  <2>1. pc' = [pc EXCEPT ![w] = "loop"] /\ UNCHANGED <<network, blockTemplate>>
    BY <1>9 DEF StartWorker
  <2>2. hand' = [hand EXCEPT ![w] = hand[w]] /\ hand[w] \in Template \cup {None}
    BY <1>9 DEF StartWorker
  <2> QED
    BY <1>7, <2>1, <2>2
<1>10. ASSUME NEW w \in Worker, NEW from, NEW to, At(w, from, to), NEW t \in Template,
              hand' = [hand EXCEPT ![w] = t], UNCHANGED blockTemplate, to # "return"
       PROVE  HandTypes'
  <2>1. pc' = [pc EXCEPT ![w] = to] /\ UNCHANGED network
    BY <1>10 DEF At
  <2> QED
    BY <1>7, <1>10, <2>1
<1>11. ASSUME NEW w \in Worker, WorkerStep(w) PROVE HandTypes'
  <2>1. CASE Loop(w) \/ HandleBlockSolution(w) \/ CountShare(w)
    BY <1>8, <2>1 DEF Loop, HandleBlockSolution, CountShare
  <2>2. CASE ReadTemplate(w)
    <3>1. CASE blockTemplate = None
      BY <1>1, <1>10, <2>2, <3>1 DEF ReadTemplate, HandOutTemplate
    <3>2. CASE blockTemplate # None
      BY <1>10, <2>2, <3>2 DEF ReadTemplate, HandOutTemplate
    <3> QED
      BY <3>1, <3>2
  <2>3. CASE StoreTemplate(w)
    <3>1. /\ pc[w] = "create" /\ pc' = [pc EXCEPT ![w] = "return"] /\ UNCHANGED network
          /\ blockTemplate' = hand[w] /\ UNCHANGED hand
      BY <2>3 DEF StoreTemplate, At
    <3>2. hand[w] \in Template
      BY <3>1 DEF HasTemplate, InRound
    <3>3. hand' = [hand EXCEPT ![w] = hand[w]]
      BY <3>1
    <3> QED
      BY <1>7, <3>1, <3>2, <3>3
  <2>4. CASE ReturnTemplate(w)
    <3>1. blockTemplate \in Template
      BY <2>4 DEF ReturnTemplate, At
    <3> QED
      BY <1>7, <2>4, <3>1 DEF ReturnTemplate, At
  <2>5. CASE Mine(w)
    <3>1. pc[w] = "mine" /\ UNCHANGED <<hand, blockTemplate>> /\ (At(w, "mine", "handle") \/ At(w, "mine", "loop"))
      BY <2>5 DEF Mine, At
    <3>2. hand[w] \in Template
      BY <3>1 DEF HasTemplate, InRound
    <3> QED
      BY <1>8, <3>1, <3>2
  <2> QED
    BY <1>11, <2>1, <2>2, <2>3, <2>4, <2>5 DEF WorkerStep
<1> QED
  BY <1>4, <1>5, <1>6, <1>9, <1>11 DEF Next, StartStep

\* Every step keeps the types of the counters.
LEMMA CountsNext == FlagTypes /\ CountTypes /\ [Next]_vars => CountTypes'
<1> SUFFICES ASSUME FlagTypes, CountTypes, [Next]_vars PROVE CountTypes'
  OBVIOUS
<1> USE DEF CountTypes, process, work, watching, Elsewhere
<1>1. ASSUME NEW w \in Worker, StartWorker(w) PROVE CountTypes'
  <2>1. pc' \in [Worker -> Place]
    BY <1>1 DEF StartWorker, Place
  <2> QED
    BY <1>1, <2>1 DEF StartWorker
<1>2. ASSUME NEW w \in Worker, WorkerStep(w) PROVE CountTypes'
  <2>1. pc' \in [Worker -> Place] /\ UNCHANGED <<tally, stoppedWith>>
    BY <1>2, StaysMade, WorkerMoves
  <2>2. shares' \in [Worker -> Nat] /\ blocksFound' \in Nat
    BY <1>2, WorkerMoves DEF Begins, Continues, CountsBlock, CountsShare
  <2> QED
    BY <2>1, <2>2
<1>3. CASE MonitorBegin \/ MonitorPublish
  <2>1. tally' \in [seen : SUBSET Worker, active : Nat, shares : Nat]
    BY <1>3 DEF MonitorBegin, MonitorPublish, EmptyTally
  <2> QED
    BY <1>3, <2>1 DEF MonitorBegin, MonitorPublish, Monitor
<1>4. ASSUME NEW w \in Worker, MonitorRead(w) PROVE CountTypes'
  <2>1. tally' \in [seen : SUBSET Worker, active : Nat, shares : Nat]
    BY <1>4 DEF MonitorRead
  <2> QED
    BY <1>4, <2>1 DEF MonitorRead, Monitor
<1>5. CASE StopWorkers
  BY <1>5 DEF StopWorkers, StopSection
<1>6. CASE TimePasses \/ StartRoutines \/ ManagerTick \/ ManagerEnds \/ MonitorEnds
  BY <1>6 DEF TimePasses, StartRoutines, ManagerTick, UpdateTemplate, ManagerEnds, MonitorEnds, Monitor
<1>7. CASE Interrupt \/ StopCancels \/ ReporterEnds \/ Exit \/ ProcessIsOver \/ UNCHANGED vars
  BY <1>7 DEF Interrupt, StopCancels, ReporterEnds, Exit, ProcessIsOver, vars
<1> QED
  BY <1>1, <1>2, <1>3, <1>4, <1>5, <1>6, <1>7 DEF Next, StartStep, MonitorStep

\* Who waits to count a share when a worker moves: one worker more, ...
LEMMA OneMoreWaits ==
    ASSUME NEW S \in SUBSET Worker, NEW at \in [Worker -> Place], NEW w \in S, at[w] # "share",
           NEW then, then = [at EXCEPT ![w] = "share"]
    PROVE  Cardinality(Waiting(S, then)) = Cardinality(Waiting(S, at)) + 1
<1>1. Waiting(S, then) = Waiting(S, at) \cup {w} /\ w \notin Waiting(S, at)
  BY DEF Waiting
<1>2. IsFiniteSet(Waiting(S, at))
  BY WaitingIsFinite
<1> QED
  BY <1>1, <1>2, FS_AddElement

\* ... one fewer, ...
LEMMA OneFewerWaits ==
    ASSUME NEW S \in SUBSET Worker, NEW at \in [Worker -> Place], NEW w \in S, at[w] = "share",
           NEW then, then = [at EXCEPT ![w] = "loop"]
    PROVE  Cardinality(Waiting(S, then)) = Cardinality(Waiting(S, at)) - 1
<1>1. Waiting(S, then) = Waiting(S, at) \ {w} /\ w \in Waiting(S, at)
  BY DEF Waiting
<1> DEFINE before == Waiting(S, at)
<1>2. IsFiniteSet(before) /\ Cardinality(before) \in Nat
  BY WaitingIsFinite
<1> HIDE DEF before
<1>3. Cardinality(before \ {w}) = IF w \in before THEN Cardinality(before) - 1 ELSE Cardinality(before)
  BY <1>2, FS_RemoveElement
<1> QED
  BY <1>1, <1>3 DEF before

\* ... or the same, of which the worker is none.
LEMMA SameWait ==
    ASSUME NEW S \in SUBSET Worker, NEW at \in [Worker -> Place], NEW w \in Worker, NEW to,
           w \notin S \/ (at[w] # "share" /\ to # "share")
    PROVE  Waiting(S, [at EXCEPT ![w] = to]) = Waiting(S, at)
BY DEF Waiting

\* Every counted block stays a share or on its way to become one.
LEMMA SharesNext == CountTypes /\ SharesAreBlocks /\ [Next]_vars => SharesAreBlocks'
<1> SUFFICES ASSUME CountTypes, SharesAreBlocks, [Next]_vars PROVE SharesAreBlocks'
  OBVIOUS
<1>1. /\ pc \in [Worker -> Place] /\ shares \in [Worker -> Nat] /\ blocksFound \in Nat
      /\ IsFiniteSet(Shared(Worker, shares)) /\ Cardinality(Shared(Worker, shares)) \in Nat
      /\ Cardinality(Waiting(Worker, pc)) \in Nat
      /\ blocksFound = Cardinality(Shared(Worker, shares)) + Cardinality(Waiting(Worker, pc))
      /\ Worker \in SUBSET Worker
  BY FewerShares, WaitingIsFinite DEF CountTypes, SharesAreBlocks
<1>2. ASSUME UNCHANGED <<shares, blocksFound>>, Waiting(Worker, pc') = Waiting(Worker, pc)
      PROVE  SharesAreBlocks'
  BY <1>1, <1>2 DEF SharesAreBlocks
<1>3. ASSUME NEW w \in Worker, StartWorker(w) PROVE SharesAreBlocks'
  <2>1. Waiting(Worker, pc') = Waiting(Worker, pc)
    BY <1>1, <1>3, SameWait DEF StartWorker
  <2> QED
    BY <1>2, <1>3, <2>1 DEF StartWorker
<1>4. ASSUME NEW w \in Worker, WorkerStep(w) PROVE SharesAreBlocks'
  <2>1. CASE Begins(w)
    <3>1. Waiting(Worker, pc') = Waiting(Worker, pc)
      BY <1>1, <2>1, SameWait DEF Begins
    <3> QED
      BY <1>2, <2>1, <3>1 DEF Begins
  <2>2. CASE Continues(w)
    <3>1. PICK to : to # "share" /\ pc[w] # "share" /\ pc' = [pc EXCEPT ![w] = to]
      BY <2>2 DEF Continues
    <3>2. Waiting(Worker, pc') = Waiting(Worker, pc)
      BY <1>1, <3>1, SameWait
    <3> QED
      BY <1>2, <2>2, <3>2 DEF Continues
  <2>3. CASE CountsBlock(w)
    <3>1. Cardinality(Waiting(Worker, pc')) = Cardinality(Waiting(Worker, pc)) + 1
      BY <1>1, <2>3, OneMoreWaits DEF CountsBlock
    <3> QED
      BY <1>1, <2>3, <3>1 DEF SharesAreBlocks, CountsBlock
  <2>4. CASE CountsShare(w)
    <3>1. Cardinality(Waiting(Worker, pc')) = Cardinality(Waiting(Worker, pc)) - 1
      BY <1>1, <2>4, OneFewerWaits DEF CountsShare
    <3>2. /\ IsFiniteSet(Shared(Worker, shares'))
          /\ Cardinality(Shared(Worker, shares')) = Cardinality(Shared(Worker, shares)) + 1
      BY <1>1, <2>4, OneShareMore DEF CountsShare
    <3> QED
      BY <1>1, <2>4, <3>1, <3>2 DEF SharesAreBlocks, CountsShare
  <2> QED
    BY <1>4, <2>1, <2>2, <2>3, <2>4, WorkerMoves
<1>5. CASE UNCHANGED work
  BY <1>2, <1>5 DEF work
<1> QED
  BY <1>3, <1>4, <1>5, WorkersRest

\* The bound on the rounds: a round is begun only below it, and a counted block ends one.
LEMMA RoundsNext == CountTypes /\ RoundsAreBounded /\ [Next]_vars => RoundsAreBounded'
<1> SUFFICES ASSUME CountTypes, RoundsAreBounded, [Next]_vars PROVE RoundsAreBounded'
  OBVIOUS
<1>1. /\ pc \in [Worker -> Place] /\ blocksFound \in Nat /\ MaxBlocks \in Nat
      /\ stoppedWith \in Nat \cup {None}
      /\ stoppedWith # None => stoppedWith <= blocksFound
      /\ IsFiniteSet(Pending) /\ Cardinality(Pending) \in Nat
      /\ blocksFound + Cardinality(Pending) <= MaxBlocks
  BY PendingIsFinite, MiningAssumption DEF CountTypes, RoundsAreBounded
<1>2. ASSUME UNCHANGED <<blocksFound, stoppedWith>>, Pending' \in SUBSET Pending PROVE RoundsAreBounded'
  <2>1. Cardinality(Pending') \in Nat /\ Cardinality(Pending') <= Cardinality(Pending)
    BY <1>1, <1>2, FS_Subset, FS_CardinalityType
  <2> QED
    BY <1>1, <1>2, <2>1 DEF RoundsAreBounded
<1>3. ASSUME NEW w \in Worker, StartWorker(w) PROVE RoundsAreBounded'
  <2>1. pc' = [pc EXCEPT ![w] = "loop"] /\ UNCHANGED <<blocksFound, stoppedWith>>
    BY <1>3 DEF StartWorker
  <2>2. Pending' \in SUBSET Pending
    BY <1>1, <2>1 DEF Pending, InRound
  <2> QED
    BY <1>2, <2>1, <2>2
<1>4. ASSUME NEW w \in Worker, WorkerStep(w) PROVE RoundsAreBounded'
  <2>1. UNCHANGED stoppedWith
    BY <1>4, WorkerMoves DEF process
  <2>2. CASE Begins(w)
    <3>1. w \notin Pending /\ Pending' = Pending \cup {w}
      BY <1>1, <2>2 DEF Begins, Pending, InRound
    <3>2. Cardinality(Pending') = Cardinality(Pending) + 1
      BY <1>1, <3>1, FS_AddElement
    <3>3. blocksFound + Cardinality(Pending) < MaxBlocks /\ UNCHANGED blocksFound
      BY <2>2 DEF Begins, RoundsLeft
    <3> QED
      BY <1>1, <2>1, <3>2, <3>3 DEF RoundsAreBounded
  <2>3. CASE Continues(w)
    <3>1. Pending' \in SUBSET Pending
      BY <1>1, <2>3 DEF Continues, Pending, InRound
    <3> QED
      BY <1>2, <2>1, <2>3, <3>1 DEF Continues
  <2>4. CASE CountsBlock(w)
    <3>1. w \in Pending /\ Pending' = Pending \ {w}
      BY <1>1, <2>4 DEF CountsBlock, Pending, InRound
    <3>2. Cardinality(Pending') = Cardinality(Pending) - 1
      BY <1>1, <3>1, FS_RemoveElement
    <3> QED
      BY <1>1, <2>1, <2>4, <3>2 DEF RoundsAreBounded, CountsBlock
  <2>5. CASE CountsShare(w)
    <3>1. Pending' \in SUBSET Pending
      BY <1>1, <2>5 DEF CountsShare, Pending, InRound
    <3> QED
      BY <1>2, <2>1, <2>5, <3>1 DEF CountsShare
  <2> QED
    BY <1>4, <2>2, <2>3, <2>4, <2>5, WorkerMoves
<1>5. ASSUME UNCHANGED work PROVE RoundsAreBounded'
  <2>1. Pending' = Pending /\ UNCHANGED blocksFound
    BY <1>5 DEF work, Pending, InRound
  <2>2. UNCHANGED stoppedWith \/ stoppedWith' = blocksFound
    BY DEF Next, StartStep, TimePasses, StartWorker, StartRoutines, WorkerStep, Loop, ReadTemplate,
           HandOutTemplate, StoreTemplate, ReturnTemplate, Mine, HandleBlockSolution, CountShare, At,
           ManagerTick, UpdateTemplate, ManagerEnds, MonitorStep, MonitorBegin, MonitorRead, MonitorPublish,
           MonitorEnds, Monitor, Interrupt, StopCancels, StopWorkers, StopSection, ReporterEnds, Exit,
           ProcessIsOver, vars, process
  <2> QED
    BY <1>1, <2>1, <2>2 DEF RoundsAreBounded
<1> QED
  BY <1>3, <1>4, <1>5, WorkersRest

\* What the monitor has read stays right while shares are counted.
LEMMA ReadingGoesOn ==
    ASSUME CountTypes, SharesAreBlocks, ReadOfAll, NEW w \in Worker, WorkerStep(w), monitor = "reading"
    PROVE  ReadOfAll'
<1> DEFINE S == tally.seen
<1>1. /\ pc \in [Worker -> Place] /\ shares \in [Worker -> Nat] /\ S \in SUBSET Worker
      /\ tally.shares \in Nat /\ UNCHANGED tally
  BY WorkerMoves DEF CountTypes, watching
<1>2. /\ IsFiniteSet(Shared(S, shares)) /\ Cardinality(Shared(S, shares)) \in Nat
      /\ Cardinality(Waiting(S, pc)) \in Nat /\ Cardinality(S) \in Nat
  BY <1>1, FewerShares, WaitingIsFinite DEF SharesAreBlocks
<1>3. /\ tally.active = Cardinality(S)
      /\ tally.shares <= Cardinality(Shared(S, shares))
      /\ Cardinality(Shared(S, shares)) + Cardinality(Waiting(S, pc)) <= tally.shares + Cardinality(S)
  BY DEF ReadOfAll
<1> HIDE DEF S
<1>4. ASSUME UNCHANGED shares, Waiting(S, pc') = Waiting(S, pc) PROVE ReadOfAll'
  BY <1>1, <1>3, <1>4 DEF ReadOfAll, S
<1>5. ASSUME NEW to, to # "share", pc[w] # "share", pc' = [pc EXCEPT ![w] = to], UNCHANGED shares
      PROVE  ReadOfAll'
  BY <1>1, <1>4, <1>5, SameWait
<1>6. CASE Begins(w)
  BY <1>5, <1>6 DEF Begins
<1>7. CASE Continues(w)
  BY <1>5, <1>7 DEF Continues
<1>8. CASE CountsBlock(w)
  BY <1>8 DEF CountsBlock, WriteLockFree, Readers
<1>9. CASE CountsShare(w)
  <2>1. CASE w \in S
    <3>1. Cardinality(Waiting(S, pc')) = Cardinality(Waiting(S, pc)) - 1
      BY <1>1, <1>9, <2>1, OneFewerWaits DEF CountsShare
    <3>2. Cardinality(Shared(S, shares')) = Cardinality(Shared(S, shares)) + 1
      BY <1>1, <1>2, <1>9, <2>1, OneShareMore DEF CountsShare
    <3>3. /\ tally.shares <= Cardinality(Shared(S, shares'))
          /\ Cardinality(Shared(S, shares')) + Cardinality(Waiting(S, pc')) <= tally.shares + Cardinality(S)
      BY <1>1, <1>2, <1>3, <3>1, <3>2
    <3> QED
      BY <1>1, <1>3, <3>3 DEF ReadOfAll, S
  <2>2. CASE w \notin S
    <3>1. Waiting(S, pc') = Waiting(S, pc)
      BY <1>1, <1>9, <2>2, SameWait DEF CountsShare
    <3>2. Shared(S, shares') = Shared(S, shares)
      BY <1>1, <1>9, <2>2, NotOurShare DEF CountsShare
    <3> QED
      BY <1>1, <1>3, <3>1, <3>2 DEF ReadOfAll, S
  <2> QED
    BY <2>1, <2>2
<1> QED
  BY <1>6, <1>7, <1>8, <1>9, WorkerMoves

\* It reads one worker more.
LEMMA ReadsOneMore ==
    ASSUME CountTypes, SharesAreBlocks, ReadOfAll, NEW w \in Worker, MonitorRead(w), enabled = Worker
    PROVE  ReadOfAll'
<1> DEFINE S == tally.seen
<1>1. /\ pc \in [Worker -> Place] /\ shares \in [Worker -> Nat] /\ S \in SUBSET Worker
      /\ tally.shares \in Nat /\ UNCHANGED <<pc, shares>> /\ w \notin S
  BY DEF CountTypes, MonitorRead, Monitor, work
<1>2. /\ tally'.seen = S \cup {w}
      /\ tally'.active = tally.active + 1
      /\ tally'.shares = tally.shares + shares[w]
  BY DEF MonitorRead
<1>3. /\ IsFiniteSet(Shared(S, shares)) /\ Cardinality(Shared(S, shares)) \in Nat
      /\ Cardinality(Waiting(S, pc)) \in Nat /\ IsFiniteSet(S) /\ Cardinality(S) \in Nat
  BY <1>1, FewerShares, WaitingIsFinite DEF SharesAreBlocks
<1>4. /\ tally.active = Cardinality(S)
      /\ tally.shares <= Cardinality(Shared(S, shares))
      /\ Cardinality(Shared(S, shares)) + Cardinality(Waiting(S, pc)) <= tally.shares + Cardinality(S)
  BY DEF ReadOfAll
<1> HIDE DEF S
<1>5. Cardinality(S \cup {w}) = Cardinality(S) + 1
  BY <1>1, <1>3, FS_AddElement
<1>6. Cardinality(Shared(S \cup {w}, shares)) = Cardinality(Shared(S, shares)) + shares[w]
  BY <1>1, <1>3, OneWorkerMore
<1>7. /\ Cardinality(Waiting(S \cup {w}, pc)) \in Nat
      /\ Cardinality(Waiting(S \cup {w}, pc)) <= Cardinality(Waiting(S, pc)) + 1
  <2> DEFINE A == Waiting(S, pc)
             B == Waiting(S \cup {w}, pc)
  <2>1. IsFiniteSet(A) /\ Cardinality(A) \in Nat
    BY <1>1, <1>3, WaitingIsFinite
  <2>2. B \in SUBSET (A \cup {w})
    BY DEF Waiting
  <2> HIDE DEF A, B
  <2>3. /\ IsFiniteSet(A \cup {w})
        /\ Cardinality(A \cup {w}) = IF w \in A THEN Cardinality(A) ELSE Cardinality(A) + 1
    BY <2>1, FS_AddElement
  <2>4. IsFiniteSet(B) /\ Cardinality(B) <= Cardinality(A \cup {w})
    BY <2>2, <2>3, FS_Subset
  <2>5. Cardinality(B) \in Nat
    BY <2>4, FS_CardinalityType
  <2>6. Cardinality(B) <= Cardinality(A) + 1
    BY <2>1, <2>3, <2>4, <2>5
  <2> QED
    BY <2>5, <2>6 DEF A, B
<1>8. shares[w] \in Nat
  BY <1>1
<1>9. /\ tally'.active = Cardinality(tally'.seen)
      /\ tally'.shares <= Cardinality(Shared(tally'.seen, shares'))
      /\ Cardinality(Shared(tally'.seen, shares')) + Cardinality(Waiting(tally'.seen, pc'))
            <= tally'.shares + Cardinality(tally'.seen)
  BY <1>1, <1>2, <1>3, <1>4, <1>5, <1>6, <1>7, <1>8
<1> QED
  BY <1>9 DEF ReadOfAll

\* Every step keeps what the monitor has read in proportion to what is counted.
LEMMA TallyNext == CountTypes /\ SharesAreBlocks /\ PhaseInv /\ TallyInv /\ [Next]_vars => TallyInv'
<1> SUFFICES ASSUME CountTypes, SharesAreBlocks, PhaseInv, TallyInv, [Next]_vars PROVE TallyInv'
  OBVIOUS
<1> USE DEF TallyInv
<1>1. ASSUME monitor' # "reading", monitor # "reading", UNCHANGED tally PROVE TallyInv'
  BY <1>1
<1>2. ASSUME UNCHANGED <<monitor, tally, enabled, pc, shares>> PROVE TallyInv'
  BY <1>2 DEF ReadOfAll
<1>3. ASSUME NEW w \in Worker, StartWorker(w) PROVE TallyInv'
  <2>1. monitor = "new" /\ UNCHANGED <<monitor, tally>>
    BY <1>3 DEF StartWorker, PhaseInv, watching
  <2> QED
    BY <1>1, <2>1
<1>4. ASSUME NEW w \in Worker, WorkerStep(w) PROVE TallyInv'
  <2>1. UNCHANGED <<monitor, tally, enabled>>
    BY <1>4, WorkerMoves DEF process, watching
  <2>2. monitor = "reading" /\ ReadOfAll => ReadOfAll'
    BY <1>4, ReadingGoesOn
  <2> QED
    BY <2>1, <2>2
<1>5. CASE MonitorBegin
  <2>1. tally' = EmptyTally
    BY <1>5 DEF MonitorBegin
  <2>2. UNCHANGED <<pc, shares>>
    BY <1>5 DEF MonitorBegin, Monitor, work
  <2>3. tally'.seen = {} /\ tally'.active = 0 /\ tally'.shares = 0
    BY <2>1 DEF EmptyTally
  <2>4. Shared({}, shares') = {} /\ Waiting({}, pc') = {}
    BY DEF Shared, Waiting
  <2>5. Cardinality({}) = 0
    BY FS_EmptySet
  <2>6. ReadOfAll'
    BY <2>3, <2>4, <2>5 DEF ReadOfAll
  <2> QED
    BY <2>1, <2>3, <2>6
<1>6. ASSUME NEW w \in Worker, MonitorRead(w) PROVE TallyInv'
  <2>1. monitor = "reading" /\ monitor' = "reading" /\ UNCHANGED enabled
    BY <1>6 DEF MonitorRead, Monitor, process
  <2>2. enabled = Worker => ReadOfAll'
    BY <1>6, <2>1, ReadsOneMore
  <2>3. enabled = {} => tally'.active = 0 /\ tally'.shares = 0
    BY <1>6, <2>1 DEF MonitorRead
  <2> QED
    BY <2>1, <2>2, <2>3
<1>7. CASE MonitorPublish
  BY <1>7 DEF MonitorPublish, Monitor
<1>8. CASE MonitorEnds \/ StartRoutines
  BY <1>1, <1>8 DEF MonitorEnds, Monitor, StartRoutines, PhaseInv
<1>9. CASE StopWorkers
  BY <1>1, <1>9 DEF StopWorkers, StopSection, WriteLockFree, Readers, watching
<1> USE DEF process, work, watching, Elsewhere
<1>10. CASE TimePasses \/ ManagerTick \/ ManagerEnds
  BY <1>2, <1>10 DEF TimePasses, ManagerTick, UpdateTemplate, ManagerEnds
<1>11. CASE Interrupt \/ StopCancels \/ ReporterEnds \/ Exit \/ ProcessIsOver \/ UNCHANGED vars
  BY <1>2, <1>11 DEF Interrupt, StopCancels, ReporterEnds, Exit, ProcessIsOver, vars
<1> QED
  BY <1>3, <1>4, <1>5, <1>6, <1>7, <1>8, <1>9, <1>10, <1>11 DEF Next, StartStep, MonitorStep

\* Every step keeps the invariant.
LEMMA ProgressNext == ProgressInv /\ [Next]_vars => ProgressInv'
BY FlagsNext, CountsNext, HandsNext, RoundsNext, SharesNext, PhaseNext, TallyNext DEF ProgressInv

\* In every behaviour counters, phases and the tally of the monitor agree.
THEOREM ProgressIsKept == Spec => []ProgressInv
BY ProgressInit, ProgressNext, PTL DEF Spec

\* The types, with the bounds that follow: no more shares than blocks, no more blocks
\* than solutions rounds were begun for, and no more active workers read than there are.
THEOREM TypeCorrect == Spec => []TypeOK
<1>1. ASSUME ProgressInv PROVE TypeOK
  <2>1. FlagTypes /\ CountTypes /\ HandTypes /\ RoundsAreBounded /\ SharesAreBlocks /\ PhaseInv /\ TallyInv
    BY <1>1 DEF ProgressInv
  <2>2. /\ MaxBlocks \in Nat /\ blocksFound \in Nat /\ Cardinality(Pending) \in Nat
        /\ Cardinality(Waiting(Worker, pc)) \in Nat
        /\ Cardinality(Shared(Worker, shares)) \in Nat
    <3>1. Worker \in SUBSET Worker
      OBVIOUS
    <3>2. MaxBlocks \in Nat /\ Cardinality(Pending) \in Nat /\ Cardinality(Waiting(Worker, pc)) \in Nat
      BY <3>1, PendingIsFinite, WaitingIsFinite, MiningAssumption
    <3> QED
      BY <2>1, <3>1, <3>2, FewerShares DEF CountTypes, SharesAreBlocks
  <2>3. blocksFound \in 0..MaxBlocks /\ Cardinality(Shared(Worker, shares)) <= blocksFound
    BY <2>1, <2>2 DEF RoundsAreBounded, SharesAreBlocks
  <2>4. stoppedWith \in 0..MaxBlocks \cup {None}
    <3>1. stoppedWith \in Nat \cup {None} /\ (stoppedWith # None => stoppedWith <= blocksFound)
      BY <2>1 DEF RoundsAreBounded, CountTypes
    <3>2. CASE stoppedWith \in Nat /\ stoppedWith <= blocksFound
      BY <2>2, <2>3, <3>2
    <3> QED
      BY <3>1, <3>2
  <2>5. shares \in [Worker -> 0..MaxBlocks]
    <3>1. ASSUME NEW w \in Worker PROVE shares[w] \in 0..MaxBlocks
      <4>1. {} \in SUBSET Worker /\ {w} \in SUBSET Worker /\ {} \cup {w} = {w}
        OBVIOUS
      <4>2. Shared({}, shares) = {}
        BY DEF Shared
      <4>3. IsFiniteSet({}) /\ Cardinality({}) = 0
        BY FS_EmptySet
      <4>4. shares \in [Worker -> Nat] /\ shares[w] \in Nat
        BY <2>1 DEF CountTypes
      <4>5. Cardinality(Shared({} \cup {w}, shares)) = Cardinality(Shared({}, shares)) + shares[w]
        BY <4>1, <4>2, <4>3, <4>4, OneWorkerMore
      <4>6. Cardinality(Shared({w}, shares)) = shares[w]
        BY <4>1, <4>2, <4>3, <4>4, <4>5
      <4>7. Cardinality(Shared({w}, shares)) <= Cardinality(Shared(Worker, shares))
        BY <2>1, <4>1, FewerShares DEF SharesAreBlocks
      <4> QED
        BY <2>2, <2>3, <4>4, <4>6, <4>7
    <3> QED
      BY <2>1, <3>1 DEF CountTypes
  <2>6. tally \in [seen : SUBSET Worker, active : 0..Cardinality(Worker), shares : 0..MaxBlocks]
    <3>1. tally \in [seen : SUBSET Worker, active : Nat, shares : Nat] /\ Cardinality(Worker) \in Nat
      BY <2>1, PendingIsFinite DEF CountTypes
    <3>2. CASE tally.active = 0 /\ tally.shares = 0
      BY <2>2, <3>1, <3>2
    <3>3. CASE ReadOfAll
      <4>1. Cardinality(tally.seen) <= Cardinality(Worker) /\ Cardinality(tally.seen) \in Nat
        BY <3>1, WaitingIsFinite
      <4>2. /\ Cardinality(Shared(tally.seen, shares)) <= Cardinality(Shared(Worker, shares))
            /\ Cardinality(Shared(tally.seen, shares)) \in Nat
        BY <2>1, <3>1, FewerShares DEF SharesAreBlocks
      <4>3. tally.active <= Cardinality(Worker) /\ tally.shares <= MaxBlocks
        BY <2>2, <2>3, <3>1, <3>3, <4>1, <4>2 DEF ReadOfAll
      <4> QED
        BY <2>2, <3>1, <4>3
    <3>4. (tally.active = 0 /\ tally.shares = 0) \/ ReadOfAll
      BY <2>1 DEF TallyInv, PhaseInv, FlagTypes, EmptyTally
    <3> QED
      BY <3>2, <3>3, <3>4
  <2>7. \A w \in Worker : hand[w] \in Template \cup IF InRound(w) /\ pc[w] # "read" THEN {} ELSE {None}
    BY <2>1 DEF HandTypes, HasTemplate
  <2>8. pc \in [Worker -> Place] /\ blockTemplate \in Template \cup {None}
    BY <2>1 DEF CountTypes, HandTypes
  <2> QED
    BY <2>1, <2>3, <2>4, <2>5, <2>6, <2>7, <2>8, Zenon DEF TypeOK, FlagTypes
<1> QED
  BY <1>1, ProgressIsKept, PTL

\* A progress event shows one state of the service, whatever the workers do while the
\* monitor reads them.
THEOREM ProgressShowsOneState == Spec => []ProgressIsConsistent
<1>1. ASSUME ProgressInv PROVE ProgressIsConsistent
  <2> SUFFICES ASSUME monitor = "reading", tally.seen = Worker
               PROVE  /\ tally.active \in {0, Cardinality(Worker)}
                      /\ tally.active > 0 =>
                            /\ tally.shares <= blocksFound
                            /\ blocksFound <= tally.shares + Cardinality(Worker)
    BY DEF ProgressIsConsistent
  <2>1. FlagTypes /\ CountTypes /\ SharesAreBlocks /\ PhaseInv /\ TallyInv
    BY <1>1 DEF ProgressInv
  <2>2. tally.active = 0 \/ ReadOfAll
    BY <2>1 DEF TallyInv, PhaseInv, FlagTypes
  <2>3. CASE tally.active = 0
    BY <2>3
  <2>4. CASE ReadOfAll
    <3>1. /\ Cardinality(Shared(Worker, shares)) \in Nat /\ Cardinality(Waiting(Worker, pc)) \in Nat
          /\ Cardinality(Worker) \in Nat /\ tally.shares \in Nat
      <4>1. Worker \in SUBSET Worker
        OBVIOUS
      <4> QED
        BY <2>1, <4>1, FewerShares, WaitingIsFinite DEF SharesAreBlocks, CountTypes
    <3> QED
      BY <2>1, <2>4, <3>1 DEF ReadOfAll, SharesAreBlocks
  <2> QED
    BY <2>2, <2>3, <2>4
<1> QED
  BY <1>1, ProgressIsKept, PTL
=============================================================================
