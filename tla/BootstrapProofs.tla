--------------------------- MODULE BootstrapProofs --------------------------
(***************************************************************************)
(* Proofs about the bootstrap, for every number of workers, every range    *)
(* and every chain: what nil means, how far the reported height is from a  *)
(* watermark, and, for a valid chain, which rows can be wrong.             *)
(*                                                                         *)
(* The induction needs to know where every height of the range is: done,   *)
(* with one worker, in the channel, or not sent yet (HeightsAt), which     *)
(* statements no later one undoes (LastingRowsAreThere), and where a row   *)
(* marked unspent comes from: the table at the start, the snapshot or the  *)
(* range (RowsAreExplained).                                               *)
(***************************************************************************)
EXTENDS Bootstrap, FiniteSetTheorems, SequenceTheorems, TLAPS

(***************************************************************************)
(* Where the heights are.                                                  *)
(***************************************************************************)
BeforePool == main.pc \in {"start", "height", "snapshot", "insert", "sync"}

\* w is working on a block.
Active(w) == worker[w].pc \in {"fetch", "write"}

\* w has taken a height that it is working on or has given up.
Holds(w) == Active(w) \/ worker[w].pc = "failed" \/ (worker[w].pc = "returned" /\ cancelled)

\* The heights from lo to hi - 1, in order.
Heights(lo, hi) == [i \in 1..(hi - lo) |-> lo + i - 1]

\* The heights below lo have been taken by workers, those from lo to hi - 1 are in the
\* channel, and those from hi on have not been sent.
ChannelAt(lo, hi) ==
    /\ lo \in Int /\ hi \in Int
    /\ main.from <= lo /\ lo <= hi /\ hi <= Target + 1
    /\ chan = Heights(lo, hi)
    /\ feeder \in {-1, hi}
    /\ main.pc = "wait" /\ feeder = -1 /\ ~cancelled => hi = Target + 1
    /\ BeforePool => feeder = -1 /\ hi = main.from

\* A height that has been taken is done, or a worker has it.
TakenAt(lo) ==
    /\ done \subseteq main.from..(lo - 1)
    /\ \A h \in main.from..(lo - 1) : h \in done \/ \E w \in Worker : worker[w].h = h /\ Holds(w)
    /\ \A w \in Worker : Active(w) => worker[w].h \in (main.from..(lo - 1)) \ done
    /\ sync.processed = 0 => main.pc = "start" \/ sync.current = main.from
    /\ sync.processed > 0 => main.from <= sync.current /\ sync.current < lo

HeightsAt(lo, hi) == ChannelAt(lo, hi) /\ TakenAt(lo)

\* No two workers have the same height.
HeightsAreOwned ==
    \A v, w \in Worker : Active(v) /\ Active(w) /\ worker[v].h = worker[w].h => v = w

\* The blocks that are missing below the reported height.
Missing == (main.from..sync.current) \ done

\* One worker, the one that has reported the height last, has none of them.
OneIsAhead == sync.processed > 0 => \E w \in Worker : worker[w].h \notin Missing

\* What the ends of the workers and of the call mean.
EndsAreMeant ==
    /\ BeforePool => sync.processed = 0 /\ \A w \in Worker : worker[w].pc = "receive"
    /\ \A w \in Worker : worker[w].pc = "failed" => errs > 0
    /\ \A w \in Worker : main.pc = "wait" /\ worker[w].pc = "returned" /\ ~cancelled =>
          chan = <<>> /\ feeder = -1
    /\ main.result # "none" <=> main.pc = "returned"
    /\ main.result = "nil" => \A w \in Worker : Exited(w)

RangeInv ==
    /\ TypeOK
    /\ \E lo, hi \in Int : HeightsAt(lo, hi)
    /\ HeightsAreOwned
    /\ OneIsAhead
    /\ EndsAreMeant
    /\ NilMeansSynced

(***************************************************************************)
(* What is in the table.                                                   *)
(***************************************************************************)
SpentInChain(o) == \E h \in Height : o \in Spent(h)

Stmts(h, i) == Statements(Txs[h][i])

\* No statement of another block of the range, or of a later transaction of this one,
\* undoes the statement st of block h.
Lasting(h, st) ==
    \/ st.value = "unspent" /\ ~SpentInChain(st.row)
    \/ st.value = "spent" /\ \A g \in main.from..Target : st.row \in Created(g) => g = h

\* The statements that w has executed.
Executed(w, i, s) == i < worker[w].tx \/ (i = worker[w].tx /\ s < worker[w].stmt)

\* The statement s of transaction i of block h has been executed.
IsExecuted(h, i, s) ==
    h \in done \/ \E w \in Worker : worker[w].pc = "write" /\ worker[w].h = h /\ Executed(w, i, s)

LastingRowsAreThere ==
    \A h \in Height : \A i \in DOMAIN Txs[h] : \A s \in DOMAIN Stmts(h, i) :
        Lasting(h, Stmts(h, i)[s]) /\ IsExecuted(h, i, s) =>
            table[Stmts(h, i)[s].row] = Stmts(h, i)[s].value

\* What a row that is marked unspent comes from: the table at the start, the snapshot or a
\* block of the range.
Known(o) ==
    \/ o \in UtxosBefore(origin) \/ o \in UtxosBefore(snapshot.height + 1)
    \/ ~BeforePool /\ \E g \in main.from..Target : o \in Created(g)

\* The rows of the table at the start, and of the snapshot when they are in, that no block
\* spends.
Kept(o) ==
    /\ ~SpentInChain(o)
    /\ \/ o \in UtxosBefore(origin)
       \/ /\ main.pc = "insert" \/ snapshot.loaded
          /\ o \in UtxosBefore(snapshot.height + 1) \ todo

RowsAreExplained ==
    \A o \in Outpoint :
        /\ table[o] = "unspent" => Known(o)
        /\ Kept(o) => table[o] = "unspent"

\* The snapshot is chosen once, and the sync starts from it when all its rows are in.
SnapshotInv ==
    /\ todo \subseteq UtxosBefore(snapshot.height + 1)
    /\ main.pc # "insert" => todo = {}
    /\ main.pc \in {"start", "height", "snapshot"} => snapshot = [height |-> -1, loaded |-> FALSE]
    /\ main.pc = "insert" => ~snapshot.loaded
    /\ snapshot.loaded => main.from = snapshot.height

FetchIsFresh == \A w \in Worker : worker[w].pc = "fetch" => worker[w].tx = 1 /\ worker[w].stmt = 1

TableInv == LastingRowsAreThere /\ RowsAreExplained /\ SnapshotInv /\ FetchIsFresh

USE DEF Height

-----------------------------------------------------------------------------
\* The channel's capacity, twice the number of workers, is a number.
LEMMA ChanCapIsNat == ChanCap \in Nat
  BY WorkerAssumption, FS_CardinalityType DEF ChanCap

Statement == [row : Outpoint, value : {"spent", "unspent"}]

\* The rows of s, each with the value v, as a sequence of statements.
Rows(s, v) == [i \in 1..Len(s) |-> [row |-> s[i], value |-> v]]

\* A list of outputs written with one value is a list of statements.
LEMMA RowsAreStatements ==
    ASSUME NEW s \in Seq(Outpoint), NEW v \in {"spent", "unspent"}
    PROVE  /\ Rows(s, v) \in Seq(Statement)
           /\ Len(Rows(s, v)) = Len(s) /\ Len(s) \in Nat
           /\ \A i \in 1..Len(s) : Rows(s, v)[i].row = s[i] /\ Rows(s, v)[i].value = v
<1> DEFINE e(i) == [row |-> s[i], value |-> v]
<1>1. Len(s) \in Nat /\ DOMAIN s = 1..Len(s) /\ \A i \in 1..Len(s) : s[i] \in Outpoint
  OBVIOUS
<1>2. \A i \in 1..Len(s) : e(i) \in Statement
  BY <1>1 DEF Statement
<1>3. \A i : e(i).row = s[i] /\ e(i).value = v
  OBVIOUS
<1>4. Rows(s, v) = [i \in 1..Len(s) |-> e(i)]
  BY DEF Rows
<1> HIDE DEF e
<1>5. [i \in 1..Len(s) |-> e(i)] \in Seq(Statement) /\ Len([i \in 1..Len(s) |-> e(i)]) = Len(s)
  BY <1>1, <1>2
<1>6. \A i \in 1..Len(s) : [j \in 1..Len(s) |-> e(j)][i] = e(i)
  OBVIOUS
<1> QED
  BY <1>1, <1>3, <1>4, <1>5, <1>6, Zenon

\* What two lists of statements, one after the other, hold.
LEMMA Concatenation ==
    ASSUME NEW a \in Seq(Statement), NEW b \in Seq(Statement)
    PROVE  /\ a \o b \in Seq(Statement) /\ Len(a \o b) = Len(a) + Len(b)
           /\ \A i \in 1..Len(a) : (a \o b)[i] = a[i]
           /\ \A i \in 1..Len(b) : (a \o b)[Len(a) + i] = b[i]
<1>1. a \o b \in Seq(Statement) /\ Len(a \o b) = Len(a) + Len(b)
  OBVIOUS
<1>2. \A i \in 1..Len(a) : (a \o b)[i] = a[i]
  OBVIOUS
<1>3. \A i \in 1..Len(b) : (a \o b)[Len(a) + i] = b[i]
  OBVIOUS
<1> QED
  BY <1>1, <1>2, <1>3

\* The indices of a sequence and what is at them.
LEMMA SequenceDomain ==
    ASSUME NEW S, NEW q \in Seq(S)
    PROVE  DOMAIN q = 1..Len(q) /\ Len(q) \in Nat /\ \A i \in 1..Len(q) : q[i] \in S
OBVIOUS

Ins(tx)  == Len(tx.ins)
Outs(tx) == Len(tx.outs)

\* The statements of a transaction: first its inputs, then its outputs.
LEMMA StatementsOfTx ==
    ASSUME NEW tx \in Tx
    PROVE  /\ Ins(tx) \in Nat /\ DOMAIN tx.ins = 1..Ins(tx)
           /\ Outs(tx) \in Nat /\ DOMAIN tx.outs = 1..Outs(tx)
           /\ Len(Statements(tx)) = Ins(tx) + Outs(tx)
           /\ DOMAIN Statements(tx) = 1..(Ins(tx) + Outs(tx))
           /\ \A s \in DOMAIN Statements(tx) : Statements(tx)[s] \in Statement
           /\ \A i \in 1..Ins(tx) :
                 Statements(tx)[i].row = tx.ins[i] /\ Statements(tx)[i].value = "spent"
           /\ \A i \in 1..Outs(tx) :
                 /\ Statements(tx)[Ins(tx) + i].row = tx.outs[i]
                 /\ Statements(tx)[Ins(tx) + i].value = "unspent"
<1> DEFINE a == Rows(tx.ins, "spent")
           b == Rows(tx.outs, "unspent")
<1>1. tx.ins \in Seq(Outpoint) /\ tx.outs \in Seq(Outpoint)
  BY DEF Tx
<1>2. Statements(tx) = a \o b
  BY DEF Statements, Rows
<1>3. /\ a \in Seq(Statement) /\ Len(a) = Ins(tx) /\ Ins(tx) \in Nat
      /\ \A i \in 1..Ins(tx) : a[i].row = tx.ins[i] /\ a[i].value = "spent"
  BY <1>1, RowsAreStatements DEF Ins
<1>4. /\ b \in Seq(Statement) /\ Len(b) = Outs(tx) /\ Outs(tx) \in Nat
      /\ \A i \in 1..Outs(tx) : b[i].row = tx.outs[i] /\ b[i].value = "unspent"
  BY <1>1, RowsAreStatements DEF Outs
<1> HIDE DEF a, b
<1>5. /\ a \o b \in Seq(Statement) /\ Len(a \o b) = Ins(tx) + Outs(tx)
      /\ \A i \in 1..Ins(tx) : (a \o b)[i] = a[i]
      /\ \A i \in 1..Outs(tx) : (a \o b)[Ins(tx) + i] = b[i]
  <2>1. /\ a \o b \in Seq(Statement) /\ Len(a \o b) = Len(a) + Len(b)
        /\ \A i \in 1..Len(a) : (a \o b)[i] = a[i]
        /\ \A i \in 1..Len(b) : (a \o b)[Len(a) + i] = b[i]
    BY <1>3, <1>4, Concatenation
  <2> QED
    BY <1>3, <1>4, <2>1, Zenon
<1>6. \A i \in 1..Ins(tx) :
         Statements(tx)[i].row = tx.ins[i] /\ Statements(tx)[i].value = "spent"
  BY <1>2, <1>3, <1>5, Zenon
<1>7. \A i \in 1..Outs(tx) :
         /\ Statements(tx)[Ins(tx) + i].row = tx.outs[i]
         /\ Statements(tx)[Ins(tx) + i].value = "unspent"
  BY <1>2, <1>4, <1>5, Zenon
<1>8. Statements(tx) \in Seq(Statement) /\ Len(Statements(tx)) = Ins(tx) + Outs(tx)
  BY <1>2, <1>5, Zenon
<1>9. /\ DOMAIN Statements(tx) = 1..(Ins(tx) + Outs(tx))
      /\ \A s \in DOMAIN Statements(tx) : Statements(tx)[s] \in Statement
  BY <1>8, SequenceDomain, Zenon
<1>10. DOMAIN tx.ins = 1..Ins(tx) /\ DOMAIN tx.outs = 1..Outs(tx)
  BY <1>1, SequenceDomain, Zenon DEF Ins, Outs
<1> QED
  BY <1>3, <1>4, <1>6, <1>7, <1>8, <1>9, <1>10, Zenon

\* A block is a sequence of transactions.
LEMMA BlockOfHeight ==
    ASSUME NEW h \in Height
    PROVE  /\ Txs[h] \in Seq(Tx) /\ DOMAIN Txs[h] = 1..Len(Txs[h]) /\ Len(Txs[h]) \in Nat
           /\ \A i \in 1..Len(Txs[h]) : Txs[h][i] \in Tx
<1>1. Txs[h] \in Seq(Tx)
  BY TxsAssumption
<1> QED
  BY <1>1

\* A block's transactions are transactions, counted from one.
LEMMA TxOfBlock ==
    ASSUME NEW h \in Height, NEW i \in DOMAIN Txs[h]
    PROVE  Txs[h][i] \in Tx /\ i \in Nat \ {0} /\ i <= Len(Txs[h])
BY BlockOfHeight

\* What a statement of a block does: it marks an output that the block spends, or inserts one
\* that it creates.
LEMMA StatementOfBlock ==
    ASSUME NEW h \in Height, NEW i \in DOMAIN Txs[h], NEW s \in DOMAIN Stmts(h, i)
    PROVE  /\ Stmts(h, i)[s] \in Statement
           /\ i \in Nat \ {0} /\ s \in Nat \ {0}
           /\ \/ Stmts(h, i)[s].value = "spent" /\ Stmts(h, i)[s].row \in Elements(Txs[h][i].ins)
              \/ Stmts(h, i)[s].value = "unspent" /\ Stmts(h, i)[s].row \in Elements(Txs[h][i].outs)
<1> DEFINE tx == Txs[h][i]
<1>1. tx \in Tx
  BY TxOfBlock, Zenon
<1>2. Stmts(h, i) = Statements(tx)
  BY DEF Stmts
<1>3. i \in Nat \ {0}
  BY TxOfBlock
<1> HIDE DEF tx
<1>4. /\ s \in 1..(Ins(tx) + Outs(tx)) /\ Ins(tx) \in Nat /\ Outs(tx) \in Nat
      /\ Statements(tx)[s] \in Statement
  BY <1>1, <1>2, StatementsOfTx
<1>5. CASE s <= Ins(tx)
  <2>1. s \in 1..Ins(tx)
    BY <1>4, <1>5
  <2>2. Statements(tx)[s].row = tx.ins[s] /\ Statements(tx)[s].value = "spent"
    BY <1>1, <2>1, StatementsOfTx
  <2>3. tx.ins[s] \in Elements(tx.ins)
    BY <1>1, <2>1, StatementsOfTx DEF Elements
  <2> QED
    BY <1>2, <1>3, <1>4, <2>2, <2>3 DEF tx
<1>6. CASE s > Ins(tx)
  <2> DEFINE k == s - Ins(tx)
  <2>1. k \in 1..Outs(tx) /\ s = Ins(tx) + k
    BY <1>4, <1>6
  <2> HIDE DEF k
  <2>2. Statements(tx)[s].row = tx.outs[k] /\ Statements(tx)[s].value = "unspent"
    BY <1>1, <2>1, StatementsOfTx
  <2>3. tx.outs[k] \in Elements(tx.outs)
    BY <1>1, <2>1, StatementsOfTx DEF Elements
  <2> QED
    BY <1>2, <1>3, <1>4, <2>2, <2>3 DEF tx
<1> QED
  BY <1>4, <1>5, <1>6

\* Every spend and every output of a block is one of its statements.
LEMMA SpendsAreStatements ==
    ASSUME NEW h \in Height, NEW o, o \in Spent(h)
    PROVE  \E i \in DOMAIN Txs[h] : \E s \in DOMAIN Stmts(h, i) :
              Stmts(h, i)[s].row = o /\ Stmts(h, i)[s].value = "spent"
<1>1. PICK i \in DOMAIN Txs[h] : o \in Elements(Txs[h][i].ins)
  BY DEF Spent, Elements
<1> DEFINE tx == Txs[h][i]
<1>2. tx \in Tx /\ Stmts(h, i) = Statements(tx)
  BY TxOfBlock DEF Stmts
<1>3. PICK k \in DOMAIN tx.ins : o = tx.ins[k]
  BY <1>1 DEF Elements
<1> HIDE DEF tx
<1>4. k \in 1..Ins(tx) /\ Ins(tx) \in Nat /\ Outs(tx) \in Nat
  BY <1>2, StatementsOfTx
<1>5. k \in 1..(Ins(tx) + Outs(tx))
  BY <1>4
<1>6. k \in DOMAIN Statements(tx)
  BY <1>2, <1>5, StatementsOfTx
<1>7. Statements(tx)[k].row = tx.ins[k] /\ Statements(tx)[k].value = "spent"
  BY <1>2, <1>4, StatementsOfTx
<1> QED
  BY <1>2, <1>3, <1>6, <1>7, Zenon

\* An output that a block creates is inserted by a statement of the block.
LEMMA OutputsAreStatements ==
    ASSUME NEW h \in Height, NEW o, o \in Created(h)
    PROVE  \E i \in DOMAIN Txs[h] : \E s \in DOMAIN Stmts(h, i) :
              Stmts(h, i)[s].row = o /\ Stmts(h, i)[s].value = "unspent"
<1>1. PICK i \in DOMAIN Txs[h] : o \in Elements(Txs[h][i].outs)
  BY DEF Created, Elements
<1> DEFINE tx == Txs[h][i]
<1>2. tx \in Tx /\ Stmts(h, i) = Statements(tx)
  BY TxOfBlock DEF Stmts
<1>3. PICK k \in DOMAIN tx.outs : o = tx.outs[k]
  BY <1>1 DEF Elements
<1> HIDE DEF tx
<1>4. k \in 1..Outs(tx) /\ Ins(tx) \in Nat /\ Outs(tx) \in Nat
  BY <1>2, StatementsOfTx
<1>5. Ins(tx) + k \in 1..(Ins(tx) + Outs(tx))
  BY <1>4
<1>6. Ins(tx) + k \in DOMAIN Statements(tx)
  BY <1>2, <1>5, StatementsOfTx
<1>7. Statements(tx)[Ins(tx) + k].row = tx.outs[k] /\ Statements(tx)[Ins(tx) + k].value = "unspent"
  BY <1>2, <1>4, StatementsOfTx
<1> QED
  BY <1>2, <1>3, <1>6, <1>7, Zenon

-----------------------------------------------------------------------------
(***************************************************************************)
(* Type correctness.                                                       *)
(***************************************************************************)
\* The statement that a worker is about to execute.
LEMMA StatementOfWorker ==
    ASSUME TypeOK, NEW w \in Worker, worker[w].tx <= Len(Block(w)),
           worker[w].stmt <= Len(Statements(Block(w)[worker[w].tx]))
    PROVE  LET h == worker[w].h
               i == worker[w].tx
               s == worker[w].stmt
           IN  /\ h \in Height /\ i \in DOMAIN Txs[h] /\ s \in DOMAIN Stmts(h, i)
               /\ Statements(Block(w)[i]) = Stmts(h, i)
<1> DEFINE h == worker[w].h
           i == worker[w].tx
           s == worker[w].stmt
<1>1. h \in Height /\ i \in Nat \ {0} /\ s \in Nat \ {0}
  BY DEF TypeOK
<1>2. i <= Len(Txs[h]) /\ s <= Len(Stmts(h, i)) /\ Statements(Block(w)[i]) = Stmts(h, i)
  BY DEF Block, Stmts
<1> HIDE DEF h, i, s
<1>3. i \in 1..Len(Txs[h]) /\ i \in DOMAIN Txs[h]
  BY <1>1, <1>2, BlockOfHeight
<1>4. /\ Len(Stmts(h, i)) = Ins(Txs[h][i]) + Outs(Txs[h][i])
      /\ Ins(Txs[h][i]) \in Nat /\ Outs(Txs[h][i]) \in Nat
      /\ DOMAIN Stmts(h, i) = 1..(Ins(Txs[h][i]) + Outs(Txs[h][i]))
  BY <1>1, <1>3, TxOfBlock, StatementsOfTx, Zenon DEF Stmts
<1>5. s \in DOMAIN Stmts(h, i)
  BY <1>1, <1>2, <1>4
<1> QED
  BY <1>1, <1>2, <1>3, <1>5, Zenon DEF h, i, s

\* The type invariant in parts.
MainType ==
    /\ main \in [pc : {"start", "height", "snapshot", "insert", "sync", "wait", "returned"},
                 from : Height, result : {"none", "nil", "error"}]
    /\ sync \in [current : Height, target : Height, processed : Nat, active : BOOLEAN]

RowsType ==
    /\ table \in [Outpoint -> {"absent", "unspent", "spent"}]
    /\ todo \subseteq Outpoint

FeedType == feeder \in -1..(Target + 1) /\ chan \in Seq(Height) /\ Len(chan) <= ChanCap

WorkerState == [pc   : {"receive", "fetch", "write", "returned", "failed"},
                h    : Height,
                tx   : Nat \ {0},
                stmt : Nat \ {0}]

WorkerType == worker \in [Worker -> WorkerState]

RestType ==
    /\ errs \in Nat
    /\ cancelled \in BOOLEAN /\ stopped \in BOOLEAN
    /\ faults \in 0..MaxFaults
    /\ done \subseteq Height
    /\ origin \in Height

SnapshotType ==
    /\ snapshot \in [height : -1..Target, loaded : BOOLEAN]
    /\ main.pc = "insert" => snapshot.height \in Height

\* The type invariant by its parts.
LEMMA TypeParts ==
    TypeOK <=> MainType /\ RowsType /\ FeedType /\ WorkerType /\ RestType /\ SnapshotType
BY Zenon DEF TypeOK, MainType, RowsType, FeedType, WorkerType, WorkerState, RestType, SnapshotType

\* Its parts give the type invariant after a step, too.
LEMMA TypePartsPrimed ==
    MainType' /\ RowsType' /\ FeedType' /\ WorkerType' /\ RestType' /\ SnapshotType' => TypeOK'
BY Zenon DEF TypeOK, MainType, RowsType, FeedType, WorkerType, WorkerState, RestType, SnapshotType

\* The snapshot is chosen before its rows are inserted, and its height stays.
LEMMA SnapshotTypeNext == ASSUME TypeOK, [Next]_vars PROVE SnapshotType'
<1>1. MainType /\ SnapshotType
  BY TypeParts
<1>2. CASE GetSnapshot
  <2>1. CASE UNCHANGED snapshot /\ main' = [main EXCEPT !.pc = "sync"]
    BY <1>1, <2>1 DEF MainType, SnapshotType
  <2>2. ASSUME NEW s \in SnapshotHeights, snapshot' = [snapshot EXCEPT !.height = s]
        PROVE  SnapshotType'
    <3>1. s \in Height /\ s \in -1..Target
      BY TargetAssumption DEF Height
    <3> QED
      BY <1>1, <2>2, <3>1 DEF SnapshotType
  <2> QED
    BY <1>2, <2>1, <2>2 DEF GetSnapshot
<1>3. CASE SnapshotDone
  BY <1>1, <1>3 DEF SnapshotDone, MainType, SnapshotType
<1>4. CASE UNCHANGED snapshot /\ (main'.pc = main.pc \/ main'.pc # "insert")
  BY <1>1, <1>4 DEF SnapshotType
<1>5. ASSUME NEW w \in Worker, WorkerStep(w) PROVE SnapshotType'
  <2>1. UNCHANGED <<main, snapshot>>
    BY <1>5 DEF WorkerStep, Receive, RangeEnds, Fetch, Write, NextTx, Finish, Report
  <2> QED
    BY <1>4, <2>1
<1>6. CASE Start \/ GetHeight \/ InsertBatch \/ SpawnPool \/ ReturnError \/ ReturnNil
  BY <1>1, <1>4, <1>6
     DEF Start, GetHeight, InsertBatch, SpawnPool, ReturnError, ReturnNil, MainType
<1>7. CASE Feed \/ FeedDone \/ Cancel \/ Stop \/ UNCHANGED vars
  BY <1>4, <1>7 DEF Feed, FeedDone, Cancel, Stop, vars
<1> QED
  BY <1>2, <1>3, <1>5, <1>6, <1>7 DEF Next, MainStep

HIDE DEF Height

\* Heights are numbers up to the target.
LEMMA HeightsAreNat ==
    /\ Target \in Nat /\ MaxFaults \in Nat
    /\ Target \in Height /\ 0 \in Height /\ \A h \in Height : h \in Nat /\ h <= Target
BY TargetAssumption, BoundsAssumption DEF Height

\* Updates of several fields of a record.
LEMMA IdleWith ==
    ASSUME NEW x, NEW y
    PROVE  [Idle EXCEPT !.pc = x, !.h = y] = [pc |-> x, h |-> y, tx |-> 1, stmt |-> 1]
<1>1. [Idle EXCEPT !.pc = x, !.h = y] = [[Idle EXCEPT !.pc = x] EXCEPT !.h = y]
  OBVIOUS
<1>2. [Idle EXCEPT !.pc = x] = [pc |-> x, h |-> 0, tx |-> 1, stmt |-> 1]
  BY DEF Idle
<1>3. [[pc |-> x, h |-> 0, tx |-> 1, stmt |-> 1] EXCEPT !.h = y] =
          [pc |-> x, h |-> y, tx |-> 1, stmt |-> 1]
  OBVIOUS
<1> QED
  BY <1>1, <1>2, <1>3, Zenon

\* A worker goes on to its next transaction.
LEMMA AtNextTx ==
    ASSUME NEW r \in WorkerState
    PROVE  [r EXCEPT !.tx = @ + 1, !.stmt = 1] =
               [pc |-> r.pc, h |-> r.h, tx |-> r.tx + 1, stmt |-> 1]
<1>1. [r EXCEPT !.tx = @ + 1, !.stmt = 1] = [[r EXCEPT !.tx = r.tx + 1] EXCEPT !.stmt = 1]
  BY DEF WorkerState
<1>2. [r EXCEPT !.tx = r.tx + 1] = [pc |-> r.pc, h |-> r.h, tx |-> r.tx + 1, stmt |-> r.stmt]
  BY DEF WorkerState
<1>3. [[pc |-> r.pc, h |-> r.h, tx |-> r.tx + 1, stmt |-> r.stmt] EXCEPT !.stmt = 1] =
          [pc |-> r.pc, h |-> r.h, tx |-> r.tx + 1, stmt |-> 1]
  OBVIOUS
<1> QED
  BY <1>1, <1>2, <1>3, Zenon

SyncType == [current : Height, target : Height, processed : Nat, active : BOOLEAN]

\* The progress with one more block and a new height.
LEMMA SyncWith ==
    ASSUME NEW r \in SyncType, NEW c \in Height
    PROVE  [r EXCEPT !.processed = @ + 1, !.current = c] =
               [current |-> c, target |-> r.target, processed |-> r.processed + 1,
                active |-> r.active]
<1>1. [r EXCEPT !.processed = @ + 1, !.current = c] =
          [[r EXCEPT !.processed = @ + 1] EXCEPT !.current = c]
  BY DEF SyncType
<1>2. [r EXCEPT !.processed = @ + 1] =
          [current |-> r.current, target |-> r.target, processed |-> r.processed + 1,
           active |-> r.active]
  BY DEF SyncType
<1>3. [[current |-> r.current, target |-> r.target, processed |-> r.processed + 1,
        active |-> r.active] EXCEPT !.current = c] =
          [current |-> c, target |-> r.target, processed |-> r.processed + 1,
           active |-> r.active]
  OBVIOUS
<1> QED
  BY <1>1, <1>2, <1>3, Zenon

\* What the workers' steps do to the worker.
LEMMA AfterReceive ==
    ASSUME NEW w \in Worker, Receive(w)
    PROVE  worker' = [worker EXCEPT ![w] =
                         [pc |-> IF cancelled THEN "returned" ELSE "fetch",
                          h |-> Head(chan), tx |-> 1, stmt |-> 1]]
BY IdleWith, Zenon DEF Receive

\* The step of a worker to its next transaction.
LEMMA AfterNextTx ==
    ASSUME WorkerType, NEW w \in Worker, NextTx(w)
    PROVE  worker' = [worker EXCEPT ![w] =
                         [pc |-> worker[w].pc, h |-> worker[w].h, tx |-> worker[w].tx + 1,
                          stmt |-> 1]]
<1>1. worker' = [worker EXCEPT ![w].tx = @ + 1, ![w].stmt = 1]
  BY Zenon DEF NextTx
<1>2. [worker EXCEPT ![w].tx = @ + 1, ![w].stmt = 1] =
          [worker EXCEPT ![w] = [worker[w] EXCEPT !.tx = @ + 1, !.stmt = 1]]
  BY DEF WorkerType
<1>3. worker[w] \in WorkerState
  BY DEF WorkerType
<1>4. [worker[w] EXCEPT !.tx = @ + 1, !.stmt = 1] =
          [pc |-> worker[w].pc, h |-> worker[w].h, tx |-> worker[w].tx + 1, stmt |-> 1]
  BY <1>3, AtNextTx
<1> QED
  BY <1>1, <1>2, <1>4, Zenon

\* The progress after a worker has finished its block.
LEMMA AfterFinish ==
    ASSUME MainType, WorkerType, NEW w \in Worker, Finish(w)
    PROVE  LET c == IF worker[w].h > sync.current THEN worker[w].h ELSE sync.current
           IN  /\ c \in Height
               /\ sync' = [current |-> c, target |-> sync.target,
                           processed |-> sync.processed + 1, active |-> sync.active]
<1> DEFINE c == IF worker[w].h > sync.current THEN worker[w].h ELSE sync.current
<1>1. c \in Height /\ sync \in SyncType
  BY DEF MainType, WorkerType, WorkerState, SyncType
<1>2. sync' = [sync EXCEPT !.processed = @ + 1, !.current = c]
  BY <1>1 DEF Finish, SyncType
<1> HIDE DEF c
<1>3. [sync EXCEPT !.processed = @ + 1, !.current = c] =
          [current |-> c, target |-> sync.target,
           processed |-> sync.processed + 1, active |-> sync.active]
  BY <1>1, SyncWith
<1> QED
  BY <1>1, <1>2, <1>3, Zenon DEF c

\* The types before the call.
LEMMA TypeInit == Init => TypeOK
<1> SUFFICES ASSUME Init PROVE TypeOK
  OBVIOUS
<1>1. PICK start \in Height \X Height :
          main = [pc |-> "start", from |-> start[1], result |-> "none"] /\ origin = start[2]
  BY TargetAssumption DEF Init
<1>6. MainType /\ RowsType /\ SnapshotType
  BY <1>1, TargetAssumption, HeightsAreNat
     DEF Init, TableBefore, MainType, RowsType, SnapshotType
<1>2. FeedType
  BY ChanCapIsNat, TargetAssumption DEF Init, FeedType
<1>3. WorkerType
  BY HeightsAreNat DEF Init, WorkerType, WorkerState, Idle
<1>4. errs \in Nat /\ faults \in 0..MaxFaults /\ done \subseteq Height
  BY HeightsAreNat DEF Init
<1>5. RestType
  BY <1>1, <1>4 DEF Init, RestType
<1> QED
  BY <1>2, <1>3, <1>5, <1>6, TypeParts

\* Every step keeps the types.
LEMMA TypeNext == TypeOK /\ [Next]_vars => TypeOK'
<1> SUFFICES ASSUME TypeOK, [Next]_vars PROVE TypeOK'
  OBVIOUS
<1> USE ChanCapIsNat, HeightsAreNat
<1>0. MainType /\ RowsType /\ FeedType /\ WorkerType /\ RestType /\ SnapshotType
  BY TypeParts
<1>20. SnapshotType'
  BY SnapshotTypeNext
<1>1. CASE Start
  <2>1. RowsType' /\ FeedType' /\ WorkerType' /\ RestType'
    BY <1>0, <1>1 DEF Start, pool, env, RowsType, FeedType, WorkerType, RestType
  <2>2. MainType'
    BY <1>0, <1>1 DEF Start, pool, env, MainType
  <2> QED
    BY <2>1, <2>2, <1>20, TypePartsPrimed
<1>2. CASE GetHeight
  <2>1. RowsType' /\ FeedType' /\ WorkerType'
    BY <1>0, <1>2 DEF GetHeight, Fault, pool, env, RowsType, FeedType, WorkerType
  <2>2. MainType'
    BY <1>0, <1>2 DEF GetHeight, Fault, pool, env, MainType
  <2>3. RestType'
    BY <1>0, <1>2 DEF GetHeight, Fault, pool, env, RestType
  <2> QED
    BY <2>1, <2>2, <2>3, <1>20, TypePartsPrimed
<1>3. CASE GetSnapshot
  <2>1. FeedType' /\ WorkerType'
    BY <1>0, <1>3 DEF GetSnapshot, Fault, UtxosBefore, pool, env, FeedType, WorkerType
  <2>2. MainType'
    BY <1>0, <1>3 DEF GetSnapshot, Fault, UtxosBefore, pool, env, MainType
  <2>3. RowsType'
    BY <1>0, <1>3 DEF GetSnapshot, Fault, UtxosBefore, pool, env, RowsType
  <2>4. RestType'
    BY <1>0, <1>3 DEF GetSnapshot, Fault, pool, env, RestType
  <2> QED
    BY <2>1, <2>2, <2>3, <2>4, <1>20, TypePartsPrimed
<1>4. CASE InsertBatch
  <2>1. FeedType' /\ WorkerType'
    BY <1>0, <1>4 DEF InsertBatch, CallSucceeds, CallFails, Fault, pool, env, FeedType, WorkerType
  <2>2. MainType'
    BY <1>0, <1>4 DEF InsertBatch, CallSucceeds, CallFails, Fault, pool, env, MainType
  <2>3. RowsType'
    BY <1>0, <1>4 DEF InsertBatch, Inserted, CallSucceeds, CallFails, Fault, pool, env, RowsType
  <2>4. RestType'
    BY <1>0, <1>4 DEF InsertBatch, CallSucceeds, CallFails, Fault, pool, env, RestType
  <2> QED
    BY <2>1, <2>2, <2>3, <2>4, <1>20, TypePartsPrimed
<1>5. CASE SnapshotDone
  <2>1. RowsType' /\ FeedType' /\ WorkerType' /\ RestType'
    BY <1>0, <1>5 DEF SnapshotDone, pool, env, RowsType, FeedType, WorkerType, RestType
  <2>2. MainType'
    BY <1>0, <1>5 DEF SnapshotDone, pool, env, MainType, SnapshotType
  <2> QED
    BY <2>1, <2>2, <1>20, TypePartsPrimed
<1>6. CASE SpawnPool
  <2>1. RowsType' /\ WorkerType' /\ RestType'
    BY <1>0, <1>6 DEF SpawnPool, pool, env, RowsType, WorkerType, RestType
  <2>2. MainType'
    BY <1>0, <1>6 DEF SpawnPool, pool, env, MainType
  <2>3. main.from \in Height /\ feeder' = main.from /\ chan' = chan
    BY <1>0, <1>6 DEF MainType, SpawnPool
  <2>4. feeder' \in -1..(Target + 1)
    <3>1. main.from \in Nat /\ main.from <= Target
      BY <2>3
    <3> QED
      BY <2>3, <3>1
  <2>5. FeedType'
    BY <1>0, <2>3, <2>4 DEF FeedType
  <2> QED
    BY <2>1, <2>2, <2>5, <1>20, TypePartsPrimed
<1>7. CASE ReturnError
  <2>1. RowsType' /\ FeedType' /\ WorkerType' /\ RestType'
    BY <1>0, <1>7 DEF ReturnError, pool, env, RowsType, FeedType, WorkerType, RestType
  <2>2. MainType'
    BY <1>0, <1>7 DEF ReturnError, pool, env, MainType
  <2> QED
    BY <2>1, <2>2, <1>20, TypePartsPrimed
<1>8. CASE ReturnNil
  <2>1. RowsType' /\ FeedType' /\ WorkerType' /\ RestType'
    BY <1>0, <1>8 DEF ReturnNil, pool, env, RowsType, FeedType, WorkerType, RestType
  <2>2. MainType'
    BY <1>0, <1>8 DEF ReturnNil, pool, env, MainType
  <2> QED
    BY <2>1, <2>2, <1>20, TypePartsPrimed
<1>9. CASE Feed
  <2>1. MainType' /\ RowsType' /\ WorkerType' /\ RestType'
    BY <1>0, <1>9 DEF Feed, pool, env, MainType, RowsType, WorkerType, RestType
  <2>2. FeedType'
    <3>1. feeder \in Height
      BY <1>9 DEF Feed, Height
    <3>2. CASE cancelled /\ feeder' = -1 /\ chan' = chan
      BY <1>0, <3>2 DEF FeedType
    <3>3. CASE Len(chan) < ChanCap /\ chan' = Append(chan, feeder) /\ feeder' = feeder + 1
      <4>1. feeder' \in -1..(Target + 1)
        BY <3>1, <3>3
      <4>2. chan' \in Seq(Height) /\ Len(chan') = Len(chan) + 1 /\ Len(chan) \in Nat
        BY <1>0, <3>1, <3>3 DEF FeedType
      <4> QED
        BY <3>3, <4>1, <4>2 DEF FeedType
    <3> QED
      BY <1>9, <3>2, <3>3 DEF Feed
  <2> QED
    BY <2>1, <2>2, <1>20, TypePartsPrimed
<1>10. CASE FeedDone
  <2>1. MainType' /\ RowsType' /\ WorkerType' /\ RestType'
    BY <1>0, <1>10 DEF FeedDone, pool, env, MainType, RowsType, WorkerType, RestType
  <2>2. FeedType'
    BY <1>0, <1>10 DEF FeedDone, pool, env, FeedType
  <2> QED
    BY <2>1, <2>2, <1>20, TypePartsPrimed
<1>11. ASSUME NEW w \in Worker, Receive(w) PROVE TypeOK'
  <2>1. MainType' /\ RowsType' /\ RestType'
    BY <1>0, <1>11 DEF Receive, Idle, pool, env, MainType, RowsType, RestType
  <2>2. FeedType'
    BY <1>0, <1>11 DEF Receive, Idle, pool, env, FeedType
  <2>3. WorkerType'
    <3> DEFINE r == [pc |-> IF cancelled THEN "returned" ELSE "fetch", h |-> Head(chan),
                     tx |-> 1, stmt |-> 1]
    <3>1. Head(chan) \in Height
      BY <1>0, <1>11 DEF FeedType, Receive
    <3>2. r \in WorkerState
      BY <3>1 DEF WorkerState
    <3>3. worker' = [worker EXCEPT ![w] = r]
      BY <1>11, AfterReceive, Zenon
    <3> HIDE DEF r
    <3> QED
      BY <1>0, <3>2, <3>3 DEF WorkerType
  <2> QED
    BY <2>1, <2>2, <2>3, <1>20, TypePartsPrimed
<1>12. ASSUME NEW w \in Worker, RangeEnds(w) PROVE TypeOK'
  <2>1. MainType' /\ RowsType' /\ FeedType' /\ RestType'
    BY <1>0, <1>12 DEF RangeEnds, Go, pool, env, MainType, RowsType, FeedType, RestType
  <2>2. WorkerType'
    BY <1>0, <1>12 DEF RangeEnds, Go, pool, env, WorkerType, WorkerState
  <2> QED
    BY <2>1, <2>2, <1>20, TypePartsPrimed
<1>13. ASSUME NEW w \in Worker, Fetch(w) PROVE TypeOK'
  <2>1. MainType' /\ RowsType' /\ FeedType'
    BY <1>0, <1>13 DEF Fetch, Fault, Report, Go, pool, env, MainType, RowsType, FeedType
  <2>2. WorkerType'
    BY <1>0, <1>13 DEF Fetch, Fault, Report, Go, pool, env, WorkerType, WorkerState
  <2>3. RestType'
    BY <1>0, <1>13 DEF Fetch, Fault, Report, Go, pool, env, RestType
  <2> QED
    BY <2>1, <2>2, <2>3, <1>20, TypePartsPrimed
<1>14. ASSUME NEW w \in Worker, Write(w) PROVE TypeOK'
  <2> DEFINE st == Statements(Block(w)[worker[w].tx])[worker[w].stmt]
             written == [table EXCEPT ![st.row] = st.value]
  <2>1. st \in Statement
    <3>1. /\ worker[w].tx <= Len(Block(w))
          /\ worker[w].stmt <= Len(Statements(Block(w)[worker[w].tx]))
      BY <1>14, Zenon DEF Write
    <3>2. /\ worker[w].h \in Height /\ worker[w].tx \in DOMAIN Txs[worker[w].h]
          /\ worker[w].stmt \in DOMAIN Stmts(worker[w].h, worker[w].tx)
          /\ Statements(Block(w)[worker[w].tx]) = Stmts(worker[w].h, worker[w].tx)
      BY <3>1, StatementOfWorker, Zenon
    <3> QED
      BY <3>2, StatementOfBlock
  <2> HIDE DEF st
  <2>2. written \in [Outpoint -> {"absent", "unspent", "spent"}]
    BY <1>0, <2>1 DEF RowsType, Statement
  <2> HIDE DEF written
  <2>3. \/ /\ CallSucceeds
           /\ table' = written
           /\ worker' = [worker EXCEPT ![w].stmt = @ + 1]
           /\ UNCHANGED <<sync, main, snapshot, todo, feeder, chan, errs, done, env>>
        \/ CallFails /\ Report(w) /\ table' \in {table, written}
    BY <1>14, Zenon DEF Write, st, written
  <2>4. MainType' /\ FeedType' /\ todo' = todo
    BY <1>0, <2>3 DEF MainType, FeedType, Report
  <2>5. RowsType'
    BY <1>0, <2>2, <2>3, <2>4 DEF RowsType
  <2>6. WorkerType'
    BY <1>0, <2>3 DEF WorkerType, WorkerState, Report, Go
  <2>7. RestType'
    BY <1>0, <2>3 DEF RestType, CallSucceeds, CallFails, Fault, Report, env
  <2> QED
    BY <2>4, <2>5, <2>6, <2>7, <1>20, TypePartsPrimed
<1>15. ASSUME NEW w \in Worker, NextTx(w) PROVE TypeOK'
  <2>1. MainType' /\ RowsType' /\ FeedType' /\ RestType'
    BY <1>0, <1>15 DEF NextTx, pool, env, MainType, RowsType, FeedType, RestType
  <2>2. WorkerType'
    <3> DEFINE r == [pc |-> worker[w].pc, h |-> worker[w].h, tx |-> worker[w].tx + 1, stmt |-> 1]
    <3>1. worker[w] \in WorkerState
      BY <1>0 DEF WorkerType
    <3>2. r \in WorkerState
      BY <3>1 DEF WorkerState
    <3>3. worker' = [worker EXCEPT ![w] = r]
      BY <1>0, <1>15, AfterNextTx, Zenon
    <3> HIDE DEF r
    <3> QED
      BY <1>0, <3>2, <3>3 DEF WorkerType
  <2> QED
    BY <2>1, <2>2, <1>20, TypePartsPrimed
<1>16. ASSUME NEW w \in Worker, Finish(w) PROVE TypeOK'
  <2>1. RowsType' /\ FeedType'
    BY <1>0, <1>16 DEF Finish, Go, pool, env, RowsType, FeedType
  <2>2. MainType'
    <3>1. worker[w].h \in Height
      BY <1>0 DEF WorkerType, WorkerState
    <3>2. sync' \in SyncType
      <4> DEFINE c == IF worker[w].h > sync.current THEN worker[w].h ELSE sync.current
      <4>1. /\ c \in Height
            /\ sync' = [current |-> c, target |-> sync.target,
                        processed |-> sync.processed + 1, active |-> sync.active]
        BY <1>0, <1>16, AfterFinish, Zenon
      <4> HIDE DEF c
      <4> QED
        BY <1>0, <4>1 DEF MainType, SyncType
    <3> QED
      BY <1>0, <1>16, <3>2 DEF Finish, MainType, SyncType
  <2>3. WorkerType'
    BY <1>0, <1>16 DEF Finish, Go, pool, env, WorkerType, WorkerState
  <2>4. RestType'
    <3>1. worker[w].h \in Height
      BY <1>0 DEF WorkerType, WorkerState
    <3>2. done' \subseteq Height
      BY <1>0, <1>16, <3>1 DEF Finish, RestType
    <3> QED
      BY <1>0, <1>16, <3>2 DEF Finish, RestType, env
  <2> QED
    BY <2>1, <2>2, <2>3, <2>4, <1>20, TypePartsPrimed
<1>17. CASE Cancel
  <2>1. MainType' /\ RowsType' /\ FeedType' /\ WorkerType'
    BY <1>0, <1>17 DEF Cancel, pool, env, MainType, RowsType, FeedType, WorkerType
  <2>2. RestType'
    BY <1>0, <1>17 DEF Cancel, pool, env, RestType
  <2> QED
    BY <2>1, <2>2, <1>20, TypePartsPrimed
<1>18. CASE Stop
  <2>1. RowsType' /\ FeedType' /\ WorkerType'
    BY <1>0, <1>18 DEF Stop, pool, env, RowsType, FeedType, WorkerType
  <2>2. MainType'
    BY <1>0, <1>18 DEF Stop, pool, env, MainType
  <2>3. RestType'
    BY <1>0, <1>18 DEF Stop, pool, env, RestType
  <2> QED
    BY <2>1, <2>2, <2>3, <1>20, TypePartsPrimed
<1>19. CASE UNCHANGED vars
  BY <1>0, <1>19, <1>20, TypePartsPrimed DEF MainType, RowsType, FeedType, WorkerType, RestType, vars
<1> QED
  BY <1>1, <1>2, <1>3, <1>4, <1>5, <1>6, <1>7, <1>8, <1>9, <1>10, <1>11, <1>12, <1>13, <1>14,
     <1>15, <1>16, <1>17, <1>18, <1>19 DEF Next, MainStep, WorkerStep

\* Every variable keeps its type: the channel never exceeds its capacity, heights stay in the
\* range of the chain, and a worker never runs off its block.
THEOREM TypeCorrect == Spec => []TypeOK
<1>1. Spec => []TypeOK
  BY TypeInit, TypeNext, PTL DEF Spec
<1> QED
  BY <1>1

-----------------------------------------------------------------------------
(***************************************************************************)
(* The heights of the range.                                               *)
(***************************************************************************)
LEMMA HeightsInOrder ==
    ASSUME NEW lo \in Int, NEW hi \in Int, lo <= hi
    PROVE  /\ Heights(lo, hi) # <<>> <=> lo < hi
           /\ lo < hi => Head(Heights(lo, hi)) = lo /\ Tail(Heights(lo, hi)) = Heights(lo + 1, hi)
           /\ Append(Heights(lo, hi), hi) = Heights(lo, hi + 1)
<1>1. Heights(lo, hi) \in Seq(Int) /\ Len(Heights(lo, hi)) = hi - lo
  BY DEF Heights
<1>2. Heights(lo, hi) # <<>> <=> lo < hi
  BY <1>1
<1>3. ASSUME lo < hi PROVE Head(Heights(lo, hi)) = lo /\ Tail(Heights(lo, hi)) = Heights(lo + 1, hi)
  <2>1. Head(Heights(lo, hi)) = lo
    BY <1>1, <1>3 DEF Heights
  <2>2. /\ Tail(Heights(lo, hi)) \in Seq(Int) /\ Len(Tail(Heights(lo, hi))) = hi - (lo + 1)
        /\ \A i \in 1..(hi - (lo + 1)) : Tail(Heights(lo, hi))[i] = (lo + 1) + i - 1
    BY <1>1, <1>3 DEF Heights
  <2>3. /\ Heights(lo + 1, hi) \in Seq(Int) /\ Len(Heights(lo + 1, hi)) = hi - (lo + 1)
        /\ \A i \in 1..(hi - (lo + 1)) : Heights(lo + 1, hi)[i] = (lo + 1) + i - 1
    BY <1>3 DEF Heights
  <2>4. Tail(Heights(lo, hi)) = Heights(lo + 1, hi)
    BY <2>2, <2>3, SeqEqual
  <2> QED
    BY <2>1, <2>4
<1>4. Append(Heights(lo, hi), hi) = Heights(lo, hi + 1)
  <2>1. /\ Append(Heights(lo, hi), hi) \in Seq(Int) /\ Len(Append(Heights(lo, hi), hi)) = hi + 1 - lo
        /\ \A i \in 1..(hi + 1 - lo) : Append(Heights(lo, hi), hi)[i] = lo + i - 1
    BY <1>1 DEF Heights
  <2>2. /\ Heights(lo, hi + 1) \in Seq(Int) /\ Len(Heights(lo, hi + 1)) = hi + 1 - lo
        /\ \A i \in 1..(hi + 1 - lo) : Heights(lo, hi + 1)[i] = lo + i - 1
    BY DEF Heights
  <2> QED
    BY <2>1, <2>2, SeqEqual
<1> QED
  BY <1>2, <1>3, <1>4

\* What the proofs use of the types.
LEMMA Numbers ==
    ASSUME TypeOK
    PROVE  /\ main.from \in Nat /\ main.from <= Target /\ feeder \in Int
           /\ sync.current \in Nat /\ sync.processed \in Nat /\ errs \in Nat
           /\ DOMAIN worker = Worker
           /\ \A w \in Worker : worker[w] \in WorkerState /\ worker[w].h \in Nat
<1>1. MainType /\ FeedType /\ WorkerType /\ RestType
  BY TypeParts
<1>2. main.from \in Height /\ sync.current \in Height /\ sync.processed \in Nat
  BY <1>1 DEF MainType
<1>3. DOMAIN worker = Worker /\ \A w \in Worker : worker[w] \in WorkerState
  BY <1>1 DEF WorkerType
<1>4. \A w \in Worker : worker[w].h \in Height
  BY <1>3 DEF WorkerState
<1>5. feeder \in Int /\ errs \in Nat
  BY <1>1, HeightsAreNat DEF FeedType, RestType
<1> QED
  BY <1>2, <1>3, <1>4, <1>5, HeightsAreNat

\* Before the call no height is anywhere.
LEMMA RangeInit == Init => RangeInv
<1> SUFFICES ASSUME Init PROVE RangeInv
  OBVIOUS
<1>1. TypeOK
  BY TypeInit
<1>2. main.from \in Nat /\ main.from <= Target
  BY <1>1, Numbers
<1>3. Heights(main.from, main.from) = <<>>
  <2>1. Heights(main.from, main.from) # <<>> <=> main.from < main.from
    BY <1>2, HeightsInOrder
  <2> QED
    BY <1>2, <2>1
<1>4. ChannelAt(main.from, main.from)
  BY <1>2, <1>3, HeightsAreNat DEF Init, ChannelAt
<1>5. TakenAt(main.from)
  BY <1>2 DEF Init, TakenAt, Active, Idle
<1>6. HeightsAreOwned /\ OneIsAhead /\ NilMeansSynced
  BY DEF Init, HeightsAreOwned, Active, Idle, OneIsAhead, NilMeansSynced
<1>7. EndsAreMeant
  BY DEF Init, EndsAreMeant, Idle, Exited, BeforePool
<1> QED
  BY <1>1, <1>2, <1>4, <1>5, <1>6, <1>7 DEF RangeInv, HeightsAt

\* Before the pool is spawned nothing has been sent.
LEMMA NothingIsSent ==
    ASSUME RangeInv, BeforePool
    PROVE  /\ done = {} /\ chan = <<>> /\ feeder = -1
           /\ sync.processed = 0 /\ \A w \in Worker : worker[w].pc = "receive"
           /\ main.pc # "start" => sync.current = main.from
<1>1. PICK lo \in Int, hi \in Int : ChannelAt(lo, hi) /\ TakenAt(lo)
  BY DEF RangeInv, HeightsAt
<1>2. main.from \in Nat
  BY Numbers DEF RangeInv
<1>3. lo = main.from /\ hi = main.from /\ feeder = -1 /\ chan = Heights(lo, hi)
  BY <1>1, <1>2 DEF ChannelAt
<1>4. chan = <<>>
  BY <1>2, <1>3, HeightsInOrder
<1>5. done = {}
  BY <1>1, <1>2, <1>3 DEF TakenAt
<1>6. sync.processed = 0 /\ \A w \in Worker : worker[w].pc = "receive"
  BY DEF RangeInv, EndsAreMeant
<1> QED
  BY <1>1, <1>3, <1>4, <1>5, <1>6 DEF TakenAt

\* The call may choose where to start until the pool is spawned.
LEMMA RangeBeforePool ==
    ASSUME RangeInv, TypeOK', BeforePool, UNCHANGED <<pool, cancelled>>,
           sync'.processed = sync.processed,
           \/ sync'.current = main'.from
           \/ main.pc # "start" /\ sync'.current = sync.current /\ main'.from = main.from,
           \/ main'.pc \in {"height", "snapshot", "insert", "sync"} /\ main'.result = main.result
           \/ main'.pc = "returned" /\ main'.result = "error"
    PROVE  RangeInv'
<1>1. /\ feeder' = feeder /\ chan' = chan /\ worker' = worker /\ errs' = errs /\ done' = done
      /\ cancelled' = cancelled
  BY DEF pool
<1>2. /\ done = {} /\ chan = <<>> /\ feeder = -1
      /\ sync.processed = 0 /\ \A w \in Worker : worker[w].pc = "receive"
      /\ sync'.current = main'.from
  BY NothingIsSent
<1>3. main.result = "none" /\ main.pc # "returned"
  BY DEF RangeInv, EndsAreMeant, BeforePool
<1>4. PICK from \in Nat : from = main'.from /\ from <= Target
  <2>1. main'.from \in Height
    BY DEF TypeOK
  <2> QED
    BY <2>1, HeightsAreNat
<1>9. Target \in Nat /\ sync'.processed = 0
  BY <1>2, HeightsAreNat
<1>5. Heights(from, from) = <<>>
  <2>1. from \in Int /\ from <= from /\ ~(from < from)
    OBVIOUS
  <2> QED
    BY <2>1, HeightsInOrder
<1>6. \E lo, hi \in Int : HeightsAt(lo, hi)'
  <2>1. ChannelAt(from, from)'
    BY <1>1, <1>2, <1>3, <1>4, <1>9, <1>5 DEF ChannelAt, BeforePool
  <2>2. TakenAt(from)'
    BY <1>1, <1>2, <1>4, <1>9 DEF TakenAt, Active, Holds
  <2> QED
    BY <1>4, <1>9, <2>1, <2>2 DEF HeightsAt
<1>7. HeightsAreOwned' /\ OneIsAhead'
  BY <1>1, <1>2, <1>4, <1>9 DEF HeightsAreOwned, OneIsAhead, Active
<1>8. EndsAreMeant' /\ NilMeansSynced'
  BY <1>1, <1>2, <1>3, <1>4, <1>9 DEF EndsAreMeant, NilMeansSynced, BeforePool
<1> QED
  BY <1>6, <1>7, <1>8 DEF RangeInv

\* The pool is running, or has been: what follows from the invariant when a worker is not
\* waiting at the channel.
LEMMA PoolIsRunning ==
    ASSUME RangeInv, \/ \E w \in Worker : worker[w].pc # "receive"
                     \/ feeder # -1
                     \/ chan # <<>>
    PROVE  ~BeforePool
<1>1. PICK lo \in Int, hi \in Int : ChannelAt(lo, hi)
  BY DEF RangeInv, HeightsAt
<1>2. ASSUME BeforePool PROVE FALSE
  <2>1. feeder = -1 /\ \A w \in Worker : worker[w].pc = "receive"
    BY <1>1, <1>2 DEF ChannelAt, RangeInv, EndsAreMeant
  <2>2. main.from \in Nat
    BY Numbers DEF RangeInv
  <2>3. lo = hi /\ chan = Heights(lo, hi)
    BY <1>1, <1>2, <2>2 DEF ChannelAt
  <2>4. chan = <<>>
    BY <2>3, HeightsInOrder
  <2> QED
    BY <2>1, <2>4
<1> QED
  BY <1>2

\* The pool starts with an empty channel and idle workers.
LEMMA RangeSpawnPool == ASSUME RangeInv, TypeOK', SpawnPool PROVE RangeInv'
<1>1. /\ main' = [main EXCEPT !.pc = "wait"] /\ main.pc = "sync" /\ BeforePool
      /\ feeder' = main.from
      /\ UNCHANGED <<sync, chan, worker, errs, done, cancelled>>
  BY DEF SpawnPool, BeforePool, env
<1>2. /\ main'.pc = "wait" /\ main'.from = main.from /\ main'.result = main.result
      /\ main.from \in Nat
  BY <1>1, TypeParts, Numbers DEF RangeInv, MainType
<1>3. PICK lo \in Int, hi \in Int : ChannelAt(lo, hi) /\ TakenAt(lo)
  BY DEF RangeInv, HeightsAt
<1>4. /\ sync.processed = 0 /\ \A w \in Worker : worker[w].pc = "receive"
      /\ main.result = "none"
  BY <1>1 DEF RangeInv, EndsAreMeant
<1>5. ChannelAt(lo, hi)'
  BY <1>1, <1>2, <1>3 DEF ChannelAt, BeforePool
<1>6. TakenAt(lo)'
  BY <1>1, <1>2, <1>3, <1>4 DEF TakenAt, Active, Holds
<1>7. HeightsAreOwned' /\ OneIsAhead'
  BY <1>1, <1>2, <1>4 DEF HeightsAreOwned, OneIsAhead, Active
<1>8. EndsAreMeant' /\ NilMeansSynced'
  BY <1>1, <1>2, <1>4 DEF EndsAreMeant, NilMeansSynced, BeforePool
<1> QED
  BY <1>3, <1>5, <1>6, <1>7, <1>8 DEF RangeInv, HeightsAt

\* When the call returns nil and its context is alive, no worker has anything left.
LEMMA NothingIsLeft ==
    ASSUME RangeInv, main.pc = "wait", errs = 0, ~cancelled, \A w \in Worker : Exited(w)
    PROVE  done = main.from..Target
<1>1. PICK lo \in Int, hi \in Int : ChannelAt(lo, hi) /\ TakenAt(lo)
  BY DEF RangeInv, HeightsAt
<1>2. \A w \in Worker : worker[w].pc = "returned"
  BY DEF RangeInv, EndsAreMeant, Exited
<1>3. chan = <<>> /\ feeder = -1
  BY <1>2, WorkerAssumption DEF RangeInv, EndsAreMeant
<1>4. hi = Target + 1 /\ lo <= hi /\ chan = Heights(lo, hi)
  BY <1>1, <1>3 DEF ChannelAt
<1>5. lo = Target + 1
  <2>1. ~(lo < hi)
    BY <1>3, <1>4, HeightsInOrder
  <2> QED
    BY <1>4, <2>1
<1>6. \A h \in main.from..(lo - 1) : h \in done
  BY <1>1, <1>2 DEF TakenAt, Holds, Active
<1>7. done \subseteq main.from..(lo - 1)
  BY <1>1 DEF TakenAt
<1>8. lo - 1 = Target
  BY <1>5, HeightsAreNat
<1> QED
  BY <1>6, <1>7, <1>8

\* The call returns with what its workers have done.
LEMMA RangeReturn == ASSUME RangeInv, TypeOK', ReturnError \/ ReturnNil PROVE RangeInv'
<1>1. /\ main.pc = "wait" /\ UNCHANGED <<sync, feeder, chan, worker, errs, done, cancelled>>
      /\ \/ main' = [main EXCEPT !.pc = "returned", !.result = "error"]
         \/ /\ main' = [main EXCEPT !.pc = "returned", !.result = "nil"]
            /\ errs = 0 /\ \A w \in Worker : Exited(w)
  BY DEF ReturnError, ReturnNil, pool, env
<1>2. /\ main'.pc = "returned" /\ main'.from = main.from
      /\ \/ main'.result = "error"
         \/ main'.result = "nil" /\ errs = 0 /\ \A w \in Worker : Exited(w)
  BY <1>1, TypeParts DEF RangeInv, MainType
<1>3. PICK lo \in Int, hi \in Int : ChannelAt(lo, hi) /\ TakenAt(lo)
  BY DEF RangeInv, HeightsAt
<1>4. ChannelAt(lo, hi)'
  BY <1>1, <1>2, <1>3 DEF ChannelAt, BeforePool
<1>5. TakenAt(lo)'
  BY <1>1, <1>2, <1>3 DEF TakenAt, Active, Holds
<1>6. HeightsAreOwned' /\ OneIsAhead'
  BY <1>1, <1>2 DEF RangeInv, HeightsAreOwned, OneIsAhead, Missing, Active
<1>7. EndsAreMeant'
  BY <1>1, <1>2 DEF RangeInv, EndsAreMeant, BeforePool, Exited
<1>8. NilMeansSynced'
  BY <1>1, <1>2, NothingIsLeft DEF NilMeansSynced
<1> QED
  BY <1>3, <1>4, <1>5, <1>6, <1>7, <1>8 DEF RangeInv, HeightsAt

\* The feeder sends the next height, or closes the channel after the last.
LEMMA RangeFeed == ASSUME RangeInv, TypeOK', Feed \/ FeedDone PROVE RangeInv'
<1>1. /\ UNCHANGED <<sync, main, worker, errs, done, cancelled>>
      /\ feeder # -1 /\ ~BeforePool
  <2>1. UNCHANGED <<sync, main, worker, errs, done, cancelled>> /\ feeder # -1
    BY HeightsAreNat, Numbers DEF Feed, FeedDone, env, RangeInv
  <2> QED
    BY <2>1, PoolIsRunning
<1>2. PICK lo \in Int, hi \in Int : ChannelAt(lo, hi) /\ TakenAt(lo)
  BY DEF RangeInv, HeightsAt
<1>3. feeder = hi /\ chan = Heights(lo, hi) /\ lo <= hi /\ main.from <= lo /\ hi <= Target + 1
  BY <1>1, <1>2 DEF ChannelAt
<1>4. TakenAt(lo)'
  BY <1>1, <1>2 DEF TakenAt, Active, Holds
<1>5. HeightsAreOwned' /\ OneIsAhead'
  BY <1>1 DEF RangeInv, HeightsAreOwned, OneIsAhead, Missing, Active
<1>6. EndsAreMeant' /\ NilMeansSynced'
  BY <1>1 DEF RangeInv, EndsAreMeant, NilMeansSynced, BeforePool, Exited
<1>7. \/ cancelled /\ feeder' = -1 /\ chan' = chan
      \/ feeder > Target /\ feeder' = -1 /\ chan' = chan
      \/ feeder \in 0..Target /\ feeder' = feeder + 1 /\ chan' = Append(chan, feeder)
  BY DEF Feed, FeedDone
<1>8. \E k \in Int : ChannelAt(lo, k)'
  <2>1. CASE feeder' = -1 /\ chan' = chan /\ (cancelled \/ feeder > Target)
    <3>1. ~cancelled => hi = Target + 1
      BY <1>3, <2>1, HeightsAreNat
    <3>2. ChannelAt(lo, hi)'
      BY <1>1, <1>2, <1>3, <2>1, <3>1 DEF ChannelAt, BeforePool
    <3> QED
      BY <3>2
  <2>2. CASE feeder \in 0..Target /\ feeder' = feeder + 1 /\ chan' = Append(chan, feeder)
    <3>1. chan' = Heights(lo, hi + 1) /\ hi + 1 <= Target + 1 /\ hi + 1 \in Int /\ hi >= 0
      <4>1. hi \in 0..Target /\ chan' = Append(Heights(lo, hi), hi)
        BY <1>3, <2>2
      <4>2. Append(Heights(lo, hi), hi) = Heights(lo, hi + 1)
        BY <1>3, HeightsInOrder
      <4> QED
        BY <4>1, <4>2, HeightsAreNat
    <3>2. feeder' = hi + 1 /\ feeder' # -1 /\ lo <= hi + 1
      BY <1>3, <2>2, <3>1
    <3>3. ChannelAt(lo, hi + 1)'
      BY <1>1, <1>2, <1>3, <3>1, <3>2 DEF ChannelAt, BeforePool
    <3> QED
      BY <3>1, <3>3
  <2> QED
    BY <1>7, <2>1, <2>2
<1> QED
  BY <1>2, <1>4, <1>5, <1>6, <1>8 DEF RangeInv, HeightsAt

\* A worker takes the oldest height of the channel.
LEMMA RangeReceive == ASSUME RangeInv, TypeOK', NEW w \in Worker, Receive(w) PROVE RangeInv'
<1>1. /\ worker[w].pc = "receive" /\ chan # <<>> /\ chan' = Tail(chan)
      /\ UNCHANGED <<sync, main, feeder, errs, done, cancelled>>
  BY DEF Receive, env
<1>2. DOMAIN worker = Worker /\ main.from \in Nat /\ sync.current \in Nat /\ sync.processed \in Nat
      /\ \A v \in Worker : worker[v].h \in Nat
  BY Numbers DEF RangeInv
<1>3. PICK lo \in Int, hi \in Int : ChannelAt(lo, hi) /\ TakenAt(lo)
  BY DEF RangeInv, HeightsAt
<1>4. ~BeforePool /\ chan = Heights(lo, hi) /\ main.from <= lo /\ lo <= hi
  BY <1>1, <1>3, PoolIsRunning DEF ChannelAt
<1>5. lo < hi /\ Head(chan) = lo /\ chan' = Heights(lo + 1, hi)
  BY <1>1, <1>4, HeightsInOrder
<1>6. /\ worker'[w].pc = IF cancelled THEN "returned" ELSE "fetch"
      /\ worker'[w].h = lo
      /\ \A v \in Worker : v # w => worker'[v] = worker[v]
  BY <1>2, <1>5, AfterReceive
<1>7. Holds(w)' /\ ~Active(w)
  BY <1>1, <1>6 DEF Holds, Active
<1>8. ChannelAt(lo + 1, hi)'
  BY <1>1, <1>2, <1>3, <1>4, <1>5 DEF ChannelAt, BeforePool
<1>9. TakenAt(lo + 1)'
  <2>1. done \subseteq main.from..lo
    BY <1>3, <1>2 DEF TakenAt
  <2>2. ASSUME NEW h \in main.from..lo
        PROVE  h \in done \/ \E v \in Worker : worker'[v].h = h /\ Holds(v)'
    <3>1. CASE h = lo
      BY <1>6, <1>7, <3>1
    <3>2. CASE h \in main.from..(lo - 1) /\ h \notin done
      <4>1. PICK v \in Worker : worker[v].h = h /\ Holds(v)
        BY <1>3, <3>2 DEF TakenAt
      <4>2. v # w
        BY <1>1, <4>1 DEF Holds, Active
      <4>3. worker'[v].h = h /\ Holds(v)'
        BY <1>1, <1>6, <4>1, <4>2 DEF Holds, Active
      <4> QED
        BY <4>3
    <3> QED
      BY <1>2, <3>1, <3>2
  <2>3. ASSUME NEW v \in Worker, Active(v)' PROVE worker'[v].h \in (main.from..lo) \ done
    <3>1. CASE v = w
      <4>1. lo \notin done
        BY <1>3, <1>2 DEF TakenAt
      <4> QED
        BY <1>2, <1>4, <1>6, <3>1, <4>1
    <3>2. CASE v # w
      <4>1. worker[v].h \in (main.from..(lo - 1)) \ done
        BY <1>3, <1>6, <2>3, <3>2 DEF TakenAt, Active
      <4> QED
        BY <1>2, <1>6, <3>2, <4>1
    <3> QED
      BY <3>1, <3>2
  <2>4. /\ sync.processed = 0 => main.pc = "start" \/ sync.current = main.from
        /\ sync.processed > 0 => main.from <= sync.current /\ sync.current < lo + 1
    BY <1>2, <1>3 DEF TakenAt
  <2>5. lo + 1 - 1 = lo
    OBVIOUS
  <2> QED
    BY <1>1, <2>1, <2>2, <2>3, <2>4, <2>5 DEF TakenAt
<1>10. HeightsAreOwned'
  <2>1. SUFFICES ASSUME NEW u \in Worker, NEW v \in Worker, Active(u)', Active(v)',
                        worker'[u].h = worker'[v].h, u # v
                 PROVE  FALSE
    BY DEF HeightsAreOwned
  <2>2. \A x \in Worker : x # w /\ Active(x)' => Active(x) /\ worker[x].h < lo
    BY <1>2, <1>3, <1>6 DEF TakenAt, Active
  <2>3. u # w /\ v # w
    BY <1>2, <1>6, <2>1, <2>2
  <2> QED
    BY <1>6, <2>1, <2>2, <2>3 DEF RangeInv, HeightsAreOwned
<1>11. OneIsAhead'
  <2>1. SUFFICES ASSUME sync.processed > 0 PROVE \E v \in Worker : worker'[v].h \notin Missing'
    BY <1>1 DEF OneIsAhead
  <2>2. Missing' = Missing
    BY <1>1 DEF Missing
  <2>3. PICK v \in Worker : worker[v].h \notin Missing
    BY <2>1 DEF RangeInv, OneIsAhead
  <2>4. lo \notin Missing
    BY <1>2, <1>3, <2>1 DEF TakenAt, Missing
  <2>5. CASE v = w
    BY <1>6, <2>2, <2>4, <2>5
  <2>6. CASE v # w
    BY <1>6, <2>2, <2>3, <2>6
  <2> QED
    BY <2>5, <2>6
<1>12. EndsAreMeant'
  <2>1. chan # <<>> /\ ~BeforePool' /\ main.result # "nil"
    BY <1>1, <1>4 DEF RangeInv, EndsAreMeant, BeforePool, Exited
  <2>2. \A v \in Worker : worker'[v].pc = "failed" => errs > 0
    BY <1>6 DEF RangeInv, EndsAreMeant
  <2>3. ASSUME NEW v \in Worker, main.pc = "wait", worker'[v].pc = "returned", ~cancelled
        PROVE  FALSE
    BY <1>1, <1>6, <2>3 DEF RangeInv, EndsAreMeant
  <2> QED
    BY <1>1, <2>1, <2>2, <2>3 DEF RangeInv, EndsAreMeant
<1>13. NilMeansSynced'
  BY <1>1 DEF RangeInv, NilMeansSynced
<1> QED
  BY <1>3, <1>8, <1>9, <1>10, <1>11, <1>12, <1>13 DEF RangeInv, HeightsAt

\* A worker goes on, gives up or ends with the height that it has.
LEMMA RangeGoOn ==
    ASSUME RangeInv, TypeOK', NEW w \in Worker,
           UNCHANGED <<sync, main, feeder, chan, done, cancelled>>,
           errs' >= errs, worker'[w].h = worker[w].h,
           \A v \in Worker : v # w => worker'[v] = worker[v],
           \/ Active(w) /\ Active(w)'
           \/ Active(w) /\ worker'[w].pc = "failed" /\ errs' > 0
           \/ worker[w].pc = "receive" /\ worker'[w].pc = "returned" /\ chan = <<>> /\ feeder = -1
              /\ ~BeforePool
    PROVE  RangeInv'
<1>1. ~BeforePool /\ errs \in Nat /\ errs' \in Nat
  BY PoolIsRunning, Numbers, TypeParts DEF RangeInv, Active, RestType, TypeOK
<1>2. PICK lo \in Int, hi \in Int : ChannelAt(lo, hi) /\ TakenAt(lo)
  BY DEF RangeInv, HeightsAt
<1>3. \A v \in Worker : /\ worker'[v].h = worker[v].h
                        /\ Active(v)' => Active(v)
                        /\ Holds(v) => Holds(v)'
  BY DEF Active, Holds
<1>4. ChannelAt(lo, hi)'
  BY <1>1, <1>2 DEF ChannelAt, BeforePool
<1>5. TakenAt(lo)'
  BY <1>2, <1>3 DEF TakenAt
<1>6. HeightsAreOwned' /\ OneIsAhead'
  BY <1>3 DEF RangeInv, HeightsAreOwned, OneIsAhead, Missing
<1>7. EndsAreMeant'
  <2>1. main.result = "nil" => worker[w].pc = "receive" /\ FALSE
    BY DEF RangeInv, EndsAreMeant, Exited, Active
  <2>2. \A v \in Worker : worker'[v].pc = "failed" => errs' > 0
    BY <1>1 DEF RangeInv, EndsAreMeant, Active
  <2>3. \A v \in Worker : main.pc = "wait" /\ worker'[v].pc = "returned" /\ ~cancelled =>
            chan = <<>> /\ feeder = -1
    BY DEF RangeInv, EndsAreMeant, Active
  <2> QED
    BY <1>1, <2>1, <2>2, <2>3 DEF RangeInv, EndsAreMeant, BeforePool
<1>8. NilMeansSynced'
  BY DEF RangeInv, NilMeansSynced
<1> QED
  BY <1>2, <1>4, <1>5, <1>6, <1>7, <1>8 DEF RangeInv, HeightsAt

\* The other steps of a worker, except Finish, leave it with the same height.
LEMMA WorkerGoesOn ==
    ASSUME RangeInv, TypeOK', NEW w \in Worker, RangeEnds(w) \/ Fetch(w) \/ Write(w) \/ NextTx(w)
    PROVE  RangeInv'
<1>1. DOMAIN worker = Worker /\ worker[w] \in WorkerState /\ errs \in Nat /\ WorkerType
  BY Numbers, TypeParts DEF RangeInv
<1>2. CASE RangeEnds(w)
  <2>1. /\ UNCHANGED <<sync, main, feeder, chan, done, cancelled, errs>>
        /\ worker[w].pc = "receive" /\ chan = <<>> /\ feeder = -1 /\ ~BeforePool
        /\ worker' = [worker EXCEPT ![w].pc = "returned"]
    BY <1>2 DEF RangeEnds, ChanClosed, Go, env, BeforePool
  <2>2. /\ worker'[w].h = worker[w].h /\ worker'[w].pc = "returned"
        /\ \A v \in Worker : v # w => worker'[v] = worker[v]
    BY <1>1, <2>1 DEF WorkerState
  <2> QED
    BY <1>1, <2>1, <2>2, RangeGoOn
<1>3. CASE Fetch(w)
  <2>1. /\ UNCHANGED <<sync, main, feeder, chan, done, cancelled>> /\ worker[w].pc = "fetch"
        /\ \/ errs' = errs /\ worker' = [worker EXCEPT ![w].pc = "write"]
           \/ errs' = errs + 1 /\ worker' = [worker EXCEPT ![w].pc = "failed"]
    BY <1>3 DEF Fetch, Report, Go, env
  <2>2. /\ worker'[w].h = worker[w].h /\ Active(w)
        /\ \A v \in Worker : v # w => worker'[v] = worker[v]
        /\ \/ errs' = errs /\ worker'[w].pc = "write"
           \/ errs' = errs + 1 /\ worker'[w].pc = "failed"
    BY <1>1, <2>1 DEF WorkerState, Active
  <2> QED
    BY <1>1, <2>1, <2>2, RangeGoOn DEF Active
<1>4. CASE Write(w)
  <2>1. /\ UNCHANGED <<sync, main, feeder, chan, done, cancelled>> /\ worker[w].pc = "write"
        /\ \/ errs' = errs /\ worker' = [worker EXCEPT ![w].stmt = @ + 1]
           \/ errs' = errs + 1 /\ worker' = [worker EXCEPT ![w].pc = "failed"]
    BY <1>4 DEF Write, Report, Go, env
  <2>2. /\ worker'[w].h = worker[w].h /\ Active(w)
        /\ \A v \in Worker : v # w => worker'[v] = worker[v]
        /\ \/ errs' = errs /\ worker'[w].pc = "write"
           \/ errs' = errs + 1 /\ worker'[w].pc = "failed"
    BY <1>1, <2>1 DEF WorkerState, Active
  <2> QED
    BY <1>1, <2>1, <2>2, RangeGoOn DEF Active
<1>5. CASE NextTx(w)
  <2>1. /\ UNCHANGED <<sync, main, feeder, chan, done, cancelled, errs>> /\ worker[w].pc = "write"
    BY <1>5 DEF NextTx, env
  <2>2. /\ worker'[w].h = worker[w].h /\ worker'[w].pc = "write"
        /\ \A v \in Worker : v # w => worker'[v] = worker[v]
    BY <1>1, <1>5, <2>1, AfterNextTx
  <2> QED
    BY <1>1, <2>1, <2>2, RangeGoOn DEF Active
<1> QED
  BY <1>2, <1>3, <1>4, <1>5

\* A height that is finished has left its worker and counts as done.
LEMMA RangeFinish == ASSUME RangeInv, TypeOK', NEW w \in Worker, Finish(w) PROVE RangeInv'
<1> DEFINE h == worker[w].h
           c == IF h > sync.current THEN h ELSE sync.current
<1>1. /\ worker[w].pc = "write" /\ done' = done \cup {h}
      /\ worker' = [worker EXCEPT ![w].pc = "receive"]
      /\ UNCHANGED <<main, feeder, chan, errs, cancelled>>
  BY DEF Finish, Go, env
<1>2. /\ DOMAIN worker = Worker /\ worker[w] \in WorkerState /\ main.from \in Nat
      /\ sync.current \in Nat /\ sync.processed \in Nat /\ h \in Nat
      /\ \A v \in Worker : worker[v].h \in Nat
  BY Numbers DEF RangeInv
<1>3. sync'.current = c /\ sync'.processed = sync.processed + 1
  BY AfterFinish, TypeParts DEF RangeInv
<1>4. /\ worker'[w].pc = "receive" /\ worker'[w].h = h
      /\ \A v \in Worker : v # w => worker'[v] = worker[v]
  BY <1>1, <1>2 DEF WorkerState
<1>5. Active(w) /\ ~Active(w)' /\ ~Exited(w) /\ ~BeforePool
  BY <1>1, <1>4, PoolIsRunning DEF Active, Exited
<1>6. PICK lo \in Int, hi \in Int : ChannelAt(lo, hi) /\ TakenAt(lo)
  BY DEF RangeInv, HeightsAt
<1>7. h \in main.from..(lo - 1) /\ h \notin done
  BY <1>5, <1>6 DEF TakenAt
<1> HIDE DEF h
<1>8. ChannelAt(lo, hi)'
  BY <1>1, <1>5, <1>6 DEF ChannelAt, BeforePool
<1>9. TakenAt(lo)'
  <2>1. done' \subseteq main.from..(lo - 1)
    BY <1>1, <1>6, <1>7 DEF TakenAt
  <2>2. ASSUME NEW g \in main.from..(lo - 1)
        PROVE  g \in done' \/ \E v \in Worker : worker'[v].h = g /\ Holds(v)'
    <3>1. CASE g = h \/ g \in done
      BY <1>1, <3>1
    <3>2. CASE g # h /\ g \notin done
      <4>1. PICK v \in Worker : worker[v].h = g /\ Holds(v)
        BY <1>6, <3>2 DEF TakenAt
      <4>2. v # w
        BY <3>2, <4>1 DEF h
      <4> QED
        BY <1>1, <1>4, <4>1, <4>2 DEF Holds, Active
    <3> QED
      BY <3>1, <3>2
  <2>3. ASSUME NEW v \in Worker, Active(v)' PROVE worker'[v].h \in (main.from..(lo - 1)) \ done'
    <3>1. v # w /\ Active(v) /\ worker'[v].h = worker[v].h
      BY <1>4, <1>5, <2>3 DEF Active
    <3>2. worker[v].h # h
      BY <1>5, <3>1 DEF RangeInv, HeightsAreOwned, h
    <3>3. worker[v].h \in (main.from..(lo - 1)) \ done
      BY <1>6, <3>1 DEF TakenAt
    <3> QED
      BY <1>1, <3>1, <3>2, <3>3
  <2>4. sync'.processed > 0 /\ main.from <= sync'.current /\ sync'.current < lo
    <3>1. sync.processed > 0 \/ sync.current = main.from
      BY <1>2, <1>5, <1>6 DEF TakenAt, BeforePool
    <3>2. sync.processed > 0 => main.from <= sync.current /\ sync.current < lo
      BY <1>6 DEF TakenAt
    <3> QED
      BY <1>2, <1>3, <1>7, <3>1, <3>2
  <2>5. sync'.processed # 0
    BY <1>2, <1>3
  <2> QED
    BY <1>1, <2>1, <2>2, <2>3, <2>4, <2>5 DEF TakenAt
<1>10. HeightsAreOwned'
  BY <1>4, <1>5 DEF RangeInv, HeightsAreOwned, Active
<1>11. OneIsAhead'
  BY <1>1, <1>4 DEF OneIsAhead, Missing
<1>12. EndsAreMeant'
  <2>1. main.result # "nil"
    BY <1>5 DEF RangeInv, EndsAreMeant
  <2> QED
    BY <1>1, <1>4, <1>5, <2>1 DEF RangeInv, EndsAreMeant, BeforePool
<1>13. NilMeansSynced'
  BY <1>1, <1>5 DEF RangeInv, NilMeansSynced, EndsAreMeant
<1> QED
  BY <1>6, <1>8, <1>9, <1>10, <1>11, <1>12, <1>13 DEF RangeInv, HeightsAt

\* A cancellation and Stop move no height.
LEMMA RangeOther ==
    ASSUME RangeInv, TypeOK', Cancel \/ Stop \/ UNCHANGED vars
    PROVE  RangeInv'
<1>1. /\ UNCHANGED <<main, feeder, chan, worker, errs, done>>
      /\ sync'.current = sync.current /\ sync'.processed = sync.processed
      /\ cancelled => cancelled'
  BY TypeParts DEF RangeInv, MainType, Cancel, Stop, pool, vars
<1>2. cancelled \in BOOLEAN /\ cancelled' \in BOOLEAN
  BY DEF RangeInv, TypeOK
<1>3. PICK lo \in Int, hi \in Int : ChannelAt(lo, hi) /\ TakenAt(lo)
  BY DEF RangeInv, HeightsAt
<1>4. ChannelAt(lo, hi)'
  BY <1>1, <1>2, <1>3 DEF ChannelAt, BeforePool
<1>5. TakenAt(lo)'
  BY <1>1, <1>2, <1>3 DEF TakenAt, Active, Holds
<1>6. HeightsAreOwned' /\ OneIsAhead'
  BY <1>1 DEF RangeInv, HeightsAreOwned, OneIsAhead, Missing, Active
<1>7. EndsAreMeant' /\ NilMeansSynced'
  BY <1>1, <1>2 DEF RangeInv, EndsAreMeant, NilMeansSynced, BeforePool, Exited
<1> QED
  BY <1>3, <1>4, <1>5, <1>6, <1>7 DEF RangeInv, HeightsAt

\* Every step keeps the heights where they are known to be.
LEMMA RangeNext == RangeInv /\ [Next]_vars => RangeInv'
<1> SUFFICES ASSUME RangeInv, [Next]_vars PROVE RangeInv'
  OBVIOUS
<1>1. TypeOK /\ TypeOK' /\ MainType /\ SnapshotType
  BY TypeNext, TypeParts DEF RangeInv
<1>2. CASE Start
  BY <1>1, <1>2, RangeBeforePool DEF Start, MainType, BeforePool, env
<1>3. CASE GetHeight
  BY <1>1, <1>3, RangeBeforePool DEF GetHeight, MainType, BeforePool, env
<1>4. CASE GetSnapshot
  BY <1>1, <1>4, RangeBeforePool DEF GetSnapshot, MainType, BeforePool, env
<1>5. CASE InsertBatch
  BY <1>1, <1>5, RangeBeforePool DEF InsertBatch, MainType, BeforePool, env
<1>6. CASE SnapshotDone
  BY <1>1, <1>6, RangeBeforePool DEF SnapshotDone, MainType, BeforePool, env, SnapshotType
<1>7. CASE SpawnPool \/ ReturnError \/ ReturnNil \/ Feed \/ FeedDone
  BY <1>1, <1>7, RangeSpawnPool, RangeReturn, RangeFeed
<1>8. ASSUME NEW w \in Worker, WorkerStep(w) PROVE RangeInv'
  BY <1>1, <1>8, RangeReceive, WorkerGoesOn, RangeFinish DEF WorkerStep
<1>9. CASE Cancel \/ Stop \/ UNCHANGED vars
  BY <1>1, <1>9, RangeOther
<1> QED
  BY <1>2, <1>3, <1>4, <1>5, <1>6, <1>7, <1>8, <1>9 DEF Next, MainStep

\* In every behaviour each height of the range is in one known place: done, with one
\* worker, in the channel or not sent yet.
THEOREM RangeIsKept == Spec => []RangeInv
<1>1. Spec => []RangeInv
  BY RangeInit, RangeNext, PTL DEF Spec
<1> QED
  BY <1>1

\* A call that returns nil under a living context has processed the whole range.
THEOREM NilIsSynced == Spec => []NilMeansSynced
<1>1. RangeInv => NilMeansSynced
  BY DEF RangeInv
<1> QED
  BY <1>1, RangeIsKept, PTL

\* Below the height that is reported as synced, fewer blocks are missing than there are
\* workers: each is with a worker of its own or lost with one, and one worker is ahead.
LEMMA FewAreMissing == RangeInv => ProgressIsNearWatermark
<1> SUFFICES ASSUME RangeInv, sync.processed > 0
             PROVE  Cardinality(Missing) < Cardinality(Worker)
  BY DEF ProgressIsNearWatermark, Missing
<1>1. PICK lo \in Int, hi \in Int : ChannelAt(lo, hi) /\ TakenAt(lo)
  BY DEF RangeInv, HeightsAt
<1>2. PICK ahead \in Worker : worker[ahead].h \notin Missing
  BY DEF RangeInv, OneIsAhead
<1>3. \A h \in Missing : \E w \in Worker \ {ahead} : worker[w].h = h
  <2>1. SUFFICES ASSUME NEW h \in Missing PROVE \E w \in Worker \ {ahead} : worker[w].h = h
    OBVIOUS
  <2>2. h \in main.from..(lo - 1) /\ h \notin done
    BY <1>1, <2>1, Numbers DEF RangeInv, Missing, TakenAt
  <2>3. PICK w \in Worker : worker[w].h = h
    BY <1>1, <2>2 DEF TakenAt
  <2> QED
    BY <1>2, <2>1, <2>3
<1>4. IsFiniteSet(Worker) /\ Cardinality(Worker) \in Nat
  BY WorkerAssumption, FS_CardinalityType
<1>5. IsFiniteSet(Worker \ {ahead}) /\ Cardinality(Worker \ {ahead}) = Cardinality(Worker) - 1
  BY <1>2, <1>4, FS_RemoveElement
<1> DEFINE pick == [h \in Missing |-> CHOOSE w \in Worker \ {ahead} : worker[w].h = h]
<1>6. \A h \in Missing : pick[h] \in Worker \ {ahead} /\ worker[pick[h]].h = h
  BY <1>3
<1> HIDE DEF pick
<1>7. pick \in Injection(Missing, Worker \ {ahead})
  <2>1. pick \in [Missing -> Worker \ {ahead}]
    BY <1>6 DEF pick
  <2>2. \A g, h \in Missing : pick[g] = pick[h] => g = h
    BY <1>6
  <2> QED
    BY <2>1, <2>2 DEF Injection, IsInjective
<1>8. Cardinality(Missing) <= Cardinality(Worker \ {ahead}) /\ IsFiniteSet(Missing)
  BY <1>5, <1>7, FS_Injection DEF ExistsInjection
<1>9. Cardinality(Missing) \in Nat
  BY <1>8, FS_CardinalityType
<1> QED
  BY <1>4, <1>5, <1>8, <1>9

\* Below the reported height fewer blocks are missing than there are workers: heights are
\* taken in order and finished in any.
THEOREM ProgressIsNearlyExact == Spec => []ProgressIsNearWatermark
<1> QED
  BY RangeIsKept, FewAreMissing, PTL

-----------------------------------------------------------------------------
(***************************************************************************)
(* The rows of a valid chain.                                              *)
(***************************************************************************)
LEMMA RowsOfBlock ==
    ASSUME NEW h \in Height, NEW i \in DOMAIN Txs[h], NEW s \in DOMAIN Stmts(h, i)
    PROVE  /\ Stmts(h, i)[s].row \in Outpoint
           /\ Stmts(h, i)[s].value \in {"spent", "unspent"}
           /\ Stmts(h, i)[s].value = "spent" => Stmts(h, i)[s].row \in Spent(h)
           /\ Stmts(h, i)[s].value = "unspent" => Stmts(h, i)[s].row \in Created(h)
<1>1. /\ Stmts(h, i)[s] \in Statement
      /\ \/ Stmts(h, i)[s].value = "spent" /\ Stmts(h, i)[s].row \in Elements(Txs[h][i].ins)
         \/ Stmts(h, i)[s].value = "unspent" /\ Stmts(h, i)[s].row \in Elements(Txs[h][i].outs)
  BY StatementOfBlock
<1>2. Elements(Txs[h][i].ins) \subseteq Spent(h) /\ Elements(Txs[h][i].outs) \subseteq Created(h)
  BY DEF Spent, Created, Elements
<1> QED
  BY <1>1, <1>2 DEF Statement

\* A later statement of the range that changes the row of an earlier one shows that the
\* earlier one does not last.
LEMMA LastingIsNotUndone ==
    ASSUME ChainIsValid,
           NEW g \in Height, NEW j \in DOMAIN Txs[g], NEW r \in DOMAIN Stmts(g, j),
           NEW h \in Height, NEW i \in DOMAIN Txs[h], NEW s \in DOMAIN Stmts(h, i),
           h \in main.from..Target, Lasting(g, Stmts(g, j)[r]),
           Stmts(g, j)[r].row = Stmts(h, i)[s].row, Stmts(g, j)[r].value # Stmts(h, i)[s].value
    PROVE  g = h /\ i < j
<1> DEFINE o == Stmts(h, i)[s].row
<1>1. /\ o \in Outpoint
      /\ Stmts(h, i)[s].value \in {"spent", "unspent"} /\ Stmts(g, j)[r].value \in {"spent", "unspent"}
      /\ Stmts(h, i)[s].value = "spent" => o \in Spent(h)
      /\ Stmts(h, i)[s].value = "unspent" => o \in Created(h)
  BY RowsOfBlock
<1>2. Stmts(h, i)[s].value = "unspent" /\ Stmts(g, j)[r].value = "spent"
  BY <1>1 DEF Lasting, SpentInChain
<1>3. g = h
  BY <1>1, <1>2 DEF Lasting
<1>4. o \in Elements(Txs[h][i].outs) /\ o \in Elements(Txs[h][j].ins)
  BY <1>2, <1>3, StatementOfBlock
<1>5. i < j
  BY <1>1, <1>3, <1>4 DEF ChainIsValid
<1> QED
  BY <1>3, <1>5

\* The table before the call.
LEMMA TableInit == Init => TableInv
<1> SUFFICES ASSUME Init PROVE TableInv
  OBVIOUS
<1>1. LastingRowsAreThere /\ FetchIsFresh
  BY DEF Init, LastingRowsAreThere, IsExecuted, FetchIsFresh, Idle
<1>2. main.pc = "start" /\ snapshot = [height |-> -1, loaded |-> FALSE] /\ todo = {}
  BY DEF Init
<1>3. SnapshotInv
  BY <1>2 DEF SnapshotInv
<1>4. RowsAreExplained
  <2>1. SUFFICES ASSUME NEW o \in Outpoint PROVE table[o] = "unspent" <=> o \in UtxosBefore(origin)
    BY <1>2 DEF RowsAreExplained, Known, Kept
  <2> QED
    BY DEF Init, TableBefore
<1> QED
  BY <1>1, <1>3, <1>4 DEF TableInv

\* A step that leaves the table, and executes no statement.
LEMMA TableUntouched ==
    ASSUME TableInv, table' = table, main'.from = main.from,
           \A h \in Height : \A i \in DOMAIN Txs[h] : \A s \in DOMAIN Stmts(h, i) :
               IsExecuted(h, i, s)' => IsExecuted(h, i, s)
    PROVE  LastingRowsAreThere'
<1>1. \A h \in Height : \A i \in DOMAIN Txs[h] : \A s \in DOMAIN Stmts(h, i) :
          Lasting(h, Stmts(h, i)[s])' => Lasting(h, Stmts(h, i)[s])
  BY DEF Lasting
<1> QED
  BY <1>1 DEF TableInv, LastingRowsAreThere

\* The goroutine of the call writes nothing but the snapshot.
LEMMA TableMain ==
    ASSUME RangeInv, TableInv, UNCHANGED <<worker, done>>,
           BeforePool \/ UNCHANGED <<table, main>> \/ (table' = table /\ main'.from = main.from),
           RowsAreExplained', SnapshotInv'
    PROVE  TableInv'
<1>1. FetchIsFresh'
  BY DEF TableInv, FetchIsFresh
<1>2. CASE BeforePool
  <2>1. done = {} /\ \A w \in Worker : worker[w].pc = "receive"
    BY <1>2, NothingIsSent
  <2>2. LastingRowsAreThere'
    BY <2>1 DEF LastingRowsAreThere, IsExecuted
  <2> QED
    BY <1>1, <2>2 DEF TableInv
<1>3. CASE table' = table /\ main'.from = main.from
  <2>1. LastingRowsAreThere'
    BY <1>3, TableUntouched DEF IsExecuted, Executed
  <2> QED
    BY <1>1, <2>1 DEF TableInv
<1> QED
  BY <1>2, <1>3

\* Before the first block nothing has been created.
LEMMA NothingBeforeGenesis == UtxosBefore(0) = {}
BY HeightsAreNat DEF UtxosBefore

\* The height and the rows of a snapshot are fixed before any of it is inserted.
LEMMA TableGetSnapshot == ASSUME RangeInv, TableInv, GetSnapshot PROVE TableInv'
<1>1. /\ main.pc = "snapshot" /\ UNCHANGED <<table, worker, done, origin>> /\ BeforePool
      /\ snapshot = [height |-> -1, loaded |-> FALSE] /\ todo = {}
  BY DEF GetSnapshot, pool, env, BeforePool, TableInv, SnapshotInv
<1>2. /\ main'.pc \in {"insert", "sync"} /\ ~snapshot'.loaded
      /\ main'.pc = "sync" => snapshot' = snapshot /\ todo' = {}
      /\ main'.pc = "insert" => todo' = UtxosBefore(snapshot'.height + 1)
  BY <1>1, TypeParts DEF RangeInv, MainType, GetSnapshot
<1>3. \A o \in Outpoint : table[o] = "unspent" => o \in UtxosBefore(origin)
  <2>1. UtxosBefore(snapshot.height + 1) = {}
    BY <1>1, NothingBeforeGenesis
  <2> QED
    BY <1>1, <2>1 DEF TableInv, RowsAreExplained, Known
<1>4. \A o \in Outpoint : ~SpentInChain(o) /\ o \in UtxosBefore(origin) => table[o] = "unspent"
  BY DEF TableInv, RowsAreExplained, Kept
<1>6. RowsAreExplained'
  BY <1>1, <1>2, <1>3, <1>4 DEF RowsAreExplained, Known, Kept
<1>7. SnapshotInv'
  BY <1>1, <1>2 DEF SnapshotInv
<1> QED
  BY <1>1, <1>6, <1>7, TableMain

\* A batch of the snapshot, whether it is applied or fails, marks outputs of the snapshot.
LEMMA TableInsertBatch == ASSUME RangeInv, TableInv, InsertBatch PROVE TableInv'
<1>1. /\ main.pc = "insert" /\ UNCHANGED <<snapshot, worker, done, origin>> /\ BeforePool
      /\ ~snapshot.loaded /\ todo \subseteq UtxosBefore(snapshot.height + 1)
  BY DEF InsertBatch, pool, env, BeforePool, TableInv, SnapshotInv
<1>2. PICK batch \in SUBSET todo :
         \/ table' = Inserted(batch) /\ todo' = todo \ batch /\ main' = main
         \/ /\ table' \in {table, Inserted(batch)} /\ todo' = {}
            /\ main' = [main EXCEPT !.pc = "sync"]
  BY DEF InsertBatch
<1>3. \/ table' = Inserted(batch) /\ todo' = todo \ batch /\ main' = main
      \/ table' \in {table, Inserted(batch)} /\ todo' = {} /\ main'.pc = "sync"
  BY <1>2, TypeParts DEF RangeInv, MainType
<1>4. \A o \in Outpoint : table[o] = "unspent" =>
          o \in UtxosBefore(origin) \/ o \in UtxosBefore(snapshot.height + 1)
  BY <1>1 DEF TableInv, RowsAreExplained, Known
<1>5. \A o \in Outpoint : table'[o] = "unspent" =>
          o \in UtxosBefore(origin) \/ o \in UtxosBefore(snapshot.height + 1)
  BY <1>1, <1>3, <1>4 DEF Inserted
<1>6. \A o \in Outpoint : /\ table[o] = "unspent" => table'[o] = "unspent"
                          /\ table' = Inserted(batch) /\ o \in batch => table'[o] = "unspent"
  BY <1>3 DEF Inserted
<1>7. RowsAreExplained'
  <2>1. SUFFICES ASSUME NEW o \in Outpoint, Kept(o)' PROVE table'[o] = "unspent"
    BY <1>1, <1>5 DEF RowsAreExplained, Known
  <2>2. CASE o \in batch /\ table' = Inserted(batch)
    BY <1>6, <2>2
  <2>3. CASE Kept(o)
    BY <1>6, <2>3 DEF TableInv, RowsAreExplained
  <2> QED
    BY <1>1, <1>3, <2>1, <2>2, <2>3 DEF Kept
<1>8. SnapshotInv'
  BY <1>1, <1>3 DEF SnapshotInv
<1> QED
  BY <1>1, <1>7, <1>8, TableMain

\* When all rows of the snapshot are in, the sync starts at its height.
LEMMA TableSnapshotDone == ASSUME RangeInv, TableInv, SnapshotDone PROVE TableInv'
<1>1. /\ main.pc = "insert" /\ todo = {} /\ UNCHANGED <<table, todo, worker, done, origin>>
      /\ BeforePool
  BY DEF SnapshotDone, pool, env, BeforePool
<1>2. /\ main'.pc = "sync" /\ main'.from = snapshot.height
      /\ snapshot'.loaded /\ snapshot'.height = snapshot.height
  BY TypeParts DEF RangeInv, MainType, SnapshotType, SnapshotDone
<1>3. \A o \in Outpoint : /\ Known(o) => Known(o)'
                          /\ Kept(o)' => Kept(o)
  BY <1>1, <1>2 DEF Known, Kept
<1>4. RowsAreExplained'
  BY <1>1, <1>3 DEF TableInv, RowsAreExplained
<1>5. SnapshotInv'
  BY <1>1, <1>2 DEF TableInv, SnapshotInv
<1> QED
  BY <1>1, <1>4, <1>5, TableMain

\* The other steps leave the rows, and what explains them.
LEMMA TableOther ==
    ASSUME RangeInv, TableInv, UNCHANGED <<table, snapshot, todo, worker, done, origin>>,
           main'.from = main.from,
           \/ main' = main
           \/ /\ main.pc # "insert" /\ main'.pc # "insert" /\ (~BeforePool => ~BeforePool')
              /\ main'.pc \in {"start", "height", "snapshot"} =>
                    main.pc \in {"start", "height", "snapshot"}
    PROVE  TableInv'
<1>1. \A o \in Outpoint : (Known(o) => Known(o)') /\ (Kept(o)' => Kept(o))
  BY DEF Known, Kept, BeforePool
<1>2. RowsAreExplained'
  BY <1>1 DEF TableInv, RowsAreExplained
<1>3. SnapshotInv'
  BY DEF TableInv, SnapshotInv
<1> QED
  BY <1>2, <1>3, TableMain

\* The block that a worker has is in the range.
LEMMA BlockOfWorker ==
    ASSUME RangeInv, NEW w \in Worker, Active(w)
    PROVE  /\ worker[w].h \in Height /\ worker[w].h \in main.from..Target
           /\ worker[w].h \notin done
           /\ \A v \in Worker : Active(v) /\ worker[v].h = worker[w].h => v = w
<1>1. PICK lo \in Int, hi \in Int : ChannelAt(lo, hi) /\ TakenAt(lo)
  BY DEF RangeInv, HeightsAt
<1>2. main.from \in Nat
  BY Numbers DEF RangeInv
<1>3. worker[w].h \in (main.from..(lo - 1)) \ done
  BY <1>1 DEF TakenAt
<1>4. lo - 1 <= Target
  BY <1>1, HeightsAreNat DEF ChannelAt
<1>5. worker[w].h \in main.from..Target /\ worker[w].h \in Height
  BY <1>2, <1>3, <1>4, HeightsAreNat DEF Height
<1> QED
  BY <1>3, <1>5 DEF RangeInv, HeightsAreOwned

\* The table after a statement.
With(st) == [table EXCEPT ![st.row] = st.value]

\* The table after the statement s of transaction i of block h, the one that a worker is about
\* to execute: what was there and lasts is there, and every row is explained.
LEMMA RowWritten ==
    ASSUME ChainIsValid, RangeInv, TableInv, NEW w \in Worker, worker[w].pc = "write",
           NEW h \in Height, NEW i \in DOMAIN Txs[h], NEW s \in DOMAIN Stmts(h, i),
           h = worker[w].h, i = worker[w].tx, s = worker[w].stmt
    PROVE  LET written == With(Stmts(h, i)[s]) IN
           /\ \A g \in Height : \A j \in DOMAIN Txs[g] : \A r \in DOMAIN Stmts(g, j) :
                  Lasting(g, Stmts(g, j)[r]) /\ IsExecuted(g, j, r) =>
                      written[Stmts(g, j)[r].row] = Stmts(g, j)[r].value
           /\ written[Stmts(h, i)[s].row] = Stmts(h, i)[s].value
           /\ \A o \in Outpoint :
                 /\ written[o] = "unspent" => Known(o)
                 /\ Kept(o) => written[o] = "unspent"
<1> DEFINE st == Stmts(h, i)[s]
           written == With(st)
<1>1. /\ h \in Height /\ h \in main.from..Target /\ h \notin done
      /\ \A v \in Worker : worker[v].pc = "write" /\ worker[v].h = h => v = w
  BY BlockOfWorker DEF Active
<1>2. /\ st.row \in Outpoint /\ st.value \in {"spent", "unspent"}
      /\ st.value = "spent" => st.row \in Spent(h)
      /\ st.value = "unspent" => st.row \in Created(h)
  BY <1>1, RowsOfBlock
<1>3. DOMAIN table = Outpoint
  BY TypeParts DEF RangeInv, RowsType
<1>4. /\ written[st.row] = st.value
      /\ \A o \in Outpoint : o # st.row => written[o] = table[o]
  BY <1>2, <1>3 DEF With
<1>5. ASSUME NEW g \in Height, NEW j \in DOMAIN Txs[g], NEW r \in DOMAIN Stmts(g, j),
             Lasting(g, Stmts(g, j)[r]), IsExecuted(g, j, r)
      PROVE  written[Stmts(g, j)[r].row] = Stmts(g, j)[r].value
  <2>1. Stmts(g, j)[r].row \in Outpoint /\ table[Stmts(g, j)[r].row] = Stmts(g, j)[r].value
    BY <1>5, RowsOfBlock DEF TableInv, LastingRowsAreThere
  <2>2. CASE Stmts(g, j)[r].row # st.row
    BY <1>4, <2>1, <2>2
  <2>3. CASE Stmts(g, j)[r].row = st.row /\ Stmts(g, j)[r].value = st.value
    BY <1>4, <2>3
  <2>4. CASE Stmts(g, j)[r].row = st.row /\ Stmts(g, j)[r].value # st.value
    <3>1. g = h /\ i < j
      BY <1>1, <1>5, <2>4, LastingIsNotUndone
    <3>2. Executed(w, j, r)
      BY <1>1, <1>5, <3>1 DEF IsExecuted
    <3>3. i \in Nat /\ j \in Nat
      BY <1>1, <3>1, TxOfBlock
    <3> QED
      BY <3>1, <3>2, <3>3 DEF Executed
  <2> QED
    BY <2>2, <2>3, <2>4
<1>6. ASSUME NEW o \in Outpoint
      PROVE  /\ written[o] = "unspent" => Known(o)
             /\ Kept(o) => written[o] = "unspent"
  <2>1. CASE o # st.row
    <3>1. written[o] = table[o]
      BY <1>4, <2>1
    <3> QED
      BY <3>1 DEF TableInv, RowsAreExplained
  <2>2. CASE o = st.row /\ st.value = "spent"
    <3>1. written[o] = "spent" /\ SpentInChain(o)
      BY <1>1, <1>2, <1>4, <2>2 DEF SpentInChain
    <3> QED
      BY <3>1 DEF Kept
  <2>3. CASE o = st.row /\ st.value = "unspent"
    <3>1. written[o] = "unspent" /\ o \in Created(h)
      BY <1>2, <1>4, <2>3
    <3>2. ~BeforePool
      BY PoolIsRunning
    <3> QED
      BY <1>1, <3>1, <3>2 DEF Known
  <2> QED
    BY <1>2, <2>1, <2>2, <2>3
<1> QED
  BY <1>4, <1>5, <1>6, Zenon

\* A statement of a worker is executed where the others can see it.
LEMMA TableWrite ==
    ASSUME ChainIsValid, RangeInv, TableInv, NEW w \in Worker, Write(w)
    PROVE  TableInv'
<1> DEFINE h == worker[w].h
           i == worker[w].tx
           s == worker[w].stmt
           written == With(Stmts(h, i)[s])
<1>1. /\ worker[w].pc = "write" /\ worker[w].tx <= Len(Block(w))
      /\ worker[w].stmt <= Len(Statements(Block(w)[worker[w].tx]))
  BY Zenon DEF Write
<1>2. /\ h \in Height /\ i \in DOMAIN Txs[h] /\ s \in DOMAIN Stmts(h, i)
      /\ Statements(Block(w)[i]) = Stmts(h, i) /\ TypeOK
  BY <1>1, StatementOfWorker, Zenon DEF RangeInv
<1>3. \/ /\ table' = written
         /\ worker' = [worker EXCEPT ![w].stmt = @ + 1]
         /\ UNCHANGED <<main, snapshot, todo, done, origin>>
      \/ /\ Report(w) /\ table' \in {table, written}
  <2> DEFINE st == Statements(Block(w)[worker[w].tx])[worker[w].stmt]
             wr == [table EXCEPT ![st.row] = st.value]
  <2>1. \/ /\ table' = wr
           /\ worker' = [worker EXCEPT ![w].stmt = @ + 1]
           /\ UNCHANGED <<sync, main, snapshot, todo, feeder, chan, errs, done, env>>
        \/ CallFails /\ Report(w) /\ table' \in {table, wr}
    BY Zenon DEF Write
  <2>2. wr = written
    BY <1>2, Zenon DEF With
  <2> HIDE DEF wr, written
  <2> QED
    BY <2>1, <2>2 DEF Report, env
<1>4. /\ DOMAIN worker = Worker /\ worker[w] \in WorkerState
      /\ i \in Nat \ {0} /\ s \in Nat \ {0}
  BY <1>2, Numbers DEF WorkerState
<1> HIDE DEF written
<1>5. /\ \A g \in Height : \A j \in DOMAIN Txs[g] : \A r \in DOMAIN Stmts(g, j) :
             Lasting(g, Stmts(g, j)[r]) /\ IsExecuted(g, j, r) =>
                 written[Stmts(g, j)[r].row] = Stmts(g, j)[r].value
      /\ written[Stmts(h, i)[s].row] = Stmts(h, i)[s].value
      /\ \A o \in Outpoint :
            /\ written[o] = "unspent" => Known(o)
            /\ Kept(o) => written[o] = "unspent"
  <2>1. written = With(Stmts(h, i)[s])
    BY DEF written
  <2>2. h = worker[w].h /\ i = worker[w].tx /\ s = worker[w].stmt
    OBVIOUS
  <2> HIDE DEF h, i, s
  <2> QED
    BY <1>1, <1>2, <2>1, <2>2, RowWritten
<1>6. UNCHANGED <<main, snapshot, todo, done, origin>> /\ table' \in {table, written}
  BY <1>3 DEF Report, env
<1>7. /\ \A v \in Worker : v # w => worker'[v] = worker[v]
      /\ \/ /\ table' = written /\ worker'[w].pc = "write" /\ worker'[w].h = h
            /\ worker'[w].tx = i /\ worker'[w].stmt = s + 1
         \/ worker'[w].pc = "failed"
  BY <1>1, <1>3, <1>4 DEF Report, Go, WorkerState
<1> HIDE DEF h, i, s
<1>8. ASSUME NEW g \in Height, NEW j \in DOMAIN Txs[g], NEW r \in DOMAIN Stmts(g, j),
             IsExecuted(g, j, r)'
      PROVE  \/ IsExecuted(g, j, r)
             \/ g = h /\ j = i /\ r = s /\ table' = written
  <2>1. CASE g \in done
    BY <2>1 DEF IsExecuted
  <2>2. ASSUME NEW v \in Worker, worker'[v].pc = "write", worker'[v].h = g, Executed(v, j, r)', v # w
        PROVE  IsExecuted(g, j, r)
    BY <1>7, <2>2 DEF IsExecuted, Executed
  <2>3. CASE worker'[w].pc = "write" /\ worker'[w].h = g /\ Executed(w, j, r)'
    <3>1. g = h /\ (j < i \/ (j = i /\ r < s + 1)) /\ table' = written
      BY <1>7, <2>3 DEF Executed
    <3>2. j \in Nat /\ r \in Nat /\ i \in Nat /\ s \in Nat
      BY <1>4, StatementOfBlock
    <3>3. j < i \/ (j = i /\ r < s) \/ (j = i /\ r = s)
      BY <3>1, <3>2
    <3> QED
      BY <1>1, <3>1, <3>3 DEF IsExecuted, Executed, h, i, s
  <2> QED
    BY <1>6, <1>8, <2>1, <2>2, <2>3 DEF IsExecuted
<1>9. LastingRowsAreThere'
  <2>1. SUFFICES ASSUME NEW g \in Height, NEW j \in DOMAIN Txs[g], NEW r \in DOMAIN Stmts(g, j),
                        Lasting(g, Stmts(g, j)[r])', IsExecuted(g, j, r)'
                 PROVE  table'[Stmts(g, j)[r].row] = Stmts(g, j)[r].value
    BY DEF LastingRowsAreThere
  <2>2. Lasting(g, Stmts(g, j)[r])
    BY <1>6, <2>1 DEF Lasting
  <2>3. CASE IsExecuted(g, j, r)
    <3>1. table[Stmts(g, j)[r].row] = Stmts(g, j)[r].value
      BY <2>2, <2>3 DEF TableInv, LastingRowsAreThere
    <3> QED
      BY <1>5, <1>6, <2>2, <2>3, <3>1
  <2>4. CASE g = h /\ j = i /\ r = s /\ table' = written
    BY <1>5, <2>4
  <2> QED
    BY <1>8, <2>1, <2>3, <2>4
<1>10. RowsAreExplained'
  <2>1. \A o \in Outpoint : (Known(o) => Known(o)') /\ (Kept(o)' => Kept(o))
    BY <1>6 DEF Known, Kept, BeforePool
  <2>2. CASE table' = table
    BY <2>1, <2>2 DEF TableInv, RowsAreExplained
  <2>3. CASE table' = written
    BY <1>5, <2>1, <2>3 DEF RowsAreExplained
  <2> QED
    BY <1>6, <2>2, <2>3
<1>11. SnapshotInv'
  BY <1>6 DEF TableInv, SnapshotInv
<1>12. FetchIsFresh'
  BY <1>7 DEF TableInv, FetchIsFresh
<1> QED
  BY <1>9, <1>10, <1>11, <1>12 DEF TableInv

\* The other steps of a worker leave the table, and count nothing as executed that is not.
LEMMA TableWorker ==
    ASSUME RangeInv, TableInv, NEW w \in Worker,
           Receive(w) \/ RangeEnds(w) \/ Fetch(w) \/ NextTx(w) \/ Finish(w)
    PROVE  TableInv'
<1>1. /\ DOMAIN worker = Worker /\ worker[w] \in WorkerState /\ WorkerType /\ TypeOK
      /\ worker[w].tx \in Nat \ {0} /\ worker[w].stmt \in Nat \ {0}
  BY Numbers, TypeParts DEF RangeInv, WorkerState
<1>2. UNCHANGED <<table, main, snapshot, todo, origin>>
  BY DEF Receive, RangeEnds, Fetch, NextTx, Finish, Report, env
<1>3. \A v \in Worker : v # w => worker'[v] = worker[v]
  BY <1>1, AfterReceive, AfterNextTx DEF RangeEnds, Fetch, Report, Finish, Go
<1>4. SnapshotInv'
  BY <1>2 DEF TableInv, SnapshotInv
<1>5. FetchIsFresh'
  <2>1. worker'[w].pc = "fetch" => worker'[w].tx = 1 /\ worker'[w].stmt = 1
    <3>1. CASE Receive(w)
      BY <1>1, <3>1, AfterReceive
    <3>2. CASE RangeEnds(w) \/ Fetch(w) \/ Finish(w)
      BY <1>1, <3>2 DEF RangeEnds, Fetch, Report, Finish, Go, WorkerState
    <3>3. CASE NextTx(w)
      <4>1. worker[w].pc = "write"
        BY <3>3 DEF NextTx
      <4>2. worker'[w].pc = worker[w].pc
        BY <1>1, <3>3, AfterNextTx
      <4> QED
        BY <4>1, <4>2
    <3> QED
      BY <3>1, <3>2, <3>3
  <2> QED
    BY <1>3, <2>1 DEF TableInv, FetchIsFresh
<1>6. ASSUME NEW g \in Height, NEW j \in DOMAIN Txs[g], NEW r \in DOMAIN Stmts(g, j),
             IsExecuted(g, j, r)'
      PROVE  IsExecuted(g, j, r)
  <2>1. j \in Nat \ {0} /\ r \in Nat \ {0}
    BY StatementOfBlock
  <2>2. ASSUME NEW v \in Worker, worker'[v].pc = "write", worker'[v].h = g, Executed(v, j, r)', v # w
        PROVE  IsExecuted(g, j, r)
    BY <1>3, <2>2 DEF IsExecuted, Executed
  <2>3. ASSUME worker'[w].pc = "write", worker'[w].h = g, Executed(w, j, r)'
        PROVE  IsExecuted(g, j, r)
    <3>1. CASE Receive(w) \/ RangeEnds(w) \/ Finish(w)
      <4>1. CASE Receive(w)
        BY <1>1, <2>3, <4>1, AfterReceive
      <4>2. CASE RangeEnds(w) \/ Finish(w)
        BY <1>1, <2>3, <4>2 DEF RangeEnds, Finish, Go, WorkerState
      <4> QED
        BY <3>1, <4>1, <4>2
    <3>2. CASE Fetch(w)
      <4>1. worker[w].tx = 1 /\ worker[w].stmt = 1
        BY <3>2 DEF TableInv, FetchIsFresh, Fetch
      <4>2. worker'[w].tx = 1 /\ worker'[w].stmt = 1
        BY <1>1, <3>2, <4>1 DEF Fetch, Report, Go, WorkerState
      <4> QED
        BY <2>1, <2>3, <4>2 DEF Executed
    <3>3. CASE NextTx(w)
      <4>1. /\ worker[w].pc = "write" /\ worker[w].h = g
            /\ worker'[w].tx = worker[w].tx + 1 /\ worker'[w].stmt = 1
            /\ worker[w].tx <= Len(Block(w))
            /\ worker[w].stmt > Len(Statements(Block(w)[worker[w].tx]))
        <5>1. /\ worker[w].pc = "write" /\ worker[w].tx <= Len(Block(w))
              /\ worker[w].stmt > Len(Statements(Block(w)[worker[w].tx]))
          BY <3>3, Zenon DEF NextTx
        <5>2. /\ worker'[w].h = worker[w].h
              /\ worker'[w].tx = worker[w].tx + 1 /\ worker'[w].stmt = 1
          BY <1>1, <3>3, AfterNextTx
        <5> QED
          BY <2>3, <5>1, <5>2
      <4>2. j < worker[w].tx \/ j = worker[w].tx
        BY <1>1, <2>1, <2>3, <4>1 DEF Executed
      <4>3. CASE j = worker[w].tx
        <5>1. Statements(Block(w)[worker[w].tx]) = Stmts(g, j)
          BY <4>1, <4>3 DEF Block, Stmts
        <5>2. r <= Len(Stmts(g, j))
          <6>1. /\ DOMAIN Stmts(g, j) = 1..Len(Stmts(g, j)) /\ Len(Stmts(g, j)) \in Nat
            BY TxOfBlock, StatementsOfTx DEF Stmts
          <6> QED
            BY <6>1
        <5>3. r < worker[w].stmt
          <6>1. Len(Stmts(g, j)) \in Nat
            BY TxOfBlock, StatementsOfTx DEF Stmts
          <6> QED
            BY <1>1, <2>1, <4>1, <5>1, <5>2, <6>1
        <5> QED
          BY <4>1, <4>3, <5>3 DEF IsExecuted, Executed
      <4>4. CASE j < worker[w].tx
        BY <4>1, <4>4 DEF IsExecuted, Executed
      <4> QED
        BY <4>2, <4>3, <4>4
    <3> QED
      BY <3>1, <3>2, <3>3
  <2>4. CASE g \in done' /\ g \notin done
    <3>1. Finish(w) /\ g = worker[w].h
      BY <2>4 DEF Receive, RangeEnds, Fetch, Report, NextTx, Finish
    <3>2. worker[w].pc = "write" /\ worker[w].tx > Len(Txs[g])
      BY <3>1 DEF Finish, Block
    <3>3. j <= Len(Txs[g]) /\ Len(Txs[g]) \in Nat
      BY BlockOfHeight, TxOfBlock
    <3>4. j < worker[w].tx
      BY <1>1, <2>1, <3>2, <3>3
    <3> QED
      BY <3>1, <3>2, <3>4 DEF IsExecuted, Executed
  <2> QED
    BY <1>6, <2>2, <2>3, <2>4 DEF IsExecuted
<1>7. LastingRowsAreThere'
  BY <1>2, <1>6, TableUntouched
<1>8. RowsAreExplained'
  <2>1. \A o \in Outpoint : (Known(o) => Known(o)') /\ (Kept(o)' => Kept(o))
    BY <1>2 DEF Known, Kept, BeforePool
  <2> QED
    BY <1>2, <2>1 DEF TableInv, RowsAreExplained
<1> QED
  BY <1>4, <1>5, <1>7, <1>8 DEF TableInv

\* Every step keeps what is known of the table.
LEMMA TableNext == ChainIsValid /\ RangeInv /\ TableInv /\ [Next]_vars => TableInv'
<1> SUFFICES ASSUME ChainIsValid, RangeInv, TableInv, [Next]_vars PROVE TableInv'
  OBVIOUS
<1>1. MainType
  BY TypeParts DEF RangeInv
<1>2. CASE Start \/ GetHeight \/ SpawnPool \/ ReturnError \/ ReturnNil
  <2>1. /\ UNCHANGED <<table, snapshot, todo, worker, done, origin>> /\ main'.from = main.from
        /\ main.pc # "insert" /\ main'.pc # "insert" /\ (~BeforePool => ~BeforePool')
        /\ main'.pc \in {"start", "height", "snapshot"} =>
              main.pc \in {"start", "height", "snapshot"}
    BY <1>1, <1>2 DEF Start, GetHeight, SpawnPool, ReturnError, ReturnNil, MainType, BeforePool,
                      pool, env
  <2> QED
    BY <2>1, TableOther
<1>3. CASE GetSnapshot \/ InsertBatch \/ SnapshotDone
  BY <1>3, TableGetSnapshot, TableInsertBatch, TableSnapshotDone
<1>4. CASE Feed \/ FeedDone \/ Cancel \/ Stop \/ UNCHANGED vars
  <2>1. UNCHANGED <<table, snapshot, todo, worker, done, origin, main>>
    BY <1>4 DEF Feed, FeedDone, Cancel, Stop, vars, pool, env
  <2> QED
    BY <2>1, TableOther
<1>5. ASSUME NEW w \in Worker, WorkerStep(w) PROVE TableInv'
  BY <1>5, TableWrite, TableWorker DEF WorkerStep
<1> QED
  BY <1>2, <1>3, <1>4, <1>5 DEF Next, MainStep

\* A statement that no later one undoes is in the table once its block is processed.
LEMMA LastingRow ==
    ASSUME TableInv, NEW h \in done, h \in Height, NEW i \in DOMAIN Txs[h],
           NEW s \in DOMAIN Stmts(h, i), Lasting(h, Stmts(h, i)[s])
    PROVE  table[Stmts(h, i)[s].row] = Stmts(h, i)[s].value
BY DEF TableInv, LastingRowsAreThere, IsExecuted

\* An output of the chain is missing only if its block is in the gap between the table at the
\* start and the start of the sync, and no snapshot is in.
LEMMA MissingIsInGap ==
    ASSUME ChainIsValid, RangeInv, TableInv, Synced, NEW o \in UtxosBefore(Target + 1),
           o \notin Unspent
    PROVE  ~snapshot.loaded /\ \E g \in Gap(origin) : o \in Created(g)
<1>1. main.from \in Nat /\ done = main.from..Target /\ Target \in Nat /\ origin \in Nat
  BY Numbers, HeightsAreNat, TypeParts DEF RangeInv, RestType, Synced
<1>2. \A h \in Height : h \in Nat /\ h < Target + 1
  BY HeightsAreNat
<1>3. PICK g \in Height : o \in Created(g)
  BY DEF UtxosBefore
<1>4. o \in Outpoint /\ ~SpentInChain(o) /\ table[o] # "unspent" /\ todo = {}
  BY <1>2 DEF UtxosBefore, SpentInChain, Unspent, TableInv, SnapshotInv, Synced
<1>5. ~Kept(o)
  BY <1>4 DEF TableInv, RowsAreExplained
<1>6. \A k : g < k => o \in UtxosBefore(k)
  BY <1>3, <1>4 DEF UtxosBefore, SpentInChain
<1>7. ~(g < origin)
  BY <1>4, <1>5, <1>6 DEF Kept
<1>8. ASSUME g >= main.from PROVE FALSE
  <2>1. g \in done
    BY <1>1, <1>2, <1>8
  <2>2. PICK i \in DOMAIN Txs[g] : \E s \in DOMAIN Stmts(g, i) :
           Stmts(g, i)[s].row = o /\ Stmts(g, i)[s].value = "unspent"
    BY <1>3, OutputsAreStatements
  <2>3. PICK s \in DOMAIN Stmts(g, i) :
           Stmts(g, i)[s].row = o /\ Stmts(g, i)[s].value = "unspent"
    BY <2>2
  <2>4. Lasting(g, Stmts(g, i)[s])
    BY <1>4, <2>3 DEF Lasting
  <2>5. table[o] = "unspent"
    BY <2>1, <2>3, <2>4, LastingRow
  <2> QED
    BY <1>4, <2>5
<1>9. ASSUME snapshot.loaded PROVE FALSE
  <2>1. main.from = snapshot.height
    BY <1>9 DEF TableInv, SnapshotInv
  <2>2. o \in UtxosBefore(snapshot.height + 1)
    BY <1>1, <1>2, <1>6, <1>8, <2>1
  <2> QED
    BY <1>4, <1>5, <1>9, <2>2 DEF Kept
<1>10. g \in Gap(origin)
  BY <1>1, <1>2, <1>7, <1>8 DEF Gap
<1> QED
  BY <1>3, <1>9, <1>10

\* A spent output is left unspent only if two blocks of the range create and spend it, or the
\* block that spends it is in the gap behind a row that was there before.
LEMMA WrongIsRacedOrInGap ==
    ASSUME ChainIsValid, RangeInv, TableInv, Synced, NEW o \in Unspent,
           o \notin UtxosBefore(Target + 1)
    PROVE  \/ \E g, h \in main.from..Target : g < h /\ o \in Created(g) /\ o \in Spent(h)
           \/ \E k \in {origin, snapshot.height + 1} :
                 o \in UtxosBefore(k) /\ \E h \in Gap(k) : o \in Spent(h)
<1>1. /\ main.from \in Nat /\ done = main.from..Target /\ Target \in Nat
      /\ origin \in Nat /\ snapshot.height \in Int
  BY Numbers, HeightsAreNat, TypeParts DEF RangeInv, RestType, SnapshotType, Synced
<1>2. \A h \in Height : h \in Nat /\ h < Target + 1
  BY HeightsAreNat
<1>3. o \in Outpoint /\ table[o] = "unspent" /\ Known(o)
  BY DEF Unspent, TableInv, RowsAreExplained
<1>4. PICK g \in Height : o \in Created(g)
  BY <1>1, <1>3, HeightsAreNat DEF Known, UtxosBefore, Height
<1>5. PICK h \in Height : o \in Spent(h)
  BY <1>2, <1>3, <1>4 DEF UtxosBefore
<1>6. g <= h /\ \A f \in Height : o \in Created(f) => f = g
  BY <1>3, <1>4, <1>5 DEF ChainIsValid
<1>7. CASE h >= main.from
  <2>1. h \in done /\ h \in main.from..Target
    BY <1>1, <1>2, <1>5, <1>7
  <2>2. PICK i \in DOMAIN Txs[h] : \E s \in DOMAIN Stmts(h, i) :
           Stmts(h, i)[s].row = o /\ Stmts(h, i)[s].value = "spent"
    BY <1>5, SpendsAreStatements
  <2>3. PICK s \in DOMAIN Stmts(h, i) :
           Stmts(h, i)[s].row = o /\ Stmts(h, i)[s].value = "spent"
    BY <2>2
  <2>4. ~Lasting(h, Stmts(h, i)[s])
    BY <1>3, <2>1, <2>3, LastingRow
  <2>5. PICK f \in main.from..Target : o \in Created(f) /\ f # h
    BY <2>3, <2>4 DEF Lasting
  <2>6. f \in Height
    BY <1>1, <2>5 DEF Height
  <2>7. f < h
    BY <1>2, <1>6, <2>5, <2>6
  <2> QED
    BY <1>5, <2>1, <2>5, <2>7
<1>8. CASE h < main.from
  <2>1. ASSUME NEW k \in Int, o \in UtxosBefore(k) PROVE h \in Gap(k)
    <3>1. ~(h < k)
      BY <1>5, <2>1 DEF UtxosBefore
    <3> QED
      BY <1>1, <1>2, <1>8, <3>1 DEF Gap
  <2>2. ASSUME NEW f \in main.from..Target, o \in Created(f) PROVE FALSE
    <3>1. f \in Height
      BY <1>1, <2>2 DEF Height
    <3>2. f = g
      BY <1>6, <2>2, <3>1
    <3> QED
      BY <1>1, <1>2, <1>6, <1>8, <2>2, <3>2
  <2>3. \E k \in {origin, snapshot.height + 1} : o \in UtxosBefore(k)
    BY <1>3, <2>2 DEF Known
  <2>4. origin \in Int /\ snapshot.height + 1 \in Int
    BY <1>1
  <2> QED
    BY <1>5, <2>1, <2>3, <2>4
<1> QED
  BY <1>1, <1>2, <1>7, <1>8

\* On a valid chain, whatever the table held, whatever fails and in whatever order the workers
\* write: what is missing lies in a gap that no snapshot bridges, and what is wrongly left
\* unspent was raced by two blocks of the range or spent in a gap.
THEOREM OnlyRacesAndGaps == ChainIsValid => (Spec => []OnlyRacesAndGapsAreWrong)
<1> SUFFICES ASSUME ChainIsValid PROVE Spec => []OnlyRacesAndGapsAreWrong
  OBVIOUS
<1>1. Init => TableInv
  BY TableInit
<1>2. RangeInv /\ TableInv /\ [Next]_vars => TableInv'
  BY TableNext
<1>3. RangeInv /\ TableInv => OnlyRacesAndGapsAreWrong
  BY MissingIsInGap, WrongIsRacedOrInGap DEF OnlyRacesAndGapsAreWrong
<1> QED
  BY <1>1, <1>2, <1>3, RangeIsKept, PTL DEF Spec
=============================================================================
