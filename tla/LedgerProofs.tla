---------------------------- MODULE LedgerProofs ----------------------------
(***************************************************************************)
(* Proofs about the Ledger server, for every set of clients, outpoints,    *)
(* queries and blocks and every bound: its types, and that it implements   *)
(* LedgerSpec.  A response is built over three steps during which blocks   *)
(* land, so the inductive invariant remembers, for a call that is half     *)
(* done, which version each part of its response came from.                *)
(*                                                                         *)
(* Then about the server with the client of LedgerFeed, for every chain    *)
(* and every order in which copies of its blocks arrive: the store differs *)
(* from the chain only by blocks that came late, and until one does a      *)
(* response's height bounds its outputs.                                   *)
(***************************************************************************)
EXTENDS LedgerFeed, FiniteSetTheorems, TLAPS

\* The store is the last version.
StoreIsLast ==
    /\ Len(versions) >= 1
    /\ versions[Len(versions)] = StoreNow

\* The outputs of a call in progress are those of the version it began at, and its tip,
\* once read, is that of a version since.
PartOK(c) ==
    /\ pc[c] = "idle" => part[c].began = 0
    /\ pc[c] # "idle" =>
          /\ part[c].began \in 1..Len(versions)
          /\ part[c].outputs = Lookup(versions[part[c].began].utxos, req[c])
    /\ pc[c] = "height" =>
          \E j \in part[c].began..Len(versions) : part[c].tip = versions[j].tip

IInv ==
    /\ TypeOK
    /\ StoreIsLast
    /\ \A c \in Client : PartOK(c)

USE AmountAssumption, HashAssumption, QueryAssumption, BlockAssumption

-----------------------------------------------------------------------------
\* What a lookup returns is a sequence of outputs, one per outpoint asked for.
LEMMA LookupType ==
    ASSUME NEW u \in Utxos, NEW q \in Query
    PROVE  Lookup(u, q) \in Seq(Output)
<1>1. q \in Seq(Outpoint)
    OBVIOUS
<1>2. ASSUME NEW o \in Outpoint PROVE OutputAt(u, o) \in Output
    <2>1. u[o] \in Amount \cup {Absent}
        BY DEF Utxos
    <2>2. QED
        BY <2>1 DEF OutputAt, Output
<1>3. QED
    BY <1>1, <1>2 DEF Lookup

\* A valid block takes a state of the store to a state of the store.
LEMMA StateAfterType ==
    ASSUME NEW s \in StoreState, NEW b \in Block, ValidBlock(b)
    PROVE  StateAfter(s, b) \in StoreState
<1>1. b \in BlockRequest
    OBVIOUS
<1>2. b.hash \in Hash /\ b.height \in Nat
    BY <1>1 DEF BlockRequest, ValidBlock
<1>3. AfterBlock(s.utxos, b) \in Utxos
    BY <1>1 DEF BlockRequest, AfterBlock, Utxos, StoreState
<1>4. QED
    BY <1>2, <1>3 DEF StateAfter, StoreState

\* Applying a block a second time changes nothing, whatever it spends and creates: a
\* client may resend the block it has just sent (server.go:63-81).
THEOREM ApplyIsIdempotent ==
    ASSUME NEW s \in StoreState, NEW b \in Block
    PROVE  StateAfter(StateAfter(s, b), b) = StateAfter(s, b)
<1>1. \A o \in Outpoint :
          AfterBlock(AfterBlock(s.utxos, b), b)[o] = AfterBlock(s.utxos, b)[o]
    BY DEF AfterBlock
<1>2. AfterBlock(AfterBlock(s.utxos, b), b) = AfterBlock(s.utxos, b)
    BY <1>1 DEF AfterBlock
<1>3. QED
    BY <1>2 DEF StateAfter

\* An append leaves the versions there were where they were.
LEMMA AppendKeeps ==
    ASSUME NEW s \in Seq(StoreState), NEW v \in StoreState
    PROVE  /\ Append(s, v) \in Seq(StoreState)
           /\ Len(Append(s, v)) = Len(s) + 1
           /\ \A i \in 1..Len(s) : Append(s, v)[i] = s[i]
           /\ Append(s, v)[Len(s) + 1] = v
    OBVIOUS

-----------------------------------------------------------------------------
\* An empty store, one version of it, and no call.
LEMMA InitIInv == Init => IInv
<1> SUFFICES ASSUME Init PROVE IInv
    OBVIOUS
<1>1. Genesis \in StoreState /\ Genesis.utxos \in Utxos
    BY DEF Genesis, StoreState, Utxos
<1>2. versions = <<Genesis>>
    BY DEF Init
<1>3. versions \in Seq(StoreState) /\ Len(versions) = 1 /\ versions[1] = Genesis
    BY <1>1, <1>2
<1>4. StoreNow = Genesis
    BY DEF Init, StoreNow, Genesis
<1>5. TypeOK
    <2>1. utxos \in Utxos /\ tipHash \in Hash /\ height \in Nat
        BY <1>1 DEF Init, Genesis
    <2>2. req \in [Client -> Query]
        BY DEF Init
    <2>3. part \in [Client -> [began : Nat, outputs : Seq(Output), tip : Hash]]
        BY DEF Init, NoPart
    <2>4. pc \in [Client -> {"idle", "tip", "height"}] /\ reply \in [Client -> SUBSET Response]
        BY DEF Init
    <2>5. QED
        BY <1>3, <2>1, <2>2, <2>3, <2>4 DEF TypeOK
<1>6. \A c \in Client : PartOK(c)
    BY DEF Init, PartOK, NoPart
<1>7. QED
    BY <1>3, <1>4, <1>5, <1>6 DEF IInv, StoreIsLast

\* A block installs the next version; calls in progress keep what they read.
LEMMA ApplyBlockStep ==
    ASSUME IInv, NEW b \in Block, ApplyBlock(b)
    PROVE  /\ IInv'
           /\ versions' = Append(versions, StateAfter(versions[Len(versions)], b))
           /\ ValidBlock(b)
<1>1. StoreNow \in StoreState /\ versions \in Seq(StoreState)
    BY DEF IInv, TypeOK, StoreNow, StoreState
<1>2. ValidBlock(b) /\ UNCHANGED <<pc, req, part, reply>>
    BY DEF ApplyBlock, call
<1>3. StoreNow' = StateAfter(StoreNow, b)
    BY DEF ApplyBlock, StoreNow, StateAfter
<1>4. StoreNow' \in StoreState
    BY <1>1, <1>2, <1>3, StateAfterType
<1>5. versions' = Append(versions, StoreNow')
    BY DEF ApplyBlock
<1>6. /\ versions' \in Seq(StoreState)
      /\ Len(versions') = Len(versions) + 1
      /\ \A i \in 1..Len(versions) : versions'[i] = versions[i]
      /\ versions'[Len(versions)+1] = StoreNow'
    BY <1>1, <1>4, <1>5, AppendKeeps
<1>7. Len(versions) \in Nat
    BY <1>1
<1>8. TypeOK'
    <2>1. utxos' \in Utxos /\ tipHash' \in Hash /\ height' \in Nat
        BY <1>4 DEF StoreNow, StoreState
    <2>2. QED
        BY <1>2, <1>6, <2>1 DEF IInv, TypeOK
<1>9. StoreIsLast'
    BY <1>6, <1>7 DEF IInv, StoreIsLast
<1>10. ASSUME NEW c \in Client PROVE PartOK(c)'
    <2>1. PartOK(c) /\ part[c].began \in Nat
        BY DEF IInv, TypeOK
    <2>2. CASE pc[c] = "idle"
        BY <1>2, <2>1, <2>2 DEF PartOK
    <2>3. CASE pc[c] # "idle"
        <3>1. part[c].began \in 1..Len(versions)
            BY <2>1, <2>3 DEF PartOK
        <3>2. part[c].outputs = Lookup(versions'[part[c].began].utxos, req[c])
            BY <1>6, <2>1, <2>3, <3>1 DEF PartOK
        <3>3. ASSUME pc[c] = "height"
              PROVE  \E j \in part[c].began..Len(versions') : part[c].tip = versions'[j].tip
            <4>1. PICK j \in part[c].began..Len(versions) : part[c].tip = versions[j].tip
                BY <2>1, <3>3 DEF PartOK
            <4>2. j \in 1..Len(versions) /\ j \in part[c].began..Len(versions')
                BY <1>6, <1>7, <3>1, <4>1
            <4>3. QED
                BY <1>6, <4>1, <4>2
        <3>4. part[c].began \in 1..Len(versions')
            BY <1>6, <1>7, <3>1
        <3>5. QED
            BY <1>2, <2>3, <3>2, <3>3, <3>4 DEF PartOK
    <2>4. QED
        BY <2>2, <2>3
<1>11. QED
    BY <1>2, <1>3, <1>5, <1>8, <1>9, <1>10 DEF IInv, StoreIsLast

\* A call that begins remembers the version it began at and reads its outputs there.
LEMMA ReadOutputsStep ==
    ASSUME IInv, NEW c \in Client, NEW q \in Query, ReadOutputs(c, q)
    PROVE  IInv'
<1>1. /\ UNCHANGED <<utxos, tipHash, height, versions>>
      /\ ValidQuery(q)
    BY DEF ReadOutputs, store
<1>2. Lookup(utxos, q) \in Seq(Output)
    BY LookupType DEF IInv, TypeOK
<1>3. Len(versions) \in Nat /\ Len(versions) >= 1
    BY DEF IInv, TypeOK, StoreIsLast
<1>4. TypeOK'
    BY <1>1, <1>2, <1>3 DEF IInv, TypeOK, ReadOutputs
<1>5. StoreIsLast'
    BY <1>1 DEF IInv, StoreIsLast, StoreNow
<1>6. ASSUME NEW d \in Client PROVE PartOK(d)'
    <2>1. CASE d = c
        BY <1>1, <1>3, <2>1 DEF PartOK, ReadOutputs, IInv, TypeOK, StoreIsLast, StoreNow
    <2>2. CASE d # c
        BY <1>1, <2>2 DEF PartOK, ReadOutputs, IInv, TypeOK
    <2>3. QED
        BY <2>1, <2>2
<1>7. QED
    BY <1>4, <1>5, <1>6 DEF IInv

\* A query that is refused reads nothing.
LEMMA RejectQueryStep ==
    ASSUME IInv, NEW c \in Client, NEW q \in Query, RejectQuery(c, q)
    PROVE  IInv'
<1>1. UNCHANGED <<utxos, tipHash, height, pc, part, versions>>
    BY DEF RejectQuery, store
<1>2. TypeOK'
    BY <1>1 DEF IInv, TypeOK, RejectQuery
<1>3. StoreIsLast'
    BY <1>1 DEF IInv, StoreIsLast, StoreNow
<1>4. \A d \in Client : PartOK(d)'
    BY <1>1 DEF PartOK, RejectQuery, IInv, TypeOK
<1>5. QED
    BY <1>2, <1>3, <1>4 DEF IInv

\* The tip that is read is that of the version current now.
LEMMA ReadTipStep ==
    ASSUME IInv, NEW c \in Client, ReadTip(c)
    PROVE  IInv'
<1>1. UNCHANGED <<utxos, tipHash, height, req, reply, versions>>
    BY DEF ReadTip, store
<1>2. Len(versions) \in Nat /\ versions[Len(versions)].tip = tipHash
    BY DEF IInv, TypeOK, StoreIsLast, StoreNow
<1>3. TypeOK'
    BY <1>1 DEF IInv, TypeOK, ReadTip
<1>4. StoreIsLast'
    BY <1>1 DEF IInv, StoreIsLast, StoreNow
<1>5. ASSUME NEW d \in Client PROVE PartOK(d)'
    <2>1. CASE d = c
        <3>1. /\ part[c].began \in 1..Len(versions)
              /\ part[c].outputs = Lookup(versions[part[c].began].utxos, req[c])
            BY DEF IInv, PartOK, ReadTip
        <3>2. /\ part'[c].began = part[c].began
              /\ part'[c].outputs = part[c].outputs
              /\ part'[c].tip = tipHash
              /\ pc'[c] = "height"
            BY DEF ReadTip, IInv, TypeOK
        <3>3. Len(versions) \in part[c].began..Len(versions)
            BY <1>2, <3>1
        <3>4. QED
            BY <1>1, <1>2, <2>1, <3>1, <3>2, <3>3 DEF PartOK
    <2>2. CASE d # c
        BY <1>1, <2>2 DEF PartOK, ReadTip, IInv, TypeOK
    <2>3. QED
        BY <2>1, <2>2
<1>6. QED
    BY <1>3, <1>4, <1>5 DEF IInv

\* The third read ends the call with a version no older than the second.
LEMMA ReadHeightStep ==
    ASSUME IInv, NEW c \in Client, ReadHeight(c)
    PROVE  IInv'
<1>1. UNCHANGED <<utxos, tipHash, height, req, versions>>
    BY DEF ReadHeight, store
<1>2. TypeOK'
    <2>1. /\ part[c].outputs \in Seq(Output)
          /\ part[c].tip \in Hash
          /\ height \in Nat
        BY DEF IInv, TypeOK
    <2>2. reply' \in [Client -> SUBSET Response]
        BY <2>1 DEF IInv, TypeOK, ReadHeight, Response
    <2>3. part' \in [Client -> [began : Nat, outputs : Seq(Output), tip : Hash]]
        BY DEF IInv, TypeOK, ReadHeight, NoPart
    <2>4. QED
        BY <1>1, <2>2, <2>3 DEF IInv, TypeOK, ReadHeight
<1>3. StoreIsLast'
    BY <1>1 DEF IInv, StoreIsLast, StoreNow
<1>4. ASSUME NEW d \in Client PROVE PartOK(d)'
    <2>1. CASE d = c
        BY <1>1, <2>1 DEF PartOK, ReadHeight, NoPart, IInv, TypeOK
    <2>2. CASE d # c
        BY <1>1, <2>2 DEF PartOK, ReadHeight, IInv, TypeOK
    <2>3. QED
        BY <2>1, <2>2
<1>5. QED
    BY <1>2, <1>3, <1>4 DEF IInv

\* Every step keeps the invariant.
LEMMA NextIInv == IInv /\ [Next]_vars => IInv'
<1> SUFFICES ASSUME IInv, [Next]_vars PROVE IInv'
    OBVIOUS
<1>1. CASE UNCHANGED vars
    <2>1. TypeOK'
        BY <1>1 DEF IInv, TypeOK, vars
    <2>2. StoreIsLast'
        BY <1>1 DEF IInv, StoreIsLast, StoreNow, vars
    <2>3. \A c \in Client : PartOK(c)'
        BY <1>1 DEF IInv, PartOK, vars
    <2>4. QED
        BY <2>1, <2>2, <2>3 DEF IInv
<1>2. CASE \E b \in Block : ApplyBlock(b)
    BY <1>2, ApplyBlockStep
<1>3. CASE \E c \in Client : GetOutputs(c)
    BY <1>3, ReadOutputsStep, RejectQueryStep, ReadTipStep, ReadHeightStep DEF GetOutputs
<1>4. QED
    BY <1>1, <1>2, <1>3 DEF Next

\* The invariant that remembers where each part of a half-built response came from.
THEOREM Invariance == Spec => []IInv
BY InitIInv, NextIInv, PTL DEF Spec

\* The types of the store, of the calls in progress and of the responses.
THEOREM TypeCorrect == Spec => []TypeOK
<1>1. IInv => TypeOK
    BY DEF IInv
<1>2. QED
    BY <1>1, Invariance, PTL

-----------------------------------------------------------------------------
\* Both modules extend LedgerData: the specification's data is the server's.
LEMMA SameData ==
    /\ Promise!Genesis = Genesis
    /\ \A q : Promise!ValidQuery(q) <=> ValidQuery(q)
    /\ \A b : Promise!ValidBlock(b) <=> ValidBlock(b)
    /\ \A u, q : Promise!Lookup(u, q) = Lookup(u, q)
    /\ \A s, b : Promise!StateAfter(s, b) = StateAfter(s, b)
<1>1. \A u, o : Promise!OutputAt(u, o) = OutputAt(u, o)
    BY DEF OutputAt, Promise!OutputAt
<1>2. \A u, b : Promise!AfterBlock(u, b) = AfterBlock(u, b)
    BY DEF AfterBlock, Promise!AfterBlock
<1>3. \A u, q : Promise!Lookup(u, q) = Lookup(u, q)
    BY <1>1 DEF Lookup, Promise!Lookup
<1>4. QED
    BY <1>2, <1>3 DEF Genesis, Promise!Genesis, ValidQuery, Promise!ValidQuery,
        ValidBlock, Promise!ValidBlock, StateAfter, Promise!StateAfter

\* The server starts where the specification starts.
LEMMA InitRefines == Init => Promise!Init
<1> SUFFICES ASSUME Init PROVE Promise!Init
    OBVIOUS
<1>1. [c \in Client |-> part[c].began] = [c \in Client |-> 0]
    BY DEF Init, NoPart
<1>2. req \in [Client -> Query]
    BY DEF Init
<1>3. QED
    BY <1>1, <1>2, SameData DEF Init, Promise!Init

\* Each step of the server is a step of the specification, or a step it does not see:
\* ReadOutputs begins a call, ReadHeight returns from it, ReadTip is invisible.
LEMMA StepRefines == IInv /\ [Next]_vars => [Promise!Next]_(Promise!vars)
<1> SUFFICES ASSUME IInv, [Next]_vars PROVE [Promise!Next]_(Promise!vars)
    OBVIOUS
<1> DEFINE began == [c \in Client |-> part[c].began]
<1>1. CASE UNCHANGED vars
    BY <1>1 DEF vars, Promise!vars
<1>2. ASSUME NEW b \in Block, ApplyBlock(b) PROVE Promise!Next
    <2>1. Promise!Install(b)
        BY <1>2, ApplyBlockStep, SameData DEF ApplyBlock, call, Promise!Install
    <2>2. QED
        BY <2>1 DEF Promise!Next
<1>3. ASSUME NEW c \in Client, NEW q \in Query, ReadOutputs(c, q) PROVE Promise!Next
    <2>1. began[c] = 0
        BY <1>3 DEF IInv, PartOK, ReadOutputs
    <2>2. began' = [began EXCEPT ![c] = Len(versions)]
        BY <1>3 DEF IInv, TypeOK, ReadOutputs
    <2>3. Promise!Begin(c, q)
        BY <1>3, <2>1, <2>2, SameData DEF ReadOutputs, Promise!Begin
    <2>4. QED
        BY <2>3 DEF Promise!Next
<1>4. ASSUME NEW c \in Client, NEW q \in Query, RejectQuery(c, q) PROVE Promise!Next
    <2>1. Promise!Refuse(c, q)
        BY <1>4, SameData DEF IInv, PartOK, RejectQuery, Promise!Refuse
    <2>2. QED
        BY <2>1 DEF Promise!Next
<1>5. ASSUME NEW c \in Client, ReadTip(c) PROVE UNCHANGED Promise!vars
    <2>1. began' = began
        BY <1>5 DEF IInv, TypeOK, ReadTip
    <2>2. QED
        BY <1>5, <2>1 DEF ReadTip, Promise!vars
<1>6. ASSUME NEW c \in Client, ReadHeight(c) PROVE Promise!Next
    <2>1. part[c].began \in 1..Len(versions) /\ Len(versions) \in Nat
        BY <1>6 DEF IInv, PartOK, ReadHeight, TypeOK
    <2>2. PICK j \in part[c].began..Len(versions) : part[c].tip = versions[j].tip
        BY <1>6 DEF IInv, PartOK, ReadHeight
    <2>3. versions[Len(versions)].height = height
        BY DEF IInv, StoreIsLast, StoreNow
    <2>4. began' = [began EXCEPT ![c] = 0] /\ began[c] = part[c].began
        BY <1>6 DEF IInv, TypeOK, ReadHeight, NoPart
    <2>5. Promise!AnswerAt(req[c], part[c].began, j, Len(versions)) =
              [outputs |-> part[c].outputs, tip |-> part[c].tip, height |-> height]
        BY <1>6, <2>2, <2>3, SameData DEF IInv, PartOK, ReadHeight, Promise!AnswerAt
    <2>6. /\ part[c].began \in began[c]..Len(versions)
          /\ j \in began[c]..Len(versions)
          /\ Len(versions) \in began[c]..Len(versions)
          /\ part[c].began <= j /\ j <= Len(versions)
        BY <2>1, <2>2, <2>4
    <2>7. reply' = [reply EXCEPT ![c] =
                        {Promise!AnswerAt(req[c], part[c].began, j, Len(versions))}]
        BY <1>6, <2>5 DEF ReadHeight
    <2>8. began[c] # 0 /\ UNCHANGED <<versions, req>>
        BY <1>6, <2>1, <2>4 DEF ReadHeight
    <2>9. Promise!Return(c)
        BY <2>4, <2>6, <2>7, <2>8 DEF Promise!Return
    <2>10. QED
        BY <2>9 DEF Promise!Next
<1>7. QED
    BY <1>1, <1>2, <1>3, <1>4, <1>5, <1>6 DEF Next, GetOutputs

\* The server implements LedgerSpec: blocks are atomic, and a response is three reads
\* of the call's own time, in order, whatever is applied between them.
THEOREM LedgerImplementsSpec == Spec => ImplementsLedgerSpec
<1>1. QED
    BY InitRefines, StepRefines, Invariance, PTL DEF Spec, ImplementsLedgerSpec, Promise!Spec

-----------------------------------------------------------------------------
(***************************************************************************)
(* Under a client that follows a chain (LedgerFeed) the store is the       *)
(* chain's state at the highest block applied, but for what blocks that    *)
(* came late create or spend.  ChainState is a recursive function, and     *)
(* what it satisfies is proved first.                                      *)
(***************************************************************************)
ChainHeight == 0..Len(Chain)

\* Every nonempty set of naturals has a least element: 0..(n - 1) grows with n, and
\* inclusion is well founded on finite sets.
LEMMA LeastNumber ==
    ASSUME NEW T \in SUBSET Nat, T # {}
    PROVE  \E m \in T : \A k \in T : m <= k
<1> DEFINE Below == {0..(n - 1) : n \in T}
<1>1. Below \subseteq FiniteSubsetsOf(Nat) /\ Below # {}
    <2>1. ASSUME NEW n \in Nat PROVE 0..(n - 1) \in FiniteSubsetsOf(Nat)
        <3>1. IsFiniteSet(0..(n - 1))
            BY 0 \in Int, n - 1 \in Int, FS_Interval, Zenon
        <3>2. QED
            BY <3>1 DEF FiniteSubsetsOf
    <2>2. QED
        BY <2>1
<1>2. PICK x \in Below : \A y \in Below : <<y, x>> \notin StrictSubsetOrdering(Nat)
    <2>1. IsWellFoundedOn(StrictSubsetOrdering(Nat), FiniteSubsetsOf(Nat))
        BY FS_StrictSubsetOrderingWellFounded
    <2> HIDE DEF Below
    <2>2. QED
        BY <1>1, <2>1, WFMin
<1>3. PICK m \in T : x = 0..(m - 1)
    BY <1>2
<1>4. ASSUME NEW k \in T PROVE m <= k
    <2> SUFFICES ASSUME k < m PROVE FALSE
        OBVIOUS
    <2>1. <<0..(k - 1), 0..(m - 1)>> \notin StrictSubsetOrdering(Nat)
        BY <1>2, <1>3
    <2>2. 0..(k - 1) \subseteq 0..(m - 1) /\ 0..(k - 1) # 0..(m - 1)
        BY k \in 0..(m - 1), k \notin 0..(k - 1)
    <2>3. QED
        BY <2>1, <2>2 DEF StrictSubsetOrdering
<1>5. QED
    BY <1>4

\* What the chain's blocks are: ApplyBlock accepts each, and its height is its place.
LEMMA ChainBlocks ==
    /\ Len(Chain) \in Nat
    /\ \A n \in 1..Len(Chain) :
          /\ Chain[n] \in Block /\ ValidBlock(Chain[n])
          /\ Chain[n].height = n
BY ChainAssumption

\* G gives the states of the chain up to height n.
FollowsChain(g, n) ==
    g = [m \in 0..n |-> IF m = 0 THEN Genesis ELSE StateAfter(g[m - 1], Chain[m])]

\* There is such a function for every height: the one of the height before, and one
\* value more.
LEMMA ChainIsFollowed ==
    ASSUME NEW n \in ChainHeight
    PROVE  \E g : FollowsChain(g, n)
<1> DEFINE Lacking == {m \in ChainHeight : ~ \E g : FollowsChain(g, m)}
<1> SUFFICES ASSUME Lacking # {} PROVE FALSE
    OBVIOUS
<1>1. Lacking \subseteq Nat /\ Lacking \subseteq ChainHeight
    BY ChainBlocks DEF ChainHeight
<1> HIDE DEF Lacking
<1>2. PICK m \in Lacking : \A k \in Lacking : m <= k
    BY <1>1, LeastNumber
<1>3. m \in Nat /\ m <= Len(Chain) /\ Len(Chain) \in Nat
    BY <1>1, <1>2, ChainBlocks DEF ChainHeight
<1>4. CASE m = 0
    <2>1. FollowsChain([k \in 0..0 |-> Genesis], 0)
        BY DEF FollowsChain
    <2>2. QED
        BY <1>2, <1>4, <2>1 DEF Lacking
<1>5. CASE m # 0
    <2>1. m - 1 \in ChainHeight /\ ~ (m <= m - 1)
        BY <1>3, <1>5 DEF ChainHeight
    <2>2. PICK g : FollowsChain(g, m - 1)
        BY <1>2, <2>1 DEF Lacking
    <2> DEFINE h == [k \in 0..m |-> IF k = m THEN StateAfter(g[m - 1], Chain[m]) ELSE g[k]]
    <2>3. ASSUME NEW k \in 0..m
          PROVE  h[k] = IF k = 0 THEN Genesis ELSE StateAfter(h[k - 1], Chain[k])
        <3>1. CASE k = m
            <4>1. m - 1 \in 0..m /\ m - 1 # m /\ k # 0
                BY <1>3, <1>5, <3>1
            <4>2. h[m - 1] = g[m - 1]
                BY <4>1
            <4>3. QED
                BY <3>1, <4>1, <4>2
        <3>2. CASE k # m
            <4>1. k \in 0..(m - 1) /\ (k # 0 => k - 1 \in 0..m /\ k - 1 # m)
                BY <1>3, <3>2
            <4>2. g[k] = IF k = 0 THEN Genesis ELSE StateAfter(g[k - 1], Chain[k])
                BY <2>2, <4>1, Zenon DEF FollowsChain
            <4>3. h[k] = g[k] /\ (k # 0 => h[k - 1] = g[k - 1])
                BY <3>2, <4>1
            <4>4. QED
                BY <4>2, <4>3
        <3>3. QED
            BY <3>1, <3>2
    <2>4. FollowsChain(h, m)
        <3> DEFINE r == [k \in 0..m |-> IF k = 0 THEN Genesis ELSE StateAfter(h[k - 1], Chain[k])]
        <3>1. \A k \in 0..m : h[k] = r[k]
            BY <2>3
        <3>2. DOMAIN h = 0..m /\ h = [k \in 0..m |-> h[k]] /\ r = [k \in 0..m |-> r[k]]
            OBVIOUS
        <3> HIDE DEF h
        <3>3. h = r
            BY <3>1, <3>2
        <3>4. QED
            BY <3>3 DEF FollowsChain
    <2>5. QED
        BY <1>2, <2>4 DEF Lacking
<1>6. QED
    BY <1>4, <1>5

\* The recursive definition of ChainState holds of it.
LEMMA ChainStateEquation ==
    /\ ChainState[0] = Genesis
    /\ \A n \in 1..Len(Chain) : ChainState[n] = StateAfter(ChainState[n - 1], Chain[n])
    /\ DOMAIN ChainState = ChainHeight
<1>1. Len(Chain) \in ChainHeight /\ Len(Chain) \in Nat
    BY ChainBlocks DEF ChainHeight
<1>2. FollowsChain(ChainState, Len(Chain))
    BY <1>1, ChainIsFollowed, Zenon DEF ChainState, FollowsChain
<1>3. DOMAIN ChainState = 0..Len(Chain)
    BY <1>2, Zenon DEF FollowsChain
<1>4. \A n \in 0..Len(Chain) :
          ChainState[n] = IF n = 0 THEN Genesis ELSE StateAfter(ChainState[n - 1], Chain[n])
    BY <1>2, Zenon DEF FollowsChain
<1>5. QED
    BY <1>1, <1>3, <1>4 DEF ChainHeight

\* The states of the chain are states of the store, each with its height.
LEMMA ChainStateFacts ==
    ASSUME NEW n \in ChainHeight
    PROVE  ChainState[n] \in StoreState /\ ChainState[n].height = n
<1> DEFINE Wrong == {m \in ChainHeight : ~ (ChainState[m] \in StoreState /\ ChainState[m].height = m)}
<1> SUFFICES ASSUME Wrong # {} PROVE FALSE
    OBVIOUS
<1>1. Wrong \subseteq Nat /\ Wrong \subseteq ChainHeight
    BY ChainBlocks DEF ChainHeight
<1> HIDE DEF Wrong
<1>2. PICK m \in Wrong : \A k \in Wrong : m <= k
    BY <1>1, LeastNumber
<1>3. m \in Nat /\ m <= Len(Chain) /\ Len(Chain) \in Nat
    BY <1>1, <1>2, ChainBlocks DEF ChainHeight
<1>4. CASE m = 0
    <2>1. Genesis \in StoreState /\ Genesis.height = 0
        BY DEF Genesis, StoreState, Utxos
    <2>2. QED
        BY <1>2, <1>4, <2>1, ChainStateEquation DEF Wrong
<1>5. CASE m # 0
    <2>1. m \in 1..Len(Chain) /\ m - 1 \in ChainHeight /\ ~ (m <= m - 1)
        BY <1>3, <1>5 DEF ChainHeight
    <2>2. ChainState[m - 1] \in StoreState
        BY <1>2, <2>1 DEF Wrong
    <2>3. ChainState[m] = StateAfter(ChainState[m - 1], Chain[m])
        BY <2>1, ChainStateEquation
    <2>4. ChainState[m] \in StoreState
        BY <2>1, <2>2, <2>3, ChainBlocks, StateAfterType
    <2>5. ChainState[m].height = m
        BY <2>1, <2>3, ChainBlocks DEF StateAfter
    <2>6. QED
        BY <1>2, <2>4, <2>5 DEF Wrong
<1>6. QED
    BY <1>4, <1>5

-----------------------------------------------------------------------------
FeedTypeOK ==
    /\ next \in 1..(Len(Chain) + 1)
    /\ net \in [1..Len(Chain) -> Nat]
    /\ acked \subseteq 1..Len(Chain)
    /\ highest \in ChainHeight
    /\ late \subseteq 1..Len(Chain)

\* Where the client is on the chain: the highest block applied is its own or the one
\* before, an acknowledgement is of a block applied, and copies in the network are of its
\* block and of those before.
ChainPosition ==
    /\ highest \in {next - 1, next}
    /\ \A n \in acked : n <= highest
    /\ \A n \in 1..Len(Chain) : net[n] > 0 => n <= next

\* The parts of a response under construction are of the chain, in order, at heights up
\* to the present one.
PartIsOfChain(c) ==
    /\ pc[c] = "tip" =>
          \E i \in 0..height : part[c].outputs = Lookup(ChainState[i].utxos, req[c])
    /\ pc[c] = "height" =>
          \E i, j \in 0..height :
              /\ i <= j
              /\ part[c].outputs = Lookup(ChainState[i].utxos, req[c])
              /\ part[c].tip = ChainState[j].tip

\* The parts of a response are of the chain, in order, at heights up to the one it names.
ReplyIsOfChain(c) ==
    \A a \in reply[c] :
        \E i, j \in 0..Len(Chain) :
            /\ i <= j /\ j <= a.height
            /\ a.outputs = Lookup(ChainState[i].utxos, req[c])
            /\ a.tip = ChainState[j].tip

ReadersAreOnChain ==
    late = {} => \A c \in Client : PartIsOfChain(c) /\ ReplyIsOfChain(c)

FeedInv ==
    /\ IInv
    /\ FeedTypeOK
    /\ ChainPosition
    /\ WrongOnlyByLateBlocks
    /\ ReadersAreOnChain

\* A block sets the outpoints it touches, whatever the map was, and leaves the others.
LEMMA BlockSetsWhatItTouches ==
    ASSUME NEW b, NEW u, NEW v, NEW o \in Outpoint
    PROVE  /\ Touches(b, o) => AfterBlock(u, b)[o] = AfterBlock(v, b)[o]
           /\ ~ Touches(b, o) => AfterBlock(u, b)[o] = u[o]
BY DEF Touches, AfterBlock

\* As long as no block has come late the store is the chain's state of its height.
LEMMA OnChain ==
    ASSUME FeedInv, late = {}
    PROVE  /\ height = highest /\ height \in ChainHeight
           /\ utxos = ChainState[height].utxos /\ tipHash = ChainState[height].tip
<1>1. height = highest /\ height \in ChainHeight /\ tipHash = ChainState[height].tip
    BY DEF FeedInv, FeedTypeOK, WrongOnlyByLateBlocks
<1>2. \A o \in Outpoint : utxos[o] = ChainState[height].utxos[o]
    BY <1>1 DEF FeedInv, WrongOnlyByLateBlocks
<1>3. utxos \in Utxos /\ ChainState[height].utxos \in Utxos
    BY <1>1, ChainStateFacts DEF FeedInv, IInv, TypeOK, StoreState
<1>4. utxos = ChainState[height].utxos
    BY <1>2, <1>3 DEF Utxos
<1>5. QED
    BY <1>1, <1>4

\* The client starts with nothing sent.
LEMMA FeedInitInv == FeedInit => FeedInv
<1> SUFFICES ASSUME FeedInit PROVE FeedInv
    OBVIOUS
<1>1. Init /\ Len(Chain) \in Nat /\ highest = 0 /\ late = {} /\ acked = {}
    BY ChainBlocks DEF FeedInit
<1>2. FeedTypeOK /\ ChainPosition
    BY <1>1 DEF FeedInit, FeedTypeOK, ChainPosition, ChainHeight
<1>3. height = 0 /\ utxos = ChainState[0].utxos /\ tipHash = ChainState[0].tip
    BY <1>1, ChainStateEquation DEF Init, Genesis
<1>4. WrongOnlyByLateBlocks
    BY <1>1, <1>3 DEF WrongOnlyByLateBlocks
<1>5. ASSUME NEW c \in Client PROVE PartIsOfChain(c) /\ ReplyIsOfChain(c)
    BY <1>1 DEF Init, PartIsOfChain, ReplyIsOfChain
<1>6. QED
    BY <1>1, <1>2, <1>4, <1>5, InitIInv DEF FeedInv, ReadersAreOnChain

\* A step of the feed is a step of the ledger, or one the ledger does not see.
LEMMA FeedIsLedger == ChainAssumption /\ FeedTypeOK /\ [FeedNext]_<<vars, feed>> => [Next]_vars
<1> SUFFICES ASSUME ChainAssumption, FeedTypeOK, [FeedNext]_<<vars, feed>> PROVE [Next]_vars
    OBVIOUS
<1>1. CASE UNCHANGED <<vars, feed>>
    BY <1>1
<1>2. CASE Send \/ Advance
    BY <1>2 DEF Send, Advance
<1>3. ASSUME NEW n \in 1..Len(Chain), Lose(n) \/ Deliver(n) PROVE [Next]_vars
    BY <1>3, ChainBlocks DEF Lose, Deliver, Next
<1>4. CASE \E c \in Client : GetOutputs(c) /\ UNCHANGED feed
    BY <1>4 DEF Next
<1>5. QED
    BY <1>1, <1>2, <1>3, <1>4 DEF FeedNext

\* A step that leaves the store and the history alone leaves them related as they were.
LEMMA StoreUntouched ==
    ASSUME WrongOnlyByLateBlocks, UNCHANGED <<utxos, tipHash, height, highest, late>>
    PROVE  WrongOnlyByLateBlocks'
BY DEF WrongOnlyByLateBlocks

\* The moves of the client and of the network leave the ledger where it is.
LEMMA ClientStep ==
    ASSUME FeedInv, UNCHANGED vars, UNCHANGED history
    PROVE  WrongOnlyByLateBlocks' /\ ReadersAreOnChain'
<1>1. UNCHANGED <<utxos, tipHash, height, pc, req, part, reply, highest, late>>
    BY DEF vars, history
<1>2. WrongOnlyByLateBlocks'
    BY <1>1, StoreUntouched DEF FeedInv
<1>3. ReadersAreOnChain'
    BY <1>1 DEF FeedInv, ReadersAreOnChain, PartIsOfChain, ReplyIsOfChain
<1>4. QED
    BY <1>2, <1>3

\* What a delivery does: the block is one the client has sent, it is applied, and the
\* history records it.
LEMMA DeliverFacts ==
    ASSUME FeedInv, NEW n \in 1..Len(Chain), Deliver(n)
    PROVE  /\ utxos' = AfterBlock(utxos, Chain[n]) /\ tipHash' = Chain[n].hash /\ height' = n
           /\ UNCHANGED call
           /\ n \in Nat /\ n >= 1 /\ n \in ChainHeight
           /\ highest \in Nat /\ n <= highest + 1
           /\ highest' = (IF n > highest THEN n ELSE highest)
           /\ late' = (IF n < highest THEN late \cup {n} ELSE late)
<1>1. n \in Nat /\ n >= 1 /\ n \in ChainHeight /\ highest \in Nat /\ Chain[n].height = n
    BY ChainBlocks DEF FeedInv, FeedTypeOK, ChainHeight
<1>2. n <= next /\ next <= highest + 1
    BY <1>1, ChainBlocks DEF Deliver, FeedInv, FeedTypeOK, ChainPosition
<1>3. next \in Nat
    BY ChainBlocks DEF FeedInv, FeedTypeOK
<1>4. QED
    BY <1>1, <1>2, <1>3 DEF Deliver, ApplyBlock

\* A block that is applied on top of its parent, or again, sets what it touches to what the
\* chain has; one that comes late is recorded, and leaves what it does not touch.
LEMMA DeliverStep ==
    ASSUME FeedInv, NEW n \in 1..Len(Chain), Deliver(n)
    PROVE  WrongOnlyByLateBlocks'
<1> DEFINE b == Chain[n]
<1>1. /\ utxos' = AfterBlock(utxos, b) /\ tipHash' = b.hash /\ height' = n
      /\ n \in Nat /\ n >= 1 /\ highest \in Nat /\ n <= highest + 1
      /\ highest' = (IF n > highest THEN n ELSE highest)
      /\ late' = (IF n < highest THEN late \cup {n} ELSE late)
    BY DeliverFacts
<1>2. ChainState[n] = StateAfter(ChainState[n - 1], b)
    BY ChainStateEquation
<1>3. ChainState[n].tip = b.hash /\ ChainState[n].utxos = AfterBlock(ChainState[n - 1].utxos, b)
    BY <1>2 DEF StateAfter
<1>4. height' \in late' \cup {highest'}
    BY <1>1
<1>5. ASSUME NEW o \in Outpoint, utxos'[o] # ChainState[highest'].utxos[o]
      PROVE  \E m \in late' : Touches(Chain[m], o)
    <2>1. \A u, v : Touches(b, o) => AfterBlock(u, b)[o] = AfterBlock(v, b)[o]
        BY BlockSetsWhatItTouches
    <2>2. \A u : ~ Touches(b, o) => AfterBlock(u, b)[o] = u[o]
        BY BlockSetsWhatItTouches
    <2>3. late \subseteq late'
        BY <1>1
    <2>4. CASE n = highest + 1
        <3>1. highest' = n /\ n - 1 = highest
            BY <1>1, <2>4
        <3>2. ~ Touches(b, o)
            BY <1>1, <1>3, <1>5, <2>1, <3>1, Zenon
        <3>3. utxos[o] # ChainState[highest].utxos[o]
            BY <1>1, <1>3, <1>5, <2>2, <3>1, <3>2, Zenon
        <3>4. QED
            BY <2>3, <3>3 DEF FeedInv, WrongOnlyByLateBlocks
    <2>5. CASE n = highest
        <3>1. highest' = n
            BY <1>1, <2>5
        <3>2. ~ Touches(b, o)
            BY <1>1, <1>3, <1>5, <2>1, <3>1, Zenon
        <3>3. utxos[o] # ChainState[highest].utxos[o]
            BY <1>1, <1>5, <2>2, <2>5, <3>1, <3>2, Zenon
        <3>4. QED
            BY <2>3, <3>3 DEF FeedInv, WrongOnlyByLateBlocks
    <2>6. CASE n < highest
        <3>1. highest' = highest /\ n \in late'
            BY <1>1, <2>6
        <3>2. CASE Touches(b, o)
            BY <3>1, <3>2
        <3>3. CASE ~ Touches(b, o)
            <4>1. utxos[o] # ChainState[highest].utxos[o]
                BY <1>1, <1>5, <2>2, <3>1, <3>3, Zenon
            <4>2. QED
                BY <2>3, <4>1 DEF FeedInv, WrongOnlyByLateBlocks
        <3>4. QED
            BY <3>2, <3>3
    <2>7. QED
        BY <1>1, <2>4, <2>5, <2>6
<1>6. QED
    BY <1>1, <1>3, <1>4, <1>5 DEF WrongOnlyByLateBlocks

\* While no block comes late the height only grows, and what a call has read stays a part
\* of the chain.
LEMMA ReadersKeepTheirParts ==
    ASSUME FeedInv, NEW n \in 1..Len(Chain), Deliver(n)
    PROVE  ReadersAreOnChain'
<1> SUFFICES ASSUME late' = {}, NEW c \in Client PROVE PartIsOfChain(c)' /\ ReplyIsOfChain(c)'
    BY DEF ReadersAreOnChain
<1>1. late = {} /\ highest \in Nat /\ n \in Nat /\ ~ (n < highest) /\ height' = n
    BY DeliverFacts
<1>2. height = highest
    BY <1>1, OnChain
<1>3. \A i \in 0..height : i \in 0..height'
    BY <1>1, <1>2
<1>4. PartIsOfChain(c) /\ ReplyIsOfChain(c)
    BY <1>1 DEF FeedInv, ReadersAreOnChain
<1>5. UNCHANGED <<pc, req, part, reply>>
    BY DeliverFacts DEF call
<1>6. PartIsOfChain(c)'
    <2>1. ASSUME pc[c] = "tip"
          PROVE  \E i \in 0..height' : part[c].outputs = Lookup(ChainState[i].utxos, req[c])
        BY <1>3, <1>4, <2>1 DEF PartIsOfChain
    <2>2. ASSUME pc[c] = "height"
          PROVE  \E i, j \in 0..height' :
                     /\ i <= j
                     /\ part[c].outputs = Lookup(ChainState[i].utxos, req[c])
                     /\ part[c].tip = ChainState[j].tip
        BY <1>3, <1>4, <2>2 DEF PartIsOfChain
    <2>3. QED
        BY <1>5, <2>1, <2>2 DEF PartIsOfChain
<1>7. ReplyIsOfChain(c)'
    BY <1>4, <1>5 DEF ReplyIsOfChain
<1>8. QED
    BY <1>6, <1>7

\* A call reads where the store is; what others have read stays.
LEMMA ReaderStep ==
    ASSUME FeedInv, NEW c \in Client, GetOutputs(c), UNCHANGED feed
    PROVE  WrongOnlyByLateBlocks' /\ ReadersAreOnChain'
<1>1. UNCHANGED <<utxos, tipHash, height, highest, late>>
    BY DEF GetOutputs, RejectQuery, ReadOutputs, ReadTip, ReadHeight, store, feed, history
<1>2. WrongOnlyByLateBlocks'
    BY <1>1, StoreUntouched DEF FeedInv
<1> SUFFICES ASSUME late = {} PROVE \A d \in Client : PartIsOfChain(d)' /\ ReplyIsOfChain(d)'
    BY <1>1, <1>2 DEF ReadersAreOnChain
<1>3. /\ height \in Nat /\ height \in 0..height /\ \A i \in 0..height : i \in 0..Len(Chain)
      /\ utxos = ChainState[height].utxos /\ tipHash = ChainState[height].tip
    BY OnChain, ChainBlocks DEF ChainHeight
<1>4. \A d \in Client : PartIsOfChain(d) /\ ReplyIsOfChain(d)
    BY DEF FeedInv, ReadersAreOnChain
<1>5. ASSUME NEW d \in Client, d # c PROVE PartIsOfChain(d)' /\ ReplyIsOfChain(d)'
    <2>1. pc'[d] = pc[d] /\ req'[d] = req[d] /\ part'[d] = part[d] /\ reply'[d] = reply[d]
        BY <1>5 DEF GetOutputs, RejectQuery, ReadOutputs, ReadTip, ReadHeight, FeedInv, IInv, TypeOK
    <2>2. QED
        BY <1>1, <1>4, <2>1 DEF PartIsOfChain, ReplyIsOfChain
<1>6. ASSUME NEW q \in Query, RejectQuery(c, q) PROVE PartIsOfChain(c)' /\ ReplyIsOfChain(c)'
    BY <1>6, <1>4 DEF RejectQuery, PartIsOfChain, ReplyIsOfChain, FeedInv, IInv, TypeOK
<1>7. ASSUME NEW q \in Query, ReadOutputs(c, q) PROVE PartIsOfChain(c)' /\ ReplyIsOfChain(c)'
    <2>1. pc'[c] = "tip" /\ req'[c] = q /\ part'[c].outputs = Lookup(utxos, q) /\ reply'[c] = {}
        BY <1>7 DEF ReadOutputs, FeedInv, IInv, TypeOK
    <2>2. QED
        BY <1>1, <1>3, <2>1 DEF PartIsOfChain, ReplyIsOfChain
<1>8. ASSUME ReadTip(c) PROVE PartIsOfChain(c)' /\ ReplyIsOfChain(c)'
    <2>1. /\ pc[c] = "tip" /\ pc'[c] = "height" /\ req'[c] = req[c] /\ reply'[c] = reply[c]
          /\ part'[c].outputs = part[c].outputs /\ part'[c].tip = tipHash
        BY <1>8 DEF ReadTip, FeedInv, IInv, TypeOK
    <2>2. PICK i \in 0..height : part[c].outputs = Lookup(ChainState[i].utxos, req[c])
        BY <1>4, <2>1 DEF PartIsOfChain
    <2>3. i <= height
        BY <1>3, <2>2
    <2>4. \E k, j \in 0..height :
              /\ k <= j
              /\ part'[c].outputs = Lookup(ChainState[k].utxos, req'[c])
              /\ part'[c].tip = ChainState[j].tip
        BY <1>3, <2>1, <2>2, <2>3
    <2>5. PartIsOfChain(c)'
        BY <1>1, <2>1, <2>4 DEF PartIsOfChain
    <2>6. ReplyIsOfChain(c)'
        BY <1>4, <2>1 DEF ReplyIsOfChain
    <2>7. QED
        BY <2>5, <2>6
<1>9. ASSUME ReadHeight(c) PROVE PartIsOfChain(c)' /\ ReplyIsOfChain(c)'
    <2>1. /\ pc[c] = "height" /\ pc'[c] = "idle" /\ req'[c] = req[c]
          /\ reply'[c] = {[outputs |-> part[c].outputs, tip |-> part[c].tip, height |-> height]}
        BY <1>9 DEF ReadHeight, FeedInv, IInv, TypeOK
    <2>2. PICK i, j \in 0..height :
              /\ i <= j
              /\ part[c].outputs = Lookup(ChainState[i].utxos, req[c])
              /\ part[c].tip = ChainState[j].tip
        BY <1>4, <2>1 DEF PartIsOfChain
    <2>3. j <= height /\ i \in 0..Len(Chain) /\ j \in 0..Len(Chain)
        BY <1>3, <2>2
    <2>4. ASSUME NEW a \in reply'[c]
          PROVE  /\ i <= j /\ j <= a.height
                 /\ a.outputs = Lookup(ChainState[i].utxos, req'[c])
                 /\ a.tip = ChainState[j].tip
        BY <2>1, <2>2, <2>3
    <2>5. ReplyIsOfChain(c)'
        BY <2>3, <2>4 DEF ReplyIsOfChain
    <2>6. PartIsOfChain(c)'
        BY <2>1 DEF PartIsOfChain
    <2>7. QED
        BY <2>5, <2>6
<1>10. QED
    BY <1>5, <1>6, <1>7, <1>8, <1>9 DEF GetOutputs

\* The types of the client's state, and the moves of a request in the network.
LEMMA FeedTypeStep ==
    ASSUME FeedInv, FeedNext
    PROVE  FeedTypeOK' /\ ChainPosition'
<1>1. /\ Len(Chain) \in Nat /\ next \in Nat /\ next >= 1 /\ next <= Len(Chain) + 1
      /\ net \in [1..Len(Chain) -> Nat]
      /\ acked \subseteq 1..Len(Chain)
      /\ highest \in Nat /\ highest <= Len(Chain) /\ late \subseteq 1..Len(Chain)
    BY ChainBlocks DEF FeedInv, FeedTypeOK, ChainHeight
<1>2. /\ highest \in {next - 1, next}
      /\ \A n \in acked : n <= highest
      /\ \A n \in 1..Len(Chain) : net[n] > 0 => n <= next
    BY DEF FeedInv, ChainPosition
<1>3. CASE Send
    <2>1. next \in 1..Len(Chain) /\ net' = [net EXCEPT ![next] = @ + 1]
          /\ UNCHANGED <<next, acked, highest, late>>
        BY <1>1, <1>3 DEF Send, history
    <2>2. net[next] + 1 \in Nat
        BY <1>1, <2>1
    <2>3. net' \in [1..Len(Chain) -> Nat]
        BY <1>1, <2>1, <2>2
    <2>4. \A n \in 1..Len(Chain) : net'[n] > 0 => n <= next
        BY <1>1, <1>2, <2>1
    <2>5. QED
        BY <1>1, <1>2, <2>1, <2>3, <2>4 DEF FeedTypeOK, ChainPosition, ChainHeight
<1>4. ASSUME NEW n \in 1..Len(Chain), Lose(n) \/ Deliver(n) PROVE FeedTypeOK' /\ ChainPosition'
    <2>1. net[n] \in Nat /\ net[n] > 0 /\ net' = [net EXCEPT ![n] = @ - 1] /\ next' = next
        BY <1>1, <1>4 DEF Lose, Deliver
    <2>2. net[n] - 1 \in Nat
        BY <2>1
    <2>3. net' \in [1..Len(Chain) -> Nat]
        BY <1>1, <2>1, <2>2
    <2>4. \A m \in 1..Len(Chain) : net'[m] > 0 => m <= next'
        BY <1>1, <1>2, <2>1
    <2>5. CASE Lose(n)
        <3>1. UNCHANGED <<acked, highest, late>>
            BY <2>5 DEF Lose, history
        <3>2. QED
            BY <1>1, <1>2, <2>1, <2>3, <2>4, <3>1 DEF FeedTypeOK, ChainPosition, ChainHeight
    <2>6. CASE Deliver(n)
        <3>1. /\ n \in Nat /\ n >= 1 /\ n <= Len(Chain) /\ n <= next
              /\ highest' = (IF n > highest THEN n ELSE highest)
              /\ late' = (IF n < highest THEN late \cup {n} ELSE late)
              /\ (acked' = acked \/ acked' = acked \cup {n})
            BY <1>1, <1>2, <2>1, <2>6 DEF Deliver
        <3>2. /\ highest' \in Nat /\ highest' <= Len(Chain)
              /\ highest' \in {next - 1, next}
              /\ highest <= highest' /\ n <= highest'
            BY <1>1, <1>2, <3>1
        <3>3. late' \subseteq 1..Len(Chain) /\ acked' \subseteq 1..Len(Chain)
            BY <1>1, <3>1
        <3>4. \A m \in acked' : m <= highest'
            <4>1. \A m \in acked : m \in Nat /\ m <= highest'
                BY <1>1, <1>2, <3>2
            <4>2. \A m \in acked' : m \in acked \/ m = n
                BY <3>1
            <4>3. QED
                BY <3>2, <4>1, <4>2
        <3>5. QED
            BY <1>1, <2>1, <2>3, <2>4, <3>2, <3>3, <3>4 DEF FeedTypeOK, ChainPosition, ChainHeight
    <2>7. QED
        BY <1>4, <2>5, <2>6
<1>5. CASE Advance
    <2>1. next \in acked /\ next' = next + 1 /\ UNCHANGED <<net, acked, highest, late>>
        BY <1>5 DEF Advance, history
    <2>2. highest = next /\ next <= Len(Chain)
        BY <1>1, <1>2, <2>1
    <2>3. \A n \in 1..Len(Chain) : net[n] > 0 => n <= next + 1
        BY <1>1, <1>2
    <2>4. QED
        BY <1>1, <1>2, <2>1, <2>2, <2>3 DEF FeedTypeOK, ChainPosition, ChainHeight
<1>6. CASE \E c \in Client : GetOutputs(c) /\ UNCHANGED feed
    BY <1>1, <1>2, <1>6 DEF feed, history, FeedTypeOK, ChainPosition, ChainHeight
<1>7. QED
    BY <1>3, <1>4, <1>5, <1>6 DEF FeedNext

\* Every step of the server, its client and the network keeps the invariant.
LEMMA FeedNextInv == FeedInv /\ [FeedNext]_<<vars, feed>> => FeedInv'
<1> SUFFICES ASSUME FeedInv, [FeedNext]_<<vars, feed>> PROVE FeedInv'
    OBVIOUS
<1>1. IInv'
    BY FeedIsLedger, NextIInv, ChainAssumption DEF FeedInv
<1>2. CASE UNCHANGED <<vars, feed>>
    <2>1. /\ UNCHANGED vars /\ UNCHANGED history /\ UNCHANGED <<next, net, acked, highest, late>>
        BY <1>2 DEF feed, history
    <2>2. FeedTypeOK' /\ ChainPosition'
        BY <2>1 DEF FeedInv, FeedTypeOK, ChainPosition
    <2>3. QED
        BY <1>1, <2>1, <2>2, ClientStep DEF FeedInv
<1>3. ASSUME FeedNext PROVE FeedInv'
    <2>1. FeedTypeOK' /\ ChainPosition'
        BY <1>3, FeedTypeStep
    <2>2. CASE Send \/ Advance \/ \E n \in 1..Len(Chain) : Lose(n)
        <3>1. UNCHANGED vars /\ UNCHANGED history
            BY <2>2 DEF Send, Advance, Lose
        <3>2. QED
            BY <1>1, <2>1, <3>1, ClientStep DEF FeedInv
    <2>3. ASSUME NEW n \in 1..Len(Chain), Deliver(n) PROVE FeedInv'
        BY <1>1, <2>1, <2>3, DeliverStep, ReadersKeepTheirParts DEF FeedInv
    <2>4. ASSUME NEW c \in Client, GetOutputs(c), UNCHANGED feed PROVE FeedInv'
        BY <1>1, <2>1, <2>4, ReaderStep DEF FeedInv
    <2>5. QED
        BY <1>3, <2>2, <2>3, <2>4 DEF FeedNext
<1>4. QED
    BY <1>2, <1>3

\* Under a client that follows a chain, with copies of its requests arriving in any order:
\* where the client is, what the store is, and what calls have read.
THEOREM FeedInvariance == FeedSpec => []FeedInv
BY FeedInitInv, FeedNextInv, PTL DEF FeedSpec

\* However often blocks are sent, lost, delayed, delivered and applied, the store differs
\* from the chain at the highest block applied only where a late block creates or spends
\* (ApplyBlock, server.go:132-147), for every chain.
THEOREM OnlyLateBlocksHarm == FeedSpec => []WrongOnlyByLateBlocks
<1>1. FeedInv => WrongOnlyByLateBlocks
    BY DEF FeedInv
<1>2. QED
    BY <1>1, FeedInvariance, PTL

\* As long as no block comes late, the height of a response bounds the heights its outputs
\* and its tip were read at (GetOutputs, server.go:119-128).
THEOREM HeightIsAnUpperBound == FeedSpec => []HeightBoundsOutputs
<1>1. FeedInv => HeightBoundsOutputs
    BY DEF FeedInv, ReadersAreOnChain, ReplyIsOfChain, HeightBoundsOutputs
<1>2. QED
    BY <1>1, FeedInvariance, PTL

\* What the server promises to any callers holds with this client too.
THEOREM FeedImplementsSpec == FeedSpec => ImplementsLedgerSpec
<1>1. FeedInit => Init
    BY DEF FeedInit
<1>2. FeedInv /\ [FeedNext]_<<vars, feed>> => [Next]_vars
    BY FeedIsLedger, ChainAssumption DEF FeedInv
<1>3. FeedSpec => Spec
    BY <1>1, <1>2, FeedInvariance, PTL DEF FeedSpec, Spec
<1>4. QED
    BY <1>3, LedgerImplementsSpec
=============================================================================
