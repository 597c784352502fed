------------------------------- MODULE Ledger -------------------------------
(***************************************************************************)
(* The Ledger gRPC service (services/ledger/server.go): an in-memory UTXO  *)
(* map guarded by one RWMutex, and two handlers on it.  ApplyBlock takes   *)
(* the write lock once.  GetOutputs takes the read lock three times, once  *)
(* for the outputs, once for the tip and once for the height, and blocks   *)
(* may be applied between them: each of the three is an action of its own. *)
(* Outputs are replaced in the map and never changed in place, so a reply  *)
(* that shares them with the map is a copy of them.                        *)
(***************************************************************************)
EXTENDS LedgerData

CONSTANT MaxApplied     \* bound: blocks applied in a behaviour

ASSUME MaxAppliedAssumption == MaxApplied \in Nat

VARIABLES
    utxos,      \* the store's map
    tipHash,    \* the store's tip
    height,     \* the store's height
    pc,         \* pc[c]: what c's GetOutputs reads next
    req,        \* req[c]: the outpoints c asks, or last asked, for
    part,       \* part[c]: the response under construction
    reply,      \* reply[c]: the response c holds, as a set of at most one
    versions    \* history: every state of the store, the current one last

store == <<utxos, tipHash, height>>
call  == <<pc, req, part, reply>>
vars  == <<utxos, tipHash, height, pc, req, part, reply, versions>>

StoreNow == [utxos |-> utxos, tip |-> tipHash, height |-> height]

NoPart == [began |-> 0, outputs |-> <<>>, tip |-> GenesisHash]

Init ==
    /\ utxos = Genesis.utxos
    /\ tipHash = Genesis.tip
    /\ height = Genesis.height
    /\ pc = [c \in Client |-> "idle"]
    /\ req \in {[c \in Client |-> q] : q \in Query}
    /\ part = [c \in Client |-> NoPart]
    /\ reply = [c \in Client |-> {}]
    /\ versions = <<Genesis>>

\* Mutant: the spends are not deleted.
ApplyOutputsOnly(b) ==
    /\ Len(versions) <= MaxApplied
    /\ ValidBlock(b)
    /\ utxos' = AfterBlock(utxos, [b EXCEPT !.spends = {}])
    /\ tipHash' = b.hash
    /\ height' = b.height
    /\ versions' = Append(versions, StoreNow')
    /\ UNCHANGED call

(***************************************************************************)
(* ApplyBlock.  A request whose hash has the wrong length is answered with *)
(* InvalidArgument and changes nothing.                                    *)
(***************************************************************************)
ApplyBlock(b) ==
    /\ Len(versions) <= MaxApplied
    /\ ValidBlock(b)
    /\ utxos' = AfterBlock(utxos, b)
    /\ tipHash' = b.hash
    /\ height' = b.height
    /\ versions' = Append(versions, StoreNow')
    /\ UNCHANGED call

(***************************************************************************)
(* GetOutputs.                                                             *)
(***************************************************************************)
RejectQuery(c, q) ==
    /\ pc[c] = "idle"
    /\ ~ValidQuery(q)
    /\ req' = [req EXCEPT ![c] = q]
    /\ reply' = [reply EXCEPT ![c] = {}]
    /\ UNCHANGED <<store, pc, part, versions>>

ReadOutputs(c, q) ==
    /\ pc[c] = "idle"
    /\ ValidQuery(q)
    /\ pc' = [pc EXCEPT ![c] = "tip"]
    /\ req' = [req EXCEPT ![c] = q]
    /\ part' = [part EXCEPT ![c] = [began   |-> Len(versions),
                                    outputs |-> Lookup(utxos, q),
                                    tip     |-> GenesisHash]]
    /\ reply' = [reply EXCEPT ![c] = {}]
    /\ UNCHANGED <<store, versions>>

ReadTip(c) ==
    /\ pc[c] = "tip"
    /\ pc' = [pc EXCEPT ![c] = "height"]
    /\ part' = [part EXCEPT ![c].tip = tipHash]
    /\ UNCHANGED <<store, req, reply, versions>>

\* Mutant: the height is remembered from the beginning of the call.
ReadOldHeight(c) ==
    /\ pc[c] = "height"
    /\ pc' = [pc EXCEPT ![c] = "idle"]
    /\ reply' = [reply EXCEPT ![c] = {[outputs |-> part[c].outputs,
                                       tip     |-> part[c].tip,
                                       height  |-> versions[part[c].began].height]}]
    /\ part' = [part EXCEPT ![c] = NoPart]
    /\ UNCHANGED <<store, req, versions>>

ReadHeight(c) ==
    /\ pc[c] = "height"
    /\ pc' = [pc EXCEPT ![c] = "idle"]
    /\ reply' = [reply EXCEPT ![c] = {[outputs |-> part[c].outputs,
                                       tip     |-> part[c].tip,
                                       height  |-> height]}]
    /\ part' = [part EXCEPT ![c] = NoPart]
    /\ UNCHANGED <<store, req, versions>>

GetOutputs(c) ==
    \/ \E q \in Query : RejectQuery(c, q) \/ ReadOutputs(c, q)
    \/ ReadTip(c)
    \/ ReadHeight(c)

Next ==
    \/ \E b \in Block : ApplyBlock(b)
    \/ \E c \in Client : GetOutputs(c)

Spec == Init /\ [][Next]_vars

-----------------------------------------------------------------------------
Output == [isUnspent : BOOLEAN, amountSats : Nat]

Response == [outputs : Seq(Output), tip : Hash, height : Nat]

TypeOK ==
    /\ utxos \in Utxos
    /\ tipHash \in Hash
    /\ height \in Nat
    /\ pc \in [Client -> {"idle", "tip", "height"}]
    /\ req \in [Client -> Query]
    /\ part \in [Client -> [began : Nat, outputs : Seq(Output), tip : Hash]]
    /\ reply \in [Client -> SUBSET Response]
    /\ versions \in Seq(StoreState)

\* GetOutputs (server.go:110-130) answers with three reads of three moments of the
\* call, taken in order, and ApplyBlock installs whole blocks only: the server
\* implements LedgerSpec, whatever blocks arrive while a call is between its reads.
Promise ==
    INSTANCE LedgerSpec WITH began  <- [c \in Client |-> part[c].began],
                             asked  <- req,
                             answer <- reply

ImplementsLedgerSpec == Promise!Spec
=============================================================================
