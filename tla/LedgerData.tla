----------------------------- MODULE LedgerData -----------------------------
(***************************************************************************)
(* The data of the Ledger service (services/ledger/server.go, messages of  *)
(* proto/ledger.proto): outputs, blocks, and the states of the UTXO store. *)
(*                                                                         *)
(* The store's map is a function from Outpoint to an amount, or Absent for *)
(* a key the map does not hold; a script travels with its amount and is    *)
(* left out.  A block's spends are a set (deleting a key twice is deleting *)
(* it once) and its outputs a function (the last one wins in the code).    *)
(***************************************************************************)
EXTENDS Naturals, Sequences

CONSTANTS
    Client,         \* concurrent callers of GetOutputs
    Outpoint,       \* txid:vout keys
    Amount,         \* amounts an output may hold
    Absent,         \* "no such key"
    Hash,           \* well-formed (32 byte) hashes
    Malformed,      \* a hash of another length
    GenesisHash,    \* the 32 zero bytes the store starts from
    Query,          \* lists of outpoints callers may ask for
    Block,          \* ApplyBlock requests callers may make
    MaxOutpoints    \* 1000 in the code

BlockRequest ==
    [hash    : Hash \cup {Malformed},
     height  : Nat,
     spends  : SUBSET Outpoint,
     outputs : [Outpoint -> Amount \cup {Absent}],
     prev    : Hash]

ASSUME AmountAssumption == Amount \subseteq Nat /\ Absent \notin Amount
ASSUME HashAssumption   == GenesisHash \in Hash /\ Malformed \notin Hash
ASSUME QueryAssumption  == Query # {} /\ \A q \in Query : q \in Seq(Outpoint)
ASSUME BlockAssumption  == \A b \in Block : b \in BlockRequest

Utxos == [Outpoint -> Amount \cup {Absent}]

StoreState == [utxos : Utxos, tip : Hash, height : Nat]

Genesis == [utxos  |-> [o \in Outpoint |-> Absent],
            tip    |-> GenesisHash,
            height |-> 0]

\* A key that is not in the map answers with a spent output of amount 0.
OutputAt(u, o) ==
    IF u[o] = Absent THEN [isUnspent |-> FALSE, amountSats |-> 0]
                     ELSE [isUnspent |-> TRUE,  amountSats |-> u[o]]

Lookup(u, q) == [i \in DOMAIN q |-> OutputAt(u, q[i])]

ValidQuery(q) == Len(q) > 0 /\ Len(q) <= MaxOutpoints

\* ApplyBlock checks the length of the hash and nothing else.
ValidBlock(b) == b.hash # Malformed

\* The map after a block: every spend is deleted, then every output is added.
AfterBlock(u, b) ==
    [o \in Outpoint |-> IF b.outputs[o] # Absent THEN b.outputs[o]
                        ELSE IF o \in b.spends THEN Absent ELSE u[o]]

StateAfter(s, b) ==
    [utxos |-> AfterBlock(s.utxos, b), tip |-> b.hash, height |-> b.height]
=============================================================================
