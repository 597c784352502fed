------------------------------ MODULE Verifier ------------------------------
(***************************************************************************)
(* The verifier (services/verifier/server.go): three goroutines, which     *)
(* validate a sample transaction, report metrics, and fill and watch a     *)
(* cache of outputs.  Sections under the server's lock are actions, with   *)
(* the event that follows one.  The validator can also be called by        *)
(* itself; a call sees nothing of the server, nor of another call, so that *)
(* a behaviour has either one call or a server.                            *)
(***************************************************************************)
EXTENDS Validator, FiniteSetsExt

CONSTANTS
    Calls,          \* transactions handed to the validator: [tx, form, extra], see Data
    UTXOSets,       \* maps of outputs handed to it
    Hash,           \* the random hashes of transactions
    Hash160,        \* the random hashes in scripts
    SampleValue,    \* the value of the sample's output
    CachedValues,   \* values of cached outputs
    CacheSize,      \* outputs the cache is filled with (10)
    SuccessRate,    \* the rate that is reported, in tenths of a percent (985)
    MaxValidated,   \* bound: samples validated
    None

ASSUME VerifierAssumption ==
    /\ Calls \subseteq [tx : BitcoinTransaction, form : 0..3, extra : Int]
    /\ \A utxos \in UTXOSets : \A o \in DOMAIN utxos : utxos[o] \in UTXO
    /\ Hash \subseteq [1..Width.hash -> Byte] /\ Hash160 \subseteq [1..HashSize -> Byte]
    /\ SampleValue \in SignedNumber(Width.value)
    /\ CacheSize \in Nat /\ SuccessRate \in Nat /\ MaxValidated \in Nat

VARIABLES
    call,           \* the call of the validator, and its result
    started,        \* Start was called
    cancelled,      \* the server's context
    goroutine,      \* goroutine[g]: what g is doing
    utxoCache,      \* the outputs the server knows
    validatedCount, \* the counter of the server
    event           \* the last event published

vars == <<call, started, cancelled, goroutine, utxoCache, validatedCount, event>>

Goroutine == {"processTransactions", "reportMetrics", "manageUTXOCache"}

Zeros(n) == [i \in 1..n |-> 0]

\* The bytes of a call: all of the transaction's, with some after them, or not all.
Data(c) ==
    LET s == Serialise(c.tx, c.form)
    IN  IF c.extra >= 0 THEN s \o Zeros(c.extra) ELSE SubSeq(s, 1, Len(s) + c.extra)

P2PKHScript(hash160) ==
    <<Op.dup, Op.hash160, HashSize>> \o hash160 \o <<Op.equalVerify, Op.checkSig>>

SampleTransaction(hash, hash160) ==
    [version  |-> 1,
     inputs   |-> <<[prevTxHash |-> hash, prevTxIndex |-> 0, scriptSig |-> <<>>,
                     sequence |-> Capacity[Width.sequence] - 1]>>,
     outputs  |-> <<[value |-> SampleValue, scriptPubKey |-> P2PKHScript(hash160)]>>,
     lockTime |-> 0]

-----------------------------------------------------------------------------
Init ==
    /\ call = None
    /\ started = FALSE
    /\ cancelled = FALSE
    /\ goroutine = [g \in Goroutine |-> "new"]
    /\ utxoCache = <<>>
    /\ validatedCount = 0
    /\ event = None

Validate(c, utxos) ==
    /\ ~started /\ call = None
    /\ call' = [given |-> c, utxos |-> utxos, result |-> ValidateTransaction(Data(c), utxos)]
    /\ UNCHANGED <<started, cancelled, goroutine, utxoCache, validatedCount, event>>

Start ==
    /\ ~started /\ call = None
    /\ started' = TRUE
    /\ goroutine' = [g \in Goroutine |-> IF g = "manageUTXOCache" THEN "fill" ELSE "loop"]
    /\ UNCHANGED <<call, cancelled, utxoCache, validatedCount, event>>

\* The cache is filled by its goroutine, whatever has happened meanwhile.
PopulateSampleUTXOs ==
    /\ goroutine["manageUTXOCache"] = "fill"
    /\ goroutine' = [goroutine EXCEPT !["manageUTXOCache"] = "loop"]
    /\ \E hashes \in SUBSET Hash \ {{}} :
          /\ Cardinality(hashes) <= CacheSize
          /\ \E value \in [hashes -> CachedValues], hash160 \in [hashes -> Hash160] :
                utxoCache' = [o \in hashes \X {0} |->
                    [value |-> value[o[1]], spent |-> FALSE, scriptPubKey |-> P2PKHScript(hash160[o[1]])]]
    /\ UNCHANGED <<call, started, cancelled, validatedCount, event>>

\* A case of a goroutine's select; a tick and the cancelled context may both be ready.
Select(g) ==
    /\ goroutine[g] = "loop"
    /\ UNCHANGED <<call, started, cancelled, utxoCache>>

ProcessTransaction(hash, hash160) ==
    /\ Select("processTransactions")
    /\ validatedCount < MaxValidated
    /\ validatedCount' = validatedCount + 1
    /\ LET result == ValidateTransaction(Serialise(SampleTransaction(hash, hash160), 0), utxoCache)
       IN  event' = IF result.valid THEN [topic |-> "tx.validated.v1", fees |-> result.fees]
                    ELSE [topic |-> "tx.validation_failed.v1", errorCode |-> result.errorCode]
    /\ UNCHANGED goroutine

\* The success rate is a constant of the server: no result of a validation changes it.
ReportMetrics ==
    /\ Select("reportMetrics")
    /\ event' = [topic |-> "verifier.metrics.v1", validated |-> validatedCount,
                 successRate |-> SuccessRate]
    /\ UNCHANGED <<goroutine, validatedCount>>

ReportCache ==
    /\ Select("manageUTXOCache")
    /\ event' = [topic |-> "verifier.utxo_cache.v1", size |-> Cardinality(DOMAIN utxoCache)]
    /\ UNCHANGED <<goroutine, validatedCount>>

Stop ==
    /\ ~cancelled
    /\ cancelled' = TRUE
    /\ UNCHANGED <<call, started, goroutine, utxoCache, validatedCount, event>>

\* Mutant: a break, which leaves the select and not the loop.
Breaks(g) ==
    /\ Select(g)
    /\ cancelled
    /\ UNCHANGED <<goroutine, validatedCount, event>>

Ends(g) ==
    /\ Select(g)
    /\ cancelled
    /\ goroutine' = [goroutine EXCEPT ![g] = "done"]
    /\ UNCHANGED <<validatedCount, event>>

-----------------------------------------------------------------------------
Next ==
    \/ \E c \in Calls, utxos \in UTXOSets : Validate(c, utxos)
    \/ Start
    \/ PopulateSampleUTXOs
    \/ \E hash \in Hash, hash160 \in Hash160 : ProcessTransaction(hash, hash160)
    \/ ReportMetrics
    \/ ReportCache
    \/ Stop
    \/ \E g \in Goroutine : Ends(g)

Spec == Init /\ [][Next]_vars

\* The scheduler runs every goroutine, and a select with both cases ready takes either at
\* some time.
FairSpec ==
    /\ Spec
    /\ WF_vars(PopulateSampleUTXOs)
    /\ \A g \in Goroutine : WF_vars(Ends(g))

-----------------------------------------------------------------------------
ErrorCodes ==
    {"PARSE_ERROR", "BASIC_VALIDATION_FAILED", "INPUT_VALIDATION_FAILED", "INSUFFICIENT_FEES",
     "SCRIPT_VALIDATION_FAILED"}

\* Every variable has its type; a result is valid or has an error's code, and its fees
\* and signature operations are within their limits.
TypeOK ==
    /\ call # None =>
          /\ call.given \in Calls /\ call.utxos \in UTXOSets
          /\ call.result.errorCode \in IF call.result.valid THEN {""} ELSE ErrorCodes
          /\ call.result.size \in {0, Len(Data(call.given))}
          /\ call.result.sigOps \in 0..MaxSigOps
          /\ call.result.fees >= 0
    /\ started \in BOOLEAN /\ cancelled \in BOOLEAN
    /\ goroutine \in [Goroutine -> {"new", "fill", "loop", "done"}]
    /\ DOMAIN utxoCache \subseteq Hash \X {0}
    /\ validatedCount \in 0..MaxValidated
    /\ event # None =>
          event.topic \in {"tx.validated.v1", "tx.validation_failed.v1", "verifier.metrics.v1",
                           "verifier.utxo_cache.v1"}

\* parseTransaction reads back the transaction that was written, whichever forms its
\* lengths have and whatever follows it, up to the sizes it allows; of every proper
\* prefix it says that it is none.
ReadsWhatWasWritten ==
    call # None =>
        LET tx == call.given.tx
            parsed == ParseTransaction(Data(call.given))
            small == /\ \A i \in DOMAIN tx.inputs : Len(tx.inputs[i].scriptSig) <= MaxScriptSize
                     /\ \A i \in DOMAIN tx.outputs : Len(tx.outputs[i].scriptPubKey) <= MaxScriptSize
                     /\ Len(tx.inputs) <= MaxCount /\ Len(tx.outputs) <= MaxCount
                     /\ Len(Data(call.given)) <= MaxTxSize
        IN  IF call.given.extra >= 0 /\ small
            THEN parsed.ok /\ parsed.tx = tx
            ELSE call.result.errorCode = "PARSE_ERROR"

\* What the outputs a transaction spends, each counted once, are worth, and its new ones:
\* as numbers, whatever an int64 holds.
Spent(tx, utxos) ==
    MapThenSumSet(LAMBDA o : utxos[o].value, {Outpoint(tx.inputs[i]) : i \in DOMAIN tx.inputs})

Made(tx) == MapThenSumSet(LAMBDA i : tx.outputs[i].value, DOMAIN tx.outputs)

\* The fees ValidateTransaction gives are what the outputs spent, each counted once, are
\* worth more than the new ones, as long as an int64 holds the two totals.
FeesAreExact ==
    call # None /\ call.result.valid =>
        LET tx == ParseTransaction(Data(call.given)).tx
            in == Spent(tx, call.utxos)
            out == Made(tx)
            fits == {n \in {in, out} : n = Wrap(n, Width.value)}
        IN  fits = {in, out} => call.result.fees = in - out

\* "Transaction outputs exceed inputs" (bitcoin_validation.go:131-136) is an error: a
\* transaction called valid makes no more than it spends.  The totals are int64 and wrap:
\* outputs each within the supply can be worth more than 2^63 together, their total is
\* negative then and the fees are not (:289-296).
ValidSpendsEnough ==
    call # None /\ call.result.valid =>
        LET tx == ParseTransaction(Data(call.given)).tx
        IN  Made(tx) <= Spent(tx, call.utxos)

\* After Stop every goroutine Start has made ends.
ServicesEnd == started /\ cancelled ~> \A g \in Goroutine : goroutine[g] = "done"
=============================================================================
