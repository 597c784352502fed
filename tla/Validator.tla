----------------------------- MODULE Validator -----------------------------
(***************************************************************************)
(* The rules a transaction is validated by                                 *)
(* (services/verifier/bitcoin_validation.go, ValidateTransaction), against *)
(* a map of outputs: what each is worth, its script, whether it is spent.  *)
(* Script execution is the code's: the patterns of two kinds of scripts    *)
(* and a least size.  Messages of errors are left out, their codes kept.   *)
(***************************************************************************)
EXTENDS Transactions

CONSTANTS
    MaxMoney,       \* of one output (21000000 * 100000000)
    MaxSigOps,      \* the constant of the code
    MinScriptSig,   \* least size of the script that spends a P2PKH output (70)
    HashSize,       \* bytes of a hash160 (20)
    Op              \* the operation codes: dup, hash160, equalVerify, checkSig, checkMultiSig

ASSUME ValidatorAssumption ==
    /\ MaxMoney \in Nat /\ MaxSigOps \in Nat /\ MinScriptSig \in Nat \ {0}
    /\ HashSize \in Byte /\ HashSize + 5 < Capacity[VarWidth[3]]
    /\ Op \in [{"dup", "hash160", "equalVerify", "checkSig", "checkMultiSig"} -> Byte]

\* An output that exists is worth no less than nothing.
UTXO == [value : Nat, spent : BOOLEAN, scriptPubKey : Seq(Byte)]

Outpoint(input) == <<input.prevTxHash, input.prevTxIndex>>

-----------------------------------------------------------------------------
InputsAreDistinct(tx) ==
    \A i, j \in DOMAIN tx.inputs : Outpoint(tx.inputs[i]) = Outpoint(tx.inputs[j]) => i = j

\* Mutant: duplicate inputs are not looked for.
RulesWithoutDuplicates(tx) ==
    /\ tx.version \in 1..2
    /\ tx.inputs # <<>>
    /\ tx.outputs # <<>>
    /\ \A i \in DOMAIN tx.outputs : tx.outputs[i].value \in 0..MaxMoney

BasicRulesHold(tx) ==
    /\ tx.version \in 1..2
    /\ tx.inputs # <<>>
    /\ tx.outputs # <<>>
    /\ \A i \in DOMAIN tx.outputs : tx.outputs[i].value \in 0..MaxMoney
    /\ InputsAreDistinct(tx)

InputsAreUnspent(tx, utxos) ==
    \A i \in DOMAIN tx.inputs :
        /\ Outpoint(tx.inputs[i]) \in DOMAIN utxos
        /\ ~utxos[Outpoint(tx.inputs[i])].spent

SpentOutput(tx, utxos, i) == utxos[Outpoint(tx.inputs[i])]

\* Values are added one by one, as int64.
Total(values) == FoldLeft(LAMBDA sum, value : Wrap(sum + value, Width.value), 0, values)

InputValue(tx, utxos) == Total([i \in DOMAIN tx.inputs |-> SpentOutput(tx, utxos, i).value])

OutputValue(tx) == Total([i \in DOMAIN tx.outputs |-> tx.outputs[i].value])

-----------------------------------------------------------------------------
IsP2PKH(script) ==
    /\ Len(script) = HashSize + 5
    /\ SubSeq(script, 1, 3) = <<Op.dup, Op.hash160, HashSize>>
    /\ SubSeq(script, HashSize + 4, HashSize + 5) = <<Op.equalVerify, Op.checkSig>>

\* executeScript: every other script, P2SH among them, is accepted.
ScriptRuns(scriptSig, scriptPubKey) == IsP2PKH(scriptPubKey) => Len(scriptSig) >= MinScriptSig

\* A byte of an address or a signature counts as well as an operation.
CountSigOps(script) ==
    Cardinality({i \in DOMAIN script : script[i] \in {Op.checkSig, Op.checkMultiSig}})

SigOps(tx, utxos) ==
    FoldLeft(LAMBDA sum, n : sum + n, 0,
             [i \in DOMAIN tx.inputs |->
                 CountSigOps(tx.inputs[i].scriptSig) + CountSigOps(SpentOutput(tx, utxos, i).scriptPubKey)])

\* Mutant: signature operations are counted, their number not limited.
ScriptsRun(tx, utxos) ==
    \A i \in DOMAIN tx.inputs : ScriptRuns(tx.inputs[i].scriptSig, SpentOutput(tx, utxos, i).scriptPubKey)

ScriptsAreValid(tx, utxos) ==
    /\ ScriptsRun(tx, utxos)
    /\ SigOps(tx, utxos) <= MaxSigOps

-----------------------------------------------------------------------------
Invalid(errorCode, size) ==
    [valid |-> FALSE, errorCode |-> errorCode, size |-> size, sigOps |-> 0, fees |-> 0]

ValidateTransaction(data, utxos) ==
    LET parsed == ParseTransaction(data)
        tx == parsed.tx
        size == Len(data)
        fees == Wrap(InputValue(tx, utxos) - OutputValue(tx), Width.value)
    IN  IF ~parsed.ok THEN Invalid("PARSE_ERROR", 0)
        ELSE IF ~BasicRulesHold(tx) THEN Invalid("BASIC_VALIDATION_FAILED", size)
        ELSE IF ~InputsAreUnspent(tx, utxos) THEN Invalid("INPUT_VALIDATION_FAILED", size)
        ELSE IF fees < 0 THEN Invalid("INSUFFICIENT_FEES", size)
        ELSE IF ~ScriptsAreValid(tx, utxos) THEN Invalid("SCRIPT_VALIDATION_FAILED", size)
        ELSE [valid |-> TRUE, errorCode |-> "", size |-> size,
              sigOps |-> SigOps(tx, utxos), fees |-> fees]
=============================================================================
