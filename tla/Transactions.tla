---------------------------- MODULE Transactions ----------------------------
(***************************************************************************)
(* Reading a transaction from bytes                                        *)
(* (services/verifier/bitcoin_validation.go, parseTransaction and the      *)
(* readers it uses).  A byte, the widths of the fields and the limits are  *)
(* constants, so that small values of them reach every boundary.           *)
(*                                                                         *)
(* A reader is a record: the bytes that are left, whether every read so    *)
(* far succeeded, and the values read.                                     *)
(*                                                                         *)
(* An operator named ...From goes on with what a reader has read.          *)
(***************************************************************************)
EXTENDS Integers, Sequences, SequencesExt

CONSTANTS
    Base,           \* a byte is one of 0..Base-1 (256)
    Width,          \* bytes of each field: version, hash, index, sequence, value, lockTime (4, 32, 4, 4, 8, 4)
    VarWidth,       \* bytes after each of the three markers of a variable integer (2, 4, 8)
    MaxTxSize,      \* the constant of the code
    MaxScriptSize,  \* the constant of the code
    MaxCount        \* inputs or outputs of a transaction (100000)

ASSUME TransactionsAssumption ==
    /\ Base \in Nat /\ Base % 2 = 0 /\ Base > 3
    /\ Width \in [{"version", "hash", "index", "sequence", "value", "lockTime"} -> Nat \ {0}]
    /\ VarWidth \in [1..3 -> Nat \ {0}]
    /\ MaxTxSize \in Nat /\ MaxScriptSize \in Nat /\ MaxCount \in Nat

\* The number of values that a field of some bytes has.
Capacity[width \in Nat] == IF width = 0 THEN 1 ELSE Base * Capacity[width - 1]

Byte == 0..(Base - 1)
Number(width) == 0..(Capacity[width] - 1)
SignedNumber(width) == -(Capacity[width] \div 2)..(Capacity[width] \div 2 - 1)

\* A slice: its length is one that a variable integer can tell.
Slice(S) == {s \in Seq(S) : Len(s) < Capacity[VarWidth[3]]}

TxInput ==
    [prevTxHash : [1..Width.hash -> Byte], prevTxIndex : Number(Width.index),
     scriptSig : Slice(Byte), sequence : Number(Width.sequence)]

TxOutput == [value : SignedNumber(Width.value), scriptPubKey : Slice(Byte)]

BitcoinTransaction ==
    [version : SignedNumber(Width.version), inputs : Slice(TxInput), outputs : Slice(TxOutput),
     lockTime : Number(Width.lockTime)]

Unsigned(bytes) == FoldRight(LAMBDA byte, rest : byte + Base * rest, bytes, 0)

\* The integer of a width that n becomes in two's complement.
Wrap(n, width) ==
    LET half == Capacity[width] \div 2
    IN  ((n + half) % (2 * half)) - half

-----------------------------------------------------------------------------
Failed == [rest |-> <<>>, ok |-> FALSE, got |-> <<>>]

\* r, without the value it read last.
Drop(r) == [r EXCEPT !.got = Front(r.got)]

ReadBytes(r, n) ==
    IF r.ok /\ n <= Len(r.rest)
    THEN [r EXCEPT !.rest = SubSeq(r.rest, n + 1, Len(r.rest)),
                   !.got  = Append(r.got, SubSeq(r.rest, 1, n))]
    ELSE Failed

NumberFrom(b) == IF b.ok THEN [b EXCEPT !.got = Append(Front(b.got), Unsigned(Last(b.got)))] ELSE b

ReadNumber(r, width) == NumberFrom(ReadBytes(r, width))

\* The last three bytes mark an integer of a larger width, and no width is too large for
\* its integer.
VarIntFrom(b) ==
    IF b.ok /\ Last(b.got) >= Base - 3
    THEN ReadNumber(Drop(b), VarWidth[Last(b.got) - Base + 4])
    ELSE b

ReadVarInt(r) == VarIntFrom(ReadNumber(r, 1))

\* Mutant: the longest script is refused.
ShorterScriptFrom(n) ==
    IF n.ok /\ Last(n.got) < MaxScriptSize THEN ReadBytes(Drop(n), Last(n.got)) ELSE Failed

ScriptFrom(n) ==
    IF n.ok /\ Last(n.got) <= MaxScriptSize THEN ReadBytes(Drop(n), Last(n.got)) ELSE Failed

ReadScript(r) == ScriptFrom(ReadVarInt(r))

\* What r read, with one value more: that of a reader f which began with none.
Got(r, f, value) == IF f.ok THEN [f EXCEPT !.got = Append(r.got, value)] ELSE Failed

Fresh(r) == [r EXCEPT !.got = <<>>]

InputFrom(r, f) ==
    Got(r, f, [prevTxHash |-> f.got[1], prevTxIndex |-> f.got[2],
               scriptSig |-> f.got[3], sequence |-> f.got[4]])

\* The input of index i, which only the message of an error names.
ReadTxInput(r, i) ==
    InputFrom(r, ReadNumber(ReadScript(ReadNumber(ReadBytes(Fresh(r), Width.hash), Width.index)), Width.sequence))

OutputFrom(r, f) == Got(r, f, [value |-> Wrap(f.got[1], Width.value), scriptPubKey |-> f.got[2]])

ReadTxOutput(r, i) == OutputFrom(r, ReadScript(ReadNumber(Fresh(r), Width.value)))

Indices(n) == [i \in 1..n |-> i - 1]

ListFrom(r, f) == Got(r, f, f.got)

InputsFrom(n) ==
    IF n.ok /\ Last(n.got) <= MaxCount
    THEN ListFrom(Drop(n), FoldLeft(ReadTxInput, Fresh(n), Indices(Last(n.got))))
    ELSE Failed

OutputsFrom(n) ==
    IF n.ok /\ Last(n.got) <= MaxCount
    THEN ListFrom(Drop(n), FoldLeft(ReadTxOutput, Fresh(n), Indices(Last(n.got))))
    ELSE Failed

\* The version, the lock time and two counts of a byte each (10).
MinTxSize == Width.version + Width.lockTime + 2

TransactionFrom(data, f) ==
    IF MinTxSize <= Len(data) /\ Len(data) <= MaxTxSize /\ f.ok
    THEN [ok |-> TRUE,
          tx |-> [version |-> Wrap(f.got[1], Width.version), inputs |-> f.got[2],
                  outputs |-> f.got[3], lockTime |-> f.got[4]]]
    ELSE [ok |-> FALSE]

ReadVersion(data) == ReadNumber([rest |-> data, ok |-> TRUE, got |-> <<>>], Width.version)

\* Bytes after the lock time are not looked at.
ParseTransaction(data) ==
    TransactionFrom(data, ReadNumber(OutputsFrom(ReadVarInt(InputsFrom(ReadVarInt(ReadVersion(data))))),
                                     Width.lockTime))

-----------------------------------------------------------------------------
\* The reference: the bytes of a transaction.  A variable integer may be written in any
\* of the forms 0..3 its value fits in.
LittleEndian(n, width) == [i \in 1..width |-> (n \div Capacity[i - 1]) % Base]

PutVarInt(n, form) ==
    LET fits == {k \in form..3 : IF k = 0 THEN n < Base - 3 ELSE n < Capacity[VarWidth[k]]}
        k == CHOOSE x \in fits : \A y \in fits : x <= y
    IN  IF k = 0 THEN <<n>> ELSE <<Base - 4 + k>> \o LittleEndian(n, VarWidth[k])

PutScript(script, form) == PutVarInt(Len(script), form) \o script

PutInput(input, form) ==
    input.prevTxHash \o LittleEndian(input.prevTxIndex, Width.index)
        \o PutScript(input.scriptSig, form) \o LittleEndian(input.sequence, Width.sequence)

PutOutput(output, form) == LittleEndian(output.value, Width.value) \o PutScript(output.scriptPubKey, form)

Serialise(tx, form) ==
    LittleEndian(tx.version, Width.version)
        \o PutVarInt(Len(tx.inputs), form)
        \o FlattenSeq([i \in DOMAIN tx.inputs |-> PutInput(tx.inputs[i], form)])
        \o PutVarInt(Len(tx.outputs), form)
        \o FlattenSeq([i \in DOMAIN tx.outputs |-> PutOutput(tx.outputs[i], form)])
        \o LittleEndian(tx.lockTime, Width.lockTime)
=============================================================================
