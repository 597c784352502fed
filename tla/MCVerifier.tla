----------------------------- MODULE MCVerifier -----------------------------
(***************************************************************************)
(* Bytes of 0..7 and fields of one or two of them: a length of 5 needs a   *)
(* marker (5), a script of 7 bytes is too long, four outputs of 10 are     *)
(* more than the 31 a value of two bytes holds.                            *)
(***************************************************************************)
EXTENDS Verifier

CONSTANTS none

MCWidth == [version |-> 1, hash |-> 1, index |-> 1, sequence |-> 1, value |-> 2, lockTime |-> 1]
MCVarWidth == <<1, 2, 3>>
MCOp == [dup |-> 1, hash160 |-> 2, checkSig |-> 3, checkMultiSig |-> 4, equalVerify |-> 6]

MCHash == {<<0>>, <<1>>}
MCHash160 == {<<0>>, <<3>>}

In(hash, script) == [prevTxHash |-> <<hash>>, prevTxIndex |-> 0, scriptSig |-> script, sequence |-> 7]
Out(value, script) == [value |-> value, scriptPubKey |-> script]
Tx(version, inputs, outputs) ==
    [version |-> version, inputs |-> inputs, outputs |-> outputs, lockTime |-> 2]
Given(txs, forms, extras) == [tx : txs, form : forms, extra : extras]

Signed == <<0, 0>>

\* Every input there may be, against every sum of outputs.
Payments ==
    {Tx(1, inputs, [i \in 1..n |-> Out(value, <<>>)]) :
        inputs \in {<<>>, <<In(0, Signed)>>, <<In(0, Signed), In(1, Signed)>>, <<In(1, Signed), In(1, Signed)>>,
                    <<In(0, <<>>)>>, <<In(2, Signed)>>, <<In(0, <<3, 4>>), In(1, <<4, 0>>)>>},
        n \in 0..4, value \in {-1, 0, 5, 10, 11}}

\* Scripts of every length up to one too many, and versions.
Lengths == {Tx(1, <<In(0, Zeros(n))>>, <<Out(2, Zeros(m))>>) : n \in 0..7, m \in 0..7}
Versions == {Tx(v, <<In(0, Signed)>>, <<Out(2, <<>>)>>) : v \in -1..3}
Many == {Tx(1, [i \in 1..n |-> In(i - 1, Signed)], [i \in 1..m |-> Out(1, <<>>)]) : n \in 4..5, m \in 4..6}

MCCalls ==
    Given(Payments, {0}, {0})
        \cup Given(Lengths, 0..3, {0, 1})
        \cup Given(Versions, {0}, -8..1)
        \cup Given({Tx(1, <<In(0, Zeros(6)), In(1, Signed)>>, <<Out(3, Zeros(5))>>)}, 0..3, -12..4)
        \cup Given(Many, {0, 1}, {0})

Coin(value, spent, script) == [value |-> value, spent |-> spent, scriptPubKey |-> script]

MCUTXOSets ==
    {<<>>}
        \cup [{<<<<0>>, 0>>} -> {Coin(10, FALSE, P2PKHScript(<<0>>)), Coin(10, TRUE, <<>>)}]
        \cup [{<<<<0>>, 0>>, <<<<1>>, 0>>} ->
                 {Coin(5, FALSE, P2PKHScript(<<3>>)), Coin(10, FALSE, <<>>), Coin(20, TRUE, <<>>)}]
=============================================================================
