---------------------------- MODULE MCLedgerFeed ----------------------------
(***************************************************************************)
(* A chain of three blocks over two outpoints: the first creates o1, the   *)
(* second spends it and creates o2, the third spends o2 and creates o1     *)
(* anew with another amount, so that a state of the ledger names its       *)
(* height and a stale block is visible in the map.  Two readers ask for    *)
(* both outputs, for none and for too many; they are interchangeable.      *)
(***************************************************************************)
EXTENDS LedgerFeed, TLC

CONSTANTS c1, c2, o1, o2, h0, h1, h2, h3

MCOutpoint == {o1, o2}
MCHash == {h0, h1, h2, h3}
MCAmount == {5, 7}
MCQuery == {<<o1, o2>>, <<>>, <<o1, o2, o1>>}

Creates(o, a) == [p \in MCOutpoint |-> IF p = o THEN a ELSE Absent]

MCChain ==
    <<[hash |-> h1, height |-> 1, spends |-> {},   outputs |-> Creates(o1, 5), prev |-> h0],
      [hash |-> h2, height |-> 2, spends |-> {o1}, outputs |-> Creates(o2, 7), prev |-> h1],
      [hash |-> h3, height |-> 3, spends |-> {o2}, outputs |-> Creates(o1, 7), prev |-> h2]>>

Readers == Permutations(Client)

MCBlock == {MCChain[n] : n \in 1..3}
=============================================================================
