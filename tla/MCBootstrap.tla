---------------------------- MODULE MCBootstrap -----------------------------
(***************************************************************************)
(* A chain whose later blocks are empty.  Block 1 spends an output of      *)
(* block 0 and creates and spends one of its own, block 2 spends the other *)
(* output of block 0.  The margin is larger than the height of the chain,  *)
(* so that the subtraction wraps and a snapshot is asked for near genesis. *)
(***************************************************************************)
EXTENDS Bootstrap

CONSTANTS a, b, c, e

MCTxs ==
    [h \in 0..Target |->
        CASE h = 0 -> <<[ins |-> <<>>, outs |-> <<a, e>>]>>
          [] h = 1 -> <<[ins |-> <<a>>, outs |-> <<b>>], [ins |-> <<b>>, outs |-> <<c>>]>>
          [] h = 2 -> <<[ins |-> <<e>>, outs |-> <<>>]>>
          [] OTHER -> <<>>]

\* From genesis; and from height 2, with an empty table or one without block 1.
MCStarts == {<<0, 0>>, <<2, 0>>, <<2, 1>>}

\* From genesis only.
Genesis == {<<0, 0>>}

ASSUME ChainIsValid
=============================================================================
