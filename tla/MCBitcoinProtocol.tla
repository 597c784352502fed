------------------------- MODULE MCBitcoinProtocol --------------------------
(***************************************************************************)
(* Two addresses, three connections: a round of one or two, and rounds     *)
(* that dial the same addresses again.                                     *)
(***************************************************************************)
EXTENDS BitcoinProtocol

CONSTANTS a1, a2

Lists == {<<>>, <<a1>>, <<a1, a2>>}
One == {<<a1>>}
=============================================================================
