--------------------------- MODULE MCMiningService --------------------------
(***************************************************************************)
(* Two workers, two nonces, testnet.  A header of second 0 with nonce 1    *)
(* meets its target, no other does.                                        *)
(***************************************************************************)
EXTENDS MiningService

CONSTANTS w1, w2, coinbase, zero, none

MCHeaderHash ==
    [x \in (0..MaxTime) \X (0..LastNonce) |->
        CASE x = <<0, 1>> -> 1
          [] x = <<1, 0>> -> 500
          [] OTHER -> 2000000]

\* The Merkle root, against the tree it is the root of, and a list without transactions.
ASSUME \A n \in 1..9 : LET txids == [i \in 1..n |-> i]
                       IN  CalculateMerkleRoot(txids) = MerkleTreeRoot(txids)
ASSUME CalculateMerkleRoot(<<>>) = ZeroHash
=============================================================================
