------------------------------- MODULE Merkle -------------------------------
(***************************************************************************)
(* The Merkle root of a block template                                     *)
(* (services/miner/mining_service.go, calculateMerkleRoot).  SHA-256 is    *)
(* taken to be injective: the hash of two nodes is the pair of them.       *)
(***************************************************************************)
EXTENDS Integers, Sequences

CONSTANT ZeroHash       \* the root of no transactions

NodeHash(left, right) == <<left, right>>

\* One turn of the loop: neighbours are paired, the last of an odd number with itself.
NextLevel(hashes) ==
    [i \in 1..((Len(hashes) + 1) \div 2) |->
        NodeHash(hashes[2 * i - 1],
                 IF 2 * i <= Len(hashes) THEN hashes[2 * i] ELSE hashes[2 * i - 1])]

CalculateMerkleRoot(txids) ==
    LET level[k \in 0..Len(txids)] ==
            IF k = 0 THEN txids
            ELSE IF Len(level[k - 1]) = 1 THEN level[k - 1] ELSE NextLevel(level[k - 1])
    IN  IF txids = <<>> THEN ZeroHash ELSE level[Len(txids)][1]

-----------------------------------------------------------------------------
\* The reference: the node above the leaves [i * 2^h + 1 .. (i + 1) * 2^h] from its two
\* halves, where a half without leaves is a copy of its brother.
TreeNode(txids) ==
    LET node[h \in 0..Len(txids), i \in 0..Len(txids)] ==
            IF h = 0 THEN txids[i + 1]
            ELSE NodeHash(node[h - 1, 2 * i],
                          node[h - 1, IF (2 * i + 1) * 2^(h - 1) < Len(txids)
                                      THEN 2 * i + 1 ELSE 2 * i])
    IN  node

MerkleTreeRoot(txids) ==
    TreeNode(txids)[CHOOSE h \in 0..Len(txids) :
                       /\ 2^h >= Len(txids)
                       /\ \A g \in 0..(h - 1) : 2^g < Len(txids), 0]
=============================================================================
