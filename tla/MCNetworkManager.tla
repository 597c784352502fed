-------------------------- MODULE MCNetworkManager --------------------------
(***************************************************************************)
(* Two addresses and a table of one; the discoverer of ConnectToNetwork    *)
(* and the one the tick starts; DNS returns nothing, both addresses or one *)
(* of them twice (two seeds may name the same host).  Two connections, so  *)
(* that the second may succeed the first at its address.                   *)
(***************************************************************************)
EXTENDS NetworkManager

CONSTANTS a1, a2, starter, d1

Lists == {<<>>, <<a1, a2>>, <<a2, a2>>}
=============================================================================
