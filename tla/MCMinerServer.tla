---------------------------- MODULE MCMinerServer ----------------------------
(***************************************************************************)
(* Two clients: the one Start connects and its successor, or two that a    *)
(* server started for solo mining is given.  Enough for a dial that ends   *)
(* after its client was disconnected, for two attempts on one client and   *)
(* for a reader that finds no connection.                                  *)
(***************************************************************************)
EXTENDS MinerServer
=============================================================================
