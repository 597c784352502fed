--------------------------- MODULE BitcoinProtocol --------------------------
(***************************************************************************)
(* Peers in demo mode (services/sentinel/bitcoin_protocol.go, and the peer *)
(* management and Stop of services/sentinel/server.go).  A round of        *)
(* discovery starts one goroutine per address; each dials, stores its peer *)
(* in a map that no lock guards, sends its version message and becomes the *)
(* handler of the connection, which reads until something fails and then   *)
(* takes its ADDRESS out of the map.  The manager's tick starts another    *)
(* round when the map looks low.                                           *)
(*                                                                         *)
(* A connection is a number, counted from 1 in the order of the goroutines *)
(* started for them.  Messages are abstracted to what the handshake tells  *)
(* apart.  Two goroutines that write the map at once are a data race; the  *)
(* runtime may find it and end the process.                                *)
(***************************************************************************)
EXTENDS Naturals, Sequences, FiniteSets

CONSTANTS
    Address,
    AddressLists,   \* what resolving the seeds may return; <<>> is an error
    InitialLimit,   \* 8 in the code
    LowPeers,       \* 3 in the code
    MaxConns        \* bound: goroutines started to connect

ASSUME ListsAssumption  == \A l \in AddressLists : l \in Seq(Address)
ASSUME BoundsAssumption == InitialLimit \in Nat /\ LowPeers \in Nat /\ MaxConns \in Nat

VARIABLES
    peers,          \* the map: peers[a] is a connection, or None
    conns,          \* conns[n]: address and pc of the n-th, and its handshake so far
    manager,        \* managePeers: "wait" or "done"
    started,        \* Start has been called
    stopped,        \* Stop has been called
    crashed         \* fatal error: concurrent map writes

vars == <<peers, conns, manager, started, stopped, crashed>>
server == <<manager, started, stopped, crashed>>

None == 0
Conn == DOMAIN conns
Live == started /\ ~crashed

Tracked == {a \in Address : peers[a] # None}

\* Dialled and not closed by this side.
Open == {n \in Conn : conns[n].pc \in {"store", "version", "read", "leave"}}

Init ==
    /\ peers = [a \in Address |-> None]
    /\ conns = <<>>
    /\ manager = "wait"
    /\ started = FALSE
    /\ stopped = FALSE
    /\ crashed = FALSE

-----------------------------------------------------------------------------
Dialling(a) == [addr |-> a, pc |-> "dial", gotVersion |-> FALSE, announced |-> FALSE]

\* The addresses a round dials: no more than InitialLimit, connected already or not.
Chosen(l) == SubSeq(l, 1, IF Len(l) < InitialLimit THEN Len(l) ELSE InitialLimit)

ConnectToPeers ==
    \E l \in AddressLists :
        /\ Len(conns) + Len(Chosen(l)) <= MaxConns
        /\ conns' = conns \o [i \in DOMAIN Chosen(l) |-> Dialling(l[i])]

Start ==
    /\ ~started
    /\ started' = TRUE
    /\ ConnectToPeers
    /\ UNCHANGED <<peers, manager, stopped, crashed>>

\* The ticks are 60 seconds apart and a dial takes at most 10: the dials of the round
\* before have ended.
ManageTick ==
    /\ Live
    /\ manager = "wait"
    /\ \A n \in Conn : conns[n].pc # "dial"
    /\ Cardinality(Tracked) < LowPeers
    /\ ConnectToPeers
    /\ UNCHANGED <<peers, server>>

ManageEnds ==
    /\ Live
    /\ manager = "wait"
    /\ stopped
    /\ manager' = "done"
    /\ UNCHANGED <<peers, conns, started, stopped, crashed>>

-----------------------------------------------------------------------------
At(n, pc) == Live /\ conns[n].pc = pc
Go(n, pc) == conns' = [conns EXCEPT ![n].pc = pc]

Dial(n) ==
    /\ At(n, "dial")
    /\ Go(n, "store") \/ Go(n, "gone")
    /\ UNCHANGED <<peers, server>>

\* Mutant: the entry is that of the next connection.
StoreNext(n) ==
    /\ At(n, "store")
    /\ peers' = [peers EXCEPT ![conns[n].addr] = n + 1]
    /\ Go(n, "version")
    /\ UNCHANGED server

Store(n) ==
    /\ At(n, "store")
    /\ peers' = [peers EXCEPT ![conns[n].addr] = n]
    /\ Go(n, "version")
    /\ UNCHANGED server

\* A write to the connection may fail.
SendVersion(n) ==
    /\ At(n, "version")
    /\ Go(n, "read") \/ Go(n, "leave")
    /\ UNCHANGED <<peers, server>>

\* A version message is answered with a verack, and kept if its user agent can be read.
HandleVersion(n) ==
    /\ At(n, "read")
    /\ \/ conns' = [conns EXCEPT ![n].gotVersion = TRUE]
       \/ conns' = [conns EXCEPT ![n].gotVersion = TRUE, ![n].pc = "leave"]
       \/ Go(n, "leave")
    /\ UNCHANGED <<peers, server>>

\* peer_connected is published, then getaddr is sent.
HandleVerAck(n) ==
    /\ At(n, "read")
    /\ \E pc \in {"read", "leave"} :
          conns' = [conns EXCEPT ![n].announced = TRUE, ![n].pc = pc]
    /\ UNCHANGED <<peers, server>>

\* The remote closes, a frame is bad, or the answer to another message cannot be written.
\* There is no read deadline.
ReadFails(n) ==
    /\ At(n, "read")
    /\ Go(n, "leave")
    /\ UNCHANGED <<peers, server>>

\* Mutant: only a connection that is in the map is closed.
CloseTracked(n) ==
    /\ At(n, "leave")
    /\ peers[conns[n].addr] = n
    /\ Go(n, "delete")
    /\ UNCHANGED <<peers, server>>

Close(n) ==
    /\ At(n, "leave")
    /\ Go(n, "delete")
    /\ UNCHANGED <<peers, server>>

\* Mutant: the entry stays.
DeleteNothing(n) ==
    /\ At(n, "delete")
    /\ Go(n, "gone")
    /\ UNCHANGED <<peers, server>>

\* Mutant: the whole map is cleared.
DeleteAll(n) ==
    /\ At(n, "delete")
    /\ peers' = [a \in Address |-> None]
    /\ Go(n, "gone")
    /\ UNCHANGED server

Delete(n) ==
    /\ At(n, "delete")
    /\ peers' = [peers EXCEPT ![conns[n].addr] = None]
    /\ Go(n, "gone")
    /\ UNCHANGED server

Writing(n) == At(n, "store") \/ At(n, "delete")

MapRace ==
    /\ \E m, n \in Conn : m # n /\ Writing(m) /\ Writing(n)
    /\ crashed' = TRUE
    /\ UNCHANGED <<peers, conns, manager, started, stopped>>

\* SentinelServer.Stop: in demo mode it cancels the managers' context and no more.
Stop ==
    /\ Live
    /\ ~stopped
    /\ stopped' = TRUE
    /\ UNCHANGED <<peers, conns, manager, started, crashed>>

\* The steps of a connection that do not wait for the remote.
Runs(n) == Dial(n) \/ Store(n) \/ SendVersion(n) \/ Close(n) \/ Delete(n)

Hears(n) == HandleVersion(n) \/ HandleVerAck(n) \/ ReadFails(n)

Next ==
    \/ Start \/ Stop
    \/ ManageTick \/ ManageEnds
    \/ \E n \in Conn : Runs(n) \/ Hears(n)
    \/ MapRace

Spec == Init /\ [][Next]_vars

\* Goroutines run, dials end by their timeout, writes by the connection's; the remote
\* owes nothing.
FairSpec ==
    /\ Spec
    /\ \A n \in 1..MaxConns : WF_vars(n \in Conn /\ Runs(n))
    /\ SF_vars(ManageEnds)

-----------------------------------------------------------------------------
TypeOK ==
    /\ peers \in [Address -> 0..Len(conns)]
    /\ conns \in Seq([addr : Address,
                      pc : {"dial", "store", "version", "read", "leave", "delete", "gone"},
                      gotVersion : BOOLEAN, announced : BOOLEAN])
    /\ Len(conns) <= MaxConns
    /\ manager \in {"wait", "done"}
    /\ started \in BOOLEAN /\ stopped \in BOOLEAN /\ crashed \in BOOLEAN

\* No entry of the map outlives its connection: an entry leads where its key says and its
\* goroutine will still take it out, although goroutines of the same address replace and
\* delete one another's entries (bitcoin_protocol.go:181, 541).
EntriesAreHandled ==
    \A a \in Tracked :
        LET c == conns[peers[a]]
        IN  c.addr = a /\ c.pc \in {"version", "read", "leave", "delete"}

\* The map may lose sight of an open connection, but only when a round of discovery has
\* dialled an address again (bitcoin_protocol.go:132-137 looks up nothing): two goroutines
\* of one address, and the entry went to, or was deleted by, the other.
LostOnlyByReconnecting ==
    \A n \in Open :
        (conns[n].pc # "store" /\ peers[conns[n].addr] # n) =>
            \E m \in Conn \ {n} : /\ conns[m].addr = conns[n].addr
                                  /\ conns[m].pc \notin {"dial", "store"}

\* A connection that fails is given up: it is closed and leaves the map, or its entry is
\* another connection's (bitcoin_protocol.go:236, 538-547).
FailedIsForgotten ==
    \A n \in 1..MaxConns :
        (n \in Conn /\ conns[n].pc = "leave")
            ~> (crashed \/ (n \notin Open /\ \A a \in Address : peers[a] # n))
=============================================================================
