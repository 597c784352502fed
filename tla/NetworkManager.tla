--------------------------- MODULE NetworkManager ---------------------------
(***************************************************************************)
(* The live-network peer manager (services/sentinel/network_manager.go).   *)
(* Discovery goroutines connect to peers: one at start, in the caller of   *)
(* ConnectToNetwork, and one more each time the maintenance tick finds too *)
(* few; a handler goroutine per connection reads from it and, when it      *)
(* ends, disconnects its ADDRESS; the maintenance tick drops peers it has  *)
(* not heard from; Stop cancels the context and drops them all.            *)
(*                                                                         *)
(* One mutex guards the two maps.  connectToPeer holds it while it dials,  *)
(* so the lock is a variable; every other critical section is one step,    *)
(* taken when the lock is free.  The network (dial, read, the addresses    *)
(* DNS returns) is external.  A connection is a number, counted from 1.    *)
(***************************************************************************)
EXTENDS Integers, Sequences, FiniteSets

CONSTANTS
    Address,
    Discoverer,         \* goroutines that run discoverAndConnectPeers
    Starter,            \* the one that ConnectToNetwork is
    AddressLists,       \* what resolving the seeds may return
    MaxPeers,           \* 8 in the code
    MinPeers,           \* 3 in the code
    MaxTries,           \* 10 in the code
    MaxConns,           \* bound: connections that are established
    Nobody              \* no holder of the lock

ASSUME DiscovererAssumption == Starter \in Discoverer /\ Nobody \notin Discoverer
ASSUME AddressAssumption ==
    IsFiniteSet(Address) /\ \A l \in AddressLists : l \in Seq(Address)
ASSUME BoundsAssumption ==
    /\ MaxPeers \in Nat /\ MinPeers \in Nat /\ MaxTries \in Nat /\ MaxConns \in Nat

None == 0
Conn == 1..MaxConns

VARIABLES
    activePeers,        \* activePeers[a]: the connection of the peer at a, or None
    peerConnections,    \* the second map, of the connections themselves
    open,               \* connections this side has not closed
    address,            \* address[n]: where connection n leads, for n established
    handler,            \* handler[n]: what the handler of connection n does
    lock,               \* the discoverer that dials under the mutex, or Nobody
    disc,               \* disc[d]: pc, addresses, next index, connected so far
    maintain,           \* the maintenance goroutine
    isConnected,
    ctxDone,
    stop,               \* Stop: "no", "cancelled" or "returned"
    announced,          \* history: connected minus disconnected events of each address
    stalled             \* history: addresses at which the cleanup has found a stale peer

maps == <<activePeers, peerConnections, open, announced>>
owner == <<isConnected, ctxDone, stop>>
vars == <<maps, address, handler, lock, disc, maintain, owner, stalled>>

Peers == {a \in Address : activePeers[a] # None}
Alive(n) == handler[n] \in {"check", "read", "exit"}
Idle == [pc |-> "none", list |-> <<>>, i |-> 1, connected |-> 0]

Init ==
    /\ activePeers = [a \in Address |-> None]
    /\ peerConnections = [a \in Address |-> None]
    /\ open = {}
    /\ address = <<>>
    /\ handler = [n \in Conn |-> "none"]
    /\ lock = Nobody
    /\ disc = [d \in Discoverer |-> IF d = Starter THEN [Idle EXCEPT !.pc = "resolve"] ELSE Idle]
    /\ maintain = "wait"
    /\ isConnected = FALSE
    /\ ctxDone = FALSE
    /\ stop = "no"
    /\ announced = [a \in Address |-> 0]
    /\ stalled = {}

-----------------------------------------------------------------------------
(***************************************************************************)
(* discoverAndConnectPeers.  It never looks at the context.                *)
(***************************************************************************)
\* The goroutine ends; in ConnectToNetwork the caller goes on and sets isConnected.
Leave(d) ==
    /\ disc' = [disc EXCEPT ![d] = Idle]
    /\ isConnected' = (isConnected \/ d = Starter)

Resolve(d) ==
    /\ disc[d].pc = "resolve"
    /\ \E l \in AddressLists :
          IF l = <<>> THEN Leave(d)
          ELSE /\ disc' = [disc EXCEPT ![d].pc = "loop", ![d].list = l]
               /\ UNCHANGED isConnected
    /\ UNCHANGED <<maps, address, handler, lock, maintain, ctxDone, stop, stalled>>

\* The loop is over: enough connected, enough tried, or no address left.
Over(d) ==
    \/ disc[d].connected >= MinPeers
    \/ disc[d].i > MaxTries
    \/ disc[d].i > Len(disc[d].list)

EndDiscovery(d) ==
    /\ disc[d].pc = "loop"
    /\ Over(d)
    /\ Leave(d)
    /\ UNCHANGED <<maps, address, handler, lock, maintain, ctxDone, stop, stalled>>

Candidate(d) == disc[d].list[disc[d].i]

\* Mutant: one peer more than the limit.
BeginConnectOneMore(d) ==
    /\ disc[d].pc = "loop"
    /\ ~Over(d)
    /\ lock = Nobody
    /\ IF activePeers[Candidate(d)] # None \/ Cardinality(Peers) > MaxPeers
       THEN disc' = [disc EXCEPT ![d].i = @ + 1] /\ UNCHANGED lock
       ELSE disc' = [disc EXCEPT ![d].pc = "dial"] /\ lock' = d
    /\ UNCHANGED <<maps, address, handler, maintain, owner, stalled>>

\* Mutant: the mutex is given back for the time of the dial.
BeginConnectUnlocked(d) ==
    /\ disc[d].pc = "loop"
    /\ ~Over(d)
    /\ lock = Nobody
    /\ disc' = IF activePeers[Candidate(d)] # None \/ Cardinality(Peers) >= MaxPeers
               THEN [disc EXCEPT ![d].i = @ + 1]
               ELSE [disc EXCEPT ![d].pc = "dial"]
    /\ UNCHANGED <<maps, address, handler, lock, maintain, owner, stalled>>

\* connectToPeer takes the lock and makes its two checks; it keeps the lock to dial.
BeginConnect(d) ==
    /\ disc[d].pc = "loop"
    /\ ~Over(d)
    /\ lock = Nobody
    /\ IF activePeers[Candidate(d)] # None \/ Cardinality(Peers) >= MaxPeers
       THEN disc' = [disc EXCEPT ![d].i = @ + 1] /\ UNCHANGED lock
       ELSE disc' = [disc EXCEPT ![d].pc = "dial"] /\ lock' = d
    /\ UNCHANGED <<maps, address, handler, maintain, owner, stalled>>

\* Mutant: a failed dial takes back a count that was not made.
DialFailsUncounts(d) ==
    /\ disc[d].pc = "dial"
    /\ lock' = Nobody
    /\ disc' = [disc EXCEPT ![d].pc = "loop", ![d].i = @ + 1, ![d].connected = @ - 1]
    /\ UNCHANGED <<maps, address, handler, maintain, owner, stalled>>

DialFails(d) ==
    /\ disc[d].pc = "dial"
    /\ lock' = Nobody
    /\ disc' = [disc EXCEPT ![d].pc = "loop", ![d].i = @ + 1]
    /\ UNCHANGED <<maps, address, handler, maintain, owner, stalled>>

\* Both maps, the handler goroutine, the event; the handshake cannot fail.
DialSucceeds(d) ==
    /\ disc[d].pc = "dial"
    /\ Len(address) < MaxConns
    /\ LET n == Len(address) + 1
           a == Candidate(d)
       IN  /\ activePeers' = [activePeers EXCEPT ![a] = n]
           /\ peerConnections' = [peerConnections EXCEPT ![a] = n]
           /\ open' = open \cup {n}
           /\ address' = Append(address, a)
           /\ handler' = [handler EXCEPT ![n] = "check"]
           /\ announced' = [announced EXCEPT ![a] = @ + 1]
    /\ lock' = Nobody
    /\ disc' = [disc EXCEPT ![d].pc = "loop", ![d].i = @ + 1, ![d].connected = @ + 1]
    /\ UNCHANGED <<maintain, owner, stalled>>

Discovery(d) ==
    Resolve(d) \/ EndDiscovery(d) \/ BeginConnect(d) \/ DialFails(d) \/ DialSucceeds(d)

-----------------------------------------------------------------------------
\* Mutant: the event is published whether or not there was a peer.
DisconnectAnnouncesAll(A) ==
    LET gone == A \cap Peers
    IN  /\ open' = open \ {activePeers[a] : a \in gone}
        /\ activePeers' = [a \in Address |-> IF a \in gone THEN None ELSE activePeers[a]]
        /\ peerConnections' = [a \in Address |-> IF a \in gone THEN None ELSE peerConnections[a]]
        /\ announced' = [a \in Address |-> IF a \in A THEN announced[a] - 1 ELSE announced[a]]

\* disconnectPeerUnsafe, of each address of A that has a peer.
Disconnect(A) ==
    LET gone == A \cap Peers
    IN  /\ open' = open \ {activePeers[a] : a \in gone}
        /\ activePeers' = [a \in Address |-> IF a \in gone THEN None ELSE activePeers[a]]
        /\ peerConnections' = [a \in Address |-> IF a \in gone THEN None ELSE peerConnections[a]]
        /\ announced' = [a \in Address |-> IF a \in gone THEN announced[a] - 1 ELSE announced[a]]

(***************************************************************************)
(* handlePeerMessages: one goroutine per connection.                       *)
(***************************************************************************)
HandlerIs(n, pc) == handler' = [handler EXCEPT ![n] = pc]

\* Mutant: the loop does not look at the context.
CheckNothing(n) ==
    /\ handler[n] = "check"
    /\ HandlerIs(n, "read")
    /\ UNCHANGED <<maps, address, lock, disc, maintain, owner, stalled>>

CheckContext(n) ==
    /\ handler[n] = "check"
    /\ HandlerIs(n, IF ctxDone THEN "exit" ELSE "read")
    /\ UNCHANGED <<maps, address, lock, disc, maintain, owner, stalled>>

ReadMessage(n) ==
    /\ handler[n] = "read"
    /\ n \in open
    /\ HandlerIs(n, "check")
    /\ UNCHANGED <<maps, address, lock, disc, maintain, owner, stalled>>

\* The remote side, the 30 second deadline, or a Close by another goroutine.
ReadFails(n) ==
    /\ handler[n] = "read"
    /\ HandlerIs(n, "exit")
    /\ UNCHANGED <<maps, address, lock, disc, maintain, owner, stalled>>

\* Mutant: the handler returns without disconnecting.
HandlerJustReturns(n) ==
    /\ handler[n] = "exit"
    /\ HandlerIs(n, "done")
    /\ UNCHANGED <<maps, address, lock, disc, maintain, owner, stalled>>

\* The deferred disconnectPeer(peer.Address).
HandlerExits(n) ==
    /\ handler[n] = "exit"
    /\ lock = Nobody
    /\ HandlerIs(n, "done")
    /\ Disconnect({address[n]})
    /\ UNCHANGED <<address, lock, disc, maintain, owner, stalled>>

HandlerStep(n) == CheckContext(n) \/ ReadMessage(n) \/ ReadFails(n) \/ HandlerExits(n)

(***************************************************************************)
(* maintainPeerConnections.                                                *)
(***************************************************************************)
Tick ==
    /\ maintain = "wait"
    /\ lock = Nobody
    /\ maintain' = IF Cardinality(Peers) < MinPeers THEN "discover" ELSE "cleanup"
    /\ UNCHANGED <<maps, address, handler, lock, disc, owner, stalled>>

Spawn(d) ==
    /\ maintain = "discover"
    /\ d # Starter
    /\ disc[d].pc = "none"
    /\ disc' = [disc EXCEPT ![d].pc = "resolve"]
    /\ maintain' = "cleanup"
    /\ UNCHANGED <<maps, address, handler, lock, owner, stalled>>

\* Mutant: the cleanup takes a peer that has just been heard from.
CleanupAny ==
    /\ maintain = "cleanup"
    /\ lock = Nobody
    /\ \E stale \in SUBSET Peers : Disconnect(stale)
    /\ maintain' = "wait"
    /\ UNCHANGED <<address, handler, lock, disc, owner, stalled>>

\* cleanupStalePeers: a peer is stale when its handler has not run for 5 minutes.
Cleanup ==
    /\ maintain = "cleanup"
    /\ lock = Nobody
    /\ \E stale \in SUBSET Peers :
          /\ Disconnect(stale)
          /\ stalled' = stalled \cup stale
    /\ maintain' = "wait"
    /\ UNCHANGED <<address, handler, lock, disc, owner>>

MaintainEnds ==
    /\ maintain = "wait"
    /\ ctxDone
    /\ maintain' = "done"
    /\ UNCHANGED <<maps, address, handler, lock, disc, owner, stalled>>

(***************************************************************************)
(* Stop: the owner calls it after ConnectToNetwork has returned.           *)
(***************************************************************************)
StopCancels ==
    /\ stop = "no"
    /\ isConnected
    /\ ctxDone' = TRUE
    /\ stop' = "cancelled"
    /\ UNCHANGED <<maps, address, handler, lock, disc, maintain, isConnected, stalled>>

StopDisconnects ==
    /\ stop = "cancelled"
    /\ lock = Nobody
    /\ Disconnect(Peers)
    /\ isConnected' = FALSE
    /\ stop' = "returned"
    /\ UNCHANGED <<address, handler, lock, disc, maintain, ctxDone, stalled>>

Next ==
    \/ \E d \in Discoverer : Discovery(d) \/ Spawn(d)
    \/ \E n \in Conn : HandlerStep(n)
    \/ Tick \/ Cleanup \/ MaintainEnds
    \/ StopCancels \/ StopDisconnects

Spec == Init /\ [][Next]_vars

\* Goroutines run; a dial and a read end by their timeouts; a waiter for the mutex gets it
\* (sync.RWMutex does not starve writers); select takes ctx.Done() at some pass of its loop.
Fairness ==
    /\ \A d \in Discoverer :
          /\ SF_vars(BeginConnect(d))
          /\ WF_vars(Resolve(d) \/ EndDiscovery(d) \/ DialFails(d) \/ DialSucceeds(d))
    /\ \A n \in Conn :
          /\ SF_vars(HandlerExits(n))
          /\ WF_vars(CheckContext(n) \/ ReadMessage(n) \/ ReadFails(n))
    /\ WF_vars(\E d \in Discoverer : Spawn(d))
    /\ SF_vars(Cleanup)
    /\ SF_vars(MaintainEnds)
    /\ SF_vars(StopDisconnects)

FairSpec == Spec /\ Fairness

-----------------------------------------------------------------------------
DiscState == [pc : {"none", "resolve", "loop", "dial"}, list : Seq(Address),
              i : Nat \ {0}, connected : Nat]

TypeOK ==
    /\ activePeers \in [Address -> Conn \cup {None}]
    /\ peerConnections \in [Address -> Conn \cup {None}]
    /\ open \subseteq Conn
    /\ address \in Seq(Address) /\ Len(address) <= MaxConns
    /\ handler \in [Conn -> {"none", "check", "read", "exit", "done"}]
    /\ lock \in Discoverer \cup {Nobody}
    /\ disc \in [Discoverer -> DiscState]
    /\ maintain \in {"wait", "discover", "cleanup", "done"}
    /\ isConnected \in BOOLEAN /\ ctxDone \in BOOLEAN
    /\ stop \in {"no", "cancelled", "returned"}
    /\ announced \in [Address -> Int]
    /\ stalled \subseteq Address

\* "Maximum peer limit reached" (network_manager.go:179): however many discoverers run at
\* once, there are never more than maxPeers peers.
PeerBound == Cardinality(Peers) <= MaxPeers

\* The two maps agree, and an open connection is in them: none is leaked when a handler,
\* the cleanup, Stop and a reconnection to the same address meet (:213-214, 400-406).
NoConnectionLeaks ==
    /\ activePeers = peerConnections
    /\ open = {activePeers[a] : a \in Peers}

\* Each peer in the table leads where the table says and has a handler that will read it
\* or take it out: a dead peer cannot keep its place (:217, 247).
PeersAreServed ==
    \A a \in Peers : LET n == activePeers[a]
                     IN  n \in DOMAIN address /\ address[n] = a /\ Alive(n)

\* A consumer that counts peer_connected and peer_disconnected events has the table: a
\* connection's end is announced once, whoever of handler, cleanup and Stop ends it.
EventsMatchTable == \A a \in Address : announced[a] = IF a \in Peers THEN 1 ELSE 0

\* disconnectPeer is given an address, not a connection (:247, 393), and a handler that ends
\* late disconnects its successor.  Only one way leads there before Stop is called: the cleanup
\* has dropped a peer whose handler was silent (:336-341), and the address was dialled again.
\* At every other address the table holds the connection of each handler that is alive.
HandlerOwnsItsPeer ==
    ~ctxDone =>
        \A n \in DOMAIN address :
            Alive(n) /\ address[n] \notin stalled => activePeers[address[n]] = n

Quiet ==
    /\ open = {}
    /\ \A n \in DOMAIN address : handler[n] = "done"
    /\ \A d \in Discoverer : disc[d].pc = "none"
    /\ maintain = "done"

\* When Stop returns, and logs that all connections are closed (:450), a discoverer may
\* be dialling still: it does not look at the context, and connects after Stop has emptied
\* the table.  Such a connection does not stay: its handler finds the context done.  After
\* Stop every goroutine ends and every connection is closed in the end.
StopQuiesces == (stop = "cancelled") ~> Quiet
=============================================================================
