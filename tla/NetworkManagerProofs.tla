------------------------ MODULE NetworkManagerProofs ------------------------
(***************************************************************************)
(* Proofs about the peer manager, for every set of addresses and           *)
(* discoverers, every limit and also when handlers stall: the peer limit   *)
(* is never passed, no connection is leaked, every peer in the table is    *)
(* served by a handler, the events tell what the table says, and where the *)
(* cleanup has found no stale peer a handler's address is its own until it *)
(* disconnects.                                                            *)
(*                                                                         *)
(* The limit and the "already connected" check are tested before the dial  *)
(* and used after it, so the induction needs what the mutex is held for:   *)
(* that they still hold while the holder dials (WhileDialing).             *)
(***************************************************************************)
EXTENDS NetworkManager, FiniteSetTheorems, TLAPS

\* The holder of the lock is the discoverer that dials.
LockIsDialer == \A d \in Discoverer : lock = d <=> disc[d].pc = "dial"

\* What BeginConnect has checked still holds when the dial ends.
WhileDialing ==
    \A d \in Discoverer : disc[d].pc = "dial" =>
        /\ disc[d].i <= Len(disc[d].list)
        /\ activePeers[Candidate(d)] = None
        /\ Cardinality(Peers) < MaxPeers

\* A connection that is not established has no handler.
NotYetHandled == \A n \in Conn : n > Len(address) => handler[n] = "none"

TableOK ==
    /\ PeerBound
    /\ NoConnectionLeaks
    /\ PeersAreServed
    /\ EventsMatchTable

IInv ==
    /\ TypeOK
    /\ LockIsDialer
    /\ WhileDialing
    /\ NotYetHandled
    /\ TableOK

USE DiscovererAssumption, AddressAssumption, BoundsAssumption DEF None, Conn

-----------------------------------------------------------------------------
\* The peers are finitely many, and their number is a natural number.
LEMMA PeersFinite == IsFiniteSet(Peers) /\ Cardinality(Peers) \in Nat
<1>1. Peers \in SUBSET Address
    BY DEF Peers
<1>2. IsFiniteSet(Peers)
    BY <1>1, FS_Subset
<1>3. QED
    BY <1>2, FS_CardinalityType

\* What a discoverer's step makes of its state.
LEMMA DiscStateUpdates ==
    ASSUME NEW s \in DiscState
    PROVE  /\ \A pc \in {"none", "resolve", "loop", "dial"} : [s EXCEPT !.pc = pc] \in DiscState
           /\ [s EXCEPT !.i = @ + 1] \in DiscState
           /\ [s EXCEPT !.pc = "loop", !.i = @ + 1] \in DiscState
           /\ [s EXCEPT !.pc = "loop", !.i = @ + 1, !.connected = @ + 1] \in DiscState
<1>1. /\ s.i + 1 \in Nat \ {0} /\ s.connected + 1 \in Nat
      /\ s = [pc |-> s.pc, list |-> s.list, i |-> s.i, connected |-> s.connected]
      /\ s.pc \in {"none", "resolve", "loop", "dial"} /\ s.list \in Seq(Address)
      /\ s.i \in Nat \ {0} /\ s.connected \in Nat
    BY DEF DiscState
<1>2. [s EXCEPT !.i = @ + 1] \in DiscState
    BY <1>1 DEF DiscState
<1>3. [s EXCEPT !.pc = "loop", !.i = @ + 1] \in DiscState
    BY <1>1 DEF DiscState
<1>4. [s EXCEPT !.pc = "loop", !.i = @ + 1, !.connected = @ + 1] \in DiscState
    BY <1>1 DEF DiscState
<1>5. \A pc \in {"none", "resolve", "loop", "dial"} : [s EXCEPT !.pc = pc] \in DiscState
    BY <1>1 DEF DiscState
<1>6. QED
    BY <1>2, <1>3, <1>4, <1>5

\* Tables are empty and nobody is at work.
LEMMA InitIInv == Init => IInv
<1> SUFFICES ASSUME Init PROVE IInv
    OBVIOUS
<1>1. Peers = {}
    BY DEF Init, Peers
<1>2. Cardinality(Peers) = 0
    BY <1>1, FS_EmptySet
<1>3. TypeOK
    <2>1. disc \in [Discoverer -> DiscState]
        <3>1. Idle \in DiscState
            BY DEF Idle, DiscState
        <3>2. [Idle EXCEPT !.pc = "resolve"] \in DiscState
            BY <3>1, DiscStateUpdates
        <3>3. QED
            BY <3>1, <3>2 DEF Init
    <2>2. address \in Seq(Address) /\ Len(address) <= MaxConns
        BY DEF Init
    <2>3. /\ activePeers \in [Address -> Conn \cup {None}]
          /\ peerConnections \in [Address -> Conn \cup {None}]
          /\ announced \in [Address -> Int]
        BY DEF Init
    <2>4. QED
        BY <2>1, <2>2, <2>3 DEF Init, TypeOK
<1>4. LockIsDialer /\ WhileDialing
    BY DEF Init, Idle, LockIsDialer, WhileDialing
<1>5. NotYetHandled
    BY DEF Init, NotYetHandled
<1>6. TableOK
    BY <1>1, <1>2 DEF Init, TableOK, PeerBound, NoConnectionLeaks, PeersAreServed,
                      EventsMatchTable
<1>7. QED
    BY <1>3, <1>4, <1>5, <1>6 DEF IInv

-----------------------------------------------------------------------------
\* Taking peers out of the table, whoever does it, leaves the table in order; the peers
\* that stay keep their connections.
LEMMA DisconnectKeeps ==
    ASSUME IInv, NEW A \in SUBSET Address, Disconnect(A)
    PROVE  /\ activePeers' \in [Address -> Conn \cup {None}]
           /\ peerConnections' \in [Address -> Conn \cup {None}]
           /\ open' \subseteq Conn
           /\ announced' \in [Address -> Int]
           /\ Peers' = Peers \ A
           /\ \A a \in Peers' : activePeers'[a] = activePeers[a]
           /\ PeerBound' /\ NoConnectionLeaks' /\ EventsMatchTable'
<1>1. /\ activePeers' \in [Address -> Conn \cup {None}]
      /\ peerConnections' \in [Address -> Conn \cup {None}]
      /\ open' \subseteq Conn
      /\ announced' \in [Address -> Int]
    <2>1. activePeers' \in [Address -> Conn \cup {None}]
        BY DEF Disconnect, IInv, TypeOK
    <2>2. peerConnections' \in [Address -> Conn \cup {None}]
        BY DEF Disconnect, IInv, TypeOK
    <2>3. open' \subseteq Conn
        BY DEF Disconnect, IInv, TypeOK
    <2>4. \A a \in Address : announced[a] \in Int /\ announced[a] - 1 \in Int
        BY DEF IInv, TypeOK
    <2>5. announced' \in [Address -> Int]
        BY <2>4 DEF Disconnect
    <2>6. QED
        BY <2>1, <2>2, <2>3, <2>5
<1>2. Peers' = Peers \ A
    BY DEF Disconnect, Peers
<1>3. \A a \in Peers' : activePeers'[a] = activePeers[a]
    BY <1>2 DEF Disconnect, Peers
<1>4. PeerBound'
    <2>1. Cardinality(Peers') <= Cardinality(Peers) /\ Cardinality(Peers') \in Nat
        <3>1. Peers' \in SUBSET Peers
            BY <1>2
        <3>2. IsFiniteSet(Peers') /\ Cardinality(Peers') <= Cardinality(Peers)
            BY <3>1, PeersFinite, FS_Subset
        <3>3. QED
            BY <3>2, FS_CardinalityType
    <2>2. QED
        BY <2>1, PeersFinite DEF PeerBound, IInv, TableOK
<1>5. NoConnectionLeaks'
    <2>1. activePeers' = peerConnections'
        BY DEF Disconnect, IInv, TableOK, NoConnectionLeaks
    <2>2. \A a, b \in Peers : activePeers[a] = activePeers[b] => a = b
        BY DEF IInv, TableOK, PeersAreServed
    <2>3. open' = {activePeers[a] : a \in Peers} \ {activePeers[a] : a \in A \cap Peers}
        BY DEF Disconnect, IInv, TableOK, NoConnectionLeaks
    <2>4. open' = {activePeers[a] : a \in Peers'}
        BY <1>2, <2>2, <2>3
    <2>5. QED
        BY <1>3, <2>1, <2>4 DEF NoConnectionLeaks
<1>6. EventsMatchTable'
    BY <1>2 DEF Disconnect, IInv, TypeOK, TableOK, EventsMatchTable, Peers
<1>7. QED
    BY <1>1, <1>2, <1>3, <1>4, <1>5, <1>6

\* A step that leaves the table, the connections and the lock alone, and ends no handler
\* and starts no dial, keeps the invariant.
LEMMA TableUntouched ==
    ASSUME IInv, TypeOK', UNCHANGED <<maps, address, lock>>,
           \A n \in Conn : (Alive(n) => Alive(n)') /\ (handler[n] = "none" => handler'[n] = "none"),
           \A d \in Discoverer : /\ disc'[d].pc = "dial" <=> disc[d].pc = "dial"
                                 /\ disc'[d].pc = "dial" => disc'[d] = disc[d]
    PROVE  IInv'
<1>1. Peers' = Peers
    BY DEF Peers, maps
<1>2. LockIsDialer' /\ NotYetHandled'
    BY DEF IInv, LockIsDialer, NotYetHandled, maps
<1>3. WhileDialing'
    BY <1>1 DEF IInv, WhileDialing, Candidate, maps
<1>4. PeerBound' /\ NoConnectionLeaks' /\ EventsMatchTable'
    BY <1>1 DEF IInv, TableOK, PeerBound, NoConnectionLeaks, EventsMatchTable, maps
<1>5. PeersAreServed'
    BY <1>1 DEF IInv, TableOK, TypeOK, PeersAreServed, Peers, maps
<1>6. QED
    BY <1>2, <1>3, <1>4, <1>5 DEF IInv, TableOK

-----------------------------------------------------------------------------
\* Discovery, one lemma per step.
LEMMA LeaveStep ==
    ASSUME IInv, NEW d \in Discoverer, Resolve(d) \/ EndDiscovery(d)
    PROVE  IInv'
<1>1. disc' \in [Discoverer -> DiscState] /\ isConnected' \in BOOLEAN
    <2>1. Idle \in DiscState
        BY DEF Idle, DiscState
    <2>2. CASE Leave(d)
        BY <2>1, <2>2 DEF Leave, IInv, TypeOK
    <2>3. ASSUME NEW l \in AddressLists,
                 disc' = [disc EXCEPT ![d].pc = "loop", ![d].list = l],
                 UNCHANGED isConnected
          PROVE  disc' \in [Discoverer -> DiscState] /\ isConnected' \in BOOLEAN
        BY <2>3 DEF IInv, TypeOK, DiscState
    <2>4. QED
        BY <2>2, <2>3 DEF Resolve, EndDiscovery
<1>2. TypeOK'
    BY <1>1 DEF Resolve, EndDiscovery, IInv, TypeOK, maps
<1>3. \A e \in Discoverer : /\ disc'[e].pc = "dial" <=> disc[e].pc = "dial"
                            /\ disc'[e].pc = "dial" => disc'[e] = disc[e]
    <2>1. disc[d].pc # "dial"
        BY DEF Resolve, EndDiscovery
    <2>2. disc'[d].pc # "dial"
        BY DEF Resolve, EndDiscovery, Leave, Idle, IInv, TypeOK, DiscState
    <2>3. \A e \in Discoverer \ {d} : disc'[e] = disc[e]
        BY DEF Resolve, EndDiscovery, Leave, IInv, TypeOK
    <2>4. QED
        BY <2>1, <2>2, <2>3
<1>4. UNCHANGED <<maps, address, lock, handler>>
    BY DEF Resolve, EndDiscovery, maps
<1>5. QED
    BY <1>2, <1>3, <1>4, TableUntouched DEF Alive

\* A discoverer takes the mutex to dial if there is room and its candidate is not in the
\* table, and goes on to the next candidate if not.
LEMMA BeginConnectStep ==
    ASSUME IInv, NEW d \in Discoverer, BeginConnect(d)
    PROVE  IInv'
<1>1. CASE activePeers[Candidate(d)] # None \/ Cardinality(Peers) >= MaxPeers
    <2>1. disc' = [disc EXCEPT ![d].i = @ + 1]
        BY <1>1 DEF BeginConnect
    <2>2. TypeOK'
        <3>1. disc' = [disc EXCEPT ![d] = [disc[d] EXCEPT !.i = @ + 1]]
            BY <2>1
        <3>2. disc' \in [Discoverer -> DiscState]
            BY <3>1, DiscStateUpdates DEF IInv, TypeOK
        <3>3. QED
            BY <1>1, <3>2 DEF BeginConnect, IInv, TypeOK, maps, owner
    <2>3. \A e \in Discoverer : /\ disc'[e].pc = "dial" <=> disc[e].pc = "dial"
                                /\ disc'[e].pc = "dial" => disc'[e] = disc[e]
        BY <2>1 DEF BeginConnect, IInv, TypeOK, DiscState
    <2>4. UNCHANGED <<maps, address, lock, handler>>
        BY <1>1 DEF BeginConnect, maps
    <2>5. QED
        BY <2>2, <2>3, <2>4, TableUntouched DEF Alive
<1>2. CASE ~(activePeers[Candidate(d)] # None \/ Cardinality(Peers) >= MaxPeers)
    <2>1. /\ disc' = [disc EXCEPT ![d].pc = "dial"]
          /\ lock = Nobody /\ lock' = d
          /\ disc[d].pc = "loop" /\ ~Over(d)
          /\ UNCHANGED <<maps, address, handler, maintain, owner, stalled>>
        BY <1>2 DEF BeginConnect
    <2>2. TypeOK'
        BY <2>1 DEF IInv, TypeOK, DiscState, maps, owner
    <2>3. \A e \in Discoverer : disc[e].pc # "dial"
        BY <2>1 DEF IInv, LockIsDialer
    <2>4. LockIsDialer' /\ NotYetHandled'
        BY <2>1, <2>3 DEF IInv, TypeOK, LockIsDialer, NotYetHandled
    <2>5. Peers' = Peers
        BY <2>1 DEF Peers, maps
    <2>6. /\ disc'[d].i = disc[d].i /\ disc'[d].list = disc[d].list
          /\ \A e \in Discoverer \ {d} : disc'[e] = disc[e]
        BY <2>1 DEF IInv, TypeOK, DiscState
    <2>7. WhileDialing'
        <3>1. disc[d].i <= Len(disc[d].list)
            BY <2>1 DEF Over, IInv, TypeOK, DiscState
        <3>2. activePeers[Candidate(d)] = None /\ Cardinality(Peers) < MaxPeers
            BY <1>2, PeersFinite
        <3>3. QED
            BY <2>1, <2>3, <2>5, <2>6, <3>1, <3>2 DEF WhileDialing, Candidate, maps
    <2>8. TableOK'
        BY <2>1, <2>5 DEF IInv, TableOK, PeerBound, NoConnectionLeaks, PeersAreServed,
                          EventsMatchTable, Alive, maps
    <2>9. QED
        BY <2>2, <2>4, <2>7, <2>8 DEF IInv
<1>3. QED
    BY <1>1, <1>2

\* A dial that fails gives the mutex back.
LEMMA DialFailsStep ==
    ASSUME IInv, NEW d \in Discoverer, DialFails(d)
    PROVE  IInv'
<1>1. /\ disc[d].pc = "dial" /\ lock = d
      /\ disc' = [disc EXCEPT ![d].pc = "loop", ![d].i = @ + 1]
      /\ lock' = Nobody
      /\ UNCHANGED <<maps, address, handler, maintain, owner, stalled>>
    BY DEF DialFails, IInv, LockIsDialer
<1>2. TypeOK'
    <2>1. disc' = [disc EXCEPT ![d] = [disc[d] EXCEPT !.pc = "loop", !.i = @ + 1]]
        BY <1>1
    <2>2. disc' \in [Discoverer -> DiscState]
        BY <2>1, DiscStateUpdates DEF IInv, TypeOK
    <2>3. QED
        BY <1>1, <2>2 DEF IInv, TypeOK, maps, owner
<1>3. \A e \in Discoverer : disc'[e].pc # "dial"
    BY <1>1 DEF IInv, TypeOK, LockIsDialer, DiscState
<1>4. LockIsDialer' /\ WhileDialing' /\ NotYetHandled'
    BY <1>1, <1>3 DEF IInv, LockIsDialer, WhileDialing, NotYetHandled
<1>5. Peers' = Peers
    BY <1>1 DEF Peers, maps
<1>6. TableOK'
    BY <1>1, <1>5 DEF IInv, TableOK, PeerBound, NoConnectionLeaks, PeersAreServed,
                      EventsMatchTable, Alive, maps
<1>7. QED
    BY <1>2, <1>4, <1>6 DEF IInv

\* A dial that succeeds enters the peer, in both maps, with a handler.
LEMMA DialSucceedsStep ==
    ASSUME IInv, NEW d \in Discoverer, DialSucceeds(d)
    PROVE  IInv'
<1> DEFINE n == Len(address) + 1
           a == Candidate(d)
<1>1. /\ disc[d].pc = "dial" /\ lock = d
      /\ n \in Conn
      /\ activePeers' = [activePeers EXCEPT ![a] = n]
      /\ peerConnections' = [peerConnections EXCEPT ![a] = n]
      /\ open' = open \cup {n}
      /\ address' = Append(address, a)
      /\ handler' = [handler EXCEPT ![n] = "check"]
      /\ announced' = [announced EXCEPT ![a] = @ + 1]
      /\ lock' = Nobody
      /\ disc' = [disc EXCEPT ![d].pc = "loop", ![d].i = @ + 1, ![d].connected = @ + 1]
      /\ UNCHANGED <<maintain, owner, stalled>>
    BY DEF DialSucceeds, IInv, LockIsDialer, TypeOK
<1>2. a \in Address /\ a \notin Peers /\ Cardinality(Peers) < MaxPeers
    <2>1. /\ disc[d].i <= Len(disc[d].list)
          /\ activePeers[a] = None
          /\ Cardinality(Peers) < MaxPeers
        BY <1>1 DEF IInv, WhileDialing
    <2>2. disc[d].list \in Seq(Address) /\ disc[d].i \in Nat \ {0}
        BY DEF IInv, TypeOK, DiscState
    <2>3. QED
        BY <2>1, <2>2 DEF Candidate, Peers
<1> HIDE DEF a
<1>3. Peers' = Peers \cup {a}
    BY <1>1, <1>2 DEF Peers, IInv, TypeOK
<1>4. TypeOK'
    <2>1. disc' \in [Discoverer -> DiscState]
        <3>1. disc' = [disc EXCEPT ![d] = [disc[d] EXCEPT !.pc = "loop", !.i = @ + 1,
                                                          !.connected = @ + 1]]
            BY <1>1
        <3>2. QED
            BY <3>1, DiscStateUpdates DEF IInv, TypeOK
    <2>2. address' \in Seq(Address) /\ Len(address') = n
        BY <1>1, <1>2 DEF IInv, TypeOK
    <2>3. QED
        BY <1>1, <1>2, <2>1, <2>2 DEF IInv, TypeOK, owner
<1>5. \A e \in Discoverer : disc'[e].pc # "dial"
    BY <1>1 DEF IInv, TypeOK, LockIsDialer, DiscState
<1>6. LockIsDialer' /\ WhileDialing'
    BY <1>1, <1>5 DEF LockIsDialer, WhileDialing
<1>7. /\ Len(address') = n
      /\ \A m \in 1..Len(address) : address'[m] = address[m]
      /\ address'[n] = a
    BY <1>1, <1>2 DEF IInv, TypeOK
<1>8. NotYetHandled'
    BY <1>1, <1>7 DEF IInv, TypeOK, NotYetHandled
<1>9. PeerBound'
    <2>1. Cardinality(Peers') = Cardinality(Peers) + 1
        BY <1>2, <1>3, PeersFinite, FS_AddElement
    <2>2. QED
        BY <1>2, <2>1, PeersFinite DEF PeerBound
<1>10. NoConnectionLeaks'
    <2>1. activePeers' = peerConnections'
        BY <1>1 DEF IInv, TableOK, NoConnectionLeaks
    <2>2. /\ \A b \in Peers : activePeers'[b] = activePeers[b]
          /\ activePeers'[a] = n
        BY <1>1, <1>2 DEF IInv, TypeOK
    <2>3. {activePeers'[b] : b \in Peers'} = {activePeers[b] : b \in Peers} \cup {n}
        BY <1>3, <2>2
    <2>4. QED
        BY <1>1, <2>1, <2>3 DEF IInv, TableOK, NoConnectionLeaks
<1>11. PeersAreServed'
    <2> SUFFICES ASSUME NEW b \in Peers'
                 PROVE  /\ activePeers'[b] \in DOMAIN address'
                        /\ address'[activePeers'[b]] = b
                        /\ handler'[activePeers'[b]] \in {"check", "read", "exit"}
        BY DEF PeersAreServed, Alive
    <2>1. DOMAIN address = 1..Len(address) /\ DOMAIN address' = 1..n
        BY <1>4, <1>7 DEF IInv, TypeOK
    <2>2. CASE b = a
        BY <1>1, <1>2, <1>7, <2>1, <2>2 DEF IInv, TypeOK
    <2>3. CASE b \in Peers \ {a}
        <3>1. activePeers'[b] = activePeers[b]
            BY <1>1, <2>3 DEF IInv, TypeOK, Peers
        <3>2. /\ activePeers[b] \in 1..Len(address)
              /\ address[activePeers[b]] = b
              /\ handler[activePeers[b]] \in {"check", "read", "exit"}
            BY <2>1, <2>3 DEF IInv, TableOK, PeersAreServed, Alive
        <3>3. activePeers[b] # n /\ activePeers[b] \in Conn
            BY <1>1, <3>2 DEF IInv, TypeOK
        <3>4. handler'[activePeers[b]] = handler[activePeers[b]]
            BY <1>1, <3>3 DEF IInv, TypeOK
        <3>5. QED
            BY <1>7, <2>1, <3>1, <3>2, <3>4 DEF IInv, TypeOK
    <2>4. QED
        BY <1>3, <2>2, <2>3
<1>12. EventsMatchTable'
    BY <1>1, <1>2, <1>3 DEF IInv, TypeOK, TableOK, EventsMatchTable
<1>13. QED
    BY <1>4, <1>6, <1>8, <1>9, <1>10, <1>11, <1>12 DEF IInv, TableOK

-----------------------------------------------------------------------------
\* Handlers.
LEMMA ReadingStep ==
    ASSUME IInv, NEW n \in Conn, CheckContext(n) \/ ReadMessage(n) \/ ReadFails(n)
    PROVE  IInv'
<1>1. TypeOK'
    BY DEF CheckContext, ReadMessage, ReadFails, HandlerIs, IInv, TypeOK, maps, owner
<1>2. \A m \in Conn : (Alive(m) => Alive(m)') /\ (handler[m] = "none" => handler'[m] = "none")
    BY DEF CheckContext, ReadMessage, ReadFails, HandlerIs, Alive, IInv, TypeOK
<1>3. UNCHANGED <<maps, address, lock, disc>>
    BY DEF CheckContext, ReadMessage, ReadFails, maps
<1>4. QED
    BY <1>1, <1>2, <1>3, TableUntouched

\* A handler that ends disconnects whoever is at its address.
LEMMA HandlerExitsStep ==
    ASSUME IInv, NEW n \in Conn, HandlerExits(n)
    PROVE  IInv'
<1>1. /\ handler[n] = "exit" /\ lock = Nobody
      /\ handler' = [handler EXCEPT ![n] = "done"]
      /\ Disconnect({address[n]})
      /\ UNCHANGED <<address, lock, disc, maintain, owner, stalled>>
    BY DEF HandlerExits, HandlerIs
<1>2. n \in 1..Len(address) /\ address[n] \in Address
    BY <1>1 DEF IInv, TypeOK, NotYetHandled
<1>3. /\ activePeers' \in [Address -> Conn \cup {None}]
      /\ peerConnections' \in [Address -> Conn \cup {None}]
      /\ open' \subseteq Conn
      /\ announced' \in [Address -> Int]
      /\ Peers' = Peers \ {address[n]}
      /\ \A a \in Peers' : activePeers'[a] = activePeers[a]
      /\ PeerBound' /\ NoConnectionLeaks' /\ EventsMatchTable'
    BY <1>1, <1>2, DisconnectKeeps
<1>4. TypeOK'
    BY <1>1, <1>3 DEF IInv, TypeOK, owner
<1>5. \A e \in Discoverer : disc'[e].pc # "dial"
    BY <1>1 DEF IInv, LockIsDialer
<1>6. LockIsDialer' /\ WhileDialing' /\ NotYetHandled'
    BY <1>1, <1>2, <1>5 DEF IInv, TypeOK, LockIsDialer, WhileDialing, NotYetHandled
<1>7. PeersAreServed'
    <2>1. \A a \in Peers' : activePeers[a] # n
        BY <1>3 DEF IInv, TableOK, PeersAreServed
    <2>2. \A m \in Conn \ {n} : handler'[m] = handler[m]
        BY <1>1 DEF IInv, TypeOK
    <2>3. \A a \in Peers : /\ activePeers[a] \in Conn /\ activePeers[a] \in DOMAIN address
                           /\ address[activePeers[a]] = a
                           /\ handler[activePeers[a]] \in {"check", "read", "exit"}
        BY DEF IInv, TypeOK, TableOK, PeersAreServed, Peers, Alive
    <2>4. QED
        BY <1>1, <1>3, <2>1, <2>2, <2>3 DEF PeersAreServed, Alive
<1>8. QED
    BY <1>3, <1>4, <1>6, <1>7 DEF IInv, TableOK

\* The two other places that take peers out, the cleanup and Stop.
LEMMA DropStep ==
    ASSUME IInv, TypeOK', NEW A \in SUBSET Address, Disconnect(A), lock = Nobody,
           UNCHANGED <<address, handler, lock, disc>>
    PROVE  IInv'
<1>1. /\ Peers' = Peers \ A
      /\ \A a \in Peers' : activePeers'[a] = activePeers[a]
      /\ PeerBound' /\ NoConnectionLeaks' /\ EventsMatchTable'
    BY DisconnectKeeps
<1>2. \A e \in Discoverer : disc'[e].pc # "dial"
    BY DEF IInv, LockIsDialer
<1>3. LockIsDialer' /\ WhileDialing' /\ NotYetHandled'
    BY <1>2 DEF IInv, LockIsDialer, WhileDialing, NotYetHandled
<1>4. PeersAreServed'
    BY <1>1 DEF IInv, TableOK, PeersAreServed, Alive
<1>5. QED
    BY <1>1, <1>3, <1>4 DEF IInv, TableOK

\* The cleanup disconnects stale peers.
LEMMA CleanupStep ==
    ASSUME IInv, Cleanup
    PROVE  IInv'
<1>1. PICK stale \in SUBSET Peers : Disconnect(stale) /\ stalled' = stalled \cup stale
    BY DEF Cleanup
<1>2. stale \in SUBSET Address
    BY DEF Peers
<1>3. TypeOK'
    BY <1>1, <1>2, DisconnectKeeps DEF Cleanup, IInv, TypeOK, owner
<1>4. QED
    BY <1>1, <1>2, <1>3, DropStep DEF Cleanup

\* Stop disconnects everyone.
LEMMA StopDisconnectsStep ==
    ASSUME IInv, StopDisconnects
    PROVE  IInv'
<1>1. Disconnect(Peers) /\ Peers \in SUBSET Address
    BY DEF StopDisconnects, Peers
<1>2. TypeOK'
    BY <1>1, DisconnectKeeps DEF StopDisconnects, IInv, TypeOK
<1>3. QED
    BY <1>1, <1>2, DropStep DEF StopDisconnects

\* Steps that leave tables, handlers and the mutex alone.
LEMMA OtherStep ==
    ASSUME IInv, Tick \/ MaintainEnds \/ StopCancels
    PROVE  IInv'
<1>1. TypeOK'
    BY DEF Tick, MaintainEnds, StopCancels, IInv, TypeOK, maps, owner
<1>2. UNCHANGED <<maps, address, lock, disc, handler>>
    BY DEF Tick, MaintainEnds, StopCancels, maps
<1>3. QED
    BY <1>1, <1>2, TableUntouched DEF Alive

\* A new discoverer starts with nothing.
LEMMA SpawnStep ==
    ASSUME IInv, NEW d \in Discoverer, Spawn(d)
    PROVE  IInv'
<1>1. TypeOK'
    BY DEF Spawn, IInv, TypeOK, DiscState, maps, owner
<1>2. \A e \in Discoverer : /\ disc'[e].pc = "dial" <=> disc[e].pc = "dial"
                            /\ disc'[e].pc = "dial" => disc'[e] = disc[e]
    BY DEF Spawn, IInv, TypeOK, DiscState
<1>3. UNCHANGED <<maps, address, lock, handler>>
    BY DEF Spawn, maps
<1>4. QED
    BY <1>1, <1>2, <1>3, TableUntouched DEF Alive

\* Every step keeps the invariant.
LEMMA NextIInv == IInv /\ [Next]_vars => IInv'
<1> SUFFICES ASSUME IInv, [Next]_vars PROVE IInv'
    OBVIOUS
<1>1. ASSUME NEW d \in Discoverer, Discovery(d) PROVE IInv'
    BY <1>1, LeaveStep, BeginConnectStep, DialFailsStep, DialSucceedsStep DEF Discovery
<1>2. ASSUME NEW d \in Discoverer, Spawn(d) PROVE IInv'
    BY <1>2, SpawnStep
<1>3. ASSUME NEW n \in Conn, HandlerStep(n) PROVE IInv'
    BY <1>3, ReadingStep, HandlerExitsStep DEF HandlerStep
<1>4. CASE Tick \/ MaintainEnds \/ StopCancels
    BY <1>4, OtherStep
<1>5. CASE Cleanup
    BY <1>5, CleanupStep
<1>6. CASE StopDisconnects
    BY <1>6, StopDisconnectsStep
<1>7. CASE UNCHANGED vars
    <2>1. TypeOK'
        BY <1>7 DEF vars, IInv, TypeOK, maps, owner
    <2>2. UNCHANGED <<maps, address, lock, disc, handler>>
        BY <1>7 DEF vars, maps
    <2>3. QED
        BY <2>1, <2>2, TableUntouched DEF Alive
<1>8. QED
    BY <1>1, <1>2, <1>3, <1>4, <1>5, <1>6, <1>7 DEF Next

\* The inductive invariant holds in every behaviour.
THEOREM Invariance == Spec => []IInv
BY InitIInv, NextIInv, PTL DEF Spec

\* The state has its types.
THEOREM TypeCorrect == Spec => []TypeOK
<1>1. IInv => TypeOK
    BY DEF IInv
<1>2. QED
    BY <1>1, Invariance, PTL

\* However many discoverers run, the limit on peers is never passed.
THEOREM PeersAreBounded == Spec => []PeerBound
<1>1. IInv => PeerBound
    BY DEF IInv, TableOK
<1>2. QED
    BY <1>1, Invariance, PTL

\* The maps agree, and no connection is open that is not in them.
THEOREM NothingLeaks == Spec => []NoConnectionLeaks
<1>1. IInv => NoConnectionLeaks
    BY DEF IInv, TableOK
<1>2. QED
    BY <1>1, Invariance, PTL

\* A peer in the table has a handler that will read it or take it out.
THEOREM EveryPeerServed == Spec => []PeersAreServed
<1>1. IInv => PeersAreServed
    BY DEF IInv, TableOK
<1>2. QED
    BY <1>1, Invariance, PTL

\* The events published about an address say what the table says.
THEOREM EventsTellTheTable == Spec => []EventsMatchTable
<1>1. IInv => EventsMatchTable
    BY DEF IInv, TableOK
<1>2. QED
    BY <1>1, Invariance, PTL

-----------------------------------------------------------------------------
(***************************************************************************)
(* Who owns the peer of an address.  disconnectPeer is given an address; a *)
(* handler that ends takes out its own connection as long as nobody else   *)
(* has taken it out before, which only the cleanup and Stop do.            *)
(***************************************************************************)
\* Stop empties the table after it has cancelled the context.
CancelFirst == stop = "cancelled" => ctxDone

OwnerInv == IInv /\ CancelFirst /\ HandlerOwnsItsPeer

\* A step that neither makes nor ends a connection keeps who owns what.
LEMMA NobodyChanged ==
    ASSUME OwnerInv, UNCHANGED <<activePeers, address, stalled>>, ctxDone => ctxDone',
           \A n \in DOMAIN address : Alive(n)' => Alive(n)
    PROVE  HandlerOwnsItsPeer'
BY DEF OwnerInv, HandlerOwnsItsPeer

\* A dial is made for an address that has no peer, so no handler of it is left.
LEMMA NewOwner ==
    ASSUME OwnerInv, NEW d \in Discoverer, DialSucceeds(d)
    PROVE  HandlerOwnsItsPeer'
<1> DEFINE n == Len(address) + 1
           a == Candidate(d)
<1>1. /\ disc[d].pc = "dial" /\ n \in Conn
      /\ activePeers' = [activePeers EXCEPT ![a] = n]
      /\ address' = Append(address, a)
      /\ handler' = [handler EXCEPT ![n] = "check"]
      /\ ctxDone' = ctxDone /\ stalled' = stalled
    BY DEF DialSucceeds, OwnerInv, IInv, TypeOK, owner
<1>2. a \in Address /\ activePeers[a] = None
    <2>1. disc[d].i <= Len(disc[d].list) /\ activePeers[a] = None
        BY <1>1 DEF OwnerInv, IInv, WhileDialing
    <2>2. disc[d].list \in Seq(Address) /\ disc[d].i \in Nat \ {0}
        BY DEF OwnerInv, IInv, TypeOK, DiscState
    <2>3. QED
        BY <2>1, <2>2 DEF Candidate
<1> HIDE DEF a
<1>3. /\ address \in Seq(Address) /\ address' \in Seq(Address) /\ Len(address') = n
      /\ address'[n] = a
      /\ \A m \in 1..Len(address) : address'[m] = address[m]
      /\ DOMAIN address = 1..Len(address) /\ DOMAIN address' = 1..n /\ Len(address) \in Nat
    BY <1>1, <1>2 DEF OwnerInv, IInv, TypeOK
<1>4. activePeers'[a] = n
    BY <1>1, <1>2 DEF OwnerInv, IInv, TypeOK
<1>5. ASSUME ~ctxDone, NEW m \in 1..Len(address), Alive(m)', address'[m] \notin stalled
      PROVE  activePeers'[address'[m]] = m
    <2>1. m # n /\ m \in Conn
        BY <1>1, <1>3
    <2>2. Alive(m)
        BY <1>1, <1>5, <2>1 DEF Alive, OwnerInv, IInv, TypeOK
    <2>3. activePeers[address[m]] = m /\ address[m] \in Address
        BY <1>3, <1>5, <2>2 DEF OwnerInv, HandlerOwnsItsPeer
    <2>4. address[m] # a
        BY <1>2, <2>1, <2>3
    <2>5. QED
        BY <1>1, <1>3, <2>3, <2>4 DEF OwnerInv, IInv, TypeOK
<1>6. \A m \in 1..n : m = n \/ m \in 1..Len(address)
    BY <1>3
<1>7. QED
    BY <1>1, <1>3, <1>4, <1>5, <1>6 DEF HandlerOwnsItsPeer

\* The handler that ends is the owner; the owners of other addresses are not touched.
LEMMA OwnerLeaves ==
    ASSUME OwnerInv, NEW n \in Conn, HandlerExits(n)
    PROVE  HandlerOwnsItsPeer'
<1>1. /\ handler[n] = "exit" /\ Alive(n)
      /\ handler' = [handler EXCEPT ![n] = "done"]
      /\ Disconnect({address[n]})
      /\ address' = address /\ ctxDone' = ctxDone /\ stalled' = stalled
    BY DEF HandlerExits, HandlerIs, Alive, owner
<1>2. n \in DOMAIN address /\ address[n] \in Address
    BY <1>1 DEF OwnerInv, IInv, TypeOK, NotYetHandled
<1>3. ASSUME ~ctxDone, NEW m \in DOMAIN address, Alive(m)', address[m] \notin stalled
      PROVE  activePeers'[address[m]] = m
    <2>1. m \in Conn /\ m # n /\ Alive(m)
        BY <1>1, <1>3 DEF Alive, OwnerInv, IInv, TypeOK
    <2>2. /\ activePeers[address[m]] = m
          /\ address[n] \notin stalled => activePeers[address[n]] = n
        BY <1>1, <1>2, <1>3, <2>1 DEF OwnerInv, HandlerOwnsItsPeer
    <2>3. address[m] # address[n] /\ address[m] \in Address
        BY <1>3, <2>1, <2>2 DEF OwnerInv, IInv, TypeOK
    <2>4. QED
        BY <1>1, <2>2, <2>3 DEF Disconnect
<1>4. QED
    BY <1>1, <1>3 DEF HandlerOwnsItsPeer

\* There is no handler yet.
LEMMA OwnerInit == Init => OwnerInv
BY InitIInv DEF Init, OwnerInv, CancelFirst, HandlerOwnsItsPeer

\* Every step keeps a handler's address its own.
LEMMA OwnerNext == OwnerInv /\ [Next]_vars => OwnerInv'
<1> SUFFICES ASSUME OwnerInv, [Next]_vars PROVE OwnerInv'
    OBVIOUS
<1>1. IInv'
    BY NextIInv DEF OwnerInv
<1>2. CancelFirst' /\ (ctxDone => ctxDone')
    BY DEF OwnerInv, CancelFirst, Next, Discovery, Resolve, Leave, EndDiscovery, BeginConnect,
           DialFails, DialSucceeds, Spawn, HandlerStep, CheckContext, ReadMessage, ReadFails,
           HandlerExits, Tick, Cleanup, MaintainEnds, StopCancels, StopDisconnects, owner, vars
<1>3. HandlerOwnsItsPeer'
    <2>1. ASSUME NEW d \in Discoverer, DialSucceeds(d) PROVE HandlerOwnsItsPeer'
        BY <2>1, NewOwner
    <2>2. ASSUME NEW n \in Conn, HandlerExits(n) PROVE HandlerOwnsItsPeer'
        BY <2>2, OwnerLeaves
    <2>3. ASSUME NEW d \in Discoverer,
                 Resolve(d) \/ EndDiscovery(d) \/ BeginConnect(d) \/ DialFails(d) \/ Spawn(d)
          PROVE  HandlerOwnsItsPeer'
        <3>1. UNCHANGED <<activePeers, address, handler, stalled>>
            BY <2>3 DEF Resolve, EndDiscovery, BeginConnect, DialFails, Spawn, maps
        <3>2. QED
            BY <1>2, <3>1, NobodyChanged DEF Alive
    <2>4. ASSUME NEW n \in Conn, CheckContext(n) \/ ReadMessage(n) \/ ReadFails(n)
          PROVE  HandlerOwnsItsPeer'
        <3>1. UNCHANGED <<activePeers, address, stalled>>
            BY <2>4 DEF CheckContext, ReadMessage, ReadFails, maps
        <3>2. \A m \in DOMAIN address : Alive(m)' => Alive(m)
            BY <2>4 DEF CheckContext, ReadMessage, ReadFails, HandlerIs, Alive,
                        OwnerInv, IInv, TypeOK
        <3>3. QED
            BY <1>2, <3>1, <3>2, NobodyChanged
    <2>5. CASE Tick \/ MaintainEnds \/ StopCancels \/ UNCHANGED vars
        <3>1. UNCHANGED <<activePeers, address, handler, stalled>>
            BY <2>5 DEF Tick, MaintainEnds, StopCancels, vars, maps
        <3>2. QED
            BY <1>2, <3>1, NobodyChanged DEF Alive
    <2>6. CASE Cleanup
        <3>1. PICK stale \in SUBSET Peers : Disconnect(stale) /\ stalled' = stalled \cup stale
            BY <2>6 DEF Cleanup
        <3>2. \A a \in Address \ stalled' : activePeers'[a] = activePeers[a] /\ a \notin stalled
            BY <3>1 DEF Disconnect
        <3>3. UNCHANGED <<address, handler, ctxDone>>
            BY <2>6 DEF Cleanup, owner
        <3>4. \A n \in DOMAIN address : address[n] \in Address
            BY DEF OwnerInv, IInv, TypeOK
        <3>5. QED
            BY <3>2, <3>3, <3>4 DEF OwnerInv, HandlerOwnsItsPeer, Alive
    <2>7. CASE StopDisconnects
        BY <1>2, <2>7 DEF StopDisconnects, OwnerInv, CancelFirst, HandlerOwnsItsPeer
    <2>8. QED
        BY <2>1, <2>2, <2>3, <2>4, <2>5, <2>6, <2>7 DEF Next, Discovery, HandlerStep
<1>4. QED
    BY <1>1, <1>2, <1>3 DEF OwnerInv

\* Until Stop, and at every address where the cleanup has dropped no silent peer, a handler
\* that ends disconnects its own peer and never the connection that has taken the address
\* since (network_manager.go:247, 393).
THEOREM HandlersOwnTheirPeers == Spec => []HandlerOwnsItsPeer
<1>1. OwnerInv => HandlerOwnsItsPeer
    BY DEF OwnerInv
<1>2. QED
    BY <1>1, OwnerInit, OwnerNext, PTL DEF Spec
=============================================================================
