----------------------- MODULE BitcoinProtocolProofs -----------------------
(***************************************************************************)
(* Proofs about the peers of demo mode, for every set of addresses, every  *)
(* answer of the seeds and all limits: the types, that no entry of the map *)
(* outlives its connection, and that the map loses sight of an open        *)
(* connection only when its address was dialled again.                     *)
(*                                                                         *)
(* The two invariants need no strengthening but the types.  What carries   *)
(* them is that a connection keeps its address and goes through its states *)
(* in one direction, and that it touches the map twice: at "store" it puts *)
(* itself in, at "delete" it takes out whoever is under its address.       *)
(***************************************************************************)
EXTENDS BitcoinProtocol, SequenceTheorems, TLAPS

Pc == {"dial", "store", "version", "read", "leave", "delete", "gone"}

ConnRecord == [addr : Address, pc : Pc, gotVersion : BOOLEAN, announced : BOOLEAN]

\* What a step of connection n may do to the state of its goroutine and to the map.
PcMoves(n) ==
    \/ /\ conns[n].pc = "dial" /\ conns'[n].pc \in {"store", "gone"}
       /\ peers' = peers
    \/ /\ conns[n].pc = "store" /\ conns'[n].pc = "version"
       /\ peers' = [peers EXCEPT ![conns[n].addr] = n]
    \/ /\ conns[n].pc \in {"version", "read"} /\ conns'[n].pc \in {"read", "leave"}
       /\ peers' = peers
    \/ /\ conns[n].pc = "leave" /\ conns'[n].pc = "delete"
       /\ peers' = peers
    \/ /\ conns[n].pc = "delete" /\ conns'[n].pc = "gone"
       /\ peers' = [peers EXCEPT ![conns[n].addr] = None]

Inv == TypeOK /\ EntriesAreHandled /\ LostOnlyByReconnecting

-----------------------------------------------------------------------------
\* A step of a connection changes no other connection, nor its own address.
LEMMA ConnStep ==
    ASSUME TypeOK, NEW n \in Conn, Runs(n) \/ Hears(n)
    PROVE  /\ conns' \in Seq(ConnRecord)
           /\ Len(conns') = Len(conns)
           /\ \A m \in Conn \ {n} : conns'[m] = conns[m]
           /\ conns'[n].addr = conns[n].addr
           /\ PcMoves(n)
           /\ UNCHANGED server
<1>1. /\ conns \in Seq(ConnRecord) /\ conns[n] \in ConnRecord
      /\ n \in 1..Len(conns)
    <2>1. conns \in Seq(ConnRecord)
        BY Zenon DEF TypeOK, ConnRecord, Pc
    <2>2. QED
        BY <2>1 DEF Conn
<1>2. ASSUME NEW r \in ConnRecord, conns' = [conns EXCEPT ![n] = r]
      PROVE  /\ conns' \in Seq(ConnRecord)
             /\ Len(conns') = Len(conns)
             /\ \A m \in Conn \ {n} : conns'[m] = conns[m]
             /\ conns'[n] = r
    BY <1>1, <1>2, ExceptSeq DEF Conn
<1>3. ASSUME NEW pc \in Pc, Go(n, pc)
      PROVE  /\ conns' = [conns EXCEPT ![n] = [conns[n] EXCEPT !.pc = pc]]
             /\ [conns[n] EXCEPT !.pc = pc] \in ConnRecord
             /\ [conns[n] EXCEPT !.pc = pc].pc = pc
             /\ [conns[n] EXCEPT !.pc = pc].addr = conns[n].addr
    BY <1>1, <1>3 DEF Go, ConnRecord
<1>4. CASE Dial(n)
    BY <1>2, <1>3, <1>4 DEF Dial, At, PcMoves, Pc
<1>5. CASE Store(n)
    BY <1>2, <1>3, <1>5 DEF Store, At, PcMoves, Pc
<1>6. CASE SendVersion(n)
    BY <1>2, <1>3, <1>6 DEF SendVersion, At, PcMoves, Pc
<1>7. CASE Close(n)
    BY <1>2, <1>3, <1>7 DEF Close, At, PcMoves, Pc
<1>8. CASE Delete(n)
    BY <1>2, <1>3, <1>8 DEF Delete, At, PcMoves, Pc
<1>9. CASE ReadFails(n)
    BY <1>2, <1>3, <1>9 DEF ReadFails, At, PcMoves, Pc
<1>10. CASE HandleVersion(n)
    <2>1. conns[n].pc = "read" /\ UNCHANGED <<peers, server>>
        BY <1>10 DEF HandleVersion, At
    <2>2. CASE Go(n, "leave")
        BY <1>2, <1>3, <2>1, <2>2 DEF PcMoves, Pc
    <2>3. CASE \/ conns' = [conns EXCEPT ![n].gotVersion = TRUE]
               \/ conns' = [conns EXCEPT ![n].gotVersion = TRUE, ![n].pc = "leave"]
        <3>1. PICK pc \in {"read", "leave"} :
                  conns' = [conns EXCEPT ![n] = [conns[n] EXCEPT !.gotVersion = TRUE, !.pc = pc]]
            BY <1>1, <2>1, <2>3 DEF ConnRecord
        <3> DEFINE r == [conns[n] EXCEPT !.gotVersion = TRUE, !.pc = pc]
        <3>2. r \in ConnRecord /\ r.addr = conns[n].addr /\ r.pc = pc
            BY <1>1 DEF ConnRecord, Pc
        <3> HIDE DEF r
        <3>3. QED
            BY <1>2, <2>1, <3>1, <3>2 DEF PcMoves, r
    <2>4. QED
        BY <1>10, <2>2, <2>3 DEF HandleVersion
<1>11. CASE HandleVerAck(n)
    <2>1. conns[n].pc = "read" /\ UNCHANGED <<peers, server>>
        BY <1>11 DEF HandleVerAck, At
    <2>2. PICK pc \in {"read", "leave"} :
              conns' = [conns EXCEPT ![n] = [conns[n] EXCEPT !.announced = TRUE, !.pc = pc]]
        BY <1>1, <1>11 DEF HandleVerAck, ConnRecord
    <2> DEFINE r == [conns[n] EXCEPT !.announced = TRUE, !.pc = pc]
    <2>3. r \in ConnRecord /\ r.addr = conns[n].addr /\ r.pc = pc
        BY <1>1 DEF ConnRecord, Pc
    <2> HIDE DEF r
    <2>4. QED
        BY <1>2, <2>1, <2>2, <2>3 DEF PcMoves, r
<1>12. QED
    BY <1>4, <1>5, <1>6, <1>7, <1>8, <1>9, <1>10, <1>11 DEF Runs, Hears

\* A round of discovery adds connections that dial, and changes none of those there are.
LEMMA ConnectStep ==
    ASSUME TypeOK, ConnectToPeers
    PROVE  /\ conns' \in Seq(ConnRecord)
           /\ Len(conns') \in Nat /\ Len(conns') <= MaxConns /\ Len(conns) <= Len(conns')
           /\ \A m \in Conn : conns'[m] = conns[m]
           /\ \A m \in DOMAIN conns' \ Conn : conns'[m].pc = "dial"
<1>1. conns \in Seq(ConnRecord) /\ Len(conns) \in Nat /\ Conn = 1..Len(conns)
    BY DEF TypeOK, ConnRecord, Pc, Conn
<1>2. PICK l \in AddressLists :
          /\ Len(conns) + Len(Chosen(l)) <= MaxConns
          /\ conns' = conns \o [i \in DOMAIN Chosen(l) |-> Dialling(l[i])]
    BY DEF ConnectToPeers
<1> DEFINE k == IF Len(l) < InitialLimit THEN Len(l) ELSE InitialLimit
           added == [i \in 1..k |-> Dialling(l[i])]
<1>3. l \in Seq(Address) /\ Len(l) \in Nat /\ k \in Nat /\ k <= Len(l)
    BY ListsAssumption, BoundsAssumption
<1>4. Chosen(l) = SubSeq(l, 1, k)
    BY DEF Chosen
<1> HIDE DEF k
<1>5. Len(Chosen(l)) = k /\ DOMAIN Chosen(l) = 1..k
    BY <1>3, <1>4
<1>6. added \in Seq(ConnRecord) /\ Len(added) = k
    <2>1. ASSUME NEW i \in 1..k PROVE Dialling(l[i]) \in ConnRecord
        <3>1. l[i] \in Address
            BY <1>3
        <3>2. QED
            BY <3>1 DEF Dialling, ConnRecord, Pc
    <2>2. QED
        BY <1>3, <2>1
<1>7. conns' = conns \o added
    BY <1>2, <1>5
<1>8. \A i \in 1..k : added[i].pc = "dial"
    BY DEF Dialling
<1> HIDE DEF added
<1>9. conns' \in Seq(ConnRecord) /\ Len(conns') = Len(conns) + k
    BY <1>1, <1>6, <1>7, ConcatProperties
<1>10. ASSUME NEW m \in 1..Len(conns')
       PROVE  conns'[m] = IF m <= Len(conns) THEN conns[m] ELSE added[m - Len(conns)]
    BY <1>1, <1>6, <1>7, <1>9, <1>10, ConcatProperties
<1>11. ASSUME NEW m \in Conn PROVE conns'[m] = conns[m]
    BY <1>1, <1>3, <1>9, <1>10
<1>12. ASSUME NEW m \in DOMAIN conns' \ Conn PROVE conns'[m].pc = "dial"
    <2>1. m \in 1..Len(conns') /\ ~ (m <= Len(conns)) /\ m - Len(conns) \in 1..k
        BY <1>1, <1>3, <1>9
    <2>2. QED
        BY <1>8, <1>10, <2>1
<1>13. Len(conns') \in Nat /\ Len(conns') <= MaxConns /\ Len(conns) <= Len(conns')
    BY <1>1, <1>2, <1>3, <1>5, <1>9
<1>14. QED
    BY <1>9, <1>11, <1>12, <1>13

-----------------------------------------------------------------------------
\* What the types say, in the form the steps use.
LEMMA Types ==
    ASSUME TypeOK
    PROVE  /\ conns \in Seq(ConnRecord) /\ Len(conns) \in Nat /\ Conn = 1..Len(conns)
           /\ \A n \in Conn : conns[n].addr \in Address /\ conns[n].pc \in Pc
           /\ \A a \in Address : peers[a] \in Conn \cup {None}
<1>1. conns \in Seq(ConnRecord) /\ Len(conns) \in Nat /\ Conn = 1..Len(conns)
    <2>1. conns \in Seq(ConnRecord)
        BY Zenon DEF TypeOK, ConnRecord, Pc
    <2>2. QED
        BY <2>1 DEF Conn
<1>2. ASSUME NEW n \in Conn PROVE conns[n] \in ConnRecord
    BY <1>1
<1>3. \A a \in Address : peers[a] \in Conn \cup {None}
    BY <1>1 DEF TypeOK, None
<1>4. QED
    BY <1>1, <1>2, <1>3 DEF ConnRecord

\* The map and the goroutines as they are before Start.
LEMMA InitInv == Init => Inv
<1> SUFFICES ASSUME Init PROVE Inv
    OBVIOUS
<1>1. conns = <<>> /\ Len(conns) = 0 /\ Conn = {} /\ MaxConns \in Nat
    BY BoundsAssumption DEF Init, Conn
<1>2. TypeOK
    <2>1. conns \in Seq([addr : Address, pc : Pc, gotVersion : BOOLEAN, announced : BOOLEAN])
        BY <1>1
    <2>2. peers \in [Address -> 0..Len(conns)]
        BY <1>1 DEF Init, None
    <2>3. Len(conns) <= MaxConns
        BY <1>1
    <2>4. /\ manager \in {"wait", "done"}
          /\ started \in BOOLEAN /\ stopped \in BOOLEAN /\ crashed \in BOOLEAN
        BY DEF Init
    <2>5. QED
        BY <2>1, <2>2, <2>3, <2>4, Zenon DEF TypeOK, Pc
<1>3. EntriesAreHandled /\ LostOnlyByReconnecting
    BY <1>1 DEF Init, EntriesAreHandled, LostOnlyByReconnecting, Tracked, Open
<1>4. QED
    BY <1>2, <1>3 DEF Inv

\* The step of one connection.
LEMMA RunStep ==
    ASSUME Inv, NEW n \in Conn, Runs(n) \/ Hears(n)
    PROVE  Inv'
<1>1. /\ conns' \in Seq(ConnRecord)
      /\ Len(conns') = Len(conns)
      /\ \A m \in Conn \ {n} : conns'[m] = conns[m]
      /\ conns'[n].addr = conns[n].addr
      /\ PcMoves(n)
      /\ UNCHANGED server
    BY ConnStep DEF Inv
<1>2. /\ conns \in Seq(ConnRecord) /\ Len(conns) \in Nat /\ Conn = 1..Len(conns)
      /\ \A m \in Conn : conns[m].addr \in Address /\ conns[m].pc \in Pc
      /\ \A a \in Address : peers[a] \in Conn \cup {None}
    BY Types DEF Inv
<1>3. Conn' = Conn
    BY <1>1 DEF Conn
<1>4. \A m \in Conn : conns'[m].addr = conns[m].addr
    BY <1>1
<1>5. n \in 0..Len(conns) /\ None \in 0..Len(conns) /\ n # None /\ conns[n].addr \in Address
    BY <1>2 DEF None
<1>6. TypeOK'
    <2>1. peers' \in [Address -> 0..Len(conns)]
        BY <1>1, <1>5 DEF Inv, TypeOK, PcMoves
    <2>2. Len(conns') <= MaxConns /\ UNCHANGED <<manager, started, stopped, crashed>>
        BY <1>1 DEF Inv, TypeOK, server
    <2>3. QED
        BY <1>1, <2>1, <2>2 DEF Inv, TypeOK, ConnRecord, Pc
<1>7. peers \in [Address -> 0..Len(conns)]
    BY DEF Inv, TypeOK
<1>8. EntriesAreHandled'
    <2> SUFFICES ASSUME NEW a \in Address, peers'[a] # None
                 PROVE  /\ conns'[peers'[a]].addr = a
                        /\ conns'[peers'[a]].pc \in {"version", "read", "leave", "delete"}
        BY DEF EntriesAreHandled, Tracked
    <2>1. CASE peers'[a] = peers[a]
        <3>1. /\ peers[a] \in Conn /\ conns[peers[a]].addr = a
              /\ conns[peers[a]].pc \in {"version", "read", "leave", "delete"}
            BY <1>2, <2>1 DEF Inv, EntriesAreHandled, Tracked
        <3>2. CASE peers[a] = n
            <4>1. ~ (conns[n].pc = "delete" /\ peers' = [peers EXCEPT ![conns[n].addr] = None])
                BY <1>7, <2>1, <3>1, <3>2
            <4>2. conns'[n].pc \in {"version", "read", "leave", "delete"}
                BY <1>1, <3>1, <3>2, <4>1 DEF PcMoves
            <4>3. QED
                BY <1>1, <2>1, <3>1, <3>2, <4>2
        <3>3. CASE peers[a] # n
            BY <1>1, <2>1, <3>1, <3>3
        <3>4. QED
            BY <3>2, <3>3
    <2>2. CASE peers'[a] # peers[a]
        <3>1. /\ peers' = [peers EXCEPT ![conns[n].addr] = n]
              /\ conns'[n].pc = "version"
            BY <1>1, <1>7, <2>2 DEF PcMoves
        <3>2. a = conns[n].addr /\ peers'[a] = n
            BY <1>7, <2>2, <3>1
        <3>3. QED
            BY <1>1, <3>1, <3>2
    <2>3. QED
        BY <2>1, <2>2
<1>9. LostOnlyByReconnecting'
    <2> SUFFICES ASSUME NEW k \in Conn,
                        conns'[k].pc \in {"version", "read", "leave"},
                        peers'[conns[k].addr] # k
                 PROVE  \E m \in Conn \ {k} : /\ conns[m].addr = conns[k].addr
                                              /\ conns'[m].pc \notin {"dial", "store"}
        BY <1>3, <1>4 DEF LostOnlyByReconnecting, Open
    <2>1. \A m \in Conn : conns[m].pc \notin {"dial", "store"} => conns'[m].pc \notin {"dial", "store"}
        BY <1>1 DEF PcMoves
    <2>2. CASE conns[k].pc = "store"
        <3>1. k = n
            BY <1>1, <2>2
        <3>2. peers' = [peers EXCEPT ![conns[n].addr] = n]
            BY <1>1, <2>2, <3>1 DEF PcMoves
        <3>3. QED
            BY <1>5, <1>7, <3>1, <3>2
    <2>3. CASE conns[k].pc # "store" /\ peers[conns[k].addr] # k
        <3>1. k \in Open
            BY <1>1, <2>3 DEF PcMoves, Open
        <3>2. PICK m \in Conn \ {k} : /\ conns[m].addr = conns[k].addr
                                      /\ conns[m].pc \notin {"dial", "store"}
            BY <2>3, <3>1 DEF Inv, LostOnlyByReconnecting
        <3>3. QED
            BY <2>1, <3>2
    <2>4. CASE conns[k].pc # "store" /\ peers[conns[k].addr] = k
        <3>1. peers'[conns[k].addr] # peers[conns[k].addr]
            BY <2>4
        <3>2. conns[n].addr = conns[k].addr /\ conns'[n].pc \in {"version", "gone"}
            BY <1>1, <1>2, <1>7, <3>1 DEF PcMoves
        <3>3. n # k
            BY <1>1, <1>5, <1>7, <2>4, <3>1 DEF PcMoves
        <3>4. QED
            BY <3>2, <3>3
    <2>5. QED
        BY <2>2, <2>3, <2>4
<1>10. QED
    BY <1>6, <1>8, <1>9 DEF Inv

\* A round of discovery adds connections that have no entry and are not open yet.
LEMMA RoundStep ==
    ASSUME Inv, ConnectToPeers, peers' = peers,
           manager' = manager, started' \in BOOLEAN, UNCHANGED <<stopped, crashed>>
    PROVE  Inv'
<1>1. /\ conns' \in Seq(ConnRecord)
      /\ Len(conns') \in Nat /\ Len(conns') <= MaxConns /\ Len(conns) <= Len(conns')
      /\ \A m \in Conn : conns'[m] = conns[m]
      /\ \A m \in DOMAIN conns' \ Conn : conns'[m].pc = "dial"
    BY ConnectStep DEF Inv
<1>2. /\ conns \in Seq(ConnRecord) /\ Len(conns) \in Nat /\ Conn = 1..Len(conns)
      /\ \A a \in Address : peers[a] \in Conn \cup {None}
    BY Types DEF Inv
<1>3. Conn' = DOMAIN conns' /\ Conn \subseteq Conn'
    BY <1>1, <1>2 DEF Conn
<1>4. TypeOK'
    <2>1. peers' \in [Address -> 0..Len(conns')]
        BY <1>1, <1>2 DEF Inv, TypeOK
    <2>2. conns' \in Seq([addr : Address, pc : Pc, gotVersion : BOOLEAN, announced : BOOLEAN])
        BY <1>1 DEF ConnRecord
    <2>3. QED
        BY <1>1, <2>1, <2>2 DEF Inv, TypeOK, Pc
<1>5. EntriesAreHandled'
    BY <1>1, <1>2 DEF Inv, EntriesAreHandled, Tracked
<1>6. LostOnlyByReconnecting'
    <2> SUFFICES ASSUME NEW k \in Conn',
                        conns'[k].pc \in {"version", "read", "leave"},
                        peers[conns'[k].addr] # k
                 PROVE  \E m \in Conn' \ {k} : /\ conns'[m].addr = conns'[k].addr
                                               /\ conns'[m].pc \notin {"dial", "store"}
        BY DEF LostOnlyByReconnecting, Open
    <2>1. k \in Conn /\ conns'[k] = conns[k]
        BY <1>1, <1>3
    <2>2. k \in Open
        BY <2>1 DEF Open
    <2>3. PICK m \in Conn \ {k} : /\ conns[m].addr = conns[k].addr
                                  /\ conns[m].pc \notin {"dial", "store"}
        BY <2>1, <2>2 DEF Inv, LostOnlyByReconnecting
    <2>4. QED
        BY <1>1, <1>3, <2>1, <2>3
<1>7. QED
    BY <1>4, <1>5, <1>6 DEF Inv

\* The flags of the server are in no invariant but the types.
LEMMA FlagStep ==
    ASSUME Inv, UNCHANGED <<peers, conns>>,
           manager' \in {"wait", "done"}, started' \in BOOLEAN,
           stopped' \in BOOLEAN, crashed' \in BOOLEAN
    PROVE  Inv'
<1>1. TypeOK'
    BY DEF Inv, TypeOK
<1>2. EntriesAreHandled'
    BY DEF Inv, EntriesAreHandled, Tracked
<1>3. LostOnlyByReconnecting'
    BY DEF Inv, LostOnlyByReconnecting, Open, Conn
<1>4. QED
    BY <1>1, <1>2, <1>3 DEF Inv

\* Every step of a connection, of the manager and of Stop keeps the invariant.
LEMMA NextInv == Inv /\ [Next]_vars => Inv'
<1> SUFFICES ASSUME Inv, [Next]_vars PROVE Inv'
    OBVIOUS
<1>1. /\ manager \in {"wait", "done"} /\ started \in BOOLEAN
      /\ stopped \in BOOLEAN /\ crashed \in BOOLEAN
    BY DEF Inv, TypeOK
<1>2. CASE UNCHANGED vars
    BY <1>1, <1>2, FlagStep DEF vars
<1>3. CASE Start
    BY <1>3, RoundStep DEF Start
<1>4. CASE ManageTick
    BY <1>1, <1>4, RoundStep DEF ManageTick, server
<1>5. CASE ManageEnds
    BY <1>1, <1>5, FlagStep DEF ManageEnds
<1>6. CASE Stop
    BY <1>1, <1>6, FlagStep DEF Stop
<1>7. CASE MapRace
    BY <1>1, <1>7, FlagStep DEF MapRace
<1>8. CASE \E n \in Conn : Runs(n) \/ Hears(n)
    BY <1>8, RunStep
<1>9. QED
    BY <1>2, <1>3, <1>4, <1>5, <1>6, <1>7, <1>8 DEF Next

\* The invariant of the map and the connections.
THEOREM MapIsKept == Spec => []Inv
BY InitInv, NextInv, PTL DEF Spec

\* The types of the map, the connections and the server's flags.
THEOREM TypeCorrect == Spec => []TypeOK
<1>1. Inv => TypeOK
    BY DEF Inv
<1>2. QED
    BY <1>1, MapIsKept, PTL

\* Whatever goroutines of one address do to each other's entries, an entry leads to a
\* connection of its address that will still take it out (bitcoin_protocol.go:181, 541).
THEOREM EntriesEnd == Spec => []EntriesAreHandled
<1>1. Inv => EntriesAreHandled
    BY DEF Inv
<1>2. QED
    BY <1>1, MapIsKept, PTL

\* An open connection is lost sight of only through another connection to its address
\* (bitcoin_protocol.go:132-137).
THEOREM OnlyReconnectingLoses == Spec => []LostOnlyByReconnecting
<1>1. Inv => LostOnlyByReconnecting
    BY DEF Inv
<1>2. QED
    BY <1>1, MapIsKept, PTL
=============================================================================
