------------------------- MODULE MinerServerProofs -------------------------
(***************************************************************************)
(* Proofs about the miner's connection to a pool, for any number of        *)
(* clients: the types, and that an open connection is the server's own     *)
(* but for two races.                                                      *)
(*                                                                         *)
(* The types alone are not inductive: an attempt reads the record of its   *)
(* client, so it must have one, and Start adds an attempt, so there must   *)
(* have been none.  Reachability rests on what a disconnected client is:   *)
(* every client but the server's own is cancelled, so a dial that finds    *)
(* its client alive has dialled for the server's.                          *)
(***************************************************************************)
EXTENDS MinerServer, SequenceTheorems, TLAPS

ClientRecord == [conn : Number \cup {None}, authorized : BOOLEAN, cancelled : BOOLEAN]

AttemptPc == {"begin", "dial", "subscribe", "authorize", "wait", "ok", "failed"}

AttemptRecord ==
    [client : 0..Len(clients), late : BOOLEAN, byStart : BOOLEAN, pc : AttemptPc]

\* A server that was not started has no attempt, and a client if it needs one.
NewIsIdle ==
    phase = "new" => /\ attempt = <<>>
                     /\ ~isActive
                     /\ poolMode => clients # <<>>

\* The server's client is the last one made, and the others were disconnected.
CurrentIsLast ==
    /\ current = Len(clients)
    /\ Len(clients) <= MaxClients
    /\ \A c \in DOMAIN clients : c # current => clients[c].cancelled

\* An attempt has a client from its first step on.
AttemptsHaveClients ==
    \A k \in DOMAIN attempt :
        attempt[k].client \in IF attempt[k].pc = "begin" THEN {None} ELSE DOMAIN clients

\* Only an attempt that has dialled has a connection or a reader.
DialledOnly ==
    \A k \in Number :
        (k \in open \/ reader[k].pc # "none") =>
            k \in DOMAIN attempt /\ attempt[k].pc \notin {"begin", "dial"}

Inv ==
    /\ TypeOK
    /\ NewIsIdle
    /\ CurrentIsLast
    /\ AttemptsHaveClients
    /\ DialledOnly
    /\ OpenIsReachable

-----------------------------------------------------------------------------
\* What the types say, in the form the steps use.
LEMMA Types ==
    ASSUME TypeOK
    PROVE  /\ clients \in Seq(ClientRecord) /\ attempt \in Seq(AttemptRecord)
           /\ Len(clients) \in Nat /\ DOMAIN clients = 1..Len(clients)
           /\ Len(attempt) \in Nat /\ DOMAIN attempt = 1..Len(attempt)
           /\ \A c \in DOMAIN clients : clients[c] \in ClientRecord
           /\ \A k \in DOMAIN attempt : attempt[k] \in AttemptRecord
<1>1. clients \in Seq(ClientRecord)
    BY Zenon DEF TypeOK, ClientRecord
<1>2. attempt \in Seq(AttemptRecord)
    BY Zenon DEF TypeOK, AttemptRecord, AttemptPc
<1>3. QED
    BY <1>1, <1>2

\* The types from their parts; the records are told by name.
TypesOfServer ==
    /\ phase \in {"new", "connecting", "activate", "started", "stopped"}
    /\ poolMode \in BOOLEAN /\ isActive \in BOOLEAN
    /\ current \in 0..Len(clients)

TypesOfConnections ==
    /\ reader \in [Number -> [pc : {"none", "start", "read", "done"}, conn : Number \cup {None}]]
    /\ open \subseteq Number /\ hungup \subseteq Number /\ granted \subseteq Number
    /\ asked \subseteq Number
    /\ crashed \in BOOLEAN

\* The type invariant from its parts.
LEMMA TypeParts ==
    ASSUME TypesOfServer, TypesOfConnections,
           clients \in Seq(ClientRecord),
           attempt \in Seq(AttemptRecord), Len(attempt) <= Len(clients)
    PROVE  TypeOK
BY Zenon DEF TypeOK, TypesOfServer, TypesOfConnections, ClientRecord, AttemptRecord, AttemptPc

\* The same of the state after a step.
LEMMA TypePartsNext ==
    ASSUME TypesOfServer', TypesOfConnections',
           clients' \in Seq(ClientRecord),
           attempt' \in Seq(AttemptRecord'), Len(attempt') <= Len(clients')
    PROVE  TypeOK'
BY Zenon DEF TypeOK, TypesOfServer, TypesOfConnections, ClientRecord, AttemptRecord, AttemptPc

\* A step that changes the record of one attempt.
LEMMA SetAttempt ==
    ASSUME TypeOK, NEW k \in DOMAIN attempt, NEW r \in AttemptRecord,
           attempt' = [attempt EXCEPT ![k] = r]
    PROVE  /\ attempt' \in Seq(AttemptRecord) /\ Len(attempt') = Len(attempt)
           /\ DOMAIN attempt' = DOMAIN attempt
           /\ attempt'[k] = r
           /\ \A j \in DOMAIN attempt \ {k} : attempt'[j] = attempt[j]
BY Types, ExceptSeq

\* A step that changes the record of one client.
LEMMA SetClient ==
    ASSUME TypeOK, NEW c \in DOMAIN clients, NEW r \in ClientRecord,
           clients' = [clients EXCEPT ![c] = r]
    PROVE  /\ clients' \in Seq(ClientRecord) /\ Len(clients') = Len(clients)
           /\ DOMAIN clients' = DOMAIN clients
           /\ clients'[c] = r
           /\ \A d \in DOMAIN clients \ {c} : clients'[d] = clients[d]
BY Types, ExceptSeq

\* An attempt in one of its inner steps has a client, and so has the server.
LEMMA ClientOfAttempt ==
    ASSUME Inv, NEW k \in DOMAIN attempt
    PROVE  /\ current \in DOMAIN clients /\ current = Len(clients)
           /\ clients[current] \in ClientRecord
           /\ attempt[k].pc # "begin" =>
                 attempt[k].client \in DOMAIN clients /\ Client(k) \in ClientRecord
<1>1. /\ Len(clients) \in Nat /\ DOMAIN clients = 1..Len(clients)
      /\ Len(attempt) \in Nat /\ DOMAIN attempt = 1..Len(attempt)
      /\ \A c \in DOMAIN clients : clients[c] \in ClientRecord
    BY Types DEF Inv
<1>2. Len(attempt) <= Len(clients) /\ current = Len(clients)
    BY DEF Inv, TypeOK, CurrentIsLast
<1>3. attempt[k].pc # "begin" => attempt[k].client \in DOMAIN clients
    BY DEF Inv, AttemptsHaveClients
<1>4. QED
    BY <1>1, <1>2, <1>3 DEF Client

-----------------------------------------------------------------------------
\* A server that has not been started has no client and no connection.
LEMMA InitInv == Init => Inv
<1> SUFFICES ASSUME Init PROVE Inv
    OBVIOUS
<1>1. MaxClients \in Nat /\ MaxClients >= 1
    BY BoundsAssumption
<1>2. NewClient \in ClientRecord
    BY DEF NewClient, ClientRecord
<1>3. /\ clients \in Seq(ClientRecord) /\ Len(clients) \in {0, 1}
      /\ poolMode => clients # <<>>
    <2>1. CASE poolMode
        BY <1>2, <2>1 DEF Init
    <2>2. CASE ~poolMode
        BY <2>2 DEF Init
    <2>3. QED
        BY <2>1, <2>2
<1>4. attempt = <<>> /\ attempt \in Seq(AttemptRecord) /\ Len(attempt) = 0
    BY DEF Init
<1>5. TypesOfServer /\ TypesOfConnections
    <2>1. TypesOfServer
        <3>1. /\ current = Len(clients) /\ phase = "new" /\ isActive = FALSE
              /\ poolMode \in BOOLEAN
            BY Zenon DEF Init
        <3>2. current \in 0..Len(clients)
            BY <1>3, <3>1
        <3>3. QED
            BY <3>1, <3>2 DEF TypesOfServer
    <2>2. TypesOfConnections
        BY DEF Init, TypesOfConnections, None
    <2>3. QED
        BY <2>1, <2>2
<1>6. TypeOK
    BY <1>3, <1>4, <1>5, TypeParts
<1>7. NewIsIdle
    BY <1>3, <1>4 DEF Init, NewIsIdle
<1>8. CurrentIsLast
    BY <1>1, <1>3 DEF Init, CurrentIsLast
<1>9. AttemptsHaveClients /\ DialledOnly /\ OpenIsReachable
    BY <1>4 DEF Init, AttemptsHaveClients, DialledOnly, OpenIsReachable
<1>10. QED
    BY <1>6, <1>7, <1>8, <1>9 DEF Inv

\* Two attempts on one client stay two, and a late one stays late, through a step that
\* keeps the attempts that have a client.
LEMMA RacesStay ==
    ASSUME Inv,
           \A k \in DOMAIN attempt : attempt[k].pc # "begin" =>
              /\ k \in DOMAIN attempt'
              /\ attempt'[k].client = attempt[k].client
              /\ attempt'[k].late = attempt[k].late \/ k \notin open,
           NEW k \in open
    PROVE  /\ k \in DOMAIN attempt /\ k \in DOMAIN attempt'
           /\ attempt'[k].client = attempt[k].client
           /\ attempt[k].client \in DOMAIN clients
           /\ (Late(k) => Late(k)') /\ (Doubled(k) => Doubled(k)')
<1>1. /\ k \in DOMAIN attempt /\ attempt[k].pc \notin {"begin", "dial"}
      /\ attempt[k].client \in DOMAIN clients
    BY DEF Inv, DialledOnly, AttemptsHaveClients, TypeOK
<1>2. 0 \notin DOMAIN clients
    BY Types DEF Inv
<1>3. ASSUME NEW j \in DOMAIN attempt \ {k}, attempt[j].client = attempt[k].client
      PROVE  j \in DOMAIN attempt' \ {k} /\ attempt'[j].client = attempt'[k].client
    <2>1. attempt[j].pc # "begin"
        BY <1>1, <1>2, <1>3 DEF Inv, AttemptsHaveClients, None
    <2>2. QED
        BY <1>1, <1>3, <2>1
<1>4. Doubled(k) => Doubled(k)'
    BY <1>3 DEF Doubled
<1>5. Late(k) => Late(k)'
    BY <1>1 DEF Late
<1>6. QED
    BY <1>1, <1>4, <1>5

\* A step after the dial moves one attempt on, and maybe the owner with it.
LEMMA AfterDialStep ==
    ASSUME Inv, NEW k \in DOMAIN attempt, NEW pc \in AttemptPc \ {"begin", "dial"},
           attempt[k].pc # "begin",
           attempt' = [attempt EXCEPT ![k].pc = pc],
           phase' \in {phase, "activate"}, poolMode' \in BOOLEAN, poolMode' => poolMode,
           asked' \subseteq Number,
           UNCHANGED <<isActive, current, clients, reader, open, granted, hungup, crashed>>
    PROVE  Inv'
<1>1. /\ clients \in Seq(ClientRecord) /\ attempt[k] \in AttemptRecord
      /\ Len(clients) \in Nat /\ DOMAIN clients = 1..Len(clients)
      /\ DOMAIN attempt = 1..Len(attempt)
    BY Types DEF Inv
<1> DEFINE r == [attempt[k] EXCEPT !.pc = pc]
<1>2. r \in AttemptRecord /\ r.pc = pc /\ r.client = attempt[k].client /\ r.late = attempt[k].late
    BY <1>1 DEF AttemptRecord
<1>3. attempt' = [attempt EXCEPT ![k] = r]
    OBVIOUS
<1> HIDE DEF r
<1>4. /\ attempt' \in Seq(AttemptRecord) /\ Len(attempt') = Len(attempt)
      /\ DOMAIN attempt' = DOMAIN attempt /\ attempt'[k] = r
      /\ \A j \in DOMAIN attempt \ {k} : attempt'[j] = attempt[j]
    BY <1>2, <1>3, SetAttempt DEF Inv
<1>5. AttemptRecord' = AttemptRecord
    BY DEF AttemptRecord
<1>6. TypeOK'
    <2>1. TypesOfServer' /\ TypesOfConnections'
        BY DEF Inv, TypeOK, TypesOfServer, TypesOfConnections
    <2>2. Len(attempt') <= Len(clients')
        BY <1>4 DEF Inv, TypeOK
    <2>3. QED
        BY <1>1, <1>4, <1>5, <2>1, <2>2, TypePartsNext
<1>7. NewIsIdle'
    BY <1>1 DEF Inv, NewIsIdle
<1>8. CurrentIsLast'
    BY DEF Inv, CurrentIsLast
<1>9. AttemptsHaveClients'
    BY <1>2, <1>4 DEF Inv, AttemptsHaveClients
<1>10. DialledOnly'
    BY <1>2, <1>4 DEF Inv, DialledOnly
<1>11. OpenIsReachable'
    <2> SUFFICES ASSUME NEW j \in open
                 PROVE  \/ attempt'[j].client = current /\ Client(j)' = Client(j)
                           /\ Client(j).conn = j /\ ~Client(j).cancelled
                        \/ Late(j)' \/ Doubled(j)'
        BY DEF OpenIsReachable
    <2>1. /\ attempt'[j].client = attempt[j].client
          /\ (Late(j) => Late(j)') /\ (Doubled(j) => Doubled(j)')
        BY <1>2, <1>4, RacesStay
    <2>2. Client(j)' = Client(j)
        BY <2>1 DEF Client
    <2>3. QED
        BY <2>1, <2>2 DEF Inv, OpenIsReachable
<1>12. QED
    BY <1>6, <1>7, <1>8, <1>9, <1>10, <1>11 DEF Inv

\* The steps of connectToPool that the lemma above covers.
LEMMA AfterDialSteps ==
    ASSUME Inv, NEW k \in Number,
           \/ DialFails(k) \/ SendSubscribe(k) \/ SendAuthorize(k) \/ WaitEnds(k)
    PROVE  Inv'
<1>1. /\ k \in DOMAIN attempt
      /\ attempt[k].pc \in {"dial", "subscribe", "authorize", "wait"}
    BY DEF DialFails, SendSubscribe, SendAuthorize, WaitEnds, At
<1>2. /\ poolMode \in BOOLEAN /\ asked \subseteq Number
      /\ attempt[k].pc # "begin"
    BY <1>1 DEF Inv, TypeOK
<1>3. Client(k) \in ClientRecord
    BY <1>1, <1>2, ClientOfAttempt
<1>4. ASSUME NEW result \in {"ok", "failed"}, Return(k, result),
             asked' = asked,
             UNCHANGED <<clients, reader, open, granted, hungup, crashed>>
      PROVE  Inv'
    <2>1. /\ result \in AttemptPc \ {"begin", "dial"}
          /\ attempt' = [attempt EXCEPT ![k].pc = result]
          /\ phase' \in {phase, "activate"}
          /\ isActive' = isActive /\ current' = current
        BY <1>4 DEF Return, AttemptPc
    <2>2. poolMode' \in BOOLEAN /\ (poolMode' => poolMode)
        BY <1>2, <1>4 DEF Return
    <2>3. QED
        BY <1>1, <1>2, <1>4, <2>1, <2>2, AfterDialStep
<1>5. ASSUME NEW pc \in {"authorize", "wait"}, attempt' = [attempt EXCEPT ![k].pc = pc],
             asked' \subseteq Number,
             UNCHANGED <<server, clients, reader, open, granted, hungup, crashed>>
      PROVE  Inv'
    <2>1. pc \in AttemptPc \ {"begin", "dial"}
        BY DEF AttemptPc
    <2>2. /\ phase' = phase /\ poolMode' = poolMode
          /\ isActive' = isActive /\ current' = current
        BY <1>5 DEF server
    <2>3. QED
        BY <1>1, <1>2, <1>5, <2>1, <2>2, AfterDialStep
<1>6. CASE DialFails(k)
    BY <1>4, <1>6 DEF DialFails, pool
<1>7. CASE SendSubscribe(k)
    <2>1. UNCHANGED <<clients, reader, open, asked, granted, hungup, crashed>>
        BY <1>7 DEF SendSubscribe, pool
    <2>2. CASE attempt' = [attempt EXCEPT ![k].pc = "authorize"] /\ UNCHANGED server
        BY <1>2, <1>5, <2>1, <2>2
    <2>3. CASE Return(k, "failed")
        BY <1>4, <2>1, <2>3
    <2>4. QED
        BY <1>7, <2>2, <2>3 DEF SendSubscribe
<1>8. CASE SendAuthorize(k)
    <2>1. UNCHANGED <<clients, reader, open, granted, hungup, crashed>>
        BY <1>8 DEF SendAuthorize
    <2>2. CASE /\ Client(k).conn # None
               /\ asked' = asked \cup {Client(k).conn}
               /\ attempt' = [attempt EXCEPT ![k].pc = "wait"]
               /\ UNCHANGED server
        <3>1. Client(k).conn \in Number
            BY <1>3, <2>2 DEF ClientRecord
        <3>2. asked' \subseteq Number
            BY <1>2, <2>2, <3>1
        <3>3. QED
            BY <1>5, <2>1, <2>2, <3>2
    <2>3. CASE Return(k, "failed") /\ UNCHANGED asked
        BY <1>4, <2>1, <2>3
    <2>4. QED
        BY <1>8, <2>2, <2>3 DEF SendAuthorize
<1>9. CASE WaitEnds(k)
    BY <1>4, <1>9 DEF WaitEnds, pool
<1>10. QED
    BY <1>6, <1>7, <1>8, <1>9

\* An attempt takes the server's client, which it has not had before.
LEMMA BeginStep ==
    ASSUME Inv, NEW k \in Number, Begin(k)
    PROVE  Inv'
<1>1. /\ k \in DOMAIN attempt /\ attempt[k].pc = "begin"
      /\ attempt' = [attempt EXCEPT ![k].client = current, ![k].pc = "dial"]
      /\ UNCHANGED <<phase, poolMode, isActive, current, clients, reader, open,
                     asked, granted, hungup, crashed>>
    BY DEF Begin, At, server, pool
<1>2. /\ clients \in Seq(ClientRecord) /\ attempt[k] \in AttemptRecord
      /\ Len(clients) \in Nat /\ DOMAIN clients = 1..Len(clients)
    BY <1>1, Types DEF Inv
<1>3. current \in DOMAIN clients /\ current \in 0..Len(clients)
    BY <1>1, <1>2, ClientOfAttempt
<1> DEFINE r == [attempt[k] EXCEPT !.client = current, !.pc = "dial"]
<1>4. r \in AttemptRecord /\ r.pc = "dial" /\ r.client = current
    BY <1>2, <1>3 DEF AttemptRecord, AttemptPc
<1>5. attempt' = [attempt EXCEPT ![k] = r]
    BY <1>1, <1>2 DEF AttemptRecord
<1> HIDE DEF r
<1>6. /\ attempt' \in Seq(AttemptRecord) /\ Len(attempt') = Len(attempt)
      /\ DOMAIN attempt' = DOMAIN attempt /\ attempt'[k] = r
      /\ \A j \in DOMAIN attempt \ {k} : attempt'[j] = attempt[j]
    BY <1>1, <1>4, <1>5, SetAttempt DEF Inv
<1>7. AttemptRecord' = AttemptRecord
    BY <1>1 DEF AttemptRecord
<1>8. TypeOK'
    <2>1. TypesOfServer' /\ TypesOfConnections'
        BY <1>1 DEF Inv, TypeOK, TypesOfServer, TypesOfConnections
    <2>2. Len(attempt') <= Len(clients')
        BY <1>1, <1>6 DEF Inv, TypeOK
    <2>3. QED
        BY <1>1, <1>2, <1>6, <1>7, <2>1, <2>2, TypePartsNext
<1>9. NewIsIdle' /\ CurrentIsLast'
    <2>1. attempt # <<>>
        BY <1>1
    <2>2. QED
        BY <1>1, <2>1 DEF Inv, NewIsIdle, CurrentIsLast
<1>10. AttemptsHaveClients'
    BY <1>1, <1>3, <1>4, <1>6 DEF Inv, AttemptsHaveClients
<1>11. DialledOnly'
    BY <1>1, <1>6 DEF Inv, DialledOnly
<1>12. OpenIsReachable'
    <2> SUFFICES ASSUME NEW j \in open
                 PROVE  \/ attempt'[j].client = current /\ Client(j)' = Client(j)
                           /\ Client(j).conn = j /\ ~Client(j).cancelled
                        \/ Late(j)' \/ Doubled(j)'
        BY <1>1 DEF OpenIsReachable
    <2>1. /\ attempt'[j].client = attempt[j].client
          /\ (Late(j) => Late(j)') /\ (Doubled(j) => Doubled(j)')
        BY <1>1, <1>6, RacesStay
    <2>2. Client(j)' = Client(j)
        BY <1>1, <2>1 DEF Client
    <2>3. QED
        BY <2>1, <2>2 DEF Inv, OpenIsReachable
<1>13. QED
    BY <1>8, <1>9, <1>10, <1>11, <1>12 DEF Inv

\* The connection becomes its client's.  The client is alive only if it is the server's;
\* the connection it had is another attempt's.
LEMMA DialStep ==
    ASSUME Inv, NEW k \in Number, Dial(k)
    PROVE  Inv'
<1>1. /\ k \in DOMAIN attempt /\ attempt[k].pc = "dial"
      /\ open' = open \cup {k}
      /\ clients' = [clients EXCEPT ![attempt[k].client].conn = k]
      /\ attempt' = [attempt EXCEPT ![k].pc = "subscribe", ![k].late = Client(k).cancelled]
      /\ reader' = [reader EXCEPT ![k].pc = "start"]
      /\ UNCHANGED <<phase, poolMode, isActive, current, asked, granted, hungup, crashed>>
    BY DEF Dial, At, server, pool
<1>2. /\ clients \in Seq(ClientRecord) /\ attempt[k] \in AttemptRecord
      /\ Len(clients) \in Nat /\ DOMAIN clients = 1..Len(clients)
    BY <1>1, Types DEF Inv
<1>3. attempt[k].client \in DOMAIN clients /\ Client(k) \in ClientRecord
    BY <1>1, ClientOfAttempt
<1> DEFINE r == [attempt[k] EXCEPT !.pc = "subscribe", !.late = Client(k).cancelled]
           s == [Client(k) EXCEPT !.conn = k]
<1>4. /\ r \in AttemptRecord /\ r.pc = "subscribe" /\ r.client = attempt[k].client
      /\ r.late = Client(k).cancelled
    BY <1>2, <1>3 DEF AttemptRecord, AttemptPc, ClientRecord
<1>5. s \in ClientRecord /\ s.conn = k /\ s.cancelled = Client(k).cancelled
    BY <1>3 DEF ClientRecord
<1>6. attempt' = [attempt EXCEPT ![k] = r] /\ clients' = [clients EXCEPT ![attempt[k].client] = s]
    <2>1. attempt' = [attempt EXCEPT ![k] = r]
        BY <1>1, <1>2 DEF AttemptRecord
    <2>2. clients' = [clients EXCEPT ![attempt[k].client] = s]
        BY <1>1 DEF Client
    <2>3. QED
        BY <2>1, <2>2
<1> HIDE DEF r, s
<1>7. /\ attempt' \in Seq(AttemptRecord) /\ Len(attempt') = Len(attempt)
      /\ DOMAIN attempt' = DOMAIN attempt /\ attempt'[k] = r
      /\ \A j \in DOMAIN attempt \ {k} : attempt'[j] = attempt[j]
    BY <1>1, <1>4, <1>6, SetAttempt DEF Inv
<1>8. /\ clients' \in Seq(ClientRecord) /\ Len(clients') = Len(clients)
      /\ DOMAIN clients' = DOMAIN clients /\ clients'[attempt[k].client] = s
      /\ \A d \in DOMAIN clients \ {attempt[k].client} : clients'[d] = clients[d]
    BY <1>3, <1>5, <1>6, SetClient DEF Inv
<1>9. AttemptRecord' = AttemptRecord
    BY <1>8 DEF AttemptRecord
<1>10. TypeOK'
    <2>1. TypesOfServer'
        BY <1>1, <1>8 DEF Inv, TypeOK, TypesOfServer
    <2>2. TypesOfConnections'
        BY <1>1 DEF Inv, TypeOK, TypesOfConnections
    <2>3. Len(attempt') <= Len(clients')
        BY <1>7, <1>8 DEF Inv, TypeOK
    <2>4. QED
        BY <1>7, <1>8, <1>9, <2>1, <2>2, <2>3, TypePartsNext
<1>11. NewIsIdle'
    BY <1>1 DEF Inv, NewIsIdle
<1>12. CurrentIsLast'
    BY <1>1, <1>3, <1>5, <1>8 DEF Inv, CurrentIsLast, Client
<1>13. AttemptsHaveClients'
    BY <1>3, <1>4, <1>7, <1>8 DEF Inv, AttemptsHaveClients
<1>14. DialledOnly'
    <2>1. reader \in [Number -> [pc : {"none", "start", "read", "done"}, conn : Number \cup {None}]]
        BY DEF Inv, TypeOK
    <2>2. QED
        BY <1>1, <1>4, <1>7, <2>1 DEF Inv, DialledOnly
<1>15. ASSUME NEW j \in open'
       PROVE  \/ attempt'[j].client = current /\ clients'[attempt'[j].client].conn = j
                 /\ ~clients'[attempt'[j].client].cancelled
              \/ Late(j)' \/ Doubled(j)'
    <2>1. CASE j = k
        <3>1. attempt'[j].client = attempt[k].client /\ Late(j)' = Client(k).cancelled
            BY <1>4, <1>7, <2>1 DEF Late
        <3>2. CASE Client(k).cancelled
            BY <3>1, <3>2
        <3>3. CASE ~Client(k).cancelled
            <4>1. attempt[k].client = current
                BY <1>3, <3>3 DEF Inv, CurrentIsLast, Client
            <4>2. QED
                BY <1>5, <1>8, <2>1, <3>1, <3>3, <4>1
        <3>4. QED
            BY <3>2, <3>3
    <2>2. CASE j # k
        <3>1. j \in open /\ j \in DOMAIN attempt /\ j \in DOMAIN attempt'
              /\ attempt'[j].client = attempt[j].client
              /\ (Late(j) => Late(j)') /\ (Doubled(j) => Doubled(j)')
            <4>1. j \in open /\ k \notin open
                BY <1>1, <2>2 DEF Inv, DialledOnly
            <4>2. QED
                BY <1>4, <1>7, <4>1, RacesStay
        <3>2. CASE attempt[j].client = attempt[k].client
            <4>1. k \in DOMAIN attempt' \ {j} /\ attempt'[k].client = attempt'[j].client
                BY <1>1, <1>4, <1>7, <2>2, <3>1, <3>2
            <4>2. Doubled(j)'
                BY <4>1 DEF Doubled
            <4>3. QED
                BY <4>2
        <3>3. CASE attempt[j].client # attempt[k].client
            <4>1. attempt[j].client \in DOMAIN clients
                BY <3>1 DEF Inv, AttemptsHaveClients, DialledOnly, TypeOK
            <4>2. clients'[attempt'[j].client] = Client(j)
                BY <1>8, <3>1, <3>3, <4>1 DEF Client
            <4>3. QED
                BY <3>1, <4>2 DEF Inv, OpenIsReachable
        <3>4. QED
            BY <3>2, <3>3
    <2>3. QED
        BY <2>1, <2>2
<1>16. OpenIsReachable'
    BY <1>1, <1>15 DEF OpenIsReachable, Client
<1>17. QED
    BY <1>10, <1>11, <1>12, <1>13, <1>14, <1>16 DEF Inv

\* A step that leaves the attempts as they are, and no more of the clients than whether
\* they are authorized.
LEMMA AttemptsStay ==
    ASSUME Inv, attempt' = attempt, current' = current, open' = open,
           DOMAIN clients' = DOMAIN clients,
           \A c \in DOMAIN clients : /\ clients'[c].conn = clients[c].conn
                                     /\ clients'[c].cancelled = clients[c].cancelled
    PROVE  OpenIsReachable' /\ AttemptsHaveClients'
<1>1. AttemptsHaveClients'
    BY DEF Inv, AttemptsHaveClients
<1>2. ASSUME NEW j \in open
      PROVE  /\ Client(j)'.conn = Client(j).conn /\ Client(j)'.cancelled = Client(j).cancelled
             /\ Late(j)' = Late(j) /\ Doubled(j)' = Doubled(j)
    <2>1. attempt[j].client \in DOMAIN clients
        BY DEF Inv, AttemptsHaveClients, DialledOnly, TypeOK
    <2>2. QED
        BY <2>1 DEF Client, Late, Doubled
<1>3. OpenIsReachable'
    BY <1>2 DEF Inv, OpenIsReachable
<1>4. QED
    BY <1>1, <1>3

\* The reader of an attempt: it finds its connection or none, and it ends.
LEMMA ReaderStep ==
    ASSUME Inv, NEW k \in Number, ReaderStarts(k) \/ ReaderEnds(k)
    PROVE  Inv'
<1>1. /\ reader[k].pc # "none" /\ k \in DOMAIN attempt
      /\ attempt[k].pc \notin {"begin", "dial"}
    BY DEF ReaderStarts, ReaderEnds, Inv, DialledOnly
<1>2. Client(k) \in ClientRecord
    BY <1>1, ClientOfAttempt
<1>3. /\ UNCHANGED <<phase, poolMode, isActive, current, clients, attempt, open,
                     asked, granted, hungup>>
      /\ crashed' \in BOOLEAN
    BY DEF ReaderStarts, ReaderEnds, server, pool, Inv, TypeOK
<1> DEFINE R == [pc : {"none", "start", "read", "done"}, conn : Number \cup {None}]
<1>4. reader \in [Number -> R]
    BY DEF Inv, TypeOK
<1>5. \E r \in R : reader' = [reader EXCEPT ![k] = r]
    <2>1. reader[k] \in R /\ [reader[k] EXCEPT !.pc = "done"] \in R
        BY <1>4
    <2>2. Client(k).conn # None => [pc |-> "read", conn |-> Client(k).conn] \in R
        BY <1>2 DEF ClientRecord
    <2>3. CASE ReaderEnds(k)
        BY <2>1, <2>3 DEF ReaderEnds
    <2>4. CASE ReaderStarts(k)
        BY <2>1, <2>2, <2>4 DEF ReaderStarts
    <2>5. QED
        BY <2>3, <2>4
<1>6. reader' \in [Number -> R] /\ \A j \in Number \ {k} : reader'[j] = reader[j]
    BY <1>4, <1>5
<1>7. TypeOK'
    <2>1. TypesOfServer' /\ TypesOfConnections'
        BY <1>3, <1>6 DEF Inv, TypeOK, TypesOfServer, TypesOfConnections
    <2>2. AttemptRecord' = AttemptRecord
        BY <1>3 DEF AttemptRecord
    <2>3. QED
        BY <1>3, <2>1, <2>2, Types, TypePartsNext DEF Inv, TypeOK
<1>8. NewIsIdle' /\ CurrentIsLast'
    BY <1>3 DEF Inv, NewIsIdle, CurrentIsLast
<1>9. DialledOnly'
    BY <1>1, <1>3, <1>6 DEF Inv, DialledOnly
<1>10. OpenIsReachable' /\ AttemptsHaveClients'
    BY <1>3, AttemptsStay
<1>11. QED
    BY <1>7, <1>8, <1>9, <1>10 DEF Inv

\* A line may authorize the client; a reader whose client was disconnected ends at it.
LEMMA ReadLineStep ==
    ASSUME Inv, NEW k \in Number, NEW id \in {Authorize, Other}, NEW ok \in BOOLEAN,
           ReadLine(k, id, ok)
    PROVE  Inv'
<1> DEFINE n == reader[k].conn
           c == attempt[k].client
           r == AfterLine(clients[c], id, ok)
           R == [pc : {"none", "start", "read", "done"}, conn : Number \cup {None}]
<1>1. /\ reader[k].pc = "read" /\ k \in DOMAIN attempt
      /\ attempt[k].pc \notin {"begin", "dial"}
      /\ UNCHANGED <<phase, poolMode, isActive, current, attempt, open, hungup, crashed>>
    BY DEF ReadLine, server, Inv, DialledOnly
<1>2. c \in DOMAIN clients /\ clients[c] \in ClientRecord /\ c \in 1..Len(clients)
    BY <1>1, ClientOfAttempt, Types DEF Inv, Client
<1>3. r \in ClientRecord /\ r.conn = clients[c].conn /\ r.cancelled = clients[c].cancelled
    <2>1. clients[c].authorized \in BOOLEAN
        BY <1>2 DEF ClientRecord
    <2>2. (clients[c].authorized \/ (Decoded(id) = Literal(Authorize) /\ ok)) \in BOOLEAN
        OBVIOUS
    <2>3. QED
        BY <1>2, <2>1, <2>2 DEF AfterLine, ClientRecord
<1>4. /\ clients' \in Seq(ClientRecord) /\ Len(clients') = Len(clients)
      /\ DOMAIN clients' = DOMAIN clients
      /\ \A d \in DOMAIN clients : /\ clients'[d].conn = clients[d].conn
                                   /\ clients'[d].cancelled = clients[d].cancelled
    <2>1. CASE clients' = clients
        BY <2>1, Types DEF Inv
    <2>2. CASE clients' = [clients EXCEPT ![c] = r]
        <3> HIDE DEF r, c
        <3>1. /\ clients' \in Seq(ClientRecord) /\ Len(clients') = Len(clients)
              /\ DOMAIN clients' = DOMAIN clients /\ clients'[c] = r
              /\ \A d \in DOMAIN clients \ {c} : clients'[d] = clients[d]
            BY <1>2, <1>3, <2>2, SetClient DEF Inv
        <3>2. QED
            BY <1>3, <3>1
    <2>3. QED
        BY <2>1, <2>2 DEF ReadLine
<1>5. reader \in [Number -> R] /\ n \in Number \cup {None}
    BY DEF Inv, TypeOK
<1>6. /\ reader' \in [Number -> R]
      /\ \A j \in Number : reader'[j].pc # "none" => reader[j].pc # "none"
    BY <1>1, <1>5 DEF ReadLine
<1>7. asked' \subseteq Number /\ granted' \subseteq Number
    BY DEF ReadLine, Inv, TypeOK
<1>8. TypeOK'
    <2>1. TypesOfServer'
        BY <1>1, <1>4 DEF Inv, TypeOK, TypesOfServer
    <2>2. TypesOfConnections'
        BY <1>1, <1>6, <1>7 DEF Inv, TypeOK, TypesOfConnections
    <2>3. AttemptRecord' = AttemptRecord
        BY <1>4 DEF AttemptRecord
    <2>4. attempt' \in Seq(AttemptRecord) /\ Len(attempt') <= Len(clients')
        BY <1>1, <1>4, Types DEF Inv, TypeOK
    <2>5. QED
        BY <1>4, <2>1, <2>2, <2>3, <2>4, TypePartsNext
<1>9. NewIsIdle'
    BY <1>1 DEF Inv, NewIsIdle
<1>10. CurrentIsLast'
    BY <1>1, <1>4 DEF Inv, CurrentIsLast
<1>11. DialledOnly'
    BY <1>1, <1>6 DEF Inv, DialledOnly
<1>12. OpenIsReachable' /\ AttemptsHaveClients'
    BY <1>1, <1>4, AttemptsStay
<1>13. QED
    BY <1>8, <1>9, <1>10, <1>11, <1>12 DEF Inv

\* The owner's flags, and the pool's side of a connection.
LEMMA FlagStep ==
    ASSUME Inv, TypesOfServer', phase' # "new", poolMode' \in BOOLEAN,
           hungup' \subseteq Number,
           UNCHANGED <<current, clients, attempt, reader, open, asked, granted, crashed>>
    PROVE  Inv'
<1>1. TypeOK'
    <2>1. TypesOfConnections'
        BY DEF Inv, TypeOK, TypesOfConnections
    <2>2. AttemptRecord' = AttemptRecord
        BY DEF AttemptRecord
    <2>3. QED
        BY <2>1, <2>2, Types, TypePartsNext DEF Inv, TypeOK
<1>2. NewIsIdle' /\ CurrentIsLast' /\ DialledOnly'
    BY DEF Inv, NewIsIdle, CurrentIsLast, DialledOnly
<1>3. OpenIsReachable' /\ AttemptsHaveClients'
    BY AttemptsStay
<1>4. QED
    BY <1>1, <1>2, <1>3 DEF Inv

\* An attempt more has no client yet.
LEMMA AppendAttempt ==
    ASSUME Inv, NEW byStart \in BOOLEAN, attempt' = NewAttempt(byStart),
           Len(clients') \in Nat, Len(clients') >= Len(clients)
    PROVE  /\ attempt' \in Seq(AttemptRecord') /\ Len(attempt') = Len(attempt) + 1
           /\ DOMAIN attempt' = DOMAIN attempt \cup {Len(attempt) + 1}
           /\ Len(attempt) + 1 \notin DOMAIN attempt
           /\ \A j \in DOMAIN attempt : attempt'[j] = attempt[j]
           /\ attempt'[Len(attempt) + 1].pc = "begin"
           /\ attempt'[Len(attempt) + 1].client = None
<1> DEFINE r == [client |-> None, pc |-> "begin", late |-> FALSE, byStart |-> byStart]
<1>1. r.pc = "begin" /\ r.client = None
    OBVIOUS
<1>2. r \in AttemptRecord'
    BY DEF AttemptRecord, AttemptPc, None
<1>3. attempt' = Append(attempt, r)
    BY DEF NewAttempt
<1> HIDE DEF r
<1>4. /\ attempt \in Seq(AttemptRecord) /\ Len(attempt) \in Nat /\ Len(clients) \in Nat
      /\ DOMAIN attempt = 1..Len(attempt)
    BY Types DEF Inv
<1>5. attempt \in Seq(AttemptRecord')
    <2>1. \A x \in AttemptRecord : x \in AttemptRecord'
        BY <1>4 DEF AttemptRecord
    <2> DEFINE S == AttemptRecord
               T == AttemptRecord'
    <2>2. attempt \in Seq(S) /\ \A x \in S : x \in T
        BY <1>4, <2>1
    <2> HIDE DEF S, T
    <2>3. attempt \in Seq(T)
        BY <2>2
    <2>4. QED
        BY <2>3 DEF T
<1>6. QED
    BY <1>1, <1>2, <1>3, <1>4, <1>5

\* Start finds the attempts empty and, if it connects, a client there.
LEMMA StartStep ==
    ASSUME Inv, Start
    PROVE  Inv'
<1>1. /\ phase = "new" /\ attempt = <<>> /\ (poolMode => clients # <<>>)
      /\ UNCHANGED <<poolMode, isActive, current, clients, reader, open,
                     asked, granted, hungup, crashed>>
    BY DEF Start, pool, Inv, NewIsIdle
<1>2. /\ clients \in Seq(ClientRecord) /\ Len(clients) \in Nat
      /\ Len(attempt) = 0 /\ DOMAIN attempt = {}
    BY <1>1, Types DEF Inv
<1>3. CASE poolMode
    <2>1. phase' = "connecting" /\ attempt' = NewAttempt(TRUE)
        BY <1>3 DEF Start
    <2>2. /\ attempt' \in Seq(AttemptRecord') /\ Len(attempt') = 1
          /\ DOMAIN attempt' = {1}
          /\ attempt'[1].pc = "begin" /\ attempt'[1].client = None
        <3>1. TRUE \in BOOLEAN /\ Len(clients') \in Nat /\ Len(clients') >= Len(clients)
            BY <1>1, <1>2
        <3>2. /\ attempt' \in Seq(AttemptRecord') /\ Len(attempt') = Len(attempt) + 1
              /\ DOMAIN attempt' = DOMAIN attempt \cup {Len(attempt) + 1}
              /\ attempt'[Len(attempt) + 1].pc = "begin"
              /\ attempt'[Len(attempt) + 1].client = None
            BY <2>1, <3>1, AppendAttempt
        <3>3. Len(attempt) + 1 = 1
            BY <1>2
        <3>4. QED
            BY <1>2, <3>2, <3>3
    <2>3. Len(clients) >= 1
        BY <1>1, <1>2, <1>3
    <2>4. TypeOK'
        <3>1. TypesOfServer' /\ TypesOfConnections'
            BY <1>1, <2>1 DEF Inv, TypeOK, TypesOfServer, TypesOfConnections
        <3>2. QED
            BY <1>1, <1>2, <2>2, <2>3, <3>1, TypePartsNext
    <2>5. NewIsIdle' /\ CurrentIsLast'
        BY <1>1, <2>1 DEF Inv, NewIsIdle, CurrentIsLast
    <2>6. AttemptsHaveClients'
        BY <2>2 DEF AttemptsHaveClients
    <2>7. open = {} /\ \A k \in Number : reader[k].pc = "none"
        BY <1>2 DEF Inv, DialledOnly, TypeOK
    <2>8. DialledOnly' /\ OpenIsReachable'
        BY <1>1, <2>7 DEF DialledOnly, OpenIsReachable
    <2>9. QED
        BY <2>4, <2>5, <2>6, <2>8 DEF Inv
<1>4. CASE ~poolMode
    <2>1. phase' = "activate" /\ attempt' = attempt
        BY <1>4 DEF Start
    <2>2. TypesOfServer'
        BY <1>1, <2>1 DEF Inv, TypeOK, TypesOfServer
    <2>3. QED
        BY <1>1, <2>1, <2>2, FlagStep DEF Inv, TypeOK
<1>5. QED
    BY <1>3, <1>4

\* Only the mode changes; a server that was not started needs no client then.
LEMMA SetSoloStep ==
    ASSUME Inv, SetSolo
    PROVE  Inv'
<1>1. /\ poolMode' = FALSE
      /\ UNCHANGED <<phase, isActive, current, clients, attempt, reader, open,
                     asked, granted, hungup, crashed>>
    BY DEF SetSolo, pool
<1>2. TypeOK'
    <2>1. TypesOfServer' /\ TypesOfConnections'
        BY <1>1 DEF Inv, TypeOK, TypesOfServer, TypesOfConnections
    <2>2. AttemptRecord' = AttemptRecord
        BY <1>1 DEF AttemptRecord
    <2>3. QED
        BY <1>1, <2>1, <2>2, Types, TypePartsNext DEF Inv, TypeOK
<1>3. NewIsIdle' /\ CurrentIsLast' /\ DialledOnly'
    BY <1>1 DEF Inv, NewIsIdle, CurrentIsLast, DialledOnly
<1>4. OpenIsReachable' /\ AttemptsHaveClients'
    BY <1>1, AttemptsStay
<1>5. QED
    BY <1>2, <1>3, <1>4 DEF Inv

-----------------------------------------------------------------------------
\* Disconnect cancels the server's client and closes the connection it has.
LEMMA Disconnected ==
    ASSUME Inv
    PROVE  /\ AfterDisconnect \in Seq(ClientRecord) /\ Len(AfterDisconnect) = Len(clients)
           /\ \A c \in DOMAIN clients : AfterDisconnect[c].cancelled
           /\ \A k \in open \ Closed : Late(k) \/ Doubled(k)
<1>1. /\ clients \in Seq(ClientRecord) /\ Len(clients) \in Nat
      /\ DOMAIN clients = 1..Len(clients)
      /\ \A c \in DOMAIN clients : clients[c] \in ClientRecord
    BY Types DEF Inv
<1>2. Stale \in ClientRecord /\ Stale.cancelled
    BY DEF Stale, ClientRecord, None
<1>3. \A c \in DOMAIN clients : AfterDisconnect[c] \in ClientRecord
    BY <1>1, <1>2 DEF AfterDisconnect
<1>4. AfterDisconnect \in Seq(ClientRecord) /\ Len(AfterDisconnect) = Len(clients)
    <2>1. AfterDisconnect = [c \in 1..Len(clients) |-> AfterDisconnect[c]]
        BY <1>1 DEF AfterDisconnect
    <2> DEFINE s == AfterDisconnect
    <2>2. s = [c \in 1..Len(clients) |-> s[c]] /\ \A c \in 1..Len(clients) : s[c] \in ClientRecord
        BY <1>1, <1>3, <2>1
    <2> HIDE DEF s
    <2>3. s \in Seq(ClientRecord) /\ Len(s) = Len(clients)
        BY <1>1, <2>2
    <2>4. QED
        BY <2>3 DEF s
<1>5. \A c \in DOMAIN clients : AfterDisconnect[c].cancelled
    BY <1>2 DEF AfterDisconnect, Inv, CurrentIsLast
<1>6. ASSUME NEW k \in open, k \notin Closed PROVE Late(k) \/ Doubled(k)
    <2>1. attempt[k].client \in DOMAIN clients
        BY DEF Inv, AttemptsHaveClients, DialledOnly, TypeOK
    <2>2. ~ (attempt[k].client = current /\ Client(k).conn = k)
        BY <1>6, <2>1 DEF Closed, Client
    <2>3. QED
        BY <2>2 DEF Inv, OpenIsReachable
<1>7. QED
    BY <1>4, <1>5, <1>6

\* A connection that outlives a disconnection is one that a race has left open.
LEMMA DisconnectStep ==
    ASSUME Inv, open' = open \ Closed,
           \A k \in DOMAIN attempt : k \in DOMAIN attempt' /\ attempt'[k] = attempt[k]
    PROVE  OpenIsReachable'
<1>1. ASSUME NEW k \in open' PROVE Late(k)' \/ Doubled(k)'
    <2>1. k \in open /\ k \in open \ Closed
        BY <1>1
    <2>2. Late(k) \/ Doubled(k)
        BY <2>1, Disconnected
    <2>3. (Late(k) => Late(k)') /\ (Doubled(k) => Doubled(k)')
        BY <2>1, RacesStay
    <2>4. QED
        BY <2>2, <2>3
<1>2. QED
    BY <1>1 DEF OpenIsReachable

\* Another client is the server's, and an attempt for it if the server runs.
LEMMA SetPoolStep ==
    ASSUME Inv, SetPool
    PROVE  Inv'
<1>1. /\ Len(clients) < MaxClients
      /\ open' = open \ Closed
      /\ clients' = Append(AfterDisconnect, NewClient)
      /\ current' = Len(clients') /\ poolMode' = TRUE
      /\ attempt' = IF isActive THEN NewAttempt(FALSE) ELSE attempt
      /\ UNCHANGED <<phase, isActive, reader, asked, granted, hungup, crashed>>
    BY DEF SetPool, pool
<1>2. /\ clients \in Seq(ClientRecord) /\ Len(clients) \in Nat
      /\ DOMAIN clients = 1..Len(clients)
      /\ attempt \in Seq(AttemptRecord) /\ Len(attempt) \in Nat
      /\ DOMAIN attempt = 1..Len(attempt) /\ Len(attempt) <= Len(clients)
      /\ MaxClients \in Nat
    BY Types, BoundsAssumption DEF Inv, TypeOK
<1>3. /\ AfterDisconnect \in Seq(ClientRecord) /\ Len(AfterDisconnect) = Len(clients)
      /\ \A c \in DOMAIN clients : AfterDisconnect[c].cancelled
    BY Disconnected
<1>4. NewClient \in ClientRecord
    BY DEF NewClient, ClientRecord, None
<1>5. /\ clients' \in Seq(ClientRecord) /\ Len(clients') = Len(clients) + 1
      /\ DOMAIN clients' = 1..(Len(clients) + 1)
      /\ \A c \in DOMAIN clients : clients'[c] = AfterDisconnect[c]
    <2> DEFINE s == AfterDisconnect
               e == NewClient
    <2>1. /\ s \in Seq(ClientRecord) /\ Len(s) = Len(clients) /\ e \in ClientRecord
          /\ clients' = Append(s, e)
        BY <1>1, <1>3, <1>4
    <2> HIDE DEF s, e
    <2>2. /\ clients' \in Seq(ClientRecord) /\ Len(clients') = Len(clients) + 1
          /\ DOMAIN clients' = 1..(Len(clients) + 1)
          /\ \A c \in DOMAIN clients : clients'[c] = s[c]
        BY <1>2, <2>1
    <2>3. QED
        BY <2>2 DEF s
<1>6. Len(clients') \in Nat /\ Len(clients') >= Len(clients) /\ Len(clients') >= 1
    BY <1>2, <1>5
<1>7. /\ attempt' \in Seq(AttemptRecord') /\ Len(attempt') <= Len(clients')
      /\ \A k \in DOMAIN attempt : k \in DOMAIN attempt' /\ attempt'[k] = attempt[k]
      /\ \A k \in DOMAIN attempt' \ DOMAIN attempt :
            attempt'[k].pc = "begin" /\ attempt'[k].client = None
    <2>1. CASE isActive
        <3>1. attempt' = NewAttempt(FALSE)
            BY <1>1, <2>1
        <3>2. FALSE \in BOOLEAN /\ Len(clients') >= Len(clients)
            BY <1>6
        <3>3. /\ attempt' \in Seq(AttemptRecord') /\ Len(attempt') = Len(attempt) + 1
              /\ DOMAIN attempt' = DOMAIN attempt \cup {Len(attempt) + 1}
              /\ \A j \in DOMAIN attempt : attempt'[j] = attempt[j]
              /\ attempt'[Len(attempt) + 1].pc = "begin"
              /\ attempt'[Len(attempt) + 1].client = None
            BY <1>6, <3>1, <3>2, AppendAttempt
        <3>4. Len(attempt') <= Len(clients')
            BY <1>2, <1>5, <3>3
        <3>5. QED
            BY <3>3, <3>4
    <2>2. CASE ~isActive
        <3>1. \A x \in AttemptRecord : x \in AttemptRecord'
            BY <1>2, <1>6 DEF AttemptRecord
        <3> DEFINE S == AttemptRecord
                   T == AttemptRecord'
        <3>2. attempt \in Seq(S) /\ (\A x \in S : x \in T) /\ attempt' = attempt
            BY <1>1, <1>2, <2>2, <3>1
        <3> HIDE DEF S, T
        <3>3. attempt' \in Seq(T)
            BY <3>2
        <3>4. attempt' \in Seq(AttemptRecord')
            BY <3>3 DEF T
        <3>5. QED
            BY <1>2, <1>5, <1>6, <3>2, <3>4
    <2>3. QED
        BY <2>1, <2>2 DEF Inv, TypeOK
<1>8. TypeOK'
    <2>1. current' \in 0..Len(clients')
        BY <1>1, <1>6
    <2>2. TypesOfServer'
        BY <1>1, <2>1 DEF Inv, TypeOK, TypesOfServer
    <2>3. TypesOfConnections'
        BY <1>1 DEF Inv, TypeOK, TypesOfConnections
    <2>4. QED
        BY <1>5, <1>7, <2>2, <2>3, TypePartsNext
<1>9. NewIsIdle'
    <2>1. clients' # <<>>
        BY <1>2, <1>5
    <2>2. QED
        BY <1>1, <2>1 DEF Inv, NewIsIdle
<1>10. CurrentIsLast'
    <2>1. Len(clients') <= MaxClients
        BY <1>1, <1>2, <1>5
    <2>2. ASSUME NEW c \in DOMAIN clients', c # current' PROVE clients'[c].cancelled
        <3>1. c \in DOMAIN clients
            BY <1>1, <1>2, <1>5, <2>2
        <3>2. QED
            BY <1>3, <1>5, <3>1
    <2>3. QED
        BY <1>1, <2>1, <2>2 DEF CurrentIsLast
<1>11. AttemptsHaveClients'
    <2>1. DOMAIN clients \subseteq DOMAIN clients'
        BY <1>2, <1>5
    <2>2. ASSUME NEW k \in DOMAIN attempt'
          PROVE  attempt'[k].client \in IF attempt'[k].pc = "begin" THEN {None} ELSE DOMAIN clients'
        <3>1. CASE k \in DOMAIN attempt
            BY <1>7, <2>1, <3>1 DEF Inv, AttemptsHaveClients
        <3>2. CASE k \notin DOMAIN attempt
            BY <1>7, <3>2
        <3>3. QED
            BY <3>1, <3>2
    <2>3. QED
        BY <2>2 DEF AttemptsHaveClients
<1>12. DialledOnly'
    BY <1>1, <1>7 DEF Inv, DialledOnly
<1>13. OpenIsReachable'
    BY <1>1, <1>7, DisconnectStep
<1>14. QED
    BY <1>8, <1>9, <1>10, <1>11, <1>12, <1>13 DEF Inv

\* Stop closes the connection of the current client.
LEMMA StopStep ==
    ASSUME Inv, Stop
    PROVE  Inv'
<1>1. /\ phase' = "stopped" /\ open' = open \ Closed /\ clients' = AfterDisconnect
      /\ isActive' = FALSE
      /\ UNCHANGED <<poolMode, current, attempt, reader, asked, granted, hungup, crashed>>
    BY DEF Stop, pool
<1>2. /\ clients' \in Seq(ClientRecord) /\ Len(clients') = Len(clients)
      /\ \A c \in DOMAIN clients : clients'[c].cancelled
    BY <1>1, Disconnected
<1>3. DOMAIN clients' = DOMAIN clients
    BY <1>2, Types DEF Inv
<1>4. TypeOK'
    <2>1. TypesOfServer'
        BY <1>1, <1>2 DEF Inv, TypeOK, TypesOfServer
    <2>2. TypesOfConnections'
        BY <1>1 DEF Inv, TypeOK, TypesOfConnections
    <2>3. AttemptRecord' = AttemptRecord
        BY <1>2 DEF AttemptRecord
    <2>4. attempt' \in Seq(AttemptRecord) /\ Len(attempt') <= Len(clients')
        BY <1>1, <1>2, Types DEF Inv, TypeOK
    <2>5. QED
        BY <1>2, <2>1, <2>2, <2>3, <2>4, TypePartsNext
<1>5. NewIsIdle' /\ DialledOnly'
    BY <1>1 DEF Inv, NewIsIdle, DialledOnly
<1>6. CurrentIsLast' /\ AttemptsHaveClients'
    BY <1>1, <1>2, <1>3 DEF Inv, CurrentIsLast, AttemptsHaveClients
<1>7. OpenIsReachable'
    BY <1>1, DisconnectStep
<1>8. QED
    BY <1>4, <1>5, <1>6, <1>7 DEF Inv

\* Every step keeps the invariant.
LEMMA NextInv == Inv /\ [Next]_vars => Inv'
<1> SUFFICES ASSUME Inv, [Next]_vars PROVE Inv'
    OBVIOUS
<1>1. CASE UNCHANGED vars
    <2>1. UNCHANGED <<phase, poolMode, isActive, current, clients, attempt, reader, open,
                      asked, granted, hungup, crashed>>
        BY <1>1 DEF vars, server, pool
    <2>2. TypeOK' /\ NewIsIdle' /\ CurrentIsLast' /\ DialledOnly'
        BY <2>1, Zenon DEF Inv, TypeOK, NewIsIdle, CurrentIsLast, DialledOnly
    <2>3. OpenIsReachable' /\ AttemptsHaveClients'
        BY <2>1, AttemptsStay
    <2>4. QED
        BY <2>2, <2>3 DEF Inv
<1>2. CASE Activate
    <2>1. TypesOfServer'
        BY <1>2 DEF Activate, Inv, TypeOK, TypesOfServer
    <2>2. QED
        BY <1>2, <2>1, FlagStep DEF Activate, pool, Inv, TypeOK
<1>3. ASSUME NEW k \in Number, PoolHangsUp(k) PROVE Inv'
    <2>1. /\ k \in open /\ hungup' = hungup \cup {k}
          /\ UNCHANGED <<phase, poolMode, isActive, current, clients, attempt, reader, open,
                         asked, granted, crashed>>
        BY <1>3 DEF PoolHangsUp, server
    <2>2. phase # "new"
        BY <2>1 DEF Inv, DialledOnly, NewIsIdle, TypeOK
    <2>3. TypesOfServer' /\ hungup' \subseteq Number
        BY <2>1 DEF Inv, TypeOK, TypesOfServer
    <2>4. QED
        BY <2>1, <2>2, <2>3, FlagStep DEF Inv, TypeOK
<1>4. ASSUME NEW k \in Number, ConnectToPool(k) PROVE Inv'
    BY <1>4, BeginStep, DialStep, AfterDialSteps DEF ConnectToPool
<1>5. ASSUME NEW k \in Number, HandleMessages(k) PROVE Inv'
    BY <1>5, ReaderStep, ReadLineStep DEF HandleMessages
<1>6. CASE Start \/ SetPool \/ SetSolo \/ Stop
    BY <1>6, StartStep, SetPoolStep, SetSoloStep, StopStep
<1>7. QED
    BY <1>1, <1>2, <1>3, <1>4, <1>5, <1>6 DEF Next

\* The invariant of the clients, the attempts and the connections.
THEOREM ConnectionsAreKept == Spec => []Inv
BY InitInv, NextInv, PTL DEF Spec

\* The types of the server, the clients, the attempts and the readers.
THEOREM TypeCorrect == Spec => []TypeOK
<1>1. Inv => TypeOK
    BY DEF Inv
<1>2. QED
    BY <1>1, ConnectionsAreKept, PTL

\* An open connection is the server's client's, or came after its client was disconnected,
\* or is one of two of one client (server.go:346-433): whatever the number of clients.
THEOREM OpenStaysReachable == Spec => []OpenIsReachable
<1>1. Inv => OpenIsReachable
    BY DEF Inv
<1>2. QED
    BY <1>1, ConnectionsAreKept, PTL
=============================================================================
