----------------------------- MODULE MinerServer -----------------------------
(***************************************************************************)
(* The miner's connection to a pool: MinerServer (services/miner/server.go)*)
(* and StratumClient (services/miner/stratum_client.go).  Start connects,  *)
(* waits for the pool's authorization and falls back to solo mining.       *)
(* SetMiningConfiguration disconnects the client, makes another and        *)
(* connects it in a goroutine; Stop disconnects the client.  A connection  *)
(* attempt looks up the server's client when it runs, not when it was      *)
(* started, and holds no lock while it dials, so it meets the other two.   *)
(*                                                                         *)
(* An attempt is a goroutine in connectToPool; the connection it dials and *)
(* the reader goroutine it starts have its number.  The pool is external:  *)
(* it may answer a request or not, send jobs, and hang up.  Jobs, the      *)
(* difficulty and the extranonce are data that nothing but the status      *)
(* report reads, and are left out, as are shares, which nothing submits.   *)
(***************************************************************************)
EXTENDS Naturals, Sequences

CONSTANT
    MaxClients      \* bound: Stratum clients made

ASSUME BoundsAssumption == MaxClients \in Nat \ {0}

Number == 1..MaxClients
None == 0

\* The id of mining.authorize and of its answer; other lines (the answer to
\* mining.subscribe, jobs, difficulties) have another id or none.
Authorize == 2
Other == 0

\* encoding/json decodes a number in an interface{} as a float64; the switch of
\* processMessage compares it with an untyped constant, an int in an interface{}.
Decoded(n) == [type |-> "float64", value |-> n]
Literal(n) == [type |-> "int", value |-> n]

VARIABLES
    phase,      \* of the owner: "new", "connecting", "activate", "started", "stopped"
    poolMode, isActive,
    current,    \* ms.stratumClient
    clients,    \* clients[c]: conn, authorized, and whether its context is cancelled
    attempt,    \* attempt[k]: goroutines in connectToPool; byStart: Start itself
    reader,     \* reader[k]: goroutines in handleMessages
    open,       \* connections that this side has not closed
    asked,      \* connections with a mining.authorize that is not answered
    granted,    \* connections on which an answer that accepts the worker has been read
    hungup,     \* connections the pool has closed
    crashed     \* a reader has used a nil connection

server == <<phase, poolMode, isActive, current>>
pool   == <<asked, granted, hungup>>
vars   == <<server, clients, attempt, reader, open, pool, crashed>>

NewClient == [conn |-> None, authorized |-> FALSE, cancelled |-> FALSE]

\* BITCOIN_POOL_URL and BITCOIN_POOL_USERNAME are set, or not.
Init ==
    /\ phase = "new"
    /\ poolMode \in BOOLEAN
    /\ isActive = FALSE
    /\ clients = IF poolMode THEN <<NewClient>> ELSE <<>>
    /\ current = Len(clients)
    /\ attempt = <<>>
    /\ reader = [k \in Number |-> [pc |-> "none", conn |-> None]]
    /\ open = {}
    /\ asked = {}
    /\ granted = {}
    /\ hungup = {}
    /\ crashed = FALSE

NewAttempt(byStart) ==
    Append(attempt, [client |-> None, pc |-> "begin", late |-> FALSE, byStart |-> byStart])

(***************************************************************************)
(* connectToPool and Connect.                                              *)
(***************************************************************************)
At(k, pc) == k \in DOMAIN attempt /\ attempt[k].pc = pc

Client(k) == clients[attempt[k].client]

\* connectToPool returns; a failure makes Start, and Start only, fall back to solo mining.
Return(k, result) ==
    /\ attempt' = [attempt EXCEPT ![k].pc = result]
    /\ IF attempt[k].byStart
       THEN phase' = "activate" /\ poolMode' = (poolMode /\ result = "ok")
       ELSE UNCHANGED <<phase, poolMode>>
    /\ UNCHANGED <<isActive, current>>

\* The client is read here, without the server's lock.
Begin(k) ==
    /\ At(k, "begin")
    /\ attempt' = [attempt EXCEPT ![k].client = current, ![k].pc = "dial"]
    /\ UNCHANGED <<server, clients, reader, open, pool, crashed>>

DialFails(k) ==
    /\ At(k, "dial")
    /\ Return(k, "failed")
    /\ UNCHANGED <<clients, reader, open, pool, crashed>>

\* The connection is stored in the client whatever has become of that.
Dial(k) ==
    /\ At(k, "dial")
    /\ open' = open \cup {k}
    /\ clients' = [clients EXCEPT ![attempt[k].client].conn = k]
    /\ attempt' = [attempt EXCEPT ![k].pc = "subscribe", ![k].late = Client(k).cancelled]
    /\ reader' = [reader EXCEPT ![k].pc = "start"]
    /\ UNCHANGED <<server, pool, crashed>>

\* sendMessage writes to the connection that the client has by now.  An error leaves the
\* connection as it is.
SendSubscribe(k) ==
    /\ At(k, "subscribe")
    /\ \/ /\ Client(k).conn # None
          /\ attempt' = [attempt EXCEPT ![k].pc = "authorize"]
          /\ UNCHANGED server
       \/ /\ Client(k).conn \in hungup \cup {None}
          /\ Return(k, "failed")
    /\ UNCHANGED <<clients, reader, open, pool, crashed>>

SendAuthorize(k) ==
    /\ At(k, "authorize")
    /\ \/ /\ Client(k).conn # None
          /\ asked' = asked \cup {Client(k).conn}
          /\ attempt' = [attempt EXCEPT ![k].pc = "wait"]
          /\ UNCHANGED server
       \/ /\ Client(k).conn \in hungup \cup {None}
          /\ Return(k, "failed")
          /\ UNCHANGED asked
    /\ UNCHANGED <<clients, reader, open, granted, hungup, crashed>>

\* Mutant: the timer is made anew at each tick.
WaitWithoutEnd(k) ==
    /\ At(k, "wait")
    /\ clients[current].authorized
    /\ Return(k, "ok")
    /\ UNCHANGED <<clients, reader, open, pool, crashed>>

\* A tick at which the server's client is authorized, or the timeout, which may be
\* taken even then.
WaitEnds(k) ==
    /\ At(k, "wait")
    /\ \E result \in IF clients[current].authorized THEN {"ok", "failed"} ELSE {"failed"} :
          Return(k, result)
    /\ UNCHANGED <<clients, reader, open, pool, crashed>>

ConnectToPool(k) ==
    \/ Begin(k) \/ DialFails(k) \/ Dial(k)
    \/ SendSubscribe(k) \/ SendAuthorize(k) \/ WaitEnds(k)

(***************************************************************************)
(* handleMessages, of the client of attempt k.                             *)
(***************************************************************************)
\* The goroutine reads sc.conn without the lock, and maybe after a Disconnect.
ReaderStarts(k) ==
    /\ reader[k].pc = "start"
    /\ reader' = [reader EXCEPT ![k] =
            IF Client(k).conn = None THEN [@ EXCEPT !.pc = "done"]
                                     ELSE [pc |-> "read", conn |-> Client(k).conn]]
    /\ crashed' = (Client(k).conn = None)
    /\ UNCHANGED <<server, clients, attempt, open, pool>>

\* processMessage: what a line does to the client.
AfterLine(client, id, ok) ==
    [client EXCEPT !.authorized = @ \/ (Decoded(id) = Literal(Authorize) /\ ok)]

\* A line that the pool has sent; the context is looked at when it has come.
ReadLine(k, id, ok) ==
    LET n == reader[k].conn
    IN  /\ reader[k].pc = "read"
        /\ n \in open
        /\ id = Authorize => n \in asked
        /\ asked' = IF id = Authorize THEN asked \ {n} ELSE asked
        /\ IF Client(k).cancelled
           THEN /\ reader' = [reader EXCEPT ![k].pc = "done"]
                /\ UNCHANGED <<clients, granted>>
           ELSE /\ clients' = [clients EXCEPT ![attempt[k].client] = AfterLine(@, id, ok)]
                /\ granted' = IF id = Authorize /\ ok THEN granted \cup {n} ELSE granted
                /\ UNCHANGED reader
        /\ UNCHANGED <<server, attempt, open, hungup, crashed>>

\* Mutant: an error of the scanner does not end the loop.
ReadsOn(k) ==
    /\ reader[k].pc = "read"
    /\ reader[k].conn \in hungup \cap open
    /\ reader' = [reader EXCEPT ![k].pc = "done"]
    /\ UNCHANGED <<server, clients, attempt, open, pool, crashed>>

\* The end of the stream, or an error.  The connection is not closed, and the client
\* still says that it is connected.
ReaderEnds(k) ==
    /\ reader[k].pc = "read"
    /\ reader[k].conn \notin open \/ reader[k].conn \in hungup
    /\ reader' = [reader EXCEPT ![k].pc = "done"]
    /\ UNCHANGED <<server, clients, attempt, open, pool, crashed>>

HandleMessages(k) ==
    \/ ReaderStarts(k) \/ ReaderEnds(k)
    \/ \E id \in {Authorize, Other}, ok \in BOOLEAN : ReadLine(k, id, ok)

(***************************************************************************)
(* MinerServer.                                                            *)
(***************************************************************************)
Start ==
    /\ phase = "new"
    /\ IF poolMode THEN phase' = "connecting" /\ attempt' = NewAttempt(TRUE)
                   ELSE phase' = "activate" /\ UNCHANGED attempt
    /\ UNCHANGED <<poolMode, isActive, current, clients, reader, open, pool, crashed>>

Activate ==
    /\ phase = "activate"
    /\ phase' = "started"
    /\ isActive' = TRUE
    /\ UNCHANGED <<poolMode, current, clients, attempt, reader, open, pool, crashed>>

Stale == [conn |-> None, authorized |-> FALSE, cancelled |-> TRUE]

\* Mutant: Disconnect leaves the connection open.
NotClosed == {}

\* Disconnect, of the server's client if there is one; both callers hold the server's lock.
Closed == {clients[c].conn : c \in DOMAIN clients \cap {current}}

AfterDisconnect == [c \in DOMAIN clients |-> IF c = current THEN Stale ELSE clients[c]]

\* SetMiningConfiguration with the URL of a pool, of a server that is not stopped.
SetPool ==
    /\ phase # "stopped"
    /\ Len(clients) < MaxClients
    /\ open' = open \ Closed
    /\ clients' = Append(AfterDisconnect, NewClient)
    /\ current' = Len(clients')
    /\ poolMode' = TRUE
    /\ attempt' = IF isActive THEN NewAttempt(FALSE) ELSE attempt
    /\ UNCHANGED <<phase, isActive, reader, pool, crashed>>

\* Mutant: the goroutine is started for an empty URL too.
SetSoloConnecting ==
    /\ phase # "stopped"
    /\ current # None
    /\ poolMode' = FALSE
    /\ attempt' = NewAttempt(FALSE)
    /\ UNCHANGED <<phase, isActive, current, clients, reader, open, pool, crashed>>

\* With an empty URL.  The client stays as it is.
SetSolo ==
    /\ phase # "stopped"
    /\ poolMode' = FALSE
    /\ UNCHANGED <<phase, isActive, current, clients, attempt, reader, open, pool, crashed>>

\* The owner stops what it has started (cmd/mining-demo/main.go:163-175).
Stop ==
    /\ phase = "started"
    /\ phase' = "stopped"
    /\ open' = open \ Closed
    /\ clients' = AfterDisconnect
    /\ isActive' = FALSE
    /\ UNCHANGED <<poolMode, current, attempt, reader, pool, crashed>>

\* The pool closes the connection.
PoolHangsUp(k) ==
    /\ k \in open \ hungup
    /\ hungup' = hungup \cup {k}
    /\ UNCHANGED <<server, clients, attempt, reader, open, asked, granted, crashed>>

Next ==
    /\ ~crashed
    /\ \/ Start \/ Activate \/ SetPool \/ SetSolo \/ Stop
       \/ \E k \in Number : ConnectToPool(k) \/ HandleMessages(k)
       \/ \E k \in Number : PoolHangsUp(k)

Spec == Init /\ [][Next]_vars

\* Goroutines run, a dial ends by its timeout and the wait by its own.  The pool need not
\* send a line, and the owner need not stop.
Fairness ==
    /\ WF_vars(~crashed /\ (Start \/ Activate))
    /\ \A k \in Number : /\ WF_vars(~crashed /\ ConnectToPool(k))
                        /\ WF_vars(~crashed /\ (ReaderStarts(k) \/ ReaderEnds(k)))

FairSpec == Spec /\ Fairness

-----------------------------------------------------------------------------
TypeOK ==
    /\ phase \in {"new", "connecting", "activate", "started", "stopped"}
    /\ poolMode \in BOOLEAN /\ isActive \in BOOLEAN
    /\ current \in 0..Len(clients)
    /\ clients \in Seq([conn : Number \cup {None}, authorized : BOOLEAN, cancelled : BOOLEAN])
    /\ attempt \in Seq([client : 0..Len(clients), late : BOOLEAN, byStart : BOOLEAN,
                        pc : {"begin", "dial", "subscribe", "authorize", "wait", "ok", "failed"}])
    /\ Len(attempt) <= Len(clients)
    /\ reader \in [Number -> [pc : {"none", "start", "read", "done"}, conn : Number \cup {None}]]
    /\ open \subseteq Number /\ hungup \subseteq Number /\ granted \subseteq Number
    /\ asked \subseteq Number
    /\ crashed \in BOOLEAN

\* The connection came when its client had already been disconnected: nobody closes it.
Late(k) == attempt[k].late

\* Two attempts have connected one client, which keeps the later connection.
Doubled(k) == \E j \in DOMAIN attempt \ {k} : attempt[j].client = attempt[k].client

\* server.go:346-433 with stratum_client.go:75-112, 403-429: an open connection is that of
\* the server's client, so that the next configuration or Stop closes it.  The exceptions
\* are two races of attempts with those: a dial that ends after the Disconnect of its
\* client, and two attempts that look up the server's client after it was replaced again.
OpenIsReachable ==
    \A k \in open :
        \/ /\ attempt[k].client = current
           /\ Client(k).conn = k /\ ~Client(k).cancelled
        \/ Late(k) \/ Doubled(k)

\* Start returns, whatever the pool does or does not say (server.go:128-144), also when
\* the configuration is changed under it.
StartReturns == <>(phase = "started" \/ crashed)

\* After Stop every reader ends for good, or reads a connection that a race has left open
\* (stratum_client.go:172-192).
StopEndsReaders ==
    <>(phase = "stopped") =>
        <>[](\/ crashed
             \/ \A k \in Number :
                    \/ reader[k].pc \in {"none", "done"}
                    \/ reader[k].conn \in open /\ (Late(reader[k].conn) \/ Doubled(reader[k].conn)))

\* stratum_client.go:209: "case msg.ID == 2: // Authorize response": when the pool has
\* accepted the worker and the answer has been read, the client is authorized.
AuthorizedIsSeen ==
    \A k \in open \cap granted : ~Client(k).cancelled => Client(k).authorized
=============================================================================
