----------------------------- MODULE LedgerFeed -----------------------------
(***************************************************************************)
(* The Ledger fed by one client that follows a chain.  No caller of        *)
(* ApplyBlock is under src/; this is the caller the contract describes:    *)
(* overview.md:59 ("at-least-once delivery") and prev_tip_hash, the tip    *)
(* the caller builds on.  It sends the blocks of Chain in order, resends   *)
(* one that was not acknowledged, and goes on at the acknowledgement, all  *)
(* it can know.  A request or its acknowledgement may be lost, and a copy  *)
(* of a request may stay in the network and arrive after later blocks:     *)
(* ApplyBlock (server.go:132-147) does not compare prev_tip_hash with the  *)
(* tip, and applies it all the same.                                       *)
(***************************************************************************)
EXTENDS Ledger

CONSTANTS
    Chain,          \* the blocks, each the child of the one before
    MaxCopies       \* bound: copies of one request in the network

ASSUME ChainAssumption ==
    /\ Chain \in Seq(Block)
    /\ \A n \in 1..Len(Chain) :
          /\ Chain[n].height = n
          /\ ValidBlock(Chain[n])
          /\ Chain[n].prev = IF n = 1 THEN GenesisHash ELSE Chain[n - 1].hash

VARIABLES
    next,       \* the block the client is on
    net,        \* net[n]: copies of the request for block n in the network
    acked,      \* blocks whose acknowledgement has reached the client
    highest,    \* history: the highest block applied so far
    late        \* history: the blocks applied after a higher one had been

history == <<highest, late>>
feed == <<next, net, acked, history>>

FeedInit ==
    /\ Init
    /\ next = 1
    /\ net = [n \in 1..Len(Chain) |-> 0]
    /\ acked = {}
    /\ highest = 0
    /\ late = {}

Send ==
    /\ next <= Len(Chain)
    /\ net[next] < MaxCopies
    /\ net' = [net EXCEPT ![next] = @ + 1]
    /\ UNCHANGED <<vars, next, acked, history>>

Lose(n) ==
    /\ net[n] > 0
    /\ net' = [net EXCEPT ![n] = @ - 1]
    /\ UNCHANGED <<vars, next, acked, history>>

Deliver(n) ==
    /\ net[n] > 0
    /\ ApplyBlock(Chain[n])
    /\ net' = [net EXCEPT ![n] = @ - 1]
    /\ acked' \in {acked, acked \cup {n}}       \* the answer may be lost
    /\ highest' = IF n > highest THEN n ELSE highest
    /\ late' = IF n < highest THEN late \cup {n} ELSE late
    /\ UNCHANGED next

Advance ==
    /\ next \in acked
    /\ next' = next + 1
    /\ UNCHANGED <<vars, net, acked, history>>

FeedNext ==
    \/ Send
    \/ \E n \in 1..Len(Chain) : Lose(n) \/ Deliver(n)
    \/ Advance
    \/ \E c \in Client : GetOutputs(c) /\ UNCHANGED feed

FeedSpec == FeedInit /\ [][FeedNext]_<<vars, feed>>

-----------------------------------------------------------------------------
\* The state of the ledger after the first n blocks of the chain.
ChainState[n \in 0..Len(Chain)] ==
    IF n = 0 THEN Genesis ELSE StateAfter(ChainState[n - 1], Chain[n])

\* "At-least-once delivery + idempotent consumers" (overview.md:59), of the one consumer
\* of blocks: whatever copies arrive, the store is the chain up to some block of it.
StoreIsChainPrefix == \E n \in DOMAIN ChainState : StoreNow = ChainState[n]

Touches(b, o) == b.outputs[o] # Absent \/ o \in b.spends

\* What repeated, lost and delayed deliveries may do to the store (server.go:63-81): an
\* outpoint differs from the chain's at the highest block applied only if a block that
\* came late creates or spends it, and the tip and height are that block's or a late
\* one's.  Resends in order, however many, leave no trace, and a late block harms no
\* outpoint but its own.
WrongOnlyByLateBlocks ==
    /\ \A o \in Outpoint :
          utxos[o] # ChainState[highest].utxos[o] => \E n \in late : Touches(Chain[n], o)
    /\ height \in late \cup {highest}
    /\ tipHash = ChainState[height].tip

\* As long as no block has come late a reader may take the height of a response for an
\* upper bound: the outputs are the chain's at some height not above the one named, and
\* the watermark tip lies between the two (server.go:119-128 reads them in this order).
HeightBoundsOutputs ==
    late = {} =>
        \A c \in Client : \A a \in reply[c] :
            \E i, j \in 0..Len(Chain) :
                /\ i <= j /\ j <= a.height
                /\ a.outputs = Lookup(ChainState[i].utxos, req[c])
                /\ a.tip = ChainState[j].tip
=============================================================================
