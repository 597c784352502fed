------------------------------ MODULE EventBus ------------------------------
(***************************************************************************)
(* The in-memory event bus (services/events/publisher.go).  A publisher    *)
(* builds an envelope, whose msgId is made of two readings of the clock,   *)
(* and offers it to a bounded channel without ever waiting.  One goroutine *)
(* takes events out of the channel in order and starts one goroutine per   *)
(* handler of the event's topic; those run in any order.  Close closes the *)
(* channel: what it holds is still dispatched, a later send panics.        *)
(*                                                                         *)
(* An event is a natural number, its place in the order of creation; its   *)
(* topic, publisher and msgId are functions of it.  Payloads are left out. *)
(***************************************************************************)
EXTENDS Naturals, Sequences

CONSTANTS
    Publisher,      \* goroutines that publish
    Topic,
    Handler,
    Capacity,       \* 1000 in the code
    MaxEvents,      \* bound: envelopes created
    MaxClock        \* bound: the clock, in nanoseconds

ASSUME BoundsAssumption ==
    /\ Capacity \in Nat \ {0}
    /\ MaxEvents \in Nat /\ MaxClock \in Nat

VARIABLES
    subscribers,    \* subscribers[t]: the handlers of topic t, in order of subscription
    buffer,         \* the channel
    closed,         \* Close has been called
    ctxDone,        \* the publishers' context is done
    pub,            \* pub[p]: what p is doing, and with which event
    clock,          \* time.Now
    events,         \* events[e]: topic and msgId of the e-th envelope
    accepted,       \* the events Publish returned nil for, in order
    running,        \* handler goroutines: <<handler, event>>
    handled,        \* handled[h]: the events h was called with, in order
    panicked        \* a send on the closed channel has ended the process

vars == <<subscribers, buffer, closed, ctxDone, pub, clock, events, accepted, running,
          handled, panicked>>

NoEvent == 0
Event == 1..Len(events)

Init ==
    /\ subscribers = [t \in Topic |-> <<>>]
    /\ buffer = <<>>
    /\ closed = FALSE
    /\ ctxDone = FALSE
    /\ pub = [p \in Publisher |-> [pc |-> "idle", event |-> NoEvent]]
    /\ clock = 0
    /\ events = <<>>
    /\ accepted = <<>>
    /\ running = {}
    /\ handled = [h \in Handler |-> <<>>]
    /\ panicked = FALSE

Subscribed(t) == {subscribers[t][i] : i \in DOMAIN subscribers[t]}

\* Subscribe takes no lock: it must come before the events (cmd/conductor/main.go:35-41).
Subscribe(t, h) ==
    /\ ~panicked
    /\ events = <<>>
    /\ h \notin Subscribed(t)
    /\ subscribers' = [subscribers EXCEPT ![t] = Append(@, h)]
    /\ UNCHANGED <<buffer, closed, ctxDone, pub, clock, events, accepted, running,
                   handled, panicked>>

\* The clock may move before and between the two readings that make a msgId, or not.
CreateEnvelope(p, t) ==
    /\ ~panicked
    /\ pub[p].pc = "idle"
    /\ Len(events) < MaxEvents
    /\ \E now \in clock..MaxClock : \E later \in now..MaxClock :
          /\ clock' = later
          /\ events' = Append(events, [topic |-> t, msgId |-> <<now, later>>])
    /\ pub' = [pub EXCEPT ![p] = [pc |-> "publish", event |-> Len(events')]]
    /\ UNCHANGED <<subscribers, buffer, closed, ctxDone, accepted, running, handled, panicked>>

(***************************************************************************)
(* Publish: one select, of a send, the context and a default.              *)
(***************************************************************************)
Returned(p) == pub' = [pub EXCEPT ![p] = [pc |-> "idle", event |-> NoEvent]]

\* Mutant: the buffer has no bound.
AcceptUnbounded(p) ==
    /\ ~panicked
    /\ pub[p].pc = "publish"
    /\ ~closed
    /\ buffer' = Append(buffer, pub[p].event)
    /\ accepted' = Append(accepted, pub[p].event)
    /\ Returned(p)
    /\ UNCHANGED <<subscribers, closed, ctxDone, clock, events, running, handled, panicked>>

Accept(p) ==
    /\ ~panicked
    /\ pub[p].pc = "publish"
    /\ ~closed
    /\ Len(buffer) < Capacity
    /\ buffer' = Append(buffer, pub[p].event)
    /\ accepted' = Append(accepted, pub[p].event)
    /\ Returned(p)
    /\ UNCHANGED <<subscribers, closed, ctxDone, clock, events, running, handled, panicked>>

\* Mutant: the select has no default.
RefuseOnDoneOnly(p) ==
    /\ ~panicked
    /\ pub[p].pc = "publish"
    /\ ctxDone
    /\ Returned(p)
    /\ UNCHANGED <<subscribers, buffer, closed, ctxDone, clock, events, accepted, running,
                   handled, panicked>>

\* ctx.Err(), or "event buffer full" when no other case is ready.
Refuse(p) ==
    /\ ~panicked
    /\ pub[p].pc = "publish"
    /\ ctxDone \/ (~closed /\ Len(buffer) = Capacity)
    /\ Returned(p)
    /\ UNCHANGED <<subscribers, buffer, closed, ctxDone, clock, events, accepted, running,
                   handled, panicked>>

\* A send on a closed channel is a ready case of the select, and panics.
SendOnClosed(p) ==
    /\ ~panicked
    /\ pub[p].pc = "publish"
    /\ closed
    /\ panicked' = TRUE
    /\ UNCHANGED <<subscribers, buffer, closed, ctxDone, pub, clock, events, accepted,
                   running, handled>>

Publish(p) == Accept(p) \/ Refuse(p) \/ SendOnClosed(p)

\* Mutant: only the first handler of the topic is started.
DispatchToFirst ==
    /\ ~panicked
    /\ buffer # <<>>
    /\ LET e == Head(buffer)
           hs == subscribers[events[e].topic]
       IN  running' = IF hs = <<>> THEN running ELSE running \cup {<<Head(hs), e>>}
    /\ buffer' = Tail(buffer)
    /\ UNCHANGED <<subscribers, closed, ctxDone, pub, clock, events, accepted, handled, panicked>>

\* Mutant: the dispatcher leaves when the bus is closed.
DispatchWhileOpen ==
    /\ ~panicked /\ ~closed
    /\ buffer # <<>>
    /\ LET e == Head(buffer)
       IN  running' = running \cup (Subscribed(events[e].topic) \X {e})
    /\ buffer' = Tail(buffer)
    /\ UNCHANGED <<subscribers, closed, ctxDone, pub, clock, events, accepted, handled, panicked>>

(***************************************************************************)
(* processEvents, and the goroutines it starts.                            *)
(***************************************************************************)
Dispatch ==
    /\ ~panicked
    /\ buffer # <<>>
    /\ LET e == Head(buffer)
       IN  running' = running \cup (Subscribed(events[e].topic) \X {e})
    /\ buffer' = Tail(buffer)
    /\ UNCHANGED <<subscribers, closed, ctxDone, pub, clock, events, accepted, handled, panicked>>

Handle(h, e) ==
    /\ ~panicked
    /\ <<h, e>> \in running
    /\ running' = running \ {<<h, e>>}
    /\ handled' = [handled EXCEPT ![h] = Append(@, e)]
    /\ UNCHANGED <<subscribers, buffer, closed, ctxDone, pub, clock, events, accepted, panicked>>

CancelContext ==
    /\ ~panicked
    /\ ~ctxDone
    /\ ctxDone' = TRUE
    /\ UNCHANGED <<subscribers, buffer, closed, pub, clock, events, accepted, running,
                   handled, panicked>>

Close ==
    /\ ~panicked
    /\ ~closed
    /\ closed' = TRUE
    /\ UNCHANGED <<subscribers, buffer, ctxDone, pub, clock, events, accepted, running,
                   handled, panicked>>

Next ==
    \/ \E t \in Topic, h \in Handler : Subscribe(t, h)
    \/ \E p \in Publisher : Publish(p) \/ \E t \in Topic : CreateEnvelope(p, t)
    \/ Dispatch
    \/ \E h \in Handler, e \in 1..MaxEvents : Handle(h, e)
    \/ CancelContext
    \/ Close

Spec == Init /\ [][Next]_vars

\* The Go scheduler runs every goroutine that can run.
ConsumersFair ==
    /\ WF_vars(Dispatch)
    /\ \A h \in Handler, e \in 1..MaxEvents : WF_vars(Handle(h, e))

Fairness == \A p \in Publisher : WF_vars(Publish(p))

FairSpec == Spec /\ Fairness

-----------------------------------------------------------------------------
Contains(s, x) == \E i \in DOMAIN s : s[i] = x

TypeOK ==
    /\ subscribers \in [Topic -> Seq(Handler)]
    /\ buffer \in Seq(Event) /\ Len(buffer) <= Capacity
    /\ closed \in BOOLEAN /\ ctxDone \in BOOLEAN /\ panicked \in BOOLEAN
    /\ pub \in [Publisher -> [pc : {"idle", "publish"}, event : Event \cup {NoEvent}]]
    /\ clock \in 0..MaxClock
    /\ events \in Seq([topic : Topic,
                         msgId : (0..MaxClock) \X (0..MaxClock)])
    /\ accepted \in Seq(Event)
    /\ running \subseteq Handler \X Event
    /\ handled \in [Handler -> Seq(Event)]

\* The handlers an event has been or will be given to.
Waiting(h, e) == Contains(buffer, e) /\ h \in Subscribed(events[e].topic)

\* Publish returned nil means that each subscriber of the topic has the event once: it is
\* in the channel, with the handler's goroutine, or handled, in one of the three and never
\* twice; an event that was refused is in none (publisher.go:51-60, 66-84).
ExactlyOnce ==
    \A h \in Handler, e \in Event :
        LET copies == {i \in DOMAIN handled[h] : handled[h][i] = e}
            owed   == Contains(accepted, e) /\ h \in Subscribed(events[e].topic)
        IN  /\ owed => \/ Waiting(h, e) /\ <<h, e>> \notin running /\ copies = {}
                       \/ ~Waiting(h, e) /\ <<h, e>> \in running /\ copies = {}
                       \/ /\ ~Waiting(h, e) /\ <<h, e>> \notin running
                          /\ \E i \in copies : copies = {i}
            /\ ~owed => ~Waiting(h, e) /\ <<h, e>> \notin running /\ copies = {}

\* overview.md:360: "Producers never block".  A publisher gets out of Publish whatever the
\* consumers do: they need not take a step, and the channel may stay full for ever.
ProducersNeverBlock ==
    \A p \in Publisher : pub[p].pc = "publish" ~> (pub[p].pc = "idle" \/ panicked)

\* If the consumers run, an accepted event reaches every subscriber, also one that was in
\* the channel when the bus was closed: the range over the closed channel drains it
\* (publisher.go:67, 87).
AcceptedIsHandled ==
    ConsumersFair =>
        \A h \in Handler : \A e \in 1..MaxEvents :
            (e \in Event /\ Contains(accepted, e) /\ h \in Subscribed(events[e].topic))
                ~> (panicked \/ Contains(handled[h], e))
=============================================================================
