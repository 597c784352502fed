---------------------------- MODULE EventBusProofs ---------------------------
(***************************************************************************)
(* Proofs about the event bus, for any publishers, topics, handlers and    *)
(* capacity: every variable keeps its type, and an accepted event is with  *)
(* each subscriber of its topic exactly once.                              *)
(*                                                                         *)
(* The induction needs to know that an event being published is not in the *)
(* channel yet and is published by one goroutine (PublishedOnce), and that *)
(* the channel holds accepted events only, each once (BufferIsAccepted).   *)
(***************************************************************************)
EXTENDS EventBus, TLAPS

Distinct(s) == \A i, j \in DOMAIN s : s[i] = s[j] => i = j

BufferIsAccepted == Distinct(buffer) /\ \A e \in Event : Contains(buffer, e) => Contains(accepted, e)

PublishedOnce ==
    /\ \A p \in Publisher : pub[p].pc = "publish" =>
          pub[p].event \in Event /\ ~Contains(accepted, pub[p].event)
    /\ \A p, q \in Publisher :
          pub[p].pc = "publish" /\ pub[q].pc = "publish" /\ pub[p].event = pub[q].event => p = q

BusInv == TypeOK /\ BufferIsAccepted /\ PublishedOnce /\ ExactlyOnce

\* ExactlyOnce for one handler and one event.
Copies(h, e) == {i \in DOMAIN handled[h] : handled[h][i] = e}

Owed(h, e) == Contains(accepted, e) /\ h \in Subscribed(events[e].topic)

InOnePlace(h, e) ==
    /\ Owed(h, e) => \/ Waiting(h, e) /\ <<h, e>> \notin running /\ Copies(h, e) = {}
                     \/ ~Waiting(h, e) /\ <<h, e>> \in running /\ Copies(h, e) = {}
                     \/ /\ ~Waiting(h, e) /\ <<h, e>> \notin running
                        /\ \E i \in Copies(h, e) : Copies(h, e) = {i}
    /\ ~Owed(h, e) => ~Waiting(h, e) /\ <<h, e>> \notin running /\ Copies(h, e) = {}

-----------------------------------------------------------------------------
(***************************************************************************)
(* Sequences.                                                              *)
(***************************************************************************)
LEMMA AppendContains ==
    ASSUME NEW S, NEW s \in Seq(S), NEW x \in S
    PROVE  \A y : Contains(Append(s, x), y) <=> Contains(s, y) \/ y = x
<1>1. /\ DOMAIN s = 1..Len(s) /\ Len(s) \in Nat /\ DOMAIN Append(s, x) = 1..(Len(s) + 1)
      /\ \A i \in 1..Len(s) : Append(s, x)[i] = s[i]
      /\ Append(s, x)[Len(s) + 1] = x
  OBVIOUS
<1>2. \A i \in 1..(Len(s) + 1) : i \in 1..Len(s) \/ i = Len(s) + 1
  BY <1>1
<1>3. Len(s) + 1 \in 1..(Len(s) + 1) /\ \A i \in 1..Len(s) : i \in 1..(Len(s) + 1)
  BY <1>1
<1> QED
  BY <1>1, <1>2, <1>3, Zenon DEF Contains

\* A new element at the end leaves the elements distinct.
LEMMA AppendDistinct ==
    ASSUME NEW S, NEW s \in Seq(S), NEW x \in S, Distinct(s), ~Contains(s, x)
    PROVE  Distinct(Append(s, x))
<1>1. /\ DOMAIN s = 1..Len(s) /\ Len(s) \in Nat /\ DOMAIN Append(s, x) = 1..(Len(s) + 1)
      /\ \A i \in 1..Len(s) : Append(s, x)[i] = s[i]
      /\ Append(s, x)[Len(s) + 1] = x
  OBVIOUS
<1>2. \A i \in 1..(Len(s) + 1) : i \in 1..Len(s) \/ i = Len(s) + 1
  BY <1>1
<1> QED
  BY <1>1, <1>2, Zenon DEF Contains, Distinct

\* Without its head, a sequence of distinct elements holds the others.
LEMMA TailContains ==
    ASSUME NEW S, NEW s \in Seq(S), s # <<>>, Distinct(s)
    PROVE  /\ Contains(s, Head(s)) /\ Distinct(Tail(s))
           /\ \A y : Contains(Tail(s), y) <=> Contains(s, y) /\ y # Head(s)
<1>1. /\ DOMAIN s = 1..Len(s) /\ Len(s) \in Nat /\ Len(s) >= 1
      /\ DOMAIN Tail(s) = 1..(Len(s) - 1) /\ Head(s) = s[1]
      /\ \A i \in 1..(Len(s) - 1) : Tail(s)[i] = s[i + 1]
  OBVIOUS
<1>2. Contains(s, Head(s))
  BY <1>1 DEF Contains
<1>3. Distinct(Tail(s))
  BY <1>1 DEF Distinct
<1>4. ASSUME NEW y, Contains(Tail(s), y) PROVE Contains(s, y) /\ y # Head(s)
  <2>1. PICK i \in 1..(Len(s) - 1) : s[i + 1] = y
    BY <1>1, <1>4 DEF Contains
  <2>2. i + 1 \in 1..Len(s) /\ 1 \in 1..Len(s) /\ i + 1 # 1
    BY <1>1
  <2> QED
    BY <1>1, <2>1, <2>2 DEF Contains, Distinct
<1>5. ASSUME NEW y, Contains(s, y), y # Head(s) PROVE Contains(Tail(s), y)
  <2>1. PICK i \in 1..Len(s) : s[i] = y
    BY <1>1, <1>5 DEF Contains
  <2>2. i # 1 /\ i - 1 \in 1..(Len(s) - 1) /\ (i - 1) + 1 = i
    BY <1>1, <1>5, <2>1
  <2>3. Tail(s)[i - 1] = y
    BY <1>1, <2>1, <2>2
  <2> QED
    BY <1>1, <2>2, <2>3 DEF Contains
<1> QED
  BY <1>2, <1>3, <1>4, <1>5

-----------------------------------------------------------------------------
(***************************************************************************)
(* Type correctness.                                                       *)
(***************************************************************************)
EnvelopeSet == [topic : Topic, msgId : (0..MaxClock) \X (0..MaxClock)]

PubState(E) == [pc : {"idle", "publish"}, event : E \cup {NoEvent}]

\* The type invariant, with the set of events made explicit.
TypeFor(E) ==
    /\ subscribers \in [Topic -> Seq(Handler)]
    /\ buffer \in Seq(E) /\ Len(buffer) <= Capacity
    /\ closed \in BOOLEAN /\ ctxDone \in BOOLEAN /\ panicked \in BOOLEAN
    /\ pub \in [Publisher -> PubState(E)]
    /\ clock \in 0..MaxClock
    /\ events \in Seq(EnvelopeSet)
    /\ accepted \in Seq(E)
    /\ running \subseteq Handler \X E
    /\ handled \in [Handler -> Seq(E)]

\* The type invariant, with the set of events as a parameter.
LEMMA TypeIsForEvents == (TypeOK <=> TypeFor(Event)) /\ (TypeOK' <=> TypeFor(Event)')
BY DEF TypeOK, TypeFor, EnvelopeSet, PubState

\* More events make the types larger.
LEMMA MoreEvents ==
    ASSUME NEW E, NEW F, E \subseteq F
    PROVE  Seq(E) \subseteq Seq(F) /\ PubState(E) \subseteq PubState(F)
BY DEF PubState

\* The types of a bus that is empty.
LEMMA TypeInit == Init => TypeOK
<1> SUFFICES ASSUME Init PROVE TypeOK
  OBVIOUS
<1>1. pub \in [Publisher -> PubState(Event)]
  BY DEF Init, PubState
<1>2. clock \in 0..MaxClock /\ Len(buffer) <= Capacity
  BY BoundsAssumption DEF Init
<1>3. subscribers \in [Topic -> Seq(Handler)] /\ handled \in [Handler -> Seq(Event)]
  BY DEF Init
<1>4. /\ buffer \in Seq(Event) /\ accepted \in Seq(Event) /\ events \in Seq(EnvelopeSet)
  BY DEF Init
<1>5. /\ running \subseteq Handler \X Event
      /\ closed \in BOOLEAN /\ ctxDone \in BOOLEAN /\ panicked \in BOOLEAN
  BY DEF Init
<1> QED
  BY <1>1, <1>2, <1>3, <1>4, <1>5, TypeIsForEvents DEF TypeFor

\* Only CreateEnvelope makes an event.
LEMMA TypeCreate ==
    ASSUME TypeOK, NEW p \in Publisher, NEW t \in Topic, CreateEnvelope(p, t)
    PROVE  TypeOK'
<1>1. TypeFor(Event)
  BY TypeIsForEvents
<1>2. PICK now \in clock..MaxClock : \E later \in now..MaxClock :
          /\ clock' = later
          /\ events' = Append(events, [topic |-> t, msgId |-> <<now, later>>])
  BY DEF CreateEnvelope
<1>3. PICK later \in now..MaxClock :
          /\ clock' = later
          /\ events' = Append(events, [topic |-> t, msgId |-> <<now, later>>])
  BY <1>2
<1>4. now \in 0..MaxClock /\ later \in 0..MaxClock
  BY <1>1, <1>2, <1>3, BoundsAssumption DEF TypeFor
<1>5. [topic |-> t, msgId |-> <<now, later>>] \in EnvelopeSet
  BY <1>4 DEF EnvelopeSet
<1>6. /\ events' \in Seq(EnvelopeSet) /\ Len(events') = Len(events) + 1 /\ Len(events) \in Nat
  BY <1>1, <1>3, <1>5 DEF TypeFor
<1>7. Event \subseteq Event' /\ Len(events') \in Event'
  BY <1>6 DEF Event
<1>8. pub' = [pub EXCEPT ![p] = [pc |-> "publish", event |-> Len(events')]]
  BY DEF CreateEnvelope
<1>9. pub' \in [Publisher -> PubState(Event')]
  <2>1. PubState(Event) \subseteq PubState(Event')
    BY <1>7, MoreEvents
  <2>2. [pc |-> "publish", event |-> Len(events')] \in PubState(Event')
    BY <1>7 DEF PubState
  <2> HIDE DEF PubState
  <2> QED
    BY <1>1, <1>8, <2>1, <2>2 DEF TypeFor
<1>10. Seq(Event) \subseteq Seq(Event')
  BY <1>7, MoreEvents
<1>11. /\ buffer' \in Seq(Event') /\ accepted' \in Seq(Event')
       /\ handled' \in [Handler -> Seq(Event')] /\ running' \subseteq Handler \X Event'
  BY <1>1, <1>7, <1>10 DEF TypeFor, CreateEnvelope
<1>12. TypeFor(Event)'
  BY <1>1, <1>3, <1>4, <1>6, <1>9, <1>11 DEF TypeFor, CreateEnvelope
<1> QED
  BY <1>12, TypeIsForEvents

\* Every step keeps the types.
LEMMA TypeNext == TypeOK /\ PublishedOnce /\ [Next]_vars => TypeOK'
<1> SUFFICES ASSUME TypeOK, PublishedOnce, [Next]_vars PROVE TypeOK'
  OBVIOUS
<1> USE BoundsAssumption
<1>1. TypeFor(Event)
  BY TypeIsForEvents
<1>2. ASSUME NEW t \in Topic, NEW h \in Handler, Subscribe(t, h) PROVE TypeOK'
  BY <1>2 DEF TypeOK, Subscribe, Event
<1>3. ASSUME NEW p \in Publisher, NEW t \in Topic, CreateEnvelope(p, t) PROVE TypeOK'
  BY <1>3, TypeCreate
<1>4. ASSUME NEW p \in Publisher, Accept(p) \/ Refuse(p) PROVE TypeOK'
  <2>1. Event' = Event /\ events' = events
    BY <1>4 DEF Accept, Refuse, Event
  <2>2. pub' \in [Publisher -> PubState(Event)]
    <3>1. [pc |-> "idle", event |-> NoEvent] \in PubState(Event)
      BY DEF PubState
    <3> QED
      BY <1>1, <1>4, <3>1 DEF Accept, Refuse, Returned, TypeFor
  <2>3. buffer' \in Seq(Event) /\ Len(buffer') <= Capacity /\ accepted' \in Seq(Event)
    <3>1. CASE Refuse(p)
      BY <1>1, <3>1 DEF Refuse, TypeFor
    <3>2. CASE Accept(p)
      <4>1. pub[p].event \in Event
        BY <3>2 DEF Accept, PublishedOnce
      <4>2. Len(Append(buffer, pub[p].event)) = Len(buffer) + 1 /\ Len(buffer) \in Nat
        BY <1>1, <4>1 DEF TypeFor
      <4> QED
        BY <1>1, <3>2, <4>1, <4>2 DEF Accept, TypeFor
    <3> QED
      BY <1>4, <3>1, <3>2
  <2>4. UNCHANGED <<subscribers, closed, ctxDone, panicked, clock, running, handled>>
    BY <1>4 DEF Accept, Refuse
  <2>5. TypeFor(Event)'
    BY <1>1, <2>1, <2>2, <2>3, <2>4 DEF TypeFor
  <2> QED
    BY <2>5, TypeIsForEvents
<1>5. ASSUME NEW p \in Publisher, SendOnClosed(p) PROVE TypeOK'
  BY <1>5 DEF TypeOK, SendOnClosed, Event
<1>6. CASE Dispatch
  <2>1. Event' = Event /\ events' = events
    BY <1>6 DEF Dispatch, Event
  <2>2. buffer' = Tail(buffer) /\ buffer # <<>>
    BY <1>6 DEF Dispatch
  <2>3. Head(buffer) \in Event /\ buffer' \in Seq(Event) /\ Len(buffer') <= Capacity
    BY <1>1, <2>2 DEF TypeFor
  <2>4. events[Head(buffer)].topic \in Topic
    <3>1. events[Head(buffer)] \in EnvelopeSet
      BY <1>1, <2>3 DEF TypeFor, Event
    <3> QED
      BY <3>1 DEF EnvelopeSet
  <2>5. Subscribed(events[Head(buffer)].topic) \subseteq Handler
    BY <1>1, <2>4 DEF TypeFor, Subscribed
  <2>6. running' \subseteq Handler \X Event
    BY <1>1, <1>6, <2>3, <2>5 DEF Dispatch, TypeFor
  <2>7. TypeFor(Event)'
    BY <1>1, <1>6, <2>1, <2>3, <2>6 DEF TypeFor, Dispatch
  <2> QED
    BY <2>7, TypeIsForEvents
<1>7. ASSUME NEW h \in Handler, NEW e \in 1..MaxEvents, Handle(h, e) PROVE TypeOK'
  <2>1. Event' = Event /\ events' = events
    BY <1>7 DEF Handle, Event
  <2>2. e \in Event /\ running' \subseteq Handler \X Event
    BY <1>1, <1>7 DEF Handle, TypeFor
  <2>3. handled' \in [Handler -> Seq(Event)]
    BY <1>1, <1>7, <2>2 DEF Handle, TypeFor
  <2>4. UNCHANGED <<subscribers, buffer, closed, ctxDone, pub, clock, accepted, panicked>>
    BY <1>7 DEF Handle
  <2>5. TypeFor(Event)'
    BY <1>1, <2>1, <2>2, <2>3, <2>4 DEF TypeFor
  <2> QED
    BY <2>5, TypeIsForEvents
<1>8. CASE CancelContext \/ Close \/ UNCHANGED vars
  BY <1>8 DEF TypeOK, CancelContext, Close, vars, Event
<1> QED
  BY <1>2, <1>3, <1>4, <1>5, <1>6, <1>7, <1>8 DEF Next, Publish

-----------------------------------------------------------------------------
(***************************************************************************)
(* Exactly once.                                                           *)
(***************************************************************************)
LEMMA Places ==
    /\ ExactlyOnce <=> \A h \in Handler, e \in Event : InOnePlace(h, e)
    /\ ExactlyOnce' <=> \A h \in Handler, e \in Event' : InOnePlace(h, e)'
BY DEF ExactlyOnce, InOnePlace, Owed, Copies, Waiting

\* Nothing is published yet.
LEMMA BusInit == Init => BusInv
<1> SUFFICES ASSUME Init PROVE BusInv
  OBVIOUS
<1>1. TypeOK
  BY TypeInit
<1>2. Event = {}
  BY DEF Init, Event
<1>3. BufferIsAccepted /\ PublishedOnce /\ ExactlyOnce
  BY <1>2 DEF Init, BufferIsAccepted, PublishedOnce, ExactlyOnce, Distinct
<1> QED
  BY <1>1, <1>3 DEF BusInv

\* A step that leaves the places of events alone keeps each in one.
LEMMA PlacesUntouched ==
    ASSUME ExactlyOnce, UNCHANGED <<subscribers, buffer, events, accepted, running, handled>>
    PROVE  ExactlyOnce'
<1>1. ASSUME NEW h \in Handler, NEW e \in Event PROVE InOnePlace(h, e)'
  <2>1. InOnePlace(h, e)
    BY Places
  <2> QED
    BY <2>1 DEF InOnePlace, Owed, Waiting, Copies, Subscribed
<1>2. Event' = Event
  BY DEF Event
<1> QED
  BY <1>1, <1>2, Places

\* A step that touches nothing of what the invariant speaks of.
LEMMA BusUntouched ==
    ASSUME BusInv, TypeOK',
           UNCHANGED <<subscribers, buffer, pub, events, accepted, running, handled>>
    PROVE  BusInv'
<1>1. Event' = Event
  BY DEF Event
<1>2. BufferIsAccepted' /\ PublishedOnce'
  BY <1>1 DEF BusInv, BufferIsAccepted, PublishedOnce
<1>3. ExactlyOnce'
  BY PlacesUntouched DEF BusInv
<1> QED
  BY <1>2, <1>3 DEF BusInv

\* Handlers subscribe before the first event.
LEMMA BusSubscribe ==
    ASSUME BusInv, TypeOK', NEW t \in Topic, NEW h \in Handler, Subscribe(t, h)
    PROVE  BusInv'
<1>1. UNCHANGED <<buffer, pub, events, accepted>> /\ Event' = {} /\ Event = {}
  BY DEF Subscribe, Event
<1>2. BufferIsAccepted' /\ PublishedOnce' /\ ExactlyOnce'
  BY <1>1 DEF BusInv, BufferIsAccepted, PublishedOnce, ExactlyOnce
<1> QED
  BY <1>2 DEF BusInv

\* A new event is nowhere.
LEMMA BusCreate ==
    ASSUME BusInv, TypeOK', NEW p \in Publisher, NEW t \in Topic, CreateEnvelope(p, t)
    PROVE  BusInv'
<1> DEFINE new == Len(events')
<1>1. TypeFor(Event) /\ TypeFor(Event)'
  BY TypeIsForEvents DEF BusInv
<1>2. UNCHANGED <<subscribers, buffer, accepted, running, handled>>
  BY DEF CreateEnvelope
<1>3. /\ Len(events) \in Nat /\ new = Len(events) + 1
      /\ \A e \in Event : events'[e] = events[e]
  <2>1. PICK x : events' = Append(events, x)
    BY DEF CreateEnvelope
  <2> QED
    BY <1>1, <2>1 DEF TypeFor, Event
<1>4. Event' = Event \cup {new} /\ new \notin Event
  BY <1>3 DEF Event
<1>5. /\ ~Contains(accepted, new) /\ ~Contains(buffer, new)
      /\ \A h \in Handler : ~Contains(handled[h], new) /\ <<h, new>> \notin running
  <2>1. \A s \in Seq(Event) : ~Contains(s, new)
    <3>1. \A s \in Seq(Event) : \A i \in DOMAIN s : s[i] \in Event
      OBVIOUS
    <3> HIDE DEF new
    <3> QED
      BY <1>4, <3>1, Zenon DEF Contains
  <2>2. /\ accepted \in Seq(Event) /\ buffer \in Seq(Event) /\ running \subseteq Handler \X Event
        /\ \A h \in Handler : handled[h] \in Seq(Event)
    BY <1>1 DEF TypeFor
  <2> QED
    BY <1>4, <2>1, <2>2
<1>6. /\ pub'[p] = [pc |-> "publish", event |-> new]
      /\ \A q \in Publisher : q # p => pub'[q] = pub[q]
  BY <1>1 DEF TypeFor, CreateEnvelope
<1> HIDE DEF new
<1>7. BufferIsAccepted'
  BY <1>2, <1>4, <1>5 DEF BusInv, BufferIsAccepted
<1>8. PublishedOnce'
  <2>1. \A q \in Publisher : q # p /\ pub'[q].pc = "publish" =>
            pub'[q].event \in Event /\ ~Contains(accepted, pub'[q].event)
    BY <1>6 DEF BusInv, PublishedOnce
  <2>2. pub'[p].event = new
    BY <1>6
  <2>3. \A q, r \in Publisher : pub'[q].pc = "publish" /\ pub'[r].pc = "publish"
                                  /\ pub'[q].event = pub'[r].event => q = r
    BY <1>4, <1>6, <2>1, <2>2 DEF BusInv, PublishedOnce
  <2> QED
    BY <1>2, <1>4, <1>5, <2>1, <2>2, <2>3 DEF PublishedOnce
<1>9. ExactlyOnce'
  <2>1. SUFFICES ASSUME NEW h \in Handler, NEW e \in Event' PROVE InOnePlace(h, e)'
    BY Places
  <2>2. CASE e \in Event
    <3>1. events'[e] = events[e] /\ InOnePlace(h, e)
      BY <1>3, <2>2, Places DEF BusInv
    <3> QED
      BY <1>2, <3>1 DEF InOnePlace, Owed, Waiting, Copies, Subscribed
  <2>3. CASE e = new
    <3>1. ~Owed(h, e)' /\ ~Waiting(h, e)' /\ <<h, e>> \notin running'
      BY <1>2, <1>5, <2>3 DEF Owed, Waiting
    <3>2. Copies(h, e)' = {}
      BY <1>2, <1>5, <2>3 DEF Copies, Contains
    <3> QED
      BY <3>1, <3>2 DEF InOnePlace
  <2> QED
    BY <1>4, <2>1, <2>2, <2>3
<1> QED
  BY <1>7, <1>8, <1>9 DEF BusInv

\* Publish returns: the event is in the channel, or nobody hears of it.
LEMMA BusReturn ==
    ASSUME BusInv, TypeOK', NEW p \in Publisher, Accept(p) \/ Refuse(p)
    PROVE  BusInv'
<1> DEFINE new == pub[p].event
<1>1. TypeFor(Event)
  BY TypeIsForEvents DEF BusInv
<1>2. /\ UNCHANGED <<subscribers, events, running, handled>> /\ Event' = Event
      /\ pub[p].pc = "publish" /\ new \in Event /\ ~Contains(accepted, new)
  BY DEF Accept, Refuse, Event, BusInv, PublishedOnce
<1>3. /\ pub'[p].pc = "idle"
      /\ \A q \in Publisher : q # p => pub'[q] = pub[q]
  BY <1>1 DEF TypeFor, Accept, Refuse, Returned
<1>4. \A q \in Publisher : pub'[q].pc = "publish" =>
          q # p /\ pub[q].pc = "publish" /\ pub'[q] = pub[q] /\ pub[q].event # new
  BY <1>2, <1>3 DEF BusInv, PublishedOnce
<1>5. CASE Refuse(p)
  <2>1. buffer' = buffer /\ accepted' = accepted
    BY <1>5 DEF Refuse
  <2>2. BufferIsAccepted' /\ PublishedOnce'
    BY <1>2, <1>4, <2>1 DEF BusInv, BufferIsAccepted, PublishedOnce
  <2>3. ExactlyOnce'
    BY <1>2, <2>1, PlacesUntouched DEF BusInv
  <2> QED
    BY <2>2, <2>3 DEF BusInv
<1>6. CASE Accept(p)
  <2>1. buffer' = Append(buffer, new) /\ accepted' = Append(accepted, new)
    BY <1>6 DEF Accept
  <2>2. buffer \in Seq(Event) /\ accepted \in Seq(Event)
    BY <1>1 DEF TypeFor
  <2> HIDE DEF new
  <2>3. ~Contains(buffer, new) /\ Distinct(buffer)
    BY <1>2 DEF BusInv, BufferIsAccepted
  <2>4. /\ \A e : Contains(buffer', e) <=> Contains(buffer, e) \/ e = new
        /\ \A e : Contains(accepted', e) <=> Contains(accepted, e) \/ e = new
    BY <1>2, <2>1, <2>2, AppendContains
  <2>5. Distinct(buffer)'
    BY <1>2, <2>1, <2>2, <2>3, AppendDistinct DEF Distinct
  <2>6. BufferIsAccepted' /\ PublishedOnce'
    <3>1. BufferIsAccepted'
      BY <1>2, <2>4, <2>5 DEF BusInv, BufferIsAccepted
    <3>2. PublishedOnce'
      BY <1>2, <1>4, <2>4 DEF BusInv, PublishedOnce
    <3> QED
      BY <3>1, <3>2
  <2>7. ASSUME NEW h \in Handler, NEW e \in Event PROVE InOnePlace(h, e)'
    <3>1. InOnePlace(h, e)
      BY Places DEF BusInv
    <3>2. Copies(h, e)' = Copies(h, e)
      BY <1>2 DEF Copies
    <3>3. h \in Subscribed(events[e].topic) <=> h \in Subscribed(events[e].topic)'
      BY <1>2 DEF Subscribed
    <3>4. CASE e = new
      BY <1>2, <2>3, <2>4, <3>1, <3>2, <3>3, <3>4 DEF InOnePlace, Owed, Waiting
    <3>5. CASE e # new
      BY <1>2, <2>4, <3>1, <3>2, <3>3, <3>5 DEF InOnePlace, Owed, Waiting
    <3> QED
      BY <3>4, <3>5
  <2>8. ExactlyOnce'
    BY <1>2, <2>7, Places
  <2> QED
    BY <2>6, <2>8 DEF BusInv
<1> QED
  BY <1>5, <1>6

\* The event leaves the channel for the goroutines of its subscribers.
LEMMA BusDispatch == ASSUME BusInv, TypeOK', Dispatch PROVE BusInv'
<1> DEFINE first == Head(buffer)
<1>1. TypeFor(Event)
  BY TypeIsForEvents DEF BusInv
<1>2. /\ UNCHANGED <<subscribers, events, pub, accepted, handled>> /\ Event' = Event
      /\ buffer # <<>> /\ buffer' = Tail(buffer)
      /\ running' = running \cup (Subscribed(events[first].topic) \X {first})
  BY DEF Dispatch, Event
<1>3. buffer \in Seq(Event) /\ Distinct(buffer) /\ first \in Event
  BY <1>1, <1>2 DEF TypeFor, BusInv, BufferIsAccepted
<1> HIDE DEF first
<1>4. /\ Contains(buffer, first) /\ Distinct(Tail(buffer))
      /\ \A e : Contains(Tail(buffer), e) <=> Contains(buffer, e) /\ e # first
  BY <1>2, <1>3, TailContains DEF first
<1>5. BufferIsAccepted'
  BY <1>2, <1>4 DEF BusInv, BufferIsAccepted, Distinct
<1>6. PublishedOnce'
  BY <1>2 DEF BusInv, PublishedOnce
<1>7. ASSUME NEW h \in Handler, NEW e \in Event PROVE InOnePlace(h, e)'
  <2>1. InOnePlace(h, e)
    BY Places DEF BusInv
  <2>2. Copies(h, e)' = Copies(h, e)
    BY <1>2 DEF Copies
  <2>3. h \in Subscribed(events[e].topic) <=> h \in Subscribed(events[e].topic)'
    BY <1>2 DEF Subscribed
  <2>4. Owed(h, e)' <=> Owed(h, e)
    BY <1>2, <2>3 DEF Owed
  <2>5. Contains(buffer, first) => Contains(accepted, first)
    BY <1>3 DEF BusInv, BufferIsAccepted
  <2>6. CASE e = first /\ h \in Subscribed(events[e].topic)
    <3>1. Waiting(h, e) /\ Owed(h, e)
      BY <1>4, <2>5, <2>6 DEF Waiting, Owed
    <3>2. ~Waiting(h, e)' /\ <<h, e>> \in running'
      BY <1>2, <1>4, <2>6 DEF Waiting
    <3>3. Copies(h, e) = {}
      BY <2>1, <3>1 DEF InOnePlace
    <3> QED
      BY <2>2, <2>4, <3>1, <3>2, <3>3 DEF InOnePlace
  <2>7. CASE ~(e = first /\ h \in Subscribed(events[e].topic))
    <3>1. <<h, e>> \in running' <=> <<h, e>> \in running
      BY <1>2, <2>7
    <3>2. Waiting(h, e)' <=> Waiting(h, e)
      BY <1>2, <1>4, <2>3, <2>7 DEF Waiting
    <3> QED
      BY <2>1, <2>2, <2>4, <3>1, <3>2 DEF InOnePlace
  <2> QED
    BY <2>6, <2>7
<1>8. ExactlyOnce'
  BY <1>2, <1>7, Places
<1> QED
  BY <1>5, <1>6, <1>8 DEF BusInv

\* The goroutine of a handler ends: the handler has been called once more.
LEMMA BusHandle ==
    ASSUME BusInv, TypeOK', NEW g \in Handler, NEW n \in 1..MaxEvents, Handle(g, n)
    PROVE  BusInv'
<1>1. TypeFor(Event)
  BY TypeIsForEvents DEF BusInv
<1>2. /\ UNCHANGED <<subscribers, buffer, events, pub, accepted>> /\ Event' = Event
      /\ <<g, n>> \in running /\ running' = running \ {<<g, n>>} /\ n \in Event
      /\ handled' = [handled EXCEPT ![g] = Append(@, n)]
  BY <1>1 DEF Handle, Event, TypeFor
<1>3. BufferIsAccepted' /\ PublishedOnce'
  BY <1>2 DEF BusInv, BufferIsAccepted, PublishedOnce
<1>4. ASSUME NEW h \in Handler, NEW e \in Event PROVE InOnePlace(h, e)'
  <2>1. InOnePlace(h, e)
    BY Places DEF BusInv
  <2>2. /\ Owed(h, e)' <=> Owed(h, e)
        /\ Waiting(h, e)' <=> Waiting(h, e)
    BY <1>2 DEF Owed, Waiting, Subscribed
  <2>3. CASE h # g
    <3>1. handled'[h] = handled[h] /\ (<<h, e>> \in running' <=> <<h, e>> \in running)
      BY <1>1, <1>2, <2>3 DEF TypeFor
    <3>2. Copies(h, e)' = Copies(h, e)
      BY <3>1 DEF Copies
    <3> QED
      BY <2>1, <2>2, <3>1, <3>2 DEF InOnePlace
  <2>4. CASE h = g
    <3>1. /\ handled[h] \in Seq(Event) /\ handled'[h] = Append(handled[h], n)
      BY <1>1, <1>2, <2>4 DEF TypeFor
    <3>2. /\ DOMAIN handled[h] = 1..Len(handled[h]) /\ Len(handled[h]) \in Nat
          /\ DOMAIN handled'[h] = 1..(Len(handled[h]) + 1)
          /\ \A i \in 1..Len(handled[h]) : handled'[h][i] = handled[h][i]
          /\ handled'[h][Len(handled[h]) + 1] = n
      BY <1>2, <3>1
    <3>3. CASE e # n
      <4>1. Copies(h, e)' = Copies(h, e)
        BY <3>2, <3>3 DEF Copies
      <4>2. <<h, e>> \in running' <=> <<h, e>> \in running
        BY <1>2, <3>3
      <4> QED
        BY <2>1, <2>2, <4>1, <4>2 DEF InOnePlace
    <3>4. CASE e = n
      <4>1. Owed(h, e) /\ ~Waiting(h, e) /\ Copies(h, e) = {}
        BY <1>2, <2>1, <2>4, <3>4 DEF InOnePlace
      <4>2. Copies(h, e)' = {Len(handled[h]) + 1}
        BY <3>2, <3>4, <4>1 DEF Copies
      <4>3. <<h, e>> \notin running'
        BY <1>2, <2>4, <3>4
      <4> QED
        BY <2>2, <4>1, <4>2, <4>3 DEF InOnePlace
    <3> QED
      BY <3>3, <3>4
  <2> QED
    BY <2>3, <2>4
<1>5. ExactlyOnce'
  BY <1>2, <1>4, Places
<1> QED
  BY <1>3, <1>5 DEF BusInv

\* Every step keeps the invariant.
LEMMA BusNext == BusInv /\ [Next]_vars => BusInv'
<1> SUFFICES ASSUME BusInv, [Next]_vars PROVE BusInv'
  OBVIOUS
<1>1. TypeOK'
  BY TypeNext DEF BusInv
<1>2. ASSUME NEW t \in Topic, NEW h \in Handler, Subscribe(t, h) PROVE BusInv'
  BY <1>1, <1>2, BusSubscribe
<1>3. ASSUME NEW p \in Publisher, NEW t \in Topic, CreateEnvelope(p, t) PROVE BusInv'
  BY <1>1, <1>3, BusCreate
<1>4. ASSUME NEW p \in Publisher, Publish(p) PROVE BusInv'
  <2>1. CASE Accept(p) \/ Refuse(p)
    BY <1>1, <2>1, BusReturn
  <2>2. CASE SendOnClosed(p)
    BY <1>1, <2>2, BusUntouched DEF SendOnClosed
  <2> QED
    BY <1>4, <2>1, <2>2 DEF Publish
<1>5. CASE Dispatch
  BY <1>1, <1>5, BusDispatch
<1>6. ASSUME NEW h \in Handler, NEW e \in 1..MaxEvents, Handle(h, e) PROVE BusInv'
  BY <1>1, <1>6, BusHandle
<1>7. CASE CancelContext \/ Close \/ UNCHANGED vars
  BY <1>1, <1>7, BusUntouched DEF CancelContext, Close, vars
<1> QED
  BY <1>2, <1>3, <1>4, <1>5, <1>6, <1>7 DEF Next

\* In every behaviour the channel holds accepted events only, an event is published by one
\* goroutine, and it is with each handler that is owed it in one place.
THEOREM BusIsKept == Spec => []BusInv
<1> QED
  BY BusInit, BusNext, PTL DEF Spec

\* Every variable keeps its type: the channel never exceeds its capacity, and nothing but
\* events that were created is in it, with a handler or handled.
THEOREM TypeCorrect == Spec => []TypeOK
<1>1. BusInv => TypeOK
  BY DEF BusInv
<1> QED
  BY <1>1, BusIsKept, PTL

\* An event that Publish returned nil for is with each subscriber of its topic exactly once;
\* one that was refused is with none.
THEOREM EachHandlerOnce == Spec => []ExactlyOnce
<1>1. BusInv => ExactlyOnce
  BY DEF BusInv
<1> QED
  BY <1>1, BusIsKept, PTL
=============================================================================
