---------------------------- MODULE LibraryProofs ----------------------------
(***************************************************************************)
(* The event queue (EventManager), for any number of clients, identifiers, *)
(* handlers and events; the counted handles (Counted), for any number of   *)
(* handles and objects; the run queue's list (ThreadQueue), for any number *)
(* of threads on one core; and Semaphore, for every finite set of threads  *)
(* and every number of permits.                                            *)
(***************************************************************************)
EXTENDS Semaphore, Library, FiniteSetTheorems, SequenceTheorems, NaturalsInduction, TLAPS

-----------------------------------------------------------------------------
(* Events.  Everything is said of one sequence: the events finished, the   *)
(* one in hand and the queue.  Only a push extends it; taking an event out *)
(* and finishing it move the borders.  The k-th event has id k.  The       *)
(* reports in it carry growing ids, so that none comes twice, and the loop *)
(* pushes a report before it finishes another event.                       *)

AnyEvents == [ident : Events!AllIdents \cup {"none"}, meta : BOOLEAN, of : Nat, eid : Nat]
\* Where a thread can be, and where raise() can return to.
Places == {"idle", "lock", "eid", "submit", "push", "sleep", "erase", "asleep", "check", "pop", "handle"}
Returns == {"idle", "sleep", "check", "handle"}

Waits == [ident : Events!AllIdents \cup {Events!AnyEvent}, eid : Nat, thread : Clients]

Stream == done \o Events!InHand \o f_event_queue
Held == Len(done) + Len(Events!InHand)

IsReport(e, k) == e.ident = "processed" /\ e.of = k
Raising == pc[Loop] \in {"lock", "eid", "push"}
Announces(ident) == Raising /\ ev[Loop].ident = ident

EventShape ==
    /\ f_lock \in Events!Actors \cup {NoThread}
    /\ f_next_eid \in Nat \ {0} /\ f_processing_event \in BOOLEAN /\ raises \in 0..MaxRaises
    /\ f_event_queue \in Seq(AnyEvents) /\ done \in Seq(AnyEvents) /\ cur \in AnyEvents
    /\ f_event_waits \in Seq(Waits)
    /\ ev \in [Events!Actors -> AnyEvents]
    /\ pc \in [Events!Actors -> Places]
    /\ ret \in [Events!Actors -> Returns]
    /\ h \in Nat \ {0}

\* f_lock is with the thread that is between its lock and its unlock.
LockWithRaiser ==
    \A t \in Events!Actors : pc[t] \in {"eid", "submit", "push", "sleep"} => f_lock = t

\* What the threads are about to push.
ClientsRaise ==
    \A c \in Clients :
        /\ pc[c] \in {"idle", "lock", "eid", "submit", "push", "sleep", "erase", "asleep"}
        /\ pc[c] \in {"lock", "eid", "submit", "push"} =>
              ev[c].ident \in Idents /\ ~ev[c].meta /\ ret[c] \in {"idle", "sleep"}
        /\ pc[c] = "submit" => ret[c] = "sleep"

LoopRaises ==
    /\ pc[Loop] \in {"check", "pop", "handle", "lock", "eid", "push"}
    /\ pc[Loop] = "pop" => f_event_queue # <<>>
    /\ Raising => \/ /\ ret[Loop] = "handle" /\ ev[Loop].ident \in Idents /\ ~ev[Loop].meta
                  \/ /\ ret[Loop] = "check" /\ ev[Loop].ident \in {"processed", "queue_empty"}
                     /\ ev[Loop].meta

\* The k-th event has id k.
Ordered ==
    /\ \A k \in 1..Len(Stream) : Stream[k].eid = k /\ Stream[k].ident \in Events!AllIdents
    /\ \A k \in 1..Len(Stream) : Stream[k].meta <=> Stream[k].ident \notin Idents
    /\ f_next_eid = Len(Stream) + 1 + (IF Events!Arriving = {} THEN 0 ELSE 1)
    /\ \A t \in Events!Arriving : ev[t].eid = Len(Stream) + 1

Submitted ==
    \A c \in Clients :
        ret[c] = "sleep" /\ pc[c] \in {"push", "sleep", "erase", "asleep"} =>
            \E k \in DOMAIN f_event_waits :
                f_event_waits[k].thread = c /\ f_event_waits[k].eid \in {0, ev[c].eid}

\* Reports are about finished ordinary events, in their order.
ReportsSound ==
    /\ \A i \in 1..Len(Stream) : Stream[i].ident = "processed" =>
          /\ Stream[i].of \in 1..Len(done) /\ Stream[i].of < i
    /\ \A i, j \in 1..Len(Stream) :
          /\ Stream[i].ident = "processed" /\ Stream[j].ident = "processed"
          /\ i < j
          => Stream[i].of < Stream[j].of
    /\ Announces("processed") =>
          /\ ev[Loop].of = Len(done) /\ 0 < Len(done)
          /\ \A i \in 1..Len(Stream) : Stream[i].ident = "processed" => Stream[i].of < Len(done)

\* Every finished ordinary event has been reported, or is being.
Reported ==
    \A k \in 1..Len(done) : Stream[k].ident \in Idents =>
        \/ \E i \in 1..Len(Stream) : IsReport(Stream[i], k)
        \/ Announces("processed") /\ ev[Loop].of = k

\* Unless the loop has begun an ordinary event since, everything it has begun lies up to a
\* QUEUE_EMPTY that only ordinary events follow.
EmptyAnnounced ==
    /\ Events!InHand # <<>> /\ ~cur.meta => f_processing_event
    /\ Announces("processed") => f_processing_event
    /\ \/ f_processing_event
       \/ Announces("queue_empty")
       \/ \E i \in 0..Len(Stream) :
            /\ i # 0 => Stream[i].ident = "queue_empty"
            /\ \A j \in 1..Len(Stream) : i < j => Held < j /\ Stream[j].ident \in Idents

EventInv ==
    /\ EventShape /\ LockWithRaiser /\ ClientsRaise /\ LoopRaises /\ Ordered /\ Submitted
    /\ ReportsSound /\ Reported /\ EmptyAnnounced

\* The parts of the sequence.
LEMMA StreamParts ==
    ASSUME EventShape
    PROVE  /\ Stream \in Seq(AnyEvents) /\ Events!InHand \in Seq(AnyEvents)
           /\ Len(done) \in Nat /\ Len(Events!InHand) \in Nat /\ Len(f_event_queue) \in Nat
           /\ Held \in Nat /\ Len(Stream) \in Nat
           /\ Len(done) <= Held /\ Held <= Len(Stream)
           /\ Len(Stream) = Held + Len(f_event_queue)
           /\ \A k \in 1..Len(done) : Stream[k] = done[k]
           /\ Events!InHand = <<>> => Held = Len(done)
           /\ Events!InHand # <<>> =>
                Events!InHand = <<cur>> /\ Held = Len(done) + 1 /\ Stream[Held] = cur
           /\ \A k \in 1..Len(f_event_queue) : Stream[Held + k] = f_event_queue[k]
           /\ f_event_queue = <<>> => Len(Stream) = Held
<1>1. /\ done \in Seq(AnyEvents) /\ f_event_queue \in Seq(AnyEvents) /\ cur \in AnyEvents
      /\ Len(done) \in Nat /\ Len(f_event_queue) \in Nat
  BY LenProperties DEF EventShape
<1>2. Events!InHand \in Seq(AnyEvents) /\ (Events!InHand = <<>> \/ Events!InHand = <<cur>>)
  BY <1>1 DEF Events!InHand
<1>3. Len(Events!InHand) \in Nat /\ (Events!InHand = <<>> => Len(Events!InHand) = 0)
      /\ (Events!InHand # <<>> =>
            Events!InHand = <<cur>> /\ Len(Events!InHand) = 1 /\ Events!InHand[1] = cur)
  BY <1>2
<1> DEFINE front == done \o Events!InHand
<1> HIDE DEF Events!InHand
<1>4. /\ front \in Seq(AnyEvents) /\ Len(front) = Len(done) + Len(Events!InHand)
      /\ \A k \in 1..(Len(done) + Len(Events!InHand)) :
            front[k] = IF k <= Len(done) THEN done[k] ELSE Events!InHand[k - Len(done)]
  BY <1>1, <1>2, ConcatProperties
<1>5. Held = Len(front) /\ Held \in Nat /\ Stream = front \o f_event_queue
  BY <1>1, <1>3, <1>4 DEF Held, Stream
<1> HIDE DEF front
<1>6. /\ Stream \in Seq(AnyEvents) /\ Len(Stream) = Held + Len(f_event_queue)
      /\ \A k \in 1..(Held + Len(f_event_queue)) :
            Stream[k] = IF k <= Held THEN front[k] ELSE f_event_queue[k - Held]
  <2>1. front \in Seq(AnyEvents) /\ f_event_queue \in Seq(AnyEvents)
    BY <1>1, <1>4
  <2>2. /\ front \o f_event_queue \in Seq(AnyEvents)
        /\ Len(front \o f_event_queue) = Len(front) + Len(f_event_queue)
        /\ \A k \in 1..(Len(front) + Len(f_event_queue)) :
              (front \o f_event_queue)[k] =
                  IF k <= Len(front) THEN front[k] ELSE f_event_queue[k - Len(front)]
    BY <2>1, ConcatProperties
  <2>3. QED
    BY <1>5, <2>2
<1>7. Len(done) <= Held /\ Held <= Len(Stream) /\ Len(Stream) \in Nat
  BY <1>1, <1>3, <1>4, <1>5, <1>6
<1>8. \A k \in 1..Len(done) : Stream[k] = done[k]
  BY <1>1, <1>3, <1>4, <1>5, <1>6, <1>7
<1>9. Events!InHand = <<>> => Held = Len(done)
  BY <1>1, <1>3, <1>4, <1>5
<1>10. ASSUME Events!InHand # <<>>
       PROVE  Events!InHand = <<cur>> /\ Held = Len(done) + 1 /\ Stream[Held] = cur
  <2>0. Len(Events!InHand) = 1 /\ Held = Len(done) + Len(Events!InHand)
    BY <1>3, <1>4, <1>5, <1>10
  <2>1. Held = Len(done) + 1 /\ Held \in 1..(Len(done) + Len(Events!InHand))
    BY <1>1, <2>0
  <2>2. ~(Held <= Len(done)) /\ Held - Len(done) = 1 /\ Held \in 1..(Held + Len(f_event_queue))
    BY <1>1, <2>1
  <2>3. front[Held] = Events!InHand[1]
    BY <1>4, <2>1, <2>2
  <2>4. Stream[Held] = front[Held]
    BY <1>5, <1>6, <2>2
  <2>5. QED
    BY <1>3, <1>10, <2>1, <2>3, <2>4
<1>11. ASSUME NEW k \in 1..Len(f_event_queue) PROVE Stream[Held + k] = f_event_queue[k]
  <2>1. Held + k \in 1..(Held + Len(f_event_queue)) /\ ~(Held + k <= Held) /\ (Held + k) - Held = k
    BY <1>1, <1>5
  <2>2. QED
    BY <1>6, <2>1
<1>12. f_event_queue = <<>> => Len(Stream) = Held
  BY <1>5, <1>6
<1>13. QED
  BY <1>1, <1>2, <1>3, <1>5, <1>6, <1>7, <1>8, <1>9, <1>10, <1>11, <1>12

\* A push extends the sequence.
LEMMA StreamPush ==
    ASSUME EventShape, NEW e \in AnyEvents, f_event_queue' = Append(f_event_queue, e),
           UNCHANGED done, Events!InHand' = Events!InHand
    PROVE  /\ Stream' = Append(Stream, e) /\ Held' = Held
           /\ Stream' \in Seq(AnyEvents) /\ Len(Stream') = Len(Stream) + 1
           /\ \A k \in 1..Len(Stream) : Stream'[k] = Stream[k]
           /\ Stream'[Len(Stream) + 1] = e
<1>1. /\ done \in Seq(AnyEvents) /\ f_event_queue \in Seq(AnyEvents)
      /\ Events!InHand \in Seq(AnyEvents) /\ Stream \in Seq(AnyEvents)
  BY StreamParts DEF EventShape
<1>2. Stream' = (done \o Events!InHand) \o Append(f_event_queue, e)
  BY DEF Stream
<1>3. Append(f_event_queue, e) = f_event_queue \o <<e>>
  BY <1>1, AppendIsConcat
<1>4. (done \o Events!InHand) \o (f_event_queue \o <<e>>) =
        ((done \o Events!InHand) \o f_event_queue) \o <<e>>
  BY <1>1, ConcatAssociative, ConcatProperties
<1>5. Stream' = Stream \o <<e>>
  BY <1>2, <1>3, <1>4 DEF Stream
<1>6. Stream' = Append(Stream, e)
  BY <1>1, <1>5, AppendIsConcat
<1>7. Held' = Held
  BY DEF Held
<1>8. QED
  BY <1>1, <1>6, <1>7, AppendProperties

\* The front of the queue is taken in hand.
LEMMA StreamPop ==
    ASSUME EventShape, f_event_queue # <<>>, Events!InHand = <<>>, UNCHANGED done,
           Events!InHand' = <<Head(f_event_queue)>>, f_event_queue' = Tail(f_event_queue)
    PROVE  /\ Stream' = Stream /\ Held' = Held + 1
           /\ Head(f_event_queue) \in AnyEvents /\ Tail(f_event_queue) \in Seq(AnyEvents)
           /\ Stream[Held + 1] = Head(f_event_queue) /\ Held + 1 \in 1..Len(Stream)
<1> DEFINE e == Head(f_event_queue)
           q == Tail(f_event_queue)
<1>1. /\ done \in Seq(AnyEvents) /\ f_event_queue \in Seq(AnyEvents)
      /\ Held = Len(done) /\ Len(done) \in Nat /\ Len(f_event_queue) \in Nat
      /\ Len(Stream) = Held + Len(f_event_queue) /\ Held \in Nat
      /\ \A k \in 1..Len(f_event_queue) : Stream[Held + k] = f_event_queue[k]
  BY StreamParts DEF EventShape
<1>2. /\ e \in AnyEvents /\ q \in Seq(AnyEvents) /\ f_event_queue = <<e>> \o q
      /\ e = f_event_queue[1] /\ 1 <= Len(f_event_queue)
  BY <1>1
<1>3. <<>> \in Seq(AnyEvents) /\ <<e>> \in Seq(AnyEvents)
  BY <1>2
<1>4. Stream = done \o f_event_queue
  BY <1>1, ConcatEmptySeq DEF Stream
<1>5. Stream' = (done \o <<e>>) \o q
  BY DEF Stream
<1> HIDE DEF e, q
<1>6. (done \o <<e>>) \o q = done \o (<<e>> \o q)
  BY <1>1, <1>2, <1>3, ConcatAssociative
<1>7. Stream' = Stream
  BY <1>2, <1>4, <1>5, <1>6
<1>8. Held' = Held + 1
  <2>1. Events!InHand' = <<e>> /\ done' = done
    BY DEF e
  <2>2. Len(Events!InHand') = 1
    BY <2>1
  <2>3. QED
    BY <1>1, <2>1, <2>2 DEF Held
<1>9. Stream[Held + 1] = e /\ Held + 1 \in 1..Len(Stream)
  BY <1>1, <1>2
<1>10. QED
  BY <1>2, <1>7, <1>8, <1>9 DEF e, q

\* The event in hand is finished.
LEMMA StreamFinish ==
    ASSUME EventShape, Events!InHand # <<>>, UNCHANGED f_event_queue,
           Events!InHand' = <<>>, done' = Append(done, cur)
    PROVE  /\ Stream' = Stream /\ Held' = Held
           /\ done' \in Seq(AnyEvents) /\ Len(done') = Len(done) + 1 /\ Len(done') = Held
<1>1. /\ done \in Seq(AnyEvents) /\ f_event_queue \in Seq(AnyEvents) /\ cur \in AnyEvents
      /\ Len(done) \in Nat /\ Events!InHand = <<cur>> /\ Held = Len(done) + 1
  BY StreamParts DEF EventShape
<1>2. done' = done \o <<cur>> /\ done' \in Seq(AnyEvents) /\ Len(done') = Len(done) + 1
  BY <1>1, AppendIsConcat, AppendProperties
<1>3. done' \o Events!InHand' = done'
  BY <1>2, ConcatEmptySeq
<1>4. Stream' = Stream
  BY <1>1, <1>2, <1>3 DEF Stream
<1>5. Len(Events!InHand') = 0
  OBVIOUS
<1>6. QED
  BY <1>1, <1>2, <1>4, <1>5 DEF Held

\* Who has the lock tells whether an event is on its way to the queue.
LEMMA ArrivalHoldsLock ==
    ASSUME EventAssumption, LockWithRaiser
    PROVE  /\ f_lock = NoThread => Events!Arriving = {}
           /\ \A t \in Events!Actors :
                f_lock = t /\ pc[t] \notin {"submit", "push"} => Events!Arriving = {}
           /\ \A t \in Events!Actors :
                pc[t] \in {"submit", "push"} => Events!Arriving = {t} /\ f_lock = t
BY DEF EventAssumption, LockWithRaiser, Events!Arriving

\* The parts of the invariant about the threads.
ClientsAndLoop == EventShape /\ LockWithRaiser /\ ClientsRaise /\ LoopRaises /\ Submitted

\* A step that leaves the sequence and its borders alone.
LEMMA QuietStep ==
    ASSUME EventInv, ClientsAndLoop', Stream' = Stream, UNCHANGED <<done, cur>>,
           Events!InHand' = Events!InHand,
           f_next_eid' = Len(Stream) + 1 + (IF Events!Arriving' = {} THEN 0 ELSE 1),
           \A t \in Events!Arriving' : ev'[t].eid = Len(Stream) + 1,
           Announces("processed")' <=> Announces("processed"),
           Announces("processed") => ev'[Loop].of = ev[Loop].of,
           \/ /\ f_processing_event' = f_processing_event
              /\ Announces("queue_empty") => Announces("queue_empty")'
           \/ Announces("queue_empty")' /\ Events!InHand = <<>>
    PROVE  EventInv'
<1>1. Held' = Held
  BY DEF Held
<1>2. Ordered'
  BY DEF EventInv, Ordered
<1>3. ReportsSound'
  BY DEF EventInv, ReportsSound
<1>4. Reported'
  BY DEF EventInv, Reported, IsReport
<1>5. EmptyAnnounced'
  <2>1. CASE f_processing_event' = f_processing_event
             /\ (Announces("queue_empty") => Announces("queue_empty")')
    BY <1>1, <2>1 DEF EventInv, EmptyAnnounced
  <2>2. CASE Announces("queue_empty")' /\ Events!InHand = <<>>
    <3>1. ~Announces("processed")'
      BY <2>2 DEF Announces
    <3>2. QED
      BY <2>2, <3>1 DEF EmptyAnnounced
  <2>3. QED
    BY <2>1, <2>2
<1>6. QED
  BY <1>2, <1>3, <1>4, <1>5 DEF EventInv, ClientsAndLoop

\* A client's step is nothing to the loop.
LEMMA ClientStep ==
    ASSUME EventAssumption, EventShape, NEW c \in Clients, NEW p, pc' = [pc EXCEPT ![c] = p],
           ev'[Loop] = ev[Loop], ret'[Loop] = ret[Loop], UNCHANGED cur
    PROVE  /\ c \in Events!Actors /\ Loop \in Events!Actors /\ c # Loop
           /\ pc'[Loop] = pc[Loop] /\ Events!InHand' = Events!InHand
           /\ Announces("processed")' <=> Announces("processed")
           /\ Announces("queue_empty")' <=> Announces("queue_empty")
<1>1. c \in Events!Actors /\ Loop \in Events!Actors /\ c # Loop
  BY DEF EventAssumption, Events!Actors
<1>2. pc'[Loop] = pc[Loop]
  BY <1>1 DEF EventShape
<1>3. Events!InHand' = Events!InHand
  BY <1>2 DEF Events!InHand
<1>4. QED
  BY <1>1, <1>2, <1>3 DEF Announces, Raising

\* raise() and raise_wait() are called.
LEMMA CallEvents ==
    ASSUME EventAssumption, EventInv, NEW c \in Clients, NEW ident \in Idents,
           Events!Raise(c, ident) \/ Events!RaiseWait(c, ident)
    PROVE  EventInv'
<1> DEFINE e == Events!Event(ident, FALSE, 0)
<1>1. PICK r \in {"idle", "sleep"} : Events!CallRaise(c, e, r)
  BY DEF Events!Raise, Events!RaiseWait
<1>2. /\ pc[c] = "idle" /\ raises < MaxRaises /\ raises' = raises + 1
      /\ UNCHANGED <<f_lock, f_event_queue, f_next_eid, f_event_waits, f_processing_event, cur,
                     h, done>>
  BY DEF Events!Raise, Events!RaiseWait, Events!loopvars
<1>3. e \in AnyEvents /\ e.ident = ident /\ ~e.meta
  BY DEF Events!Event, AnyEvents, Events!AllIdents
<1> HIDE DEF e
<1>4. EventShape /\ c \in Events!Actors /\ Loop \in Events!Actors /\ c # Loop
  BY DEF EventInv, EventAssumption, Events!Actors
<1>5. /\ pc' = [pc EXCEPT ![c] = "lock"] /\ ev' = [ev EXCEPT ![c] = e]
      /\ ret' = [ret EXCEPT ![c] = r]
  BY <1>1 DEF Events!CallRaise
<1>6. \A t \in Events!Actors : /\ pc'[t] = IF t = c THEN "lock" ELSE pc[t]
                               /\ ev'[t] = IF t = c THEN e ELSE ev[t]
                               /\ ret'[t] = IF t = c THEN r ELSE ret[t]
  BY <1>4, <1>5 DEF EventShape
<1>7. /\ pc'[Loop] = pc[Loop] /\ Events!InHand' = Events!InHand
      /\ Announces("processed")' <=> Announces("processed")
      /\ Announces("queue_empty")' <=> Announces("queue_empty")
  BY <1>2, <1>4, <1>5, <1>6, ClientStep
<1>8. ClientsAndLoop'
  <2>1. EventShape'
    <3>1. raises' \in 0..MaxRaises
      BY <1>2, <1>4 DEF EventShape, EventAssumption
    <3>2. ev' \in [Events!Actors -> AnyEvents]
      BY <1>3, <1>4, <1>5 DEF EventShape
    <3>3. pc' \in [Events!Actors -> Places]
      BY <1>4, <1>5 DEF EventShape, Places
    <3>4. ret' \in [Events!Actors -> Returns]
      BY <1>4, <1>5 DEF EventShape, Returns
    <3>5. QED
      BY <1>2, <1>4, <3>1, <3>2, <3>3, <3>4 DEF EventShape
  <2>2. LockWithRaiser'
    BY <1>2, <1>6 DEF EventInv, LockWithRaiser
  <2>3. ClientsRaise'
    BY <1>3, <1>4, <1>6 DEF EventInv, ClientsRaise, Events!Actors
  <2>4. LoopRaises'
    BY <1>2, <1>4, <1>6 DEF EventInv, LoopRaises, Raising
  <2>5. Submitted'
    BY <1>2, <1>6 DEF EventInv, Submitted, Events!Actors
  <2>6. QED
    BY <2>1, <2>2, <2>3, <2>4, <2>5 DEF ClientsAndLoop
<1>9. Events!Arriving' = Events!Arriving /\ \A t \in Events!Arriving : ev'[t] = ev[t]
  BY <1>2, <1>6 DEF Events!Arriving
<1>10. Stream' = Stream
  BY <1>2, <1>7 DEF Stream
<1>11. QED
  BY <1>2, <1>4, <1>6, <1>7, <1>8, <1>9, <1>10, QuietStep DEF EventInv, Ordered

\* wait() puts its wait on the list.
LEMMA WaitEvents ==
    ASSUME EventAssumption, EventInv, NEW c \in Clients,
           NEW ident \in Idents \cup {Events!AnyEvent},
           Events!Wait(c, ident)
    PROVE  EventInv'
<1> DEFINE w == [ident |-> ident, eid |-> 0, thread |-> c]
<1>1. w \in Waits /\ w.thread = c /\ w.eid = 0
  BY DEF Waits, Events!AllIdents
<1>2. /\ pc[c] = "idle" /\ f_lock = NoThread /\ f_lock' = c
      /\ f_event_waits' = Append(f_event_waits, w) /\ pc' = [pc EXCEPT ![c] = "sleep"]
      /\ UNCHANGED <<f_event_queue, f_next_eid, ev, ret, raises, f_processing_event, cur, h, done>>
  BY DEF Events!Wait, Events!loopvars
<1> HIDE DEF w
<1>3. EventShape /\ c \in Events!Actors /\ Loop \in Events!Actors /\ c # Loop
  BY DEF EventInv, EventAssumption, Events!Actors
<1>4. \A t \in Events!Actors : pc'[t] = IF t = c THEN "sleep" ELSE pc[t]
  BY <1>2, <1>3 DEF EventShape
<1>5. /\ pc'[Loop] = pc[Loop] /\ Events!InHand' = Events!InHand
      /\ Announces("processed")' <=> Announces("processed")
      /\ Announces("queue_empty")' <=> Announces("queue_empty")
  BY <1>2, <1>3, ClientStep
<1>6. /\ f_event_waits' \in Seq(Waits)
      /\ DOMAIN f_event_waits' = DOMAIN f_event_waits \cup {Len(f_event_waits) + 1}
      /\ \A k \in DOMAIN f_event_waits : f_event_waits'[k] = f_event_waits[k]
      /\ f_event_waits'[Len(f_event_waits) + 1] = w
  <2>1. f_event_waits \in Seq(Waits)
    BY <1>3 DEF EventShape
  <2>2. QED
    BY <1>1, <1>2, <2>1, AppendProperties, LenProperties
<1>7. ClientsAndLoop'
  <2>1. EventShape'
    <3>1. pc' \in [Events!Actors -> Places]
      BY <1>2, <1>3 DEF EventShape, Places
    <3>2. QED
      BY <1>2, <1>3, <1>6, <3>1 DEF EventShape
  <2>2. LockWithRaiser'
    BY <1>2, <1>3, <1>4 DEF EventInv, LockWithRaiser, EventAssumption
  <2>3. ClientsRaise'
    BY <1>2, <1>3, <1>4 DEF EventInv, ClientsRaise, Events!Actors
  <2>4. LoopRaises'
    BY <1>2, <1>3, <1>4 DEF EventInv, LoopRaises, Raising
  <2>5. Submitted'
    BY <1>1, <1>2, <1>4, <1>6 DEF EventInv, Submitted, Events!Actors
  <2>6. QED
    BY <2>1, <2>2, <2>3, <2>4, <2>5 DEF ClientsAndLoop
<1>8. Events!Arriving' = Events!Arriving
  BY <1>2, <1>4 DEF Events!Arriving
<1>9. Stream' = Stream
  BY <1>2, <1>5 DEF Stream
<1>10. QED
  BY <1>2, <1>5, <1>7, <1>8, <1>9, QuietStep DEF EventInv, Ordered

\* The thread of wait() or raise_wait() sleeps and drops the lock, or does not leave erase().
LEMMA SleepEvents ==
    ASSUME EventAssumption, EventInv, NEW c \in Clients, Events!Sleep(c)
    PROVE  EventInv'
<1>1. PICK p \in {"asleep", "erase"} :
      /\ pc[c] = "sleep" /\ f_lock' \in {f_lock, NoThread} /\ pc' = [pc EXCEPT ![c] = p]
      /\ UNCHANGED <<f_event_queue, f_next_eid, f_event_waits, ev, ret, raises,
                     f_processing_event, cur, h, done>>
  BY DEF Events!Sleep, Events!loopvars
<1>2. EventShape /\ c \in Events!Actors /\ Loop \in Events!Actors /\ c # Loop
  BY DEF EventInv, EventAssumption, Events!Actors
<1>3. \A t \in Events!Actors : pc'[t] = IF t = c THEN p ELSE pc[t]
  BY <1>1, <1>2 DEF EventShape
<1>4. f_lock = c /\ \A t \in Events!Actors \ {c} : pc[t] \notin {"eid", "submit", "push", "sleep"}
  BY <1>1, <1>2 DEF EventInv, LockWithRaiser
<1>5. /\ pc'[Loop] = pc[Loop] /\ Events!InHand' = Events!InHand
      /\ Announces("processed")' <=> Announces("processed")
      /\ Announces("queue_empty")' <=> Announces("queue_empty")
  BY <1>1, <1>2, ClientStep
<1>6. ClientsAndLoop'
  <2>1. EventShape'
    <3>1. pc' \in [Events!Actors -> Places]
      BY <1>1, <1>2 DEF EventShape, Places
    <3>2. QED
      BY <1>1, <1>2, <3>1 DEF EventShape
  <2>2. LockWithRaiser'
    BY <1>3, <1>4 DEF LockWithRaiser
  <2>3. ClientsRaise'
    BY <1>1, <1>3 DEF EventInv, ClientsRaise, Events!Actors
  <2>4. LoopRaises'
    BY <1>1, <1>2, <1>3 DEF EventInv, LoopRaises, Raising
  <2>5. Submitted'
    BY <1>1, <1>3 DEF EventInv, Submitted, Events!Actors
  <2>6. QED
    BY <2>1, <2>2, <2>3, <2>4, <2>5 DEF ClientsAndLoop
<1>7. Events!Arriving' = Events!Arriving
  BY <1>1, <1>3 DEF Events!Arriving
<1>8. Stream' = Stream
  BY <1>1, <1>5 DEF Stream
<1>9. QED
  BY <1>1, <1>5, <1>6, <1>7, <1>8, QuietStep DEF EventInv, Ordered

\* raise() gets the lock.
LEMMA LockEvents ==
    ASSUME EventAssumption, EventInv, NEW t \in Events!Actors, Events!RaiseLock(t)
    PROVE  EventInv'
<1>1. /\ pc[t] = "lock" /\ f_lock = NoThread /\ f_lock' = t /\ pc' = [pc EXCEPT ![t] = "eid"]
      /\ UNCHANGED <<f_event_queue, f_next_eid, f_event_waits, ev, ret, raises,
                     f_processing_event, cur, h, done>>
  BY DEF Events!RaiseLock, Events!loopvars
<1>2. EventShape /\ Loop \in Events!Actors
  BY DEF EventInv, Events!Actors
<1>3. \A u \in Events!Actors : pc'[u] = IF u = t THEN "eid" ELSE pc[u]
  BY <1>1, <1>2 DEF EventShape
<1>4. \A u \in Events!Actors : pc[u] \notin {"eid", "submit", "push", "sleep"}
  BY <1>1 DEF EventInv, LockWithRaiser, EventAssumption
<1>5. /\ Events!InHand' = Events!InHand
      /\ Announces("processed")' <=> Announces("processed")
      /\ Announces("queue_empty")' <=> Announces("queue_empty")
  <2>1. pc'[Loop] = pc[Loop] \/ (pc[Loop] = "lock" /\ pc'[Loop] = "eid")
    BY <1>1, <1>2, <1>3
  <2>2. Events!InHand' = Events!InHand
    BY <1>1, <2>1 DEF Events!InHand
  <2>3. QED
    BY <1>1, <2>1, <2>2 DEF Announces, Raising
<1>6. ClientsAndLoop'
  <2>1. EventShape'
    <3>1. pc' \in [Events!Actors -> Places]
      BY <1>1, <1>2 DEF EventShape, Places
    <3>2. QED
      BY <1>1, <1>2, <3>1 DEF EventShape
  <2>2. LockWithRaiser'
    BY <1>1, <1>3, <1>4 DEF LockWithRaiser
  <2>3. ClientsRaise'
    BY <1>1, <1>3 DEF EventInv, ClientsRaise, Events!Actors
  <2>4. LoopRaises'
    BY <1>1, <1>2, <1>3 DEF EventInv, LoopRaises, Raising
  <2>5. Submitted'
    BY <1>1, <1>3 DEF EventInv, Submitted, Events!Actors
  <2>6. QED
    BY <2>1, <2>2, <2>3, <2>4, <2>5 DEF ClientsAndLoop
<1>7. Events!Arriving' = Events!Arriving
  BY <1>1, <1>3 DEF Events!Arriving
<1>8. Stream' = Stream
  BY <1>1, <1>5 DEF Stream
<1>9. QED
  BY <1>1, <1>5, <1>6, <1>7, <1>8, QuietStep DEF EventInv, Ordered

\* raise() numbers its event.
LEMMA AssignEvents ==
    ASSUME EventAssumption, EventInv, NEW t \in Events!Actors, Events!AssignEid(t)
    PROVE  EventInv'
<1> DEFINE p == IF ret[t] = "sleep" THEN "submit" ELSE "push"
           e == [ev[t] EXCEPT !.eid = f_next_eid]
<1>1. /\ pc[t] = "eid" /\ pc' = [pc EXCEPT ![t] = p] /\ f_next_eid' = f_next_eid + 1
      /\ ev' = [ev EXCEPT ![t] = e]
      /\ UNCHANGED <<f_lock, f_event_queue, f_event_waits, ret, raises,
                     f_processing_event, cur, h, done>>
  BY DEF Events!AssignEid, Events!loopvars
<1>2. EventShape /\ Loop \in Events!Actors
  BY DEF EventInv, Events!Actors
<1>3. /\ e \in AnyEvents /\ e.eid = f_next_eid /\ e.ident = ev[t].ident /\ e.meta = ev[t].meta
      /\ e.of = ev[t].of
  <2>1. ev[t] \in AnyEvents /\ f_next_eid \in Nat
    BY <1>2 DEF EventShape
  <2>2. QED
    BY <2>1 DEF AnyEvents
<1>4. p \in {"submit", "push"} /\ (p = "submit" <=> ret[t] = "sleep")
  OBVIOUS
<1> HIDE DEF p, e
<1>5. \A u \in Events!Actors : /\ pc'[u] = IF u = t THEN p ELSE pc[u]
                               /\ ev'[u] = IF u = t THEN e ELSE ev[u]
  BY <1>1, <1>2 DEF EventShape
<1>6. f_lock = t /\ \A u \in Events!Actors \ {t} : pc[u] \notin {"eid", "submit", "push", "sleep"}
  BY <1>1 DEF EventInv, LockWithRaiser
<1>7. t = Loop => p = "push"
  BY <1>1, <1>4 DEF EventInv, LoopRaises, Raising
<1>8. /\ Events!InHand' = Events!InHand
      /\ Announces("processed")' <=> Announces("processed")
      /\ Announces("queue_empty")' <=> Announces("queue_empty")
      /\ ev'[Loop].of = ev[Loop].of
  <2>1. pc'[Loop] = pc[Loop] \/ (pc[Loop] = "eid" /\ pc'[Loop] = "push")
    BY <1>1, <1>2, <1>5, <1>7
  <2>2. ev'[Loop].ident = ev[Loop].ident /\ ev'[Loop].of = ev[Loop].of
    BY <1>2, <1>3, <1>5
  <2>3. Events!InHand' = Events!InHand
    BY <1>1, <2>1 DEF Events!InHand
  <2>4. QED
    BY <2>1, <2>2, <2>3 DEF Announces, Raising
<1>9. ClientsAndLoop'
  <2>1. EventShape'
    <3>1. pc' \in [Events!Actors -> Places]
      BY <1>1, <1>2, <1>4 DEF EventShape, Places
    <3>2. ev' \in [Events!Actors -> AnyEvents]
      BY <1>1, <1>2, <1>3 DEF EventShape
    <3>3. f_next_eid' \in Nat \ {0}
      BY <1>1, <1>2 DEF EventShape
    <3>4. QED
      BY <1>1, <1>2, <3>1, <3>2, <3>3 DEF EventShape
  <2>2. LockWithRaiser'
    BY <1>1, <1>5, <1>6 DEF LockWithRaiser
  <2>3. ClientsRaise'
    BY <1>1, <1>3, <1>4, <1>5 DEF EventInv, ClientsRaise, Events!Actors
  <2>4. LoopRaises'
    BY <1>1, <1>2, <1>3, <1>5, <1>7 DEF EventInv, LoopRaises, Raising
  <2>5. Submitted'
    BY <1>1, <1>4, <1>5 DEF EventInv, Submitted, Events!Actors
  <2>6. QED
    BY <2>1, <2>2, <2>3, <2>4, <2>5 DEF ClientsAndLoop
<1>10. Events!Arriving = {} /\ Events!Arriving' = {t}
  BY <1>1, <1>4, <1>5, <1>6 DEF Events!Arriving
<1>11. Stream' = Stream
  BY <1>1, <1>8 DEF Stream
<1>12. f_next_eid = Len(Stream) + 1 /\ Len(Stream) \in Nat
  BY <1>2, <1>10, StreamParts DEF EventInv, Ordered
<1>13. /\ f_next_eid' = Len(Stream) + 1 + (IF Events!Arriving' = {} THEN 0 ELSE 1)
       /\ \A u \in Events!Arriving' : ev'[u].eid = Len(Stream) + 1
  BY <1>1, <1>3, <1>5, <1>10, <1>12
<1>14. QED
  BY <1>1, <1>8, <1>9, <1>11, <1>13, QuietStep

\* raise_wait() puts its wait on the list, before its event.
LEMMA SubmitEvents ==
    ASSUME EventAssumption, EventInv, NEW c \in Events!Actors, Events!SubmitWait(c)
    PROVE  EventInv'
<1> DEFINE w == [ident |-> ev[c].ident, eid |-> ev[c].eid, thread |-> c]
<1>1. /\ pc[c] = "submit" /\ f_event_waits' = Append(f_event_waits, w)
      /\ pc' = [pc EXCEPT ![c] = "push"]
      /\ UNCHANGED <<f_lock, f_event_queue, f_next_eid, ev, ret, raises, f_processing_event, cur,
                     h, done>>
  BY DEF Events!SubmitWait, Events!loopvars
<1>2. EventShape /\ c \in Clients /\ Loop \in Events!Actors /\ c # Loop
  BY <1>1 DEF EventInv, EventAssumption, LoopRaises, Events!Actors
<1>3. w \in Waits /\ w.thread = c /\ w.eid = ev[c].eid
  <2>1. ev[c] \in AnyEvents
    BY <1>2 DEF EventShape
  <2>2. ev[c].ident \in Idents
    BY <1>1, <1>2 DEF EventInv, ClientsRaise
  <2>3. ev[c].eid \in Nat
    BY <2>1 DEF AnyEvents
  <2>4. QED
    BY <1>2, <2>2, <2>3 DEF Waits, Events!AllIdents
<1> HIDE DEF w
<1>4. \A t \in Events!Actors : pc'[t] = IF t = c THEN "push" ELSE pc[t]
  BY <1>1, <1>2 DEF EventShape
<1>5. /\ pc'[Loop] = pc[Loop] /\ Events!InHand' = Events!InHand
      /\ Announces("processed")' <=> Announces("processed")
      /\ Announces("queue_empty")' <=> Announces("queue_empty")
  BY <1>1, <1>2, ClientStep
<1>6. /\ f_event_waits' \in Seq(Waits)
      /\ DOMAIN f_event_waits' = DOMAIN f_event_waits \cup {Len(f_event_waits) + 1}
      /\ \A k \in DOMAIN f_event_waits : f_event_waits'[k] = f_event_waits[k]
      /\ f_event_waits'[Len(f_event_waits) + 1] = w
  <2>1. f_event_waits \in Seq(Waits)
    BY <1>2 DEF EventShape
  <2>2. QED
    BY <1>1, <1>3, <2>1, AppendProperties, LenProperties
<1>7. ClientsAndLoop'
  <2>1. EventShape'
    <3>1. pc' \in [Events!Actors -> Places]
      BY <1>1, <1>2 DEF EventShape, Places
    <3>2. QED
      BY <1>1, <1>2, <1>6, <3>1 DEF EventShape
  <2>2. LockWithRaiser'
    BY <1>1, <1>4 DEF EventInv, LockWithRaiser
  <2>3. ClientsRaise'
    BY <1>1, <1>4 DEF EventInv, ClientsRaise, Events!Actors
  <2>4. LoopRaises'
    BY <1>1, <1>2, <1>4 DEF EventInv, LoopRaises, Raising
  <2>5. Submitted'
    BY <1>1, <1>3, <1>4, <1>6 DEF EventInv, Submitted, Events!Actors
  <2>6. QED
    BY <2>1, <2>2, <2>3, <2>4, <2>5 DEF ClientsAndLoop
<1>8. Events!Arriving' = Events!Arriving
  BY <1>1, <1>4 DEF Events!Arriving
<1>9. Stream' = Stream
  BY <1>1, <1>5 DEF Stream
<1>10. QED
  BY <1>1, <1>5, <1>7, <1>8, <1>9, QuietStep DEF EventInv, Ordered

\* The loop looks at the queue.
LEMMA CheckEvents ==
    ASSUME EventAssumption, EventInv, Events!LoopCheck
    PROVE  EventInv'
<1> DEFINE e == Events!Event("queue_empty", TRUE, 0)
<1>1. /\ pc[Loop] = "check"
      /\ UNCHANGED <<f_lock, f_event_queue, f_next_eid, f_event_waits, raises, cur, h, done>>
  BY DEF Events!LoopCheck
<1>2. EventShape /\ Loop \in Events!Actors /\ \A c \in Clients : c # Loop /\ c \in Events!Actors
  BY DEF EventInv, Events!Actors, EventAssumption
<1>3. e \in AnyEvents /\ e.ident = "queue_empty" /\ e.meta
  BY DEF Events!Event, AnyEvents, Events!AllIdents
<1>4. PICK p \in {"pop", "lock", "check"} :
        /\ pc' = [pc EXCEPT ![Loop] = p]
        /\ p = "pop" => f_event_queue # <<>>
        /\ p # "lock" => UNCHANGED <<f_processing_event, ev, ret>>
        /\ p = "lock" => /\ f_processing_event' = FALSE
                         /\ ev' = [ev EXCEPT ![Loop] = e] /\ ret' = [ret EXCEPT ![Loop] = "check"]
  <2>1. pc = [pc EXCEPT ![Loop] = "check"]
    BY <1>1, <1>2 DEF EventShape
  <2>2. QED
    BY <2>1 DEF Events!LoopCheck, Events!CallRaise
<1> HIDE DEF e
<1>5. /\ pc'[Loop] = p /\ \A c \in Clients : pc'[c] = pc[c] /\ ev'[c] = ev[c] /\ ret'[c] = ret[c]
      /\ \A t \in Events!Actors : pc'[t] = IF t = Loop THEN p ELSE pc[t]
      /\ p = "lock" => ev'[Loop] = e /\ ret'[Loop] = "check"
  BY <1>2, <1>4 DEF EventShape
<1>6. Events!InHand = <<>> /\ Events!InHand' = <<>>
  BY <1>1, <1>5 DEF Events!InHand
<1>7. /\ ~Announces("processed") /\ ~Announces("queue_empty") /\ ~Announces("processed")'
      /\ p = "lock" => Announces("queue_empty")'
  BY <1>1, <1>3, <1>5 DEF Announces, Raising
<1>8. ClientsAndLoop'
  <2>1. EventShape'
    <3>1. pc' \in [Events!Actors -> Places]
      BY <1>2, <1>4 DEF EventShape, Places
    <3>2. ev' \in [Events!Actors -> AnyEvents]
      BY <1>2, <1>3, <1>4 DEF EventShape
    <3>3. ret' \in [Events!Actors -> Returns]
      BY <1>2, <1>4 DEF EventShape, Returns
    <3>4. f_processing_event' \in BOOLEAN
      BY <1>2, <1>4 DEF EventShape
    <3>5. QED
      BY <1>1, <1>2, <3>1, <3>2, <3>3, <3>4 DEF EventShape
  <2>2. LockWithRaiser'
    BY <1>1, <1>5 DEF EventInv, LockWithRaiser
  <2>3. ClientsRaise'
    BY <1>5 DEF EventInv, ClientsRaise
  <2>4. LoopRaises'
    BY <1>1, <1>3, <1>4, <1>5 DEF LoopRaises, Raising
  <2>5. Submitted'
    BY <1>1, <1>5 DEF EventInv, Submitted
  <2>6. QED
    BY <2>1, <2>2, <2>3, <2>4, <2>5 DEF ClientsAndLoop
<1>9. Events!Arriving' = Events!Arriving /\ Loop \notin Events!Arriving
  BY <1>1, <1>5 DEF Events!Arriving
<1>10. \A t \in Events!Arriving : ev'[t] = ev[t]
  BY <1>5, <1>9 DEF Events!Arriving, Events!Actors
<1>11. Stream' = Stream
  BY <1>1, <1>6 DEF Stream
<1>12. \/ f_processing_event' = f_processing_event
       \/ Announces("queue_empty")' /\ Events!InHand = <<>>
  BY <1>4, <1>6, <1>7
<1>13. QED
  BY <1>1, <1>6, <1>7, <1>8, <1>9, <1>10, <1>11, <1>12, QuietStep DEF EventInv, Ordered

\* A handler runs, and may raise another event.
LEMMA HandleEvents ==
    ASSUME EventAssumption, EventInv, Events!LoopHandle
    PROVE  EventInv'
<1>1. /\ pc[Loop] = "handle" /\ h <= Len(Handlers[cur.ident])
      /\ UNCHANGED <<f_lock, f_event_queue, f_next_eid, f_processing_event, cur, done>>
  BY DEF Events!LoopHandle
<1>2. EventShape /\ Loop \in Events!Actors /\ \A c \in Clients : c # Loop /\ c \in Events!Actors
  BY DEF EventInv, Events!Actors, EventAssumption
<1>3. Events!InHand = <<cur>> /\ Events!InHand # <<>>
  BY <1>1 DEF Events!InHand
<1>4. cur.ident \in Events!AllIdents
  <2>1. Stream[Held] = cur /\ Held \in 1..Len(Stream)
    BY <1>2, <1>3, StreamParts
  <2>2. QED
    BY <2>1 DEF EventInv, Ordered
<1>5. /\ Handlers[cur.ident] \in Seq(STRING \ {"event_processed_handler"})
      /\ h \in 1..Len(Handlers[cur.ident])
  BY <1>1, <1>2, <1>4 DEF EventAssumption, EventShape
<1> DEFINE f == Handlers[cur.ident][h]
<1>6. f # "event_processed_handler"
  BY <1>5, ElementOfSeq
<1>7. Events!StillWaiting(f, cur) = f_event_waits
  BY <1>6 DEF Events!StillWaiting
<1>8. Events!Woken(f, cur) = pc
  <2>1. Events!EndWaits(f, cur) = {}
    BY <1>6 DEF Events!EndWaits
  <2>2. Events!Woken(f, cur) = [t \in Events!Actors |-> pc[t]]
    BY <2>1 DEF Events!Woken
  <2>3. QED
    BY <1>2, <2>2 DEF EventShape
<1>9. f_event_waits' = f_event_waits
  BY <1>7 DEF Events!LoopHandle
<1>10. h' \in Nat \ {0}
  <2>1. h' = Len(Handlers[cur.ident]) + 1 \/ h' = h + 1
    BY DEF Events!LoopHandle
  <2>2. QED
    BY <1>5, <2>1, LenProperties
<1> HIDE DEF f
<1>11. CASE pc' = pc /\ UNCHANGED <<ev, ret, raises>>
  <2>1. Events!InHand' = Events!InHand /\ Stream' = Stream /\ Events!Arriving' = Events!Arriving
    BY <1>1, <1>11 DEF Events!InHand, Stream, Events!Arriving
  <2>2. ClientsAndLoop'
    <3>1. EventShape'
      BY <1>1, <1>2, <1>9, <1>10, <1>11 DEF EventShape
    <3>2. LockWithRaiser' /\ ClientsRaise' /\ LoopRaises' /\ Submitted'
      BY <1>1, <1>9, <1>11 DEF EventInv, LockWithRaiser, ClientsRaise, LoopRaises, Submitted,
                               Raising
    <3>3. QED
      BY <3>1, <3>2 DEF ClientsAndLoop
  <2>3. /\ Announces("processed")' <=> Announces("processed")
        /\ Announces("queue_empty")' <=> Announces("queue_empty")
    BY <1>11 DEF Announces, Raising
  <2>4. QED
    BY <1>1, <1>11, <2>1, <2>2, <2>3, QuietStep DEF EventInv, Ordered
<1>12. ASSUME NEW ident \in Idents, raises < MaxRaises, raises' = raises + 1,
              pc' = [pc EXCEPT ![Loop] = "lock"], ret' = [ret EXCEPT ![Loop] = "handle"],
              ev' = [ev EXCEPT ![Loop] = Events!Event(ident, FALSE, 0)]
       PROVE  EventInv'
  <2> DEFINE e == Events!Event(ident, FALSE, 0)
  <2>1. e \in AnyEvents /\ e.ident = ident /\ ~e.meta
    BY DEF Events!Event, AnyEvents, Events!AllIdents
  <2>2. ev' = [ev EXCEPT ![Loop] = e]
    BY <1>12
  <2> HIDE DEF e
  <2>3. /\ pc'[Loop] = "lock" /\ ret'[Loop] = "handle" /\ ev'[Loop] = e
        /\ \A c \in Clients : pc'[c] = pc[c] /\ ev'[c] = ev[c] /\ ret'[c] = ret[c]
        /\ \A t \in Events!Actors : pc'[t] = IF t = Loop THEN "lock" ELSE pc[t]
    BY <1>2, <1>12, <2>2 DEF EventShape
  <2>4. Events!InHand' = Events!InHand
    BY <1>1, <1>3, <2>3 DEF Events!InHand
  <2>5. ClientsAndLoop'
    <3>1. EventShape'
      <4>1. pc' \in [Events!Actors -> Places]
        BY <1>2, <1>12 DEF EventShape, Places
      <4>2. ev' \in [Events!Actors -> AnyEvents]
        BY <1>2, <2>1, <2>2 DEF EventShape
      <4>3. ret' \in [Events!Actors -> Returns]
        BY <1>2, <1>12 DEF EventShape, Returns
      <4>4. raises' \in 0..MaxRaises
        BY <1>2, <1>12 DEF EventShape, EventAssumption
      <4>5. QED
        BY <1>1, <1>2, <1>9, <1>10, <4>1, <4>2, <4>3, <4>4 DEF EventShape
    <3>2. LockWithRaiser'
      BY <1>1, <2>3 DEF EventInv, LockWithRaiser
    <3>3. ClientsRaise'
      BY <2>3 DEF EventInv, ClientsRaise
    <3>4. LoopRaises'
      BY <2>1, <2>3 DEF LoopRaises, Raising
    <3>5. Submitted'
      BY <1>9, <2>3 DEF EventInv, Submitted
    <3>6. QED
      BY <3>1, <3>2, <3>3, <3>4, <3>5 DEF ClientsAndLoop
  <2>6. Events!Arriving' = Events!Arriving /\ Loop \notin Events!Arriving
    BY <1>1, <2>3 DEF Events!Arriving
  <2>7. \A t \in Events!Arriving : ev'[t] = ev[t]
    BY <2>3, <2>6 DEF Events!Arriving, Events!Actors
  <2>8. Stream' = Stream
    BY <1>1, <2>4 DEF Stream
  <2>9. ~Announces("processed") /\ ~Announces("queue_empty") /\ ~Announces("processed")'
    BY <1>1, <2>1, <2>3 DEF Announces, Raising, EventAssumption
  <2>10. QED
    BY <1>1, <2>4, <2>5, <2>6, <2>7, <2>8, <2>9, QuietStep DEF EventInv, Ordered
<1>13. \/ pc' = pc /\ UNCHANGED <<ev, ret, raises>>
       \/ \E ident \in Idents :
            /\ raises < MaxRaises /\ raises' = raises + 1
            /\ pc' = [pc EXCEPT ![Loop] = "lock"] /\ ret' = [ret EXCEPT ![Loop] = "handle"]
            /\ ev' = [ev EXCEPT ![Loop] = Events!Event(ident, FALSE, 0)]
  BY <1>8, Zenon DEF Events!LoopHandle, f
<1>14. QED
  BY <1>11, <1>12, <1>13

\* The event goes on the queue.
LEMMA PushEvents ==
    ASSUME EventAssumption, EventInv, NEW t \in Events!Actors, Events!Push(t)
    PROVE  EventInv'
<1> DEFINE e == ev[t]
           n == Len(Stream)
<1>1. /\ pc[t] = "push" /\ f_event_queue' = Append(f_event_queue, e)
      /\ f_lock' = (IF ret[t] = "sleep" THEN f_lock ELSE NoThread)
      /\ pc' = [pc EXCEPT ![t] = ret[t]]
      /\ UNCHANGED <<f_next_eid, f_event_waits, ev, ret, raises, f_processing_event, cur, h, done>>
  BY DEF Events!Push, Events!loopvars
<1>2. EventShape /\ Loop \in Events!Actors /\ e \in AnyEvents
  BY DEF EventInv, EventShape, Events!Actors
<1>3. \A u \in Events!Actors : pc'[u] = IF u = t THEN ret[t] ELSE pc[u]
  BY <1>1, <1>2 DEF EventShape
<1>4. f_lock = t /\ \A u \in Events!Actors \ {t} : pc[u] \notin {"eid", "submit", "push", "sleep"}
  BY <1>1 DEF EventInv, LockWithRaiser
<1>5. \/ /\ t # Loop /\ t \in Clients /\ ret[t] \in {"idle", "sleep"} /\ e.ident \in Idents
         /\ ~e.meta
      \/ /\ t = Loop /\ ret[t] = "handle" /\ e.ident \in Idents /\ ~e.meta
      \/ /\ t = Loop /\ ret[t] = "check" /\ e.ident \in {"processed", "queue_empty"} /\ e.meta
  <2>1. CASE t # Loop
    BY <1>1, <2>1 DEF EventInv, ClientsRaise, Events!Actors
  <2>2. CASE t = Loop
    BY <1>1, <2>2 DEF EventInv, LoopRaises, Raising
  <2>3. QED
    BY <2>1, <2>2
<1>6. Events!InHand' = Events!InHand
  <2>1. CASE t # Loop
    BY <1>1, <1>2, <1>3, <2>1 DEF Events!InHand
  <2>2. CASE t = Loop
    BY <1>1, <1>3, <1>5, <2>2 DEF Events!InHand
  <2>3. QED
    BY <2>1, <2>2
<1>7. /\ Held' = Held /\ Len(Stream') = n + 1 /\ Stream'[n + 1] = e
      /\ \A k \in 1..n : Stream'[k] = Stream[k]
  BY <1>1, <1>2, <1>6, StreamPush
<1>8. /\ n \in Nat /\ Len(done) \in Nat /\ Held \in Nat /\ Len(done) <= Held /\ Held <= n
      /\ f_event_queue \in Seq(AnyEvents)
  BY <1>2, StreamParts DEF EventShape
<1>9. ClientsAndLoop'
  <2>1. EventShape'
    <3>1. pc' \in [Events!Actors -> Places]
      <4>1. ret[t] \in Places
        BY <1>2 DEF EventShape, Places, Returns
      <4>2. QED
        BY <1>1, <1>2, <4>1 DEF EventShape
    <3>2. f_event_queue' \in Seq(AnyEvents)
      BY <1>1, <1>2, <1>8, AppendProperties
    <3>3. f_lock' \in Events!Actors \cup {NoThread}
      BY <1>1, <1>4
    <3>4. QED
      BY <1>1, <1>2, <3>1, <3>2, <3>3 DEF EventShape
  <2>2. LockWithRaiser'
    BY <1>1, <1>3, <1>4, <1>5 DEF LockWithRaiser
  <2>3. ClientsRaise'
    BY <1>1, <1>3, <1>5 DEF EventInv, ClientsRaise, Events!Actors
  <2>4. LoopRaises'
    <3>1. f_event_queue' # <<>>
      BY <1>1, <1>2, <1>8, AppendProperties
    <3>2. QED
      BY <1>1, <1>2, <1>3, <1>5, <3>1 DEF EventInv, LoopRaises, Raising
  <2>5. Submitted'
    BY <1>1, <1>3, <1>5 DEF EventInv, Submitted, Events!Actors
  <2>6. QED
    BY <2>1, <2>2, <2>3, <2>4, <2>5 DEF ClientsAndLoop
<1>10. /\ e.ident \in Events!AllIdents /\ (e.meta <=> e.ident \notin Idents)
       /\ e.ident = "processed" \/ e.ident = "queue_empty" => t = Loop
       /\ t = Loop => (e.ident = "processed" <=> Announces("processed"))
                      /\ (e.ident = "queue_empty" <=> Announces("queue_empty"))
  BY <1>1, <1>5 DEF EventAssumption, Events!AllIdents, Announces, Raising
<1>11. Events!Arriving = {t} /\ Events!Arriving' = {}
  <2>1. Events!Arriving = {t}
    BY <1>1, <1>4 DEF Events!Arriving
  <2>2. Events!Arriving' = {}
    BY <1>3, <1>4, <1>5 DEF Events!Arriving
  <2>3. QED
    BY <2>1, <2>2
<1>12. e.eid = n + 1 /\ f_next_eid = n + 2
  <2>1. e.eid = n + 1 /\ f_next_eid = n + 1 + 1
    BY <1>11 DEF EventInv, Ordered
  <2>2. QED
    BY <1>8, <2>1
<1>13. /\ t = Loop => ~Announces("processed")' /\ ~Announces("queue_empty")'
       /\ t # Loop => (Announces("processed")' <=> Announces("processed"))
                      /\ (Announces("queue_empty")' <=> Announces("queue_empty"))
  BY <1>1, <1>2, <1>3, <1>5 DEF Announces, Raising
<1> HIDE DEF e, n
<1>14. \A k \in 1..(n + 1) : k \in 1..n \/ k = n + 1
  BY <1>8
<1>15. /\ \A k \in 1..n : Stream[k].eid = k /\ Stream[k].ident \in Events!AllIdents
       /\ \A k \in 1..n : Stream[k].meta <=> Stream[k].ident \notin Idents
  BY DEF EventInv, Ordered, n
<1>16. Ordered'
  <2>1. /\ \A k \in 1..(n + 1) : Stream'[k].eid = k /\ Stream'[k].ident \in Events!AllIdents
        /\ \A k \in 1..(n + 1) : Stream'[k].meta <=> Stream'[k].ident \notin Idents
    BY <1>7, <1>10, <1>12, <1>14, <1>15
  <2>2. f_next_eid' = Len(Stream') + 1 + (IF Events!Arriving' = {} THEN 0 ELSE 1)
    BY <1>1, <1>7, <1>8, <1>11, <1>12
  <2>3. QED
    BY <1>7, <1>11, <2>1, <2>2 DEF Ordered
<1>17. ReportsSound'
  <2>1. /\ \A i \in 1..n : Stream[i].ident = "processed" =>
              Stream[i].of \in 1..Len(done) /\ Stream[i].of < i
        /\ \A i, j \in 1..n :
              Stream[i].ident = "processed" /\ Stream[j].ident = "processed" /\ i < j
              => Stream[i].of < Stream[j].of
        /\ Announces("processed") =>
              /\ ev[Loop].of = Len(done) /\ 0 < Len(done)
              /\ \A i \in 1..n : Stream[i].ident = "processed" => Stream[i].of < Len(done)
    BY DEF EventInv, ReportsSound, n
  <2>2. e.ident = "processed" => /\ Announces("processed") /\ e.of = Len(done)
    BY <1>10, <2>1 DEF e
  <2>3. e.ident = "processed" => e.of \in 1..Len(done) /\ e.of < n + 1
    BY <1>8, <2>1, <2>2
  <2>4. \A i \in 1..(n + 1) : Stream'[i].ident = "processed" =>
            Stream'[i].of \in 1..Len(done) /\ Stream'[i].of < i
    BY <1>7, <1>14, <2>1, <2>3
  <2>5. ASSUME NEW i \in 1..(n + 1), NEW j \in 1..(n + 1), i < j,
               Stream'[i].ident = "processed", Stream'[j].ident = "processed"
        PROVE  Stream'[i].of < Stream'[j].of
    <3>1. i \in 1..n
      BY <1>8, <2>5
    <3>2. Stream'[i] = Stream[i]
      BY <1>7, <3>1
    <3>3. CASE j \in 1..n
      BY <1>7, <2>1, <2>5, <3>1, <3>2, <3>3
    <3>4. CASE j = n + 1
      BY <1>7, <2>1, <2>2, <2>5, <3>1, <3>2, <3>4
    <3>5. QED
      BY <1>14, <3>3, <3>4
  <2>6. Announces("processed")' =>
            \A i \in 1..(n + 1) : Stream'[i].ident = "processed" => Stream'[i].of < Len(done)
    BY <1>7, <1>10, <1>13, <1>14, <2>1
  <2>7. QED
    BY <1>1, <1>7, <1>13, <2>1, <2>4, <2>5, <2>6 DEF ReportsSound
<1>18. Reported'
  <2>1. SUFFICES ASSUME NEW k \in 1..Len(done), Stream'[k].ident \in Idents
                 PROVE  \/ \E i \in 1..(n + 1) : IsReport(Stream'[i], k)
                        \/ Announces("processed")' /\ ev[Loop].of = k
    BY <1>1, <1>7 DEF Reported
  <2>2. k \in 1..n
    BY <1>8
  <2>3. \/ \E i \in 1..n : IsReport(Stream[i], k)
        \/ Announces("processed") /\ ev[Loop].of = k
    BY <1>7, <2>1, <2>2 DEF EventInv, Reported, n
  <2>4. CASE \E i \in 1..n : IsReport(Stream[i], k)
    <3>1. PICK i \in 1..n : IsReport(Stream[i], k)
      BY <2>4
    <3>2. i \in 1..(n + 1) /\ IsReport(Stream'[i], k)
      BY <1>7, <1>8, <3>1
    <3>3. QED
      BY <3>2
  <2>5. CASE Announces("processed") /\ ev[Loop].of = k
    <3>1. CASE t = Loop
      <4>1. IsReport(Stream'[n + 1], k) /\ n + 1 \in 1..(n + 1)
        BY <1>7, <1>8, <1>10, <2>5, <3>1 DEF IsReport, e
      <4>2. QED
        BY <4>1
    <3>2. CASE t # Loop
      BY <1>13, <2>5, <3>2
    <3>3. QED
      BY <3>1, <3>2
  <2>6. QED
    BY <2>3, <2>4, <2>5
<1>19. EmptyAnnounced'
  <2>1. Events!InHand' # <<>> /\ ~cur'.meta => f_processing_event'
    BY <1>1, <1>6 DEF EventInv, EmptyAnnounced
  <2>2. Announces("processed")' => f_processing_event'
    BY <1>1, <1>13 DEF EventInv, EmptyAnnounced
  <2>3. \/ f_processing_event
        \/ Announces("queue_empty")
        \/ \E i \in 0..n : /\ i # 0 => Stream[i].ident = "queue_empty"
                           /\ \A j \in 1..n : i < j => Held < j /\ Stream[j].ident \in Idents
    BY DEF EventInv, EmptyAnnounced, n
  <2>4. ASSUME e.ident = "queue_empty"
        PROVE  \E i \in 0..(n + 1) :
                  /\ i # 0 => Stream'[i].ident = "queue_empty"
                  /\ \A j \in 1..(n + 1) : i < j => Held < j /\ Stream'[j].ident \in Idents
    <3>1. n + 1 \in 0..(n + 1) /\ \A j \in 1..(n + 1) : ~(n + 1 < j)
      BY <1>8
    <3>2. QED
      BY <1>7, <2>4, <3>1
  <2>5. ASSUME e.ident \in Idents,
               NEW i \in 0..n, i # 0 => Stream[i].ident = "queue_empty",
               \A j \in 1..n : i < j => Held < j /\ Stream[j].ident \in Idents
        PROVE  \E m \in 0..(n + 1) :
                  /\ m # 0 => Stream'[m].ident = "queue_empty"
                  /\ \A j \in 1..(n + 1) : m < j => Held < j /\ Stream'[j].ident \in Idents
    <3>1. i \in 0..(n + 1) /\ (i # 0 => i \in 1..n)
      BY <1>8
    <3>2. i # 0 => Stream'[i].ident = "queue_empty"
      BY <1>7, <2>5, <3>1
    <3>3. ASSUME NEW j \in 1..(n + 1), i < j PROVE Held < j /\ Stream'[j].ident \in Idents
      <4>1. CASE j \in 1..n
        BY <1>7, <2>5, <3>3, <4>1
      <4>2. CASE j = n + 1
        BY <1>7, <1>8, <2>5, <4>2
      <4>3. QED
        BY <1>14, <4>1, <4>2
    <3>4. QED
      BY <3>1, <3>2, <3>3
  <2>6. \/ f_processing_event'
        \/ Announces("queue_empty")'
        \/ \E i \in 0..(n + 1) :
              /\ i # 0 => Stream'[i].ident = "queue_empty"
              /\ \A j \in 1..(n + 1) : i < j => Held < j /\ Stream'[j].ident \in Idents
    <3>1. CASE f_processing_event
      BY <1>1, <3>1
    <3>2. CASE Announces("queue_empty")
      BY <1>10, <1>13, <2>4, <3>2
    <3>3. CASE \E i \in 0..n : /\ i # 0 => Stream[i].ident = "queue_empty"
                               /\ \A j \in 1..n : i < j => Held < j /\ Stream[j].ident \in Idents
      <4>1. CASE e.ident \in Idents
        BY <2>5, <3>3, <4>1
      <4>2. CASE e.ident = "queue_empty"
        BY <2>4, <4>2
      <4>3. CASE e.ident = "processed"
        BY <1>1, <1>10, <4>3 DEF EventInv, EmptyAnnounced
      <4>4. QED
        BY <1>10, <4>1, <4>2, <4>3 DEF Events!AllIdents
    <3>4. QED
      BY <2>3, <3>1, <3>2, <3>3
  <2>7. QED
    BY <1>7, <2>1, <2>2, <2>6 DEF EmptyAnnounced
<1>20. QED
  BY <1>9, <1>16, <1>17, <1>18, <1>19 DEF EventInv, ClientsAndLoop

\* The loop takes an event out of the queue.
LEMMA PopEvents ==
    ASSUME EventAssumption, EventInv, Events!LoopPop
    PROVE  EventInv'
<1> DEFINE n == Len(Stream)
<1>1. /\ pc[Loop] = "pop" /\ f_lock = NoThread
      /\ cur' = Head(f_event_queue) /\ f_event_queue' = Tail(f_event_queue)
      /\ f_processing_event' = (f_processing_event \/ ~cur'.meta) /\ h' = 1
      /\ pc' = [pc EXCEPT ![Loop] = "handle"]
      /\ UNCHANGED <<f_lock, f_next_eid, f_event_waits, ev, ret, done, raises>>
  BY DEF Events!LoopPop
<1>2. EventShape /\ Loop \in Events!Actors /\ \A c \in Clients : c # Loop /\ c \in Events!Actors
  BY DEF EventInv, Events!Actors, EventAssumption
<1>3. /\ pc'[Loop] = "handle" /\ \A c \in Clients : pc'[c] = pc[c]
      /\ \A t \in Events!Actors : pc'[t] = IF t = Loop THEN "handle" ELSE pc[t]
  BY <1>1, <1>2 DEF EventShape
<1>4. Events!InHand = <<>> /\ Events!InHand' = <<cur'>> /\ f_event_queue # <<>>
  BY <1>1, <1>3 DEF Events!InHand, EventInv, LoopRaises
<1>5. /\ Stream' = Stream /\ Held' = Held + 1 /\ cur' \in AnyEvents
      /\ f_event_queue' \in Seq(AnyEvents)
      /\ Stream[Held + 1] = cur' /\ Held + 1 \in 1..n
  BY <1>1, <1>2, <1>4, StreamPop
<1>6. ~Announces("processed") /\ ~Announces("queue_empty") /\ ~Announces("processed")'
  BY <1>1, <1>3 DEF Announces, Raising
<1>7. Held \in Nat /\ n \in Nat
  BY <1>2, StreamParts
<1>8. ClientsAndLoop'
  <2>1. EventShape'
    <3>1. pc' \in [Events!Actors -> Places]
      BY <1>1, <1>2 DEF EventShape, Places
    <3>2. f_processing_event' \in BOOLEAN
      BY <1>1
    <3>3. QED
      BY <1>1, <1>2, <1>5, <3>1, <3>2 DEF EventShape
  <2>2. LockWithRaiser'
    BY <1>1, <1>3 DEF EventInv, LockWithRaiser
  <2>3. ClientsRaise'
    BY <1>1, <1>3 DEF EventInv, ClientsRaise
  <2>4. LoopRaises'
    BY <1>3 DEF LoopRaises, Raising
  <2>5. Submitted'
    BY <1>1, <1>3 DEF EventInv, Submitted
  <2>6. QED
    BY <2>1, <2>2, <2>3, <2>4, <2>5 DEF ClientsAndLoop
<1>9. Events!Arriving' = Events!Arriving
  BY <1>1, <1>3 DEF Events!Arriving
<1>10. Ordered'
  BY <1>1, <1>5, <1>9 DEF EventInv, Ordered
<1>11. ReportsSound'
  BY <1>1, <1>5, <1>6 DEF EventInv, ReportsSound
<1>12. Reported'
  BY <1>1, <1>5, <1>6 DEF EventInv, Reported, IsReport
<1>13. EmptyAnnounced'
  <2>1. CASE f_processing_event'
    BY <2>1 DEF EmptyAnnounced
  <2>2. CASE ~f_processing_event'
    <3>1. ~f_processing_event /\ cur'.meta
      BY <1>1, <2>2, Zenon
    <3>2. PICK i \in 0..n :
              /\ i # 0 => Stream[i].ident = "queue_empty"
              /\ \A j \in 1..n : i < j => Held < j /\ Stream[j].ident \in Idents
      BY <1>6, <3>1 DEF EventInv, EmptyAnnounced
    <3>3. cur'.ident \notin Idents
      BY <1>5, <3>1 DEF EventInv, Ordered
    <3>4. ~(i < Held + 1)
      BY <1>5, <3>2, <3>3
    <3> HIDE DEF n
    <3>5. \A j \in 1..n : i < j => Held + 1 < j /\ Stream[j].ident \in Idents
      BY <1>7, <3>2, <3>4
    <3>6. QED
      BY <1>5, <1>6, <3>1, <3>2, <3>5 DEF EmptyAnnounced, n
  <2>3. QED
    BY <2>1, <2>2
<1>14. QED
  BY <1>8, <1>10, <1>11, <1>12, <1>13 DEF EventInv, ClientsAndLoop

\* The loop finishes its event and reports an ordinary one.
LEMMA FinishEvents ==
    ASSUME EventAssumption, EventInv, Events!LoopFinish
    PROVE  EventInv'
<1> DEFINE n == Len(Stream)
           e == Events!Event("processed", TRUE, cur.eid)
<1>1. /\ pc[Loop] = "handle" /\ done' = Append(done, cur)
      /\ UNCHANGED <<f_lock, f_event_queue, f_next_eid, f_event_waits, f_processing_event,
                     cur, h, raises>>
  BY DEF Events!LoopFinish
<1>2. EventShape /\ Loop \in Events!Actors /\ \A c \in Clients : c # Loop /\ c \in Events!Actors
  BY DEF EventInv, Events!Actors, EventAssumption
<1>3. Events!InHand = <<cur>> /\ Events!InHand # <<>>
  BY <1>1 DEF Events!InHand
<1>4. /\ Held = Len(done) + 1 /\ Stream[Held] = cur /\ Held \in 1..n /\ Len(done) \in Nat
      /\ n \in Nat /\ Held \in Nat
  <2>1. /\ Held = Len(done) + 1 /\ Stream[Held] = cur /\ Len(done) \in Nat /\ n \in Nat
        /\ Held <= n
    BY <1>2, <1>3, StreamParts
  <2>2. QED
    BY <2>1
<1>5. cur.eid = Held /\ cur.eid \in Nat /\ (cur.meta <=> cur.ident \notin Idents)
  BY <1>4 DEF EventInv, Ordered
<1>6. e \in AnyEvents /\ e.ident = "processed" /\ e.meta /\ e.of = Held
  BY <1>5 DEF Events!Event, AnyEvents, Events!AllIdents
<1>7. \/ cur.meta /\ pc' = [pc EXCEPT ![Loop] = "check"] /\ UNCHANGED <<ev, ret>>
      \/ /\ ~cur.meta /\ pc' = [pc EXCEPT ![Loop] = "lock"] /\ ev' = [ev EXCEPT ![Loop] = e]
         /\ ret' = [ret EXCEPT ![Loop] = "check"]
  BY DEF Events!LoopFinish, Events!CallRaise
<1> HIDE DEF e
<1> DEFINE p == IF cur.meta THEN "check" ELSE "lock"
<1>8. /\ pc'[Loop] = p /\ \A c \in Clients : pc'[c] = pc[c] /\ ev'[c] = ev[c] /\ ret'[c] = ret[c]
      /\ \A t \in Events!Actors : pc'[t] = IF t = Loop THEN p ELSE pc[t]
      /\ ~cur.meta => ev'[Loop] = e /\ ret'[Loop] = "check"
  <2>1. CASE cur.meta
    BY <1>2, <1>7, <2>1 DEF EventShape
  <2>2. CASE ~cur.meta
    BY <1>2, <1>7, <2>2 DEF EventShape
  <2>3. QED
    BY <2>1, <2>2
<1>9. p \in {"check", "lock"} /\ (p = "lock" <=> ~cur.meta)
  OBVIOUS
<1> HIDE DEF p
<1>10. Events!InHand' = <<>>
  BY <1>8, <1>9 DEF Events!InHand
<1>11. Stream' = Stream /\ Held' = Held /\ done' \in Seq(AnyEvents) /\ Len(done') = Held
  BY <1>1, <1>2, <1>3, <1>10, StreamFinish
<1>12. /\ ~Announces("processed") /\ ~Announces("queue_empty")
       /\ Announces("processed")' <=> ~cur.meta
       /\ ~cur.meta => ev'[Loop].of = Held
  BY <1>1, <1>6, <1>8, <1>9 DEF Announces, Raising
<1>13. ClientsAndLoop'
  <2>1. EventShape'
    <3>1. pc' \in [Events!Actors -> Places]
      BY <1>2, <1>7 DEF EventShape, Places
    <3>2. ev' \in [Events!Actors -> AnyEvents]
      BY <1>2, <1>6, <1>7 DEF EventShape
    <3>3. ret' \in [Events!Actors -> Returns]
      BY <1>2, <1>7 DEF EventShape, Returns
    <3>4. QED
      BY <1>1, <1>2, <1>11, <3>1, <3>2, <3>3 DEF EventShape
  <2>2. LockWithRaiser'
    BY <1>1, <1>8, <1>9 DEF EventInv, LockWithRaiser
  <2>3. ClientsRaise'
    BY <1>8 DEF EventInv, ClientsRaise
  <2>4. LoopRaises'
    BY <1>6, <1>8, <1>9 DEF LoopRaises, Raising
  <2>5. Submitted'
    BY <1>1, <1>8 DEF EventInv, Submitted
  <2>6. QED
    BY <2>1, <2>2, <2>3, <2>4, <2>5 DEF ClientsAndLoop
<1>14. Events!Arriving' = Events!Arriving /\ Loop \notin Events!Arriving
  BY <1>1, <1>8, <1>9 DEF Events!Arriving
<1>15. \A t \in Events!Arriving : ev'[t] = ev[t]
  BY <1>8, <1>14 DEF Events!Arriving, Events!Actors
<1>16. Ordered'
  BY <1>1, <1>11, <1>14, <1>15 DEF EventInv, Ordered
<1>17. /\ \A i \in 1..n : Stream[i].ident = "processed" =>
              Stream[i].of \in 1..Len(done) /\ Stream[i].of < i
       /\ \A i, j \in 1..n :
              Stream[i].ident = "processed" /\ Stream[j].ident = "processed" /\ i < j
              => Stream[i].of < Stream[j].of
  BY DEF EventInv, ReportsSound
<1>18. ReportsSound'
  <2>1. \A i \in 1..n : Stream[i].ident = "processed" =>
            Stream[i].of \in 1..Held /\ Stream[i].of < Held
    BY <1>4, <1>17
  <2>2. QED
    BY <1>4, <1>11, <1>12, <1>17, <2>1 DEF ReportsSound
<1>19. Reported'
  <2>1. SUFFICES ASSUME NEW k \in 1..Held, Stream[k].ident \in Idents
                 PROVE  \/ \E i \in 1..n : IsReport(Stream[i], k)
                        \/ Announces("processed")' /\ ev'[Loop].of = k
    BY <1>11 DEF Reported
  <2>2. CASE k = Held
    BY <1>4, <1>5, <1>12, <2>1, <2>2
  <2>3. CASE k \in 1..Len(done)
    BY <1>12, <2>1, <2>3 DEF EventInv, Reported
  <2>4. QED
    BY <1>4, <2>2, <2>3
<1>20. EmptyAnnounced'
  BY <1>1, <1>3, <1>10, <1>11, <1>12 DEF EventInv, EmptyAnnounced
<1>21. QED
  BY <1>13, <1>16, <1>18, <1>19, <1>20 DEF EventInv, ClientsAndLoop

LEMMA InitEvents == ASSUME EventAssumption, Events!Init PROVE EventInv
<1>1. Events!NoEvent \in AnyEvents
  BY DEF Events!NoEvent, Events!Event, AnyEvents
<1>2. Loop \in Events!Actors /\ \A c \in Clients : c \in Events!Actors /\ c # Loop
  BY DEF Events!Actors, EventAssumption
<1>3. /\ f_lock = NoThread /\ f_event_queue = <<>> /\ f_next_eid = 1 /\ f_event_waits = <<>>
      /\ f_processing_event = FALSE /\ done = <<>> /\ raises = 0 /\ h = 1 /\ cur = Events!NoEvent
      /\ pc[Loop] = "check" /\ \A c \in Clients : pc[c] = "idle"
      /\ \A t \in Events!Actors : pc[t] \in {"check", "idle"}
  BY <1>2 DEF Events!Init
<1>4. EventShape
  <2>1. /\ pc \in [Events!Actors -> Places]
        /\ ret \in [Events!Actors -> Returns]
        /\ ev \in [Events!Actors -> AnyEvents]
    BY <1>1 DEF Events!Init, Places, Returns
  <2>2. f_event_queue \in Seq(AnyEvents) /\ done \in Seq(AnyEvents) /\ f_event_waits \in Seq(Waits)
    BY <1>3, EmptySeq
  <2>3. raises \in 0..MaxRaises
    BY <1>3 DEF EventAssumption
  <2>4. f_processing_event \in BOOLEAN /\ cur \in AnyEvents
    BY <1>1, <1>3
  <2>5. f_next_eid \in Nat \ {0} /\ h \in Nat \ {0} /\ f_lock \in Events!Actors \cup {NoThread}
    BY <1>3
  <2>6. QED
    BY <2>1, <2>2, <2>3, <2>4, <2>5, Zenon DEF EventShape
<1>5. LockWithRaiser /\ ClientsRaise /\ LoopRaises /\ Submitted
  BY <1>2, <1>3 DEF LockWithRaiser, ClientsRaise, LoopRaises, Submitted, Raising
<1>6. Events!InHand = <<>> /\ Events!Arriving = {} /\ ~Announces("processed")
  BY <1>3 DEF Events!InHand, Events!Arriving, Announces, Raising
<1>7. Len(Stream) = 0 /\ Held = 0 /\ Len(done) = 0
  <2>1. Len(done) = 0
    BY <1>3
  <2>2. QED
    BY <1>3, <1>4, <1>6, <2>1, StreamParts
<1>8. Ordered
  BY <1>3, <1>6, <1>7 DEF Ordered
<1>9. ReportsSound /\ Reported
  BY <1>6, <1>7 DEF ReportsSound, Reported
<1>10. EmptyAnnounced
  BY <1>6, <1>7 DEF EmptyAnnounced
<1>11. QED
  BY <1>4, <1>5, <1>8, <1>9, <1>10 DEF EventInv

LEMMA StepEvents == ASSUME EventAssumption, EventInv, [Events!Next]_(Events!vars) PROVE EventInv'
<1>1. CASE UNCHANGED Events!vars
  <2>1. UNCHANGED <<f_lock, f_event_queue, f_next_eid, f_event_waits, pc, ev, ret, raises,
                    f_processing_event, cur, h, done>>
    BY <1>1 DEF Events!vars, Events!loopvars
  <2>2. Events!InHand' = Events!InHand /\ Events!Arriving' = Events!Arriving
    BY <2>1 DEF Events!InHand, Events!Arriving
  <2>3. Stream' = Stream
    BY <2>1, <2>2 DEF Stream
  <2>4. ClientsAndLoop'
    BY <2>1 DEF EventInv, ClientsAndLoop, EventShape, LockWithRaiser, ClientsRaise, LoopRaises, Submitted,
                Raising
  <2>5. /\ Announces("processed")' <=> Announces("processed")
        /\ Announces("queue_empty")' <=> Announces("queue_empty")
    BY <2>1 DEF Announces, Raising
  <2>6. QED
    BY <2>1, <2>2, <2>3, <2>4, <2>5, QuietStep DEF EventInv, Ordered
<1>2. CASE \E c \in Clients : Events!WalkOn(c)
  BY <1>1, <1>2 DEF Events!WalkOn
<1>3. CASE Events!Next /\ ~\E c \in Clients : Events!WalkOn(c)
  BY <1>3, CallEvents, WaitEvents, SleepEvents, LockEvents, AssignEvents, SubmitEvents, PushEvents,
     CheckEvents, PopEvents, HandleEvents, FinishEvents DEF Events!Next
<1>4. QED
  BY <1>1, <1>2, <1>3

\* A loop at rest has reported every ordinary event exactly once and QUEUE_EMPTY last.
LEMMA RestReports == ASSUME EventInv PROVE Events!RestIsReported
<1>1. SUFFICES ASSUME Events!AtRest, done # <<>>
               PROVE  /\ done[Len(done)].ident = "queue_empty"
                      /\ \A k \in DOMAIN done : ~done[k].meta =>
                            \E j \in DOMAIN done :
                                /\ \A m \in DOMAIN done :
                                    done[m].ident = "processed" /\ done[m].of = done[k].eid
                                    <=> m = j
                                /\ j > k
  BY DEF Events!RestIsReported
<1>2. f_event_queue = <<>> /\ pc[Loop] = "check" /\ ~f_processing_event
  BY <1>1 DEF Events!AtRest
<1>3. Events!InHand = <<>> /\ ~Announces("processed") /\ ~Announces("queue_empty")
  BY <1>2 DEF Events!InHand, Announces, Raising
<1> DEFINE n == Len(done)
<1>4. /\ Len(Stream) = n /\ Held = n /\ \A k \in 1..n : Stream[k] = done[k]
      /\ done \in Seq(AnyEvents)
  BY <1>2, <1>3, StreamParts DEF EventInv, EventShape
<1>5. n \in Nat \ {0} /\ DOMAIN done = 1..n
  BY <1>1, <1>4, EmptySeq, LenProperties
<1>6. /\ \A k \in 1..n : done[k].eid = k
      /\ \A k \in 1..n : done[k].meta <=> done[k].ident \notin Idents
  BY <1>4 DEF EventInv, Ordered
<1>7. /\ \A i \in 1..n : done[i].ident = "processed" => done[i].of < i
      /\ \A i, j \in 1..n :
            done[i].ident = "processed" /\ done[j].ident = "processed" /\ i < j
            => done[i].of < done[j].of
      /\ \A i \in 1..n : done[i].ident = "processed" => done[i].of \in 1..n
  BY <1>4 DEF EventInv, ReportsSound
<1>8. \A k \in 1..n : done[k].ident \in Idents =>
            \E i \in 1..n : done[i].ident = "processed" /\ done[i].of = k
  BY <1>3, <1>4 DEF EventInv, Reported, IsReport
<1>9. done[n].ident = "queue_empty"
  <2>1. PICK i \in 0..n :
            /\ i # 0 => Stream[i].ident = "queue_empty"
            /\ \A j \in 1..n : i < j => n < j /\ Stream[j].ident \in Idents
    BY <1>2, <1>3, <1>4 DEF EventInv, EmptyAnnounced
  <2> HIDE DEF n
  <2>2. ~(i < n)
    BY <1>5, <2>1
  <2>3. i = n
    BY <1>5, <2>2
  <2>4. QED
    BY <1>4, <1>5, <2>1, <2>3
<1> HIDE DEF n
<1>10. ASSUME NEW k \in 1..n, ~done[k].meta
       PROVE  \E j \in 1..n : /\ \A m \in 1..n :
                                    done[m].ident = "processed" /\ done[m].of = done[k].eid
                                    <=> m = j
                              /\ j > k
  <2>1. done[k].eid = k /\ done[k].ident \in Idents
    BY <1>6, <1>10
  <2>2. PICK j \in 1..n : done[j].ident = "processed" /\ done[j].of = k
    BY <1>8, <2>1
  <2>3. j > k
    BY <1>5, <1>7, <2>2
  <2>4. ASSUME NEW m \in 1..n, done[m].ident = "processed", done[m].of = k PROVE m = j
    <3>1. ~(m < j) /\ ~(j < m)
      BY <1>7, <2>2, <2>4
    <3>2. QED
      BY <1>5, <3>1
  <2>5. QED
    BY <2>1, <2>2, <2>3, <2>4
<1>11. QED
  BY <1>5, <1>9, <1>10 DEF n

LEMMA EventsFollow == ASSUME EventInv PROVE Events!EventsHandled
<1>1. EventShape
  BY DEF EventInv
<1>2. Events!TypeOK
  <2>1. ASSUME NEW k \in DOMAIN f_event_queue PROVE f_event_queue[k].ident \in Events!AllIdents
    <3>1. k \in 1..Len(f_event_queue)
      BY <1>1, LenProperties DEF EventShape
    <3>2. f_event_queue[k] = Stream[Held + k] /\ Held + k \in 1..Len(Stream)
      BY <1>1, <3>1, StreamParts
    <3>3. QED
      BY <3>2 DEF EventInv, Ordered
  <2>2. ASSUME NEW k \in DOMAIN f_event_waits PROVE f_event_waits[k].thread \in Clients
    <3>1. f_event_waits[k] \in Waits
      BY <1>1, LenProperties, ElementOfSeq DEF EventShape
    <3>2. QED
      BY <3>1 DEF Waits
  <2>3. \A t \in Events!Actors : pc[t] \in Places
    BY <1>1 DEF EventShape
  <2>4. QED
    BY <1>1, <2>1, <2>2, <2>3 DEF Events!TypeOK, EventShape, Places
<1>3. Events!ProcessedInOrder
  <2>1. DOMAIN Stream = 1..Len(Stream)
    BY <1>1, StreamParts, LenProperties
  <2>2. QED
    BY <2>1 DEF EventInv, Ordered, Events!ProcessedInOrder, Stream
<1>4. Events!WaitBeforeEvent
  BY DEF EventInv, Submitted, Events!WaitBeforeEvent
<1>5. QED
  BY <1>2, <1>3, <1>4, RestReports DEF Events!EventsHandled

\* event_manager.cpp, with any clients, identifiers, handlers and number of events: the loop
\* finishes every event once and in the order of the ids raise() gives out, raise_wait() has its
\* wait on the list before the loop can see its event, and a loop at rest has reported every
\* ordinary event by exactly one EVENT_PROCESSED_EVENT and announced QUEUE_EMPTY last.
THEOREM EventsAreHandled == Events!Spec => []EventsHandled
<1>1. Events!Init => EventInv
  BY InitEvents, LibraryAssumption
<1>2. EventInv /\ [Events!Next]_(Events!vars) => EventInv'
  BY StepEvents, LibraryAssumption
<1>3. EventInv => EventsHandled
  BY EventsFollow DEF EventsHandled
<1>4. QED
  BY <1>1, <1>2, <1>3, PTL DEF Events!Spec

-----------------------------------------------------------------------------
(* Counted handles.  A count is the number of handles that have its storage; *)
(* an operation changes one handle, or two one after the other.  Pages are   *)
(* known to the handles of one counter only, which is what lets the handle   *)
(* that takes it to zero free them.                                          *)

Objects == 1..MaxObjects

HandlesOf(f, o) == {g \in Handles : f[g] = o}

\* What the number of holders of o gains when one handle goes from u to v.
Delta(u, v, o) == (IF v = o THEN 1 ELSE 0) - (IF u = o THEN 1 ELSE 0)

\* When one handle changes, the holders of o change by what it leaves and takes.
LEMMA HoldersChange ==
    ASSUME CountedAssumption, NEW d \in Handles, NEW f, NEW e,
           \A z \in Handles \ {d} : e[z] = f[z], NEW o
    PROVE  /\ Cardinality(HandlesOf(f, o)) \in Nat /\ Cardinality(HandlesOf(e, o)) \in Nat
           /\ Cardinality(HandlesOf(e, o)) = Cardinality(HandlesOf(f, o)) + Delta(f[d], e[d], o)
<1> DEFINE F == HandlesOf(f, o)
           G == HandlesOf(e, o)
<1>1. IsFiniteSet(F) /\ IsFiniteSet(G)
  BY FS_Subset DEF HandlesOf, CountedAssumption
<1>2. Cardinality(F) \in Nat /\ Cardinality(G) \in Nat
  BY <1>1, FS_CardinalityType
<1>3. ASSUME f[d] # o, e[d] = o PROVE Cardinality(G) = Cardinality(F) + 1
  <2>1. G = F \cup {d} /\ d \notin F
    BY <1>3 DEF HandlesOf
  <2>2. QED
    BY <1>1, <2>1, FS_AddElement
<1>4. ASSUME f[d] = o, e[d] # o PROVE Cardinality(G) = Cardinality(F) - 1
  <2>1. G = F \ {d} /\ d \in F
    BY <1>4 DEF HandlesOf
  <2>2. QED
    BY <1>1, <2>1, FS_RemoveElement
<1>5. ASSUME f[d] = o <=> e[d] = o PROVE G = F
  BY <1>5 DEF HandlesOf
<1> HIDE DEF F, G
<1>6. Cardinality(G) = Cardinality(F) + Delta(f[d], e[d], o)
  BY <1>2, <1>3, <1>4, <1>5 DEF Delta
<1>7. QED
  BY <1>2, <1>6 DEF F, G

\* No holder, a holder, one holder.
LEMMA HoldersFew ==
    ASSUME CountedAssumption, NEW f, NEW o
    PROVE  /\ Cardinality(HandlesOf(f, o)) \in Nat
           /\ Cardinality(HandlesOf(f, o)) = 0 <=> \A g \in Handles : f[g] # o
           /\ \A d \in Handles : f[d] = o /\ Cardinality(HandlesOf(f, o)) = 1 =>
                  \A g \in Handles : f[g] = o => g = d
<1>1. IsFiniteSet(HandlesOf(f, o))
  BY FS_Subset DEF HandlesOf, CountedAssumption
<1>2. /\ Cardinality(HandlesOf(f, o)) \in Nat
      /\ Cardinality(HandlesOf(f, o)) = 0 <=> HandlesOf(f, o) = {}
      /\ Cardinality(HandlesOf(f, o)) = 1 => \E z : HandlesOf(f, o) = {z}
  BY <1>1, FS_CardinalityType, FS_EmptySet, FS_Singleton
<1>3. QED
  BY <1>2 DEF HandlesOf

PtrInv ==
    /\ storages \in 0..MaxObjects
    /\ data \in [Handles -> 0..storages]
    /\ ref_count \in [Objects -> Nat] /\ destroyed \in [Objects -> Nat]
    /\ \A o \in Objects :
        /\ ref_count[o] = Cardinality(HandlesOf(data, o))
        /\ destroyed[o] = IF o <= storages /\ ref_count[o] = 0 THEN 1 ELSE 0

\* clear() of handle d.
LEMMA ClearedFacts ==
    ASSUME CountedAssumption, PtrInv, NEW d \in Handles
    PROVE  /\ Counts!Cleared(d).refs \in [Objects -> Nat]
           /\ Counts!Cleared(d).dead \in [Objects -> Nat]
           /\ \A o \in Objects :
                /\ Counts!Cleared(d).refs[o] = ref_count[o] - (IF data[d] = o THEN 1 ELSE 0)
                /\ data[d] = o => ref_count[o] > 0
                /\ Counts!Cleared(d).dead[o] =
                    destroyed[o] + (IF data[d] = o /\ ref_count[o] = 1 THEN 1 ELSE 0)
<1>1. \A o \in Objects : data[d] = o => ref_count[o] > 0
  BY HoldersFew DEF PtrInv
<1>2. data[d] = 0 \/ data[d] \in Objects
  BY DEF PtrInv, Objects, CountedAssumption
<1>3. 0 \notin Objects
  BY DEF Objects
<1>4. QED
  BY <1>1, <1>2, <1>3 DEF Counts!Cleared, PtrInv

\* The invariant holds if the counts follow the handles, no storage comes back, and one
\* that goes is destroyed.
LEMMA PtrStep ==
    ASSUME CountedAssumption, PtrInv, storages' = storages, data' \in [Handles -> 0..storages],
           ref_count' \in [Objects -> Nat], destroyed' \in [Objects -> Nat],
           \A o \in Objects :
               /\ ref_count'[o] = Cardinality(HandlesOf(data', o))
               /\ ref_count[o] = 0 => ref_count'[o] = 0
               /\ destroyed'[o] = destroyed[o]
                    + (IF ref_count[o] # 0 /\ ref_count'[o] = 0 THEN 1 ELSE 0)
    PROVE  PtrInv'
<1>1. ASSUME NEW o \in Objects
      PROVE  destroyed'[o] = IF o <= storages' /\ ref_count'[o] = 0 THEN 1 ELSE 0
  <2>1. o > storages => ref_count[o] = 0
    BY HoldersFew DEF PtrInv, Objects, CountedAssumption
  <2>2. ref_count[o] \in Nat /\ ref_count'[o] \in Nat /\ o \in Int /\ storages \in Int
    BY DEF PtrInv, Objects
  <2>3. QED
    BY <2>1, <2>2 DEF PtrInv
<1>2. (\A o \in Objects : ref_count[o] = Cardinality(HandlesOf(data, o)))'
  OBVIOUS
<1>3. QED
  BY <1>1, <1>2 DEF PtrInv

\* A handle is cleared.
LEMMA ClearPtr ==
    ASSUME CountedAssumption, PtrInv, NEW d \in Handles, storages' = storages,
           data' = [data EXCEPT ![d] = 0], ref_count' = Counts!Cleared(d).refs,
           destroyed' = Counts!Cleared(d).dead
    PROVE  PtrInv'
<1> DEFINE c == Counts!Cleared(d)
<1>1. /\ c.refs \in [Objects -> Nat] /\ c.dead \in [Objects -> Nat]
      /\ \A o \in Objects :
            /\ c.refs[o] = ref_count[o] - (IF data[d] = o THEN 1 ELSE 0)
            /\ data[d] = o => ref_count[o] > 0
            /\ c.dead[o] = destroyed[o] + (IF data[d] = o /\ ref_count[o] = 1 THEN 1 ELSE 0)
  BY ClearedFacts
<1>2. /\ data' \in [Handles -> 0..storages]
      /\ data'[d] = 0 /\ \A z \in Handles \ {d} : data'[z] = data[z]
  BY DEF PtrInv, CountedAssumption
<1>3. ref_count' = c.refs /\ destroyed' = c.dead
  OBVIOUS
<1> HIDE DEF c
<1>4. ASSUME NEW o \in Objects
      PROVE  /\ ref_count'[o] = Cardinality(HandlesOf(data', o))
             /\ ref_count[o] = 0 => ref_count'[o] = 0
             /\ destroyed'[o] = destroyed[o]
                    + (IF ref_count[o] # 0 /\ ref_count'[o] = 0 THEN 1 ELSE 0)
  <2>0. \A z \in Handles \ {d} : data'[z] = data[z]
    BY <1>2
  <2>1. /\ Cardinality(HandlesOf(data, o)) \in Nat
        /\ Cardinality(HandlesOf(data', o)) = Cardinality(HandlesOf(data, o)) + Delta(data[d], data'[d], o)
    BY <2>0, HoldersChange, Zenon
  <2>2. ref_count[o] = Cardinality(HandlesOf(data, o)) /\ o # 0
    BY DEF PtrInv, Objects
  <2>3. QED
    BY <1>1, <1>2, <1>3, <2>1, <2>2 DEF Delta
<1>5. QED
  BY <1>1, <1>2, <1>3, <1>4, PtrStep

\* Every operation on SharedPtr handles.
LEMMA StepPtr ==
    ASSUME CountedAssumption, PtrInv, Counts!PtrNext PROVE PtrInv'
<1>1. ASSUME NEW d \in Handles, Counts!MakeShared(d) PROVE PtrInv'
  <2> DEFINE n == storages + 1
  <2>1. /\ data[d] = 0 /\ n \in Objects /\ storages' = n
        /\ data' = [data EXCEPT ![d] = n] /\ ref_count' = [ref_count EXCEPT ![n] = 1]
        /\ destroyed' = destroyed
    BY <1>1 DEF Counts!MakeShared, PtrInv, Objects, CountedAssumption
  <2>2. /\ storages' \in 0..MaxObjects /\ data' \in [Handles -> 0..storages']
        /\ ref_count' \in [Objects -> Nat] /\ destroyed' \in [Objects -> Nat]
        /\ data'[d] = n /\ \A z \in Handles \ {d} : data'[z] = data[z]
    BY <2>1 DEF PtrInv, Objects, CountedAssumption
  <2>3. ASSUME NEW o \in Objects
        PROVE  /\ ref_count'[o] = Cardinality(HandlesOf(data', o))
               /\ destroyed'[o] = IF o <= storages' /\ ref_count'[o] = 0 THEN 1 ELSE 0
    <3>1. /\ Cardinality(HandlesOf(data, o)) \in Nat
          /\ Cardinality(HandlesOf(data', o)) = Cardinality(HandlesOf(data, o)) + Delta(data[d], data'[d], o)
      BY <2>2, HoldersChange
    <3>2. o = n => Cardinality(HandlesOf(data, o)) = 0
      BY HoldersFew DEF PtrInv, Objects, CountedAssumption
    <3>3. /\ ref_count'[o] = IF o = n THEN 1 ELSE ref_count[o]
          /\ o \in Int /\ storages \in Int /\ o # 0
      BY <2>1 DEF PtrInv, Objects
    <3>4. ref_count[o] = Cardinality(HandlesOf(data, o))
          /\ destroyed[o] = IF o <= storages /\ ref_count[o] = 0 THEN 1 ELSE 0
      BY DEF PtrInv
    <3>5. QED
      BY <2>1, <2>2, <3>1, <3>2, <3>3, <3>4 DEF Delta
  <2>4. (\A o \in Objects : ref_count[o] = Cardinality(HandlesOf(data, o)))'
    BY <2>3
  <2>5. QED
    BY <2>2, <2>3, <2>4 DEF PtrInv
<1>2. ASSUME NEW d \in Handles, Counts!Destroy(d) PROVE PtrInv'
  <2>1. /\ data' = [data EXCEPT ![d] = 0] /\ storages' = storages
        /\ ref_count' = Counts!Cleared(d).refs /\ destroyed' = Counts!Cleared(d).dead
    BY <1>2 DEF Counts!Destroy
  <2>2. QED
    BY <2>1, ClearPtr
<1>3. ASSUME NEW d \in Handles, NEW from \in Handles, Counts!CopyAssign(d, from) PROVE PtrInv'
  <2>1. CASE d = from \/ data[from] = 0
    <3>1. /\ data' = [data EXCEPT ![d] = 0] /\ storages' = storages
          /\ ref_count' = Counts!Cleared(d).refs /\ destroyed' = Counts!Cleared(d).dead
      BY <1>3, <2>1 DEF Counts!CopyAssign
    <3>2. QED
      BY <3>1, ClearPtr
  <2>2. CASE d # from /\ data[from] # 0
    <3> DEFINE s == data[from]
               c == Counts!Cleared(d)
    <3>1. /\ data' = [data EXCEPT ![d] = s] /\ storages' = storages
          /\ ref_count' = [c.refs EXCEPT ![s] = @ + 1] /\ destroyed' = c.dead
      BY <1>3, <2>2 DEF Counts!CopyAssign
    <3>2. /\ s \in Objects /\ data' \in [Handles -> 0..storages]
          /\ data'[d] = s /\ \A z \in Handles \ {d} : data'[z] = data[z]
      BY <2>2, <3>1 DEF PtrInv, Objects, CountedAssumption
    <3>3. /\ c.refs \in [Objects -> Nat] /\ c.dead \in [Objects -> Nat]
          /\ \A o \in Objects :
                /\ c.refs[o] = ref_count[o] - (IF data[d] = o THEN 1 ELSE 0)
                /\ data[d] = o => ref_count[o] > 0
                /\ c.dead[o] = destroyed[o] + (IF data[d] = o /\ ref_count[o] = 1 THEN 1 ELSE 0)
      BY ClearedFacts
    <3> HIDE DEF c
    <3>4. ASSUME NEW o \in Objects
          PROVE  /\ ref_count'[o] = Cardinality(HandlesOf(data', o))
                 /\ ref_count[o] = 0 => ref_count'[o] = 0
                 /\ destroyed'[o] = destroyed[o]
                        + (IF ref_count[o] # 0 /\ ref_count'[o] = 0 THEN 1 ELSE 0)
      <4>1. /\ Cardinality(HandlesOf(data, o)) \in Nat
            /\ Cardinality(HandlesOf(data', o)) = Cardinality(HandlesOf(data, o)) + Delta(data[d], s, o)
        BY <3>2, HoldersChange
      <4>2. ref_count[o] = Cardinality(HandlesOf(data, o))
        BY DEF PtrInv
      <4>3. /\ s = o => ref_count[o] # 0
            /\ data[d] = o /\ ref_count[o] = 1 => s # o
        BY <2>2, <4>2, HoldersFew
      <4>4. /\ ref_count'[o] = ref_count[o] - (IF data[d] = o THEN 1 ELSE 0) + (IF s = o THEN 1 ELSE 0)
            /\ destroyed'[o] = destroyed[o] + (IF data[d] = o /\ ref_count[o] = 1 THEN 1 ELSE 0)
        <5> HIDE DEF s
        <5>1. QED
          BY <3>1, <3>2, <3>3
      <4> HIDE DEF s
      <4>5. QED
        BY <3>3, <4>1, <4>2, <4>3, <4>4 DEF Delta
    <3>5. ref_count' \in [Objects -> Nat] /\ destroyed' \in [Objects -> Nat]
      BY <3>1, <3>2, <3>3
    <3>6. QED
      BY <3>1, <3>2, <3>4, <3>5, PtrStep
  <2>3. QED
    BY <2>1, <2>2
<1>4. ASSUME NEW d \in Handles, NEW from \in Handles, Counts!MoveAssign(d, from) PROVE PtrInv'
  <2>1. CASE d = from
    <3>1. /\ data' = [data EXCEPT ![d] = 0] /\ storages' = storages
          /\ ref_count' = Counts!Cleared(d).refs /\ destroyed' = Counts!Cleared(d).dead
      BY <1>4, <2>1 DEF Counts!MoveAssign
    <3>2. QED
      BY <3>1, ClearPtr
  <2>2. CASE d # from
    <3> DEFINE s == data[from]
               c == Counts!Cleared(d)
               mid == [data EXCEPT ![d] = s]
    <3>1. /\ data' = [data EXCEPT ![d] = s, ![from] = 0] /\ storages' = storages
          /\ ref_count' = c.refs /\ destroyed' = c.dead
      BY <1>4, <2>2 DEF Counts!MoveAssign
    <3>2. /\ data' \in [Handles -> 0..storages]
          /\ mid[d] = s /\ \A z \in Handles \ {d} : mid[z] = data[z]
          /\ data'[from] = 0 /\ \A z \in Handles \ {from} : data'[z] = mid[z]
      BY <2>2, <3>1 DEF PtrInv, CountedAssumption
    <3>3. /\ c.refs \in [Objects -> Nat] /\ c.dead \in [Objects -> Nat]
          /\ \A o \in Objects :
                /\ c.refs[o] = ref_count[o] - (IF data[d] = o THEN 1 ELSE 0)
                /\ data[d] = o => ref_count[o] > 0
                /\ c.dead[o] = destroyed[o] + (IF data[d] = o /\ ref_count[o] = 1 THEN 1 ELSE 0)
      BY ClearedFacts
    <3>4. mid[from] = s
      BY <2>2, <3>2
    <3> HIDE DEF c, mid
    <3>5. ASSUME NEW o \in Objects
          PROVE  /\ ref_count'[o] = Cardinality(HandlesOf(data', o))
                 /\ ref_count[o] = 0 => ref_count'[o] = 0
                 /\ destroyed'[o] = destroyed[o]
                        + (IF ref_count[o] # 0 /\ ref_count'[o] = 0 THEN 1 ELSE 0)
      <4>1. /\ Cardinality(HandlesOf(data, o)) \in Nat
            /\ Cardinality(HandlesOf(mid, o)) = Cardinality(HandlesOf(data, o)) + Delta(data[d], mid[d], o)
        BY <3>2, HoldersChange
      <4>2. Cardinality(HandlesOf(data', o)) = Cardinality(HandlesOf(mid, o)) + Delta(mid[from], data'[from], o)
        BY <3>2, HoldersChange
      <4>3. ref_count[o] = Cardinality(HandlesOf(data, o)) /\ o # 0
        BY DEF PtrInv, Objects
      <4>4. /\ Delta(data[d], mid[d], o) = (IF s = o THEN 1 ELSE 0) - (IF data[d] = o THEN 1 ELSE 0)
            /\ Delta(mid[from], data'[from], o) = 0 - (IF s = o THEN 1 ELSE 0)
        BY <3>2, <3>4, <4>3 DEF Delta
      <4>5. /\ ref_count'[o] = ref_count[o] - (IF data[d] = o THEN 1 ELSE 0)
            /\ data[d] = o => ref_count[o] > 0
            /\ destroyed'[o] = destroyed[o] + (IF data[d] = o /\ ref_count[o] = 1 THEN 1 ELSE 0)
        BY <3>1, <3>3
      <4> HIDE DEF s
      <4>6. ref_count'[o] = Cardinality(HandlesOf(data', o))
        BY <4>1, <4>2, <4>3, <4>4, <4>5
      <4>7. ref_count[o] \in Nat /\ destroyed[o] \in Nat
        BY DEF PtrInv
      <4>8. QED
        BY <4>5, <4>6, <4>7
    <3>6. ref_count' \in [Objects -> Nat] /\ destroyed' \in [Objects -> Nat]
      BY <3>1, <3>3
    <3>7. QED
      BY <3>1, <3>2, <3>5, <3>6, PtrStep
  <2>3. QED
    BY <2>1, <2>2
<1>5. QED
  BY <1>1, <1>2, <1>3, <1>4 DEF Counts!PtrNext

Known(q, S) == q # 0 /\ \E g \in S : raw_ptr[g] = q

BufGood ==
    /\ made \in (0..MaxObjects) \X (0..MaxObjects)
    /\ raw_ptr \in [Handles -> 0..made[1]] /\ count \in [Handles -> 0..made[2]]
    /\ counter \in [Objects -> Nat]
    /\ \A o \in Objects : counter[o] = Cardinality(HandlesOf(count, o))
    /\ \A q : q \in mapped <=> Known(q, Handles)
    /\ \A g \in Handles : count[g] = 0 => raw_ptr[g] = 0
    /\ \A f, g \in Handles : count[f] = count[g] => raw_ptr[f] = raw_ptr[g]
    /\ \A f, g \in Handles : raw_ptr[f] = raw_ptr[g] /\ raw_ptr[f] # 0 => count[f] = count[g]

BufInv == ~misused => BufGood

\* The only handle of a counter is the only one that knows its pages.
LEMMA OnlyHolder ==
    ASSUME CountedAssumption, BufGood, NEW d \in Handles, count[d] # 0, counter[count[d]] = 1
    PROVE  /\ \A g \in Handles : count[g] = count[d] => g = d
           /\ \A g \in Handles : raw_ptr[g] = raw_ptr[d] => g = d \/ raw_ptr[d] = 0
           /\ \A q : q \in mapped \ {raw_ptr[d]} <=> Known(q, Handles \ {d})
<1>1. count[d] \in Objects /\ counter[count[d]] = Cardinality(HandlesOf(count, count[d]))
  BY DEF BufGood, Objects, CountedAssumption
<1>2. \A g \in Handles : count[g] = count[d] => g = d
  BY <1>1, HoldersFew
<1>3. \A g \in Handles : raw_ptr[g] = raw_ptr[d] => g = d \/ raw_ptr[d] = 0
  BY <1>2 DEF BufGood
<1>4. \A q : q \in mapped <=> Known(q, Handles)
  BY DEF BufGood
<1>5. QED
  BY <1>2, <1>3, <1>4 DEF Known

\* What is dropped by handle d leaves the pages the other handles know.
LEMMA DroppedFacts ==
    ASSUME CountedAssumption, BufGood, NEW d \in Handles
    PROVE  /\ Counts!Dropped(d).counts \in [Objects -> Nat]
           /\ \A o \in Objects :
                /\ Counts!Dropped(d).counts[o] = counter[o] - (IF count[d] = o THEN 1 ELSE 0)
                /\ count[d] = o => counter[o] > 0
           /\ \A q : q \in Counts!Dropped(d).pages <=> Known(q, Handles \ {d})
<1>1. \A o \in Objects : count[d] = o => counter[o] > 0
  BY HoldersFew DEF BufGood
<1>2. count[d] = 0 \/ count[d] \in Objects
  BY DEF BufGood, Objects, CountedAssumption
<1>3. 0 \notin Objects
  BY DEF Objects
<1>4. /\ Counts!Dropped(d).counts \in [Objects -> Nat]
      /\ \A o \in Objects :
            Counts!Dropped(d).counts[o] = counter[o] - (IF count[d] = o THEN 1 ELSE 0)
  BY <1>1, <1>2, <1>3 DEF Counts!Dropped, BufGood
<1>5. ASSUME NEW q PROVE q \in Counts!Dropped(d).pages <=> Known(q, Handles \ {d})
  <2>1. CASE count[d] # 0 /\ counter[count[d]] = 1
    <3>1. Counts!Dropped(d).pages = mapped \ {raw_ptr[d]}
      BY <2>1 DEF Counts!Dropped
    <3>2. QED
      BY <2>1, <3>1, OnlyHolder
  <2>2. CASE ~(count[d] # 0 /\ counter[count[d]] = 1)
    <3>1. Counts!Dropped(d).pages = mapped
      BY <2>2 DEF Counts!Dropped
    <3>2. q \in mapped <=> Known(q, Handles)
      BY DEF BufGood
    <3>3. raw_ptr[d] # 0 => \E g \in Handles \ {d} : raw_ptr[g] = raw_ptr[d]
      <4>1. SUFFICES ASSUME raw_ptr[d] # 0 PROVE \E g \in Handles \ {d} : raw_ptr[g] = raw_ptr[d]
        OBVIOUS
      <4>2. count[d] # 0
        BY <4>1 DEF BufGood
      <4>3. count[d] \in Objects /\ counter[count[d]] # 1 /\ counter[count[d]] = Cardinality(HandlesOf(count, count[d]))
        BY <1>2, <2>2, <4>2 DEF BufGood
      <4>4. HandlesOf(count, count[d]) # {d}
        BY <4>3, FS_Singleton
      <4>5. PICK g \in Handles \ {d} : count[g] = count[d]
        BY <4>4 DEF HandlesOf
      <4>6. QED
        BY <4>5 DEF BufGood
    <3>4. QED
      BY <3>1, <3>2, <3>3 DEF Known
  <2>3. QED
    BY <2>1, <2>2
<1>6. QED
  BY <1>1, <1>4, <1>5

\* The destructor of a KBuffer.
LEMMA DropBufferStep ==
    ASSUME CountedAssumption, BufGood, NEW d \in Handles, Counts!DropBuffer(d) PROVE BufGood'
<1> DEFINE c == Counts!Dropped(d)
<1>1. /\ counter' = c.counts /\ mapped' = c.pages
      /\ raw_ptr' = [raw_ptr EXCEPT ![d] = 0] /\ count' = [count EXCEPT ![d] = 0] /\ made' = made
  BY DEF Counts!DropBuffer
<1>2. /\ c.counts \in [Objects -> Nat]
      /\ \A o \in Objects :
            /\ c.counts[o] = counter[o] - (IF count[d] = o THEN 1 ELSE 0)
            /\ count[d] = o => counter[o] > 0
      /\ \A q : q \in c.pages <=> Known(q, Handles \ {d})
  BY DroppedFacts
<1> HIDE DEF c
<1>3. /\ raw_ptr' \in [Handles -> 0..made'[1]] /\ count' \in [Handles -> 0..made'[2]]
      /\ count'[d] = 0 /\ raw_ptr'[d] = 0
      /\ \A z \in Handles \ {d} : count'[z] = count[z] /\ raw_ptr'[z] = raw_ptr[z]
      /\ made' \in (0..MaxObjects) \X (0..MaxObjects)
  BY <1>1 DEF BufGood, CountedAssumption
<1>4. ASSUME NEW o \in Objects PROVE counter'[o] = Cardinality(HandlesOf(count', o))
  <2>1. \A z \in Handles \ {d} : count'[z] = count[z]
    BY <1>3
  <2>2. /\ Cardinality(HandlesOf(count, o)) \in Nat
        /\ Cardinality(HandlesOf(count', o)) = Cardinality(HandlesOf(count, o)) + Delta(count[d], count'[d], o)
    BY <2>1, HoldersChange, Zenon
  <2>3. counter[o] = Cardinality(HandlesOf(count, o)) /\ o # 0
    BY DEF BufGood, Objects
  <2>4. QED
    BY <1>1, <1>2, <1>3, <2>2, <2>3 DEF Delta
<1>5. ASSUME NEW q PROVE q \in mapped' <=> Known(q, Handles)'
  BY <1>1, <1>2, <1>3 DEF Known
<1>6. /\ \A g \in Handles : count'[g] = 0 => raw_ptr'[g] = 0
      /\ \A f, g \in Handles : count'[f] = count'[g] => raw_ptr'[f] = raw_ptr'[g]
      /\ \A f, g \in Handles : raw_ptr'[f] = raw_ptr'[g] /\ raw_ptr'[f] # 0 => count'[f] = count'[g]
  BY <1>3 DEF BufGood
<1>7. (\A o \in Objects : counter[o] = Cardinality(HandlesOf(count, o)))'
  BY <1>4
<1>8. (\A q : q \in mapped <=> Known(q, Handles))'
  BY <1>5
<1>9. QED
  BY <1>1, <1>2, <1>3, <1>6, <1>7, <1>8 DEF BufGood

\* operator=(KBuffer&&), to itself too.
LEMMA MoveBufferStep ==
    ASSUME CountedAssumption, BufGood, NEW d \in Handles, NEW from \in Handles,
           Counts!MoveBuffer(d, from)
    PROVE  BufGood'
<1> DEFINE c == Counts!Dropped(d)
           mid == [count EXCEPT ![d] = count[from]]
<1>1. /\ counter' = c.counts /\ mapped' = c.pages /\ made' = made
      /\ raw_ptr' = [[raw_ptr EXCEPT ![d] = raw_ptr[from]] EXCEPT ![from] = 0]
      /\ count' = [mid EXCEPT ![from] = 0]
  BY DEF Counts!MoveBuffer
<1>2. /\ c.counts \in [Objects -> Nat]
      /\ \A o \in Objects :
            /\ c.counts[o] = counter[o] - (IF count[d] = o THEN 1 ELSE 0)
            /\ count[d] = o => counter[o] > 0
      /\ \A q : q \in c.pages <=> Known(q, Handles \ {d})
  BY DroppedFacts
<1> HIDE DEF c
<1>3. /\ raw_ptr' \in [Handles -> 0..made'[1]] /\ count' \in [Handles -> 0..made'[2]]
      /\ count'[from] = 0 /\ raw_ptr'[from] = 0
      /\ d # from => count'[d] = count[from] /\ raw_ptr'[d] = raw_ptr[from]
      /\ \A z \in Handles \ {d, from} : count'[z] = count[z] /\ raw_ptr'[z] = raw_ptr[z]
      /\ made' \in (0..MaxObjects) \X (0..MaxObjects)
  BY <1>1 DEF BufGood, CountedAssumption
<1>4. /\ mid[d] = count[from] /\ mid[from] = count[from]
      /\ \A z \in Handles \ {d} : mid[z] = count[z]
      /\ \A z \in Handles \ {from} : count'[z] = mid[z]
  BY <1>1 DEF BufGood
<1> HIDE DEF mid
<1>5. ASSUME NEW o \in Objects PROVE counter'[o] = Cardinality(HandlesOf(count', o))
  <2>1. /\ Cardinality(HandlesOf(count, o)) \in Nat
        /\ Cardinality(HandlesOf(mid, o)) = Cardinality(HandlesOf(count, o)) + Delta(count[d], mid[d], o)
    <3>1. \A z \in Handles \ {d} : mid[z] = count[z]
      BY <1>4
    <3>2. QED
      BY <3>1, HoldersChange, Zenon
  <2>2. Cardinality(HandlesOf(count', o)) = Cardinality(HandlesOf(mid, o)) + Delta(mid[from], count'[from], o)
    <3>1. \A z \in Handles \ {from} : count'[z] = mid[z]
      BY <1>4
    <3>2. QED
      BY <3>1, HoldersChange, Zenon
  <2>3. counter[o] = Cardinality(HandlesOf(count, o)) /\ o # 0
    BY DEF BufGood, Objects
  <2>4. /\ Delta(count[d], mid[d], o) = (IF count[from] = o THEN 1 ELSE 0) - (IF count[d] = o THEN 1 ELSE 0)
        /\ Delta(mid[from], count'[from], o) = 0 - (IF count[from] = o THEN 1 ELSE 0)
    BY <1>3, <1>4, <2>3 DEF Delta
  <2>5. counter'[o] = counter[o] - (IF count[d] = o THEN 1 ELSE 0)
    BY <1>1, <1>2
  <2>6. QED
    BY <2>1, <2>2, <2>3, <2>4, <2>5
<1>6. ASSUME NEW q PROVE q \in mapped' <=> Known(q, Handles)'
  <2>1. q \in mapped' <=> Known(q, Handles \ {d})
    BY <1>1, <1>2
  <2>2. CASE d = from
    BY <1>3, <2>1, <2>2 DEF Known
  <2>3. CASE d # from
    BY <1>3, <2>1, <2>3 DEF Known
  <2>4. QED
    BY <2>2, <2>3
<1>7. /\ \A g \in Handles : count'[g] = 0 => raw_ptr'[g] = 0
      /\ \A f, g \in Handles : count'[f] = count'[g] => raw_ptr'[f] = raw_ptr'[g]
      /\ \A f, g \in Handles : raw_ptr'[f] = raw_ptr'[g] /\ raw_ptr'[f] # 0 => count'[f] = count'[g]
  BY <1>3 DEF BufGood
<1>8. (\A o \in Objects : counter[o] = Cardinality(HandlesOf(count, o)))'
  BY <1>5
<1>9. (\A q : q \in mapped <=> Known(q, Handles))'
  BY <1>6
<1>10. QED
  BY <1>1, <1>2, <1>3, <1>7, <1>8, <1>9 DEF BufGood

\* operator=(const KBuffer&), from a handle that has a counter.
LEMMA CopyBufferStep ==
    ASSUME CountedAssumption, BufGood, NEW d \in Handles, NEW from \in Handles,
           Counts!CopyBuffer(d, from), ~misused'
    PROVE  BufGood'
<1> DEFINE c == Counts!Dropped(d)
           s == count[from]
<1>1. /\ d # from /\ s # 0 /\ mapped' = c.pages /\ made' = made
      /\ raw_ptr' = [raw_ptr EXCEPT ![d] = raw_ptr[from]] /\ count' = [count EXCEPT ![d] = s]
      /\ counter' = [c.counts EXCEPT ![s] = @ + 1]
  BY DEF Counts!CopyBuffer
<1>2. /\ c.counts \in [Objects -> Nat]
      /\ \A o \in Objects :
            /\ c.counts[o] = counter[o] - (IF count[d] = o THEN 1 ELSE 0)
            /\ count[d] = o => counter[o] > 0
      /\ \A q : q \in c.pages <=> Known(q, Handles \ {d})
  BY DroppedFacts
<1>3. /\ raw_ptr' \in [Handles -> 0..made'[1]] /\ count' \in [Handles -> 0..made'[2]]
      /\ count'[d] = s /\ raw_ptr'[d] = raw_ptr[from] /\ s \in Objects
      /\ \A z \in Handles \ {d} : count'[z] = count[z] /\ raw_ptr'[z] = raw_ptr[z]
      /\ made' \in (0..MaxObjects) \X (0..MaxObjects)
  BY <1>1 DEF BufGood, CountedAssumption, Objects
<1> HIDE DEF c
<1>4. counter' \in [Objects -> Nat]
  BY <1>1, <1>2, <1>3
<1>5. ASSUME NEW o \in Objects PROVE counter'[o] = Cardinality(HandlesOf(count', o))
  <2>1. \A z \in Handles \ {d} : count'[z] = count[z]
    BY <1>3
  <2>2. /\ Cardinality(HandlesOf(count, o)) \in Nat
        /\ Cardinality(HandlesOf(count', o)) = Cardinality(HandlesOf(count, o)) + Delta(count[d], count'[d], o)
    BY <2>1, HoldersChange, Zenon
  <2>3. counter[o] = Cardinality(HandlesOf(count, o))
    BY DEF BufGood
  <2> HIDE DEF s
  <2>4. counter'[o] = c.counts[o] + (IF o = s THEN 1 ELSE 0)
    BY <1>1, <1>2, <1>3
  <2>5. QED
    BY <1>2, <1>3, <2>2, <2>3, <2>4 DEF Delta
<1>6. ASSUME NEW q PROVE q \in mapped' <=> Known(q, Handles)'
  <2>1. q \in mapped' <=> Known(q, Handles \ {d})
    BY <1>1, <1>2
  <2>2. QED
    BY <1>1, <1>3, <2>1 DEF Known
<1>7. /\ \A g \in Handles : count'[g] = 0 => raw_ptr'[g] = 0
      /\ \A f, g \in Handles : count'[f] = count'[g] => raw_ptr'[f] = raw_ptr'[g]
      /\ \A f, g \in Handles : raw_ptr'[f] = raw_ptr'[g] /\ raw_ptr'[f] # 0 => count'[f] = count'[g]
  BY <1>1, <1>3 DEF BufGood
<1>8. (\A o \in Objects : counter[o] = Cardinality(HandlesOf(count, o)))'
  BY <1>5
<1>9. (\A q : q \in mapped <=> Known(q, Handles))'
  BY <1>6
<1>10. QED
  BY <1>3, <1>4, <1>7, <1>8, <1>9 DEF BufGood

\* The constructor, with pages or without: its counter and pages are new.
LEMMA NewBufferStep ==
    ASSUME CountedAssumption, BufGood, NEW d \in Handles, NEW pages \in 0..1,
           Counts!NewBuffer(d, pages)
    PROVE  BufGood'
<1> DEFINE m == made[1] + pages
           n == made[2] + 1
<1>1. /\ count[d] = 0 /\ m \in 0..MaxObjects /\ n \in Objects /\ made' = <<m, n>>
      /\ raw_ptr' = [raw_ptr EXCEPT ![d] = IF pages = 1 THEN m ELSE 0]
      /\ count' = [count EXCEPT ![d] = n] /\ counter' = [counter EXCEPT ![n] = 1]
      /\ mapped' = mapped \cup (IF pages = 1 THEN {m} ELSE {})
  BY DEF Counts!NewBuffer, BufGood, Objects, CountedAssumption
<1>2. /\ m \in Nat /\ m >= made[1] /\ pages = 1 => m = made[1] + 1
      /\ n = made[2] + 1 /\ made[1] \in Nat /\ made[2] \in Nat
  BY DEF BufGood, CountedAssumption
<1>3. /\ m \in Nat /\ m >= made[1] /\ (pages = 1 => m > made[1])
      /\ n > made[2] /\ n \in Nat /\ made[1] \in Nat /\ made[2] \in Nat
  BY DEF BufGood, CountedAssumption
<1>4. \A g \in Handles : raw_ptr[g] \in 0..made[1] /\ count[g] \in 0..made[2]
  BY DEF BufGood
<1>5. \A g \in Handles : /\ raw_ptr[g] \in 0..m /\ count[g] \in 0..n /\ count[g] # n
                         /\ (pages = 1 => raw_ptr[g] # m)
  <2> HIDE DEF m, n
  <2>1. QED
    BY <1>3, <1>4
<1>6. /\ raw_ptr' \in [Handles -> 0..m] /\ count' \in [Handles -> 0..n]
      /\ count'[d] = n /\ raw_ptr'[d] = IF pages = 1 THEN m ELSE 0
      /\ \A z \in Handles \ {d} : count'[z] = count[z] /\ raw_ptr'[z] = raw_ptr[z]
      /\ made' \in (0..MaxObjects) \X (0..MaxObjects) /\ made'[1] = m /\ made'[2] = n
      /\ counter' \in [Objects -> Nat] /\ raw_ptr[d] = 0
      /\ m # 0 \/ pages # 1
  <2>1. raw_ptr \in [Handles -> 0..m] /\ count \in [Handles -> 0..n] /\ counter \in [Objects -> Nat]
        /\ raw_ptr[d] = 0
    BY <1>1, <1>5 DEF BufGood
  <2> HIDE DEF m, n
  <2>2. QED
    BY <1>1, <1>3, <2>1 DEF Objects
<1>7. ASSUME NEW o \in Objects PROVE counter'[o] = Cardinality(HandlesOf(count', o))
  <2>1. \A z \in Handles \ {d} : count'[z] = count[z]
    BY <1>6
  <2>2. /\ Cardinality(HandlesOf(count, o)) \in Nat
        /\ Cardinality(HandlesOf(count', o)) = Cardinality(HandlesOf(count, o)) + Delta(count[d], count'[d], o)
    BY <2>1, HoldersChange, Zenon
  <2>3. o = n => Cardinality(HandlesOf(count, o)) = 0
    BY <1>5, HoldersFew
  <2>4. counter[o] = Cardinality(HandlesOf(count, o)) /\ o # 0
    BY DEF BufGood, Objects
  <2> HIDE DEF n
  <2>5. counter'[o] = IF o = n THEN 1 ELSE counter[o]
    BY <1>1 DEF BufGood
  <2>6. QED
    BY <1>1, <1>6, <2>2, <2>3, <2>4, <2>5 DEF Delta
<1> HIDE DEF m, n
<1>8. ASSUME NEW q PROVE q \in mapped' <=> Known(q, Handles)'
  <2>1. q \in mapped <=> Known(q, Handles)
    BY DEF BufGood
  <2>2. q \in mapped' <=> q \in mapped \/ (pages = 1 /\ q = m)
    BY <1>1
  <2>3. QED
    BY <1>6, <2>1, <2>2 DEF Known
<1>9. /\ \A g \in Handles : count'[g] = 0 => raw_ptr'[g] = 0
      /\ \A f, g \in Handles : count'[f] = count'[g] => raw_ptr'[f] = raw_ptr'[g]
      /\ \A f, g \in Handles : raw_ptr'[f] = raw_ptr'[g] /\ raw_ptr'[f] # 0 => count'[f] = count'[g]
  <2>1. n # 0
    BY <1>1 DEF Objects
  <2>2. QED
    BY <1>5, <1>6, <2>1 DEF BufGood
<1>10. (\A o \in Objects : counter[o] = Cardinality(HandlesOf(count, o)))'
  BY <1>7
<1>11. (\A q : q \in mapped <=> Known(q, Handles))'
  BY <1>8
<1>12. QED
  BY <1>6, <1>9, <1>10, <1>11 DEF BufGood

\* resize() and clear() of the only handle of a counter.
LEMMA RepageStep ==
    ASSUME CountedAssumption, BufGood, NEW d \in Handles,
           Counts!Resize(d) \/ Counts!ClearBuffer(d), ~misused'
    PROVE  BufGood'
<1>1. count[d] # 0 /\ counter[count[d]] = 1 /\ count' = count /\ counter' = counter
  BY DEF Counts!Resize, Counts!ClearBuffer, BufGood
<1> DEFINE Repaged(r) ==
              /\ raw_ptr' = [raw_ptr EXCEPT ![d] = r]
              /\ mapped' = (mapped \ {raw_ptr[d]}) \cup ({r} \ {0})
              /\ r = 0 \/ r = made[1] + 1
              /\ made' \in (0..MaxObjects) \X (0..MaxObjects) /\ made'[2] = made[2]
              /\ made'[1] >= made[1] /\ r <= made'[1]
<1>2. PICK r \in Nat : Repaged(r)
  <2>1. CASE Counts!Resize(d)
    <3> DEFINE m == made[1] + 1
    <3>1. /\ m \in 0..MaxObjects /\ m \in Nat /\ m # 0 /\ m > made[1] /\ made[2] \in 0..MaxObjects
          /\ made' = <<m, made[2]>> /\ raw_ptr' = [raw_ptr EXCEPT ![d] = m]
          /\ mapped' = (mapped \ {raw_ptr[d]}) \cup {m}
      BY <2>1 DEF Counts!Resize, BufGood, CountedAssumption
    <3>2. /\ m = 0 \/ m = made[1] + 1
          /\ made[1] \in Nat
      BY DEF BufGood, CountedAssumption
    <3> HIDE DEF m
    <3>3. mapped' = (mapped \ {raw_ptr[d]}) \cup ({m} \ {0})
      BY <3>1
    <3>4. Repaged(m)
      BY <3>1, <3>2, <3>3
    <3> HIDE DEF Repaged
    <3>5. QED
      BY <3>1, <3>4
  <2>2. CASE Counts!ClearBuffer(d)
    <3>1. /\ mapped' = (mapped \ {raw_ptr[d]}) \cup ({0} \ {0}) /\ raw_ptr' = [raw_ptr EXCEPT ![d] = 0]
          /\ made' = made
      BY <2>2 DEF Counts!ClearBuffer
    <3>2. made \in (0..MaxObjects) \X (0..MaxObjects) /\ made[1] \in Nat
      BY DEF BufGood, CountedAssumption
    <3>3. Repaged(0)
      BY <3>1, <3>2
    <3> HIDE DEF Repaged
    <3>4. QED
      BY <3>3
  <2>3. QED
    BY <2>1, <2>2
<1>3. /\ \A g \in Handles : count[g] = count[d] => g = d
      /\ \A q : q \in mapped \ {raw_ptr[d]} <=> Known(q, Handles \ {d})
  BY <1>1, OnlyHolder
<1>4. \A g \in Handles : raw_ptr[g] \in 0..made[1]
  BY DEF BufGood
<1>5. made[1] \in Nat /\ made'[1] \in Nat
  BY <1>2 DEF BufGood, CountedAssumption
<1>6. \A g \in Handles : raw_ptr[g] \in 0..made'[1] /\ (raw_ptr[g] = r => r = 0)
  BY <1>2, <1>4, <1>5
<1>7. /\ raw_ptr' \in [Handles -> 0..made'[1]] /\ raw_ptr'[d] = r
      /\ \A z \in Handles \ {d} : raw_ptr'[z] = raw_ptr[z]
      /\ count' \in [Handles -> 0..made'[2]] /\ counter' \in [Objects -> Nat]
  <2>1. raw_ptr \in [Handles -> 0..made'[1]] /\ r \in 0..made'[1]
    BY <1>2, <1>5, <1>6 DEF BufGood
  <2>2. count' \in [Handles -> 0..made'[2]] /\ counter' \in [Objects -> Nat]
    BY <1>1, <1>2 DEF BufGood
  <2>3. QED
    BY <1>2, <2>1, <2>2
<1>8. ASSUME NEW q PROVE q \in mapped' <=> Known(q, Handles)'
  <2>1. q \in mapped' <=> Known(q, Handles \ {d}) \/ (q = r /\ q # 0)
    BY <1>2, <1>3
  <2>2. QED
    BY <1>7, <2>1 DEF Known
<1>9. (\A o \in Objects : counter[o] = Cardinality(HandlesOf(count, o)))'
  BY <1>1 DEF BufGood
<1>10. /\ \A g \in Handles : count'[g] = 0 => raw_ptr'[g] = 0
       /\ \A f, g \in Handles : count'[f] = count'[g] => raw_ptr'[f] = raw_ptr'[g]
       /\ \A f, g \in Handles : raw_ptr'[f] = raw_ptr'[g] /\ raw_ptr'[f] # 0 => count'[f] = count'[g]
  BY <1>1, <1>3, <1>6, <1>7 DEF BufGood
<1>11. (\A q : q \in mapped <=> Known(q, Handles))'
  BY <1>8
<1>12. QED
  BY <1>2, <1>7, <1>9, <1>10, <1>11 DEF BufGood

CountedInv == PtrInv /\ BufInv

\* No handles at first.
LEMMA CountedInit ==
    ASSUME CountedAssumption, Counts!Init PROVE CountedInv
<1>1. /\ data = [g \in Handles |-> 0] /\ storages = 0
      /\ ref_count = [o \in Objects |-> 0] /\ destroyed = [o \in Objects |-> 0]
      /\ raw_ptr = [g \in Handles |-> 0] /\ count = [g \in Handles |-> 0]
      /\ counter = [o \in Objects |-> 0] /\ mapped = {} /\ made = <<0, 0>>
  BY DEF Counts!Init, Objects, Counts!Objects
<1>2. ASSUME NEW o \in Objects
      PROVE  Cardinality(HandlesOf(data, o)) = 0 /\ Cardinality(HandlesOf(count, o)) = 0 /\ ~(o <= 0)
  <2>1. o # 0 /\ ~(o <= 0)
    BY DEF Objects
  <2>2. QED
    BY <1>1, <2>1, HoldersFew
<1>3. PtrInv
  BY <1>1, <1>2 DEF PtrInv, CountedAssumption
<1>4. BufGood
  BY <1>1, <1>2 DEF BufGood, Known, CountedAssumption
<1>5. QED
  BY <1>3, <1>4 DEF CountedInv, BufInv

\* The parts of the invariant, for the parts of the step.
LEMMA CountedStep ==
    ASSUME CountedAssumption, CountedInv, [Counts!Next]_(Counts!countedVars)
    PROVE  CountedInv'
<1>1. ASSUME UNCHANGED Counts!ptrVars PROVE PtrInv'
  BY <1>1 DEF CountedInv, PtrInv, Counts!ptrVars, HandlesOf
<1>2. ASSUME UNCHANGED Counts!bufVars PROVE BufInv'
  BY <1>2 DEF CountedInv, BufInv, BufGood, Known, Counts!bufVars, HandlesOf
<1>3. ASSUME Counts!BufNext PROVE BufInv'
  <2>1. SUFFICES ASSUME ~misused' PROVE BufGood'
    BY DEF BufInv
  <2>2. BufGood
    BY <1>3 DEF Counts!BufNext, CountedInv, BufInv
  <2>3. ASSUME NEW d \in Handles, Counts!DropBuffer(d) PROVE BufGood'
    BY <2>2, <2>3, DropBufferStep
  <2>4. ASSUME NEW d \in Handles, Counts!Resize(d) \/ Counts!ClearBuffer(d) PROVE BufGood'
    BY <2>1, <2>2, <2>4, RepageStep
  <2>5. ASSUME NEW d \in Handles, NEW pages \in 0..1, Counts!NewBuffer(d, pages) PROVE BufGood'
    BY <2>2, <2>5, NewBufferStep
  <2>6. ASSUME NEW d \in Handles, NEW from \in Handles, Counts!MoveBuffer(d, from) PROVE BufGood'
    BY <2>2, <2>6, MoveBufferStep
  <2>7. ASSUME NEW d \in Handles, NEW from \in Handles, Counts!CopyBuffer(d, from) PROVE BufGood'
    BY <2>1, <2>2, <2>7, CopyBufferStep
  <2>8. QED
    BY <1>3, <2>3, <2>4, <2>5, <2>6, <2>7 DEF Counts!BufNext
<1>4. ASSUME Counts!PtrNext PROVE PtrInv'
  BY <1>4, StepPtr DEF CountedInv
<1>5. QED
  BY <1>1, <1>2, <1>3, <1>4 DEF Counts!Next, Counts!countedVars, CountedInv

\* Cardinality as the instance has it.
LEMMA SameCardinality ==
    \A S : Counts!Cardinality(S) = Cardinality(S)
BY Zenon DEF Counts!Cardinality, Cardinality

\* The property follows from the invariant.
LEMMA CountedGood ==
    ASSUME CountedAssumption, CountedInv PROVE CountsExact
<1>1. ASSUME NEW o \in 1..storages
      PROVE  /\ ref_count[o] = Cardinality({g \in Handles : data[g] = o})
             /\ destroyed[o] = IF ref_count[o] = 0 THEN 1 ELSE 0
  <2>1. o \in Objects /\ o <= storages
    BY DEF CountedInv, PtrInv, Objects, CountedAssumption
  <2>2. QED
    BY <2>1 DEF CountedInv, PtrInv, HandlesOf
<1>2. ASSUME ~misused
      PROVE  /\ mapped = {raw_ptr[g] : g \in Handles} \ {0}
             /\ \A g \in Handles : count[g] # 0 =>
                  counter[count[g]] = Cardinality({f \in Handles : count[f] = count[g]})
  <2>1. BufGood
    BY <1>2 DEF CountedInv, BufInv
  <2>2. \A q : q \in mapped <=> q \in {raw_ptr[g] : g \in Handles} \ {0}
    BY <2>1 DEF BufGood, Known
  <2>3. ASSUME NEW g \in Handles, count[g] # 0
        PROVE  counter[count[g]] = Cardinality({f \in Handles : count[f] = count[g]})
    <3>1. count[g] \in Objects
      BY <2>1, <2>3 DEF BufGood, Objects, CountedAssumption
    <3>2. QED
      BY <2>1, <3>1 DEF BufGood, HandlesOf
  <2>4. QED
    BY <2>2, <2>3
<1>3. QED
  BY <1>1, <1>2, SameCardinality, Zenon DEF CountsExact, Counts!CountsExact

\* However SharedPtr handles are made, copied, moved, assigned to themselves and destroyed, a
\* storage's count is the number of its handles and it is destroyed once, with the last of
\* them (shared_pointer.hpp:73); and the pages of a KBuffer are mapped exactly while a handle
\* has their address, as long as no buffer was misused (kbuffer.cpp:25).
THEOREM CountsAreExact ==
    Counts!Init /\ [][Counts!Next]_(Counts!countedVars) => []CountsExact
<1>1. CountedAssumption
  BY LibraryAssumption
<1>2. Counts!Init => CountedInv
  BY <1>1, CountedInit
<1>3. CountedInv /\ [Counts!Next]_(Counts!countedVars) => CountedInv'
  BY <1>1, CountedStep
<1>4. CountedInv => CountsExact
  BY <1>1, CountedGood
<1>5. QED
  BY <1>2, <1>3, <1>4, PTL

-----------------------------------------------------------------------------
(* The run queue's list.  Up to a severing step the thread that is taken is *)
(* the front or is found by the loop, so the node before it is known.  The  *)
(* invariant names the sequence the links spell; that the walk sees it      *)
(* follows by the least place where they would differ.                      *)

\* The links, the ends and the callers' threads agree with the sequence s.
IsList(s) ==
    /\ s \in Seq(QueueThreads)
    /\ \A i, j \in 1..Len(s) : s[i] = s[j] => i = j
    /\ held \subseteq QueueThreads
    /\ \A t \in QueueThreads : t \notin held <=> \E i \in 1..Len(s) : s[i] = t
    /\ first = IF Len(s) = 0 THEN Null ELSE s[1]
    /\ last = IF Len(s) = 0 THEN Null ELSE s[Len(s)]
    /\ f_next \in [QueueThreads -> QueueThreads \cup {Null}]
    /\ \A i \in 1..Len(s) : f_next[s[i]] = IF i = Len(s) THEN Null ELSE s[i + 1]
    /\ pref \in [QueueThreads -> Cores \cup {NoCore}]

\* A set of numbers that is not empty has a least one.
LEMMA LeastOf ==
    ASSUME NEW S \in SUBSET Nat, S # {}
    PROVE  \E m \in S : \A x \in S : m <= x
<1> DEFINE R == {e \in Nat \X Nat : e[1] < e[2]}
<1>1. IsWellFoundedOn(R, Nat)
  <2>1. OpToRel(<, Nat) = R
    BY Zenon DEF OpToRel
  <2>2. QED
    BY <2>1, NatLessThanWellFounded, Zenon
<1> HIDE DEF R
<1>2. PICK m \in S : \A x \in S : <<x, m>> \notin R
  BY <1>1, WFMin
<1>3. \A x \in S : m <= x
  <2>1. SUFFICES ASSUME NEW x \in S, ~(m <= x) PROVE FALSE
    OBVIOUS
  <2>2. x \in Nat /\ m \in Nat /\ x < m
    BY <2>1
  <2>3. QED
    BY <1>2, <2>1, <2>2 DEF R
<1>4. QED
  BY <1>3

\* Both modules' Min is it.
LEMMA MinIs ==
    ASSUME NEW S \in SUBSET Nat, NEW m \in S, \A x \in S : m <= x
    PROVE  Queue!Min(S) = m /\ Queue!Abstract!Min(S) = m
<1> DEFINE n == CHOOSE x \in S : \A y \in S : x <= y
<1>1. n \in S /\ \A y \in S : n <= y
  BY Zenon
<1>2. Queue!Min(S) = n /\ Queue!Abstract!Min(S) = n
  BY Zenon DEF Queue!Min, Queue!Abstract!Min
<1> HIDE DEF n
<1>3. n = m
  BY <1>1
<1>4. QED
  BY <1>2, <1>3

\* Cardinality as the instance has it.
LEMMA QueueCardinality ==
    \A S : Queue!Cardinality(S) = Cardinality(S)
BY Zenon DEF Queue!Cardinality, Cardinality

\* A sequence without repetitions is not longer than the set.
LEMMA ListFits ==
    ASSUME QueueAssumption, NEW s, IsList(s)
    PROVE  Len(s) \in Nat /\ Cardinality(QueueThreads) \in Nat /\ Len(s) <= Cardinality(QueueThreads)
<1>1. Len(s) \in Nat /\ s \in [1..Len(s) -> QueueThreads]
  BY LenProperties DEF IsList
<1>2. s \in Injection(1..Len(s), QueueThreads)
  BY <1>1 DEF IsList, Injection, IsInjective
<1>3. Cardinality(1..Len(s)) <= Cardinality(QueueThreads)
  BY <1>2, FS_Injection DEF QueueAssumption
<1>4. Cardinality(1..Len(s)) = Len(s)
  BY <1>1, FS_Interval
<1>5. QED
  BY <1>1, <1>3, <1>4, FS_CardinalityType DEF QueueAssumption

\* The links spell the sequence: a function that follows them is the sequence.
LEMMA WalkSpells ==
    ASSUME QueueAssumption, NEW s, IsList(s), NEW n \in Nat, NEW w,
           w[0] = first,
           \A k \in 1..n : w[k] = IF w[k-1] = Null THEN Null ELSE f_next[w[k-1]]
    PROVE  \A k \in 0..n : w[k] = IF k < Len(s) THEN s[k+1] ELSE Null
<1> DEFINE Right(k) == w[k] = IF k < Len(s) THEN s[k+1] ELSE Null
           Wrong == {k \in 0..n : ~Right(k)}
<1>1. Len(s) \in Nat /\ \A i \in 1..Len(s) : s[i] \in QueueThreads /\ s[i] # Null
  BY LenProperties DEF IsList, QueueAssumption
<1>2. SUFFICES ASSUME Wrong # {} PROVE FALSE
  OBVIOUS
<1>3. PICK m \in Wrong : \A x \in Wrong : m <= x
  <2>1. Wrong \in SUBSET Nat
    OBVIOUS
  <2> HIDE DEF Wrong
  <2>2. QED
    BY <1>2, <2>1, LeastOf
<1>4. Right(0)
  BY <1>1 DEF IsList
<1>5. m \in 1..n /\ m - 1 \in 0..n /\ m - 1 \notin Wrong
  BY <1>3, <1>4
<1>6. w[m] = IF w[m-1] = Null THEN Null ELSE f_next[w[m-1]]
  BY <1>5
<1>7. w[m-1] = IF m - 1 < Len(s) THEN s[m] ELSE Null
  BY <1>5
<1>8. CASE m - 1 < Len(s)
  <2>1. m \in 1..Len(s) /\ w[m-1] = s[m] /\ s[m] # Null
    BY <1>1, <1>5, <1>7, <1>8
  <2>2. w[m] = IF m = Len(s) THEN Null ELSE s[m+1]
    BY <1>6, <2>1 DEF IsList
  <2>3. Right(m)
    BY <1>1, <2>1, <2>2
  <2>4. QED
    BY <1>3, <2>3
<1>9. CASE ~(m - 1 < Len(s))
  <2>1. w[m] = Null
    BY <1>6, <1>7, <1>9
  <2>2. Right(m)
    BY <1>1, <1>5, <1>9, <2>1
  <2>3. QED
    BY <1>3, <2>2
<1>10. QED
  BY <1>8, <1>9

\* So the walk of the code sees it, and the list of the refinement is the sequence.
LEMMA WalkSees ==
    QueueAssumption => \A s : IsList(s) =>
        /\ \A k \in 0..Len(s) : k < Len(s) => Queue!Node[k] = s[k + 1]
        /\ Queue!Walked = 0..(Len(s) - 1)
        /\ Queue!Listed = s
<1>1. SUFFICES ASSUME QueueAssumption, NEW s, IsList(s)
               PROVE  /\ \A k \in 0..Len(s) : k < Len(s) => Queue!Node[k] = s[k + 1]
                      /\ Queue!Walked = 0..(Len(s) - 1)
                      /\ Queue!Listed = s
  OBVIOUS
<1> DEFINE N == Cardinality(QueueThreads)
           Follows(w) == w = [k \in 0..N |-> IF k = 0 THEN first
                                 ELSE IF w[k-1] = Null THEN Null ELSE f_next[w[k-1]]]
           W == [k \in 0..N |-> IF k < Len(s) THEN s[k+1] ELSE Null]
<1>2. Len(s) \in Nat /\ N \in Nat /\ Len(s) <= N
  BY <1>1, ListFits
<1>3. Follows(W)
  <2>1. \A i \in 1..Len(s) : s[i] \in QueueThreads /\ s[i] # Null
    BY <1>1, LenProperties DEF IsList, QueueAssumption
  <2> HIDE DEF N
  <2>2. ASSUME NEW k \in 0..N
        PROVE  W[k] = IF k = 0 THEN first ELSE IF W[k-1] = Null THEN Null ELSE f_next[W[k-1]]
    <3>1. CASE k = 0
      BY <1>1, <1>2, <3>1 DEF IsList
    <3>2. CASE k # 0
      <4>1. k - 1 \in 0..N /\ W[k-1] = IF k - 1 < Len(s) THEN s[k] ELSE Null
        BY <1>2, <3>2
      <4>2. CASE k - 1 < Len(s)
        <5>1. k \in 1..Len(s) /\ W[k-1] = s[k] /\ s[k] # Null
          BY <1>2, <2>1, <3>2, <4>1, <4>2
        <5>2. f_next[s[k]] = IF k = Len(s) THEN Null ELSE s[k+1]
          BY <1>1, <5>1 DEF IsList
        <5>3. W[k] = IF k = Len(s) THEN Null ELSE s[k+1]
          BY <1>2, <5>1
        <5> HIDE DEF W
        <5>4. QED
          BY <3>2, <5>1, <5>2, <5>3
      <4>3. CASE ~(k - 1 < Len(s))
        <5>1. W[k] = Null
          BY <1>2, <3>2, <4>3
        <5> HIDE DEF W
        <5>2. QED
          BY <3>2, <4>1, <4>3, <5>1
      <4>4. QED
        BY <4>2, <4>3
    <3>3. QED
      BY <3>1, <3>2
  <2>3. QED
    BY <2>2
<1>4. Queue!Node = CHOOSE w : Follows(w)
  BY QueueCardinality DEF Queue!Node
<1>5. Follows(Queue!Node)
  <2> HIDE DEF Follows, W
  <2>1. QED
    BY <1>3, <1>4
<1> HIDE DEF N, W
<1>6. \A k \in 0..N : Queue!Node[k] = IF k < Len(s) THEN s[k+1] ELSE Null
  <2>1. /\ Queue!Node[0] = first
        /\ \A k \in 1..N : Queue!Node[k] = IF Queue!Node[k-1] = Null THEN Null
                                           ELSE f_next[Queue!Node[k-1]]
    BY <1>2, <1>5
  <2> DEFINE w == Queue!Node
  <2>2. /\ w[0] = first
        /\ \A k \in 1..N : w[k] = IF w[k-1] = Null THEN Null ELSE f_next[w[k-1]]
    BY <2>1
  <2> HIDE DEF w
  <2>3. N \in Nat /\ QueueAssumption /\ IsList(s)
    BY <1>1, <1>2
  <2>4. \A k \in 0..N : w[k] = IF k < Len(s) THEN s[k+1] ELSE Null
    BY <2>2, <2>3, WalkSpells
  <2>5. QED
    BY <2>4 DEF w
<1>7. \A i \in 1..Len(s) : s[i] # Null
  BY <1>1, LenProperties DEF IsList, QueueAssumption
<1>8. Queue!Walked = 0..(Len(s) - 1)
  BY <1>2, <1>6, <1>7, QueueCardinality DEF Queue!Walked, N
<1>9. Cardinality(0..(Len(s) - 1)) = Len(s)
  <2>1. 0 \in Int /\ Len(s) - 1 \in Int
    BY <1>2
  <2>2. Cardinality(0..(Len(s) - 1)) = IF 0 > Len(s) - 1 THEN 0 ELSE (Len(s) - 1) - 0 + 1
    BY <2>1, FS_Interval, Zenon
  <2>3. QED
    BY <1>2, <2>2
<1>10. Queue!Listed = [i \in 1..Len(s) |-> Queue!Node[i-1]]
  BY <1>8, <1>9, QueueCardinality DEF Queue!Listed
<1>11. [i \in 1..Len(s) |-> Queue!Node[i-1]] = s
  <2>1. s \in [1..Len(s) -> QueueThreads]
    BY <1>1, LenProperties DEF IsList
  <2>2. \A i \in 1..Len(s) : Queue!Node[i-1] = s[i]
    BY <1>2, <1>6
  <2>3. QED
    BY <2>1, <2>2
<1>12. QED
  BY <1>2, <1>6, <1>8, <1>10, <1>11

\* The same of the next state.
LEMMA WalkSeesNext ==
    QueueAssumption => \A s : (IsList(s))' => (Queue!Listed)' = s
<1>1. QueueAssumption => \A s : IsList(s) => Queue!Listed = s
  BY WalkSees
<1>2. (QueueAssumption => \A s : IsList(s) => Queue!Listed = s)'
  BY <1>1, PTL
<1>3. QED
  BY <1>2

\* The sequence without its p-th element.
IsWithout(r, s, p) ==
    /\ r \in Seq(QueueThreads) /\ Len(r) = Len(s) - 1
    /\ \A j \in 1..(Len(s) - 1) : r[j] = IF j < p THEN s[j] ELSE s[j + 1]

\* RemoveAt() of the abstract queue does that.
LEMMA RemoveIs ==
    ASSUME NEW s \in Seq(QueueThreads), NEW p \in 1..Len(s)
    PROVE  IsWithout(Queue!Abstract!RemoveAt(s, p), s, p)
<1> DEFINE a == SubSeq(s, 1, p - 1)
           b == SubSeq(s, p + 1, Len(s))
<1>1. /\ Len(s) \in Nat /\ p - 1 \in Int /\ p + 1 \in Int /\ p \in Nat
      /\ \A i \in 1..Len(s) : s[i] \in QueueThreads
  BY LenProperties
<1>2. /\ a \in Seq(QueueThreads) /\ Len(a) = p - 1 /\ \A i \in 1..(p-1) : a[i] = s[i]
  <2>1. \A i \in 1..(p-1) : s[i] \in QueueThreads
    BY <1>1
  <2>2. /\ a \in Seq(QueueThreads)
        /\ Len(a) = IF 1 <= p - 1 THEN (p - 1) - 1 + 1 ELSE 0
        /\ \A i \in 1..((p - 1) - 1 + 1) : a[i] = s[1 + i - 1]
    BY <1>1, <2>1, SubSeqProperties
  <2> HIDE DEF a
  <2>3. QED
    BY <1>1, <2>2
<1>3. /\ b \in Seq(QueueThreads) /\ Len(b) = Len(s) - p
      /\ \A i \in 1..(Len(s) - p) : b[i] = s[p + i]
  <2>1. \A i \in (p+1)..Len(s) : s[i] \in QueueThreads
    BY <1>1
  <2>2. /\ b \in Seq(QueueThreads)
        /\ Len(b) = IF p + 1 <= Len(s) THEN Len(s) - (p + 1) + 1 ELSE 0
        /\ \A i \in 1..(Len(s) - (p + 1) + 1) : b[i] = s[(p + 1) + i - 1]
    BY <1>1, <2>1, SubSeqProperties
  <2> HIDE DEF b
  <2>3. Len(b) = Len(s) - p
    BY <1>1, <2>2
  <2>4. ASSUME NEW i \in 1..(Len(s) - p) PROVE b[i] = s[p + i]
    <3>1. i \in 1..(Len(s) - (p + 1) + 1) /\ (p + 1) + i - 1 = p + i
      BY <1>1
    <3>2. QED
      BY <2>2, <3>1
  <2>5. QED
    BY <2>2, <2>3, <2>4
<1>4. Queue!Abstract!RemoveAt(s, p) = a \o b
  BY DEF Queue!Abstract!RemoveAt
<1> HIDE DEF a, b
<1>5. /\ a \o b \in Seq(QueueThreads) /\ Len(a \o b) = Len(a) + Len(b)
      /\ \A i \in 1..(Len(a) + Len(b)) : (a \o b)[i] = IF i <= Len(a) THEN a[i] ELSE b[i - Len(a)]
  BY <1>2, <1>3, ConcatProperties
<1>6. Len(a \o b) = Len(s) - 1
  BY <1>1, <1>2, <1>3, <1>5
<1>7. ASSUME NEW j \in 1..(Len(s) - 1) PROVE (a \o b)[j] = IF j < p THEN s[j] ELSE s[j + 1]
  <2>1. j \in 1..(Len(a) + Len(b)) /\ (j <= Len(a) <=> j < p)
    BY <1>1, <1>2, <1>3
  <2>2. CASE j < p
    BY <1>1, <1>2, <1>5, <2>1, <2>2
  <2>3. CASE ~(j < p)
    <3>1. j - Len(a) \in 1..(Len(s) - p) /\ p + (j - Len(a)) = j + 1
      BY <1>1, <1>2, <2>3
    <3>2. (a \o b)[j] = b[j - Len(a)]
      BY <1>5, <2>1, <2>3
    <3>3. b[j - Len(a)] = s[p + (j - Len(a))]
      BY <1>3, <3>1
    <3>4. QED
      BY <2>3, <3>1, <3>2, <3>3
  <2>4. QED
    BY <2>2, <2>3
<1>8. QED
  BY <1>4, <1>5, <1>6, <1>7 DEF IsWithout

\* The elements that stay are the others.
LEMMA WithoutFacts ==
    ASSUME QueueAssumption, NEW s, IsList(s), NEW p \in 1..Len(s), NEW r, IsWithout(r, s, p)
    PROVE  /\ Len(s) \in Nat /\ Len(r) = Len(s) - 1 /\ Len(r) \in Nat
           /\ \A j \in 1..Len(r) : /\ j \in 1..Len(s) /\ j + 1 \in 1..Len(s)
                                   /\ r[j] = IF j < p THEN s[j] ELSE s[j + 1]
                                   /\ r[j] # s[p]
           /\ \A i, j \in 1..Len(r) : r[i] = r[j] => i = j
           /\ \A i \in 1..Len(s) : i # p => \E j \in 1..Len(r) : r[j] = s[i]
<1>1. Len(s) \in Nat /\ p \in Nat /\ Len(r) = Len(s) - 1 /\ Len(r) \in Nat
  BY LenProperties DEF IsList, IsWithout
<1>2. ASSUME NEW j \in 1..Len(r)
      PROVE  /\ j \in 1..Len(s) /\ j + 1 \in 1..Len(s)
             /\ r[j] = IF j < p THEN s[j] ELSE s[j + 1]
  BY <1>1 DEF IsWithout
<1>3. \A i, j \in 1..Len(s) : s[i] = s[j] => i = j
  BY DEF IsList
<1>4. \A j \in 1..Len(r) : r[j] # s[p]
  BY <1>1, <1>2, <1>3
<1>5. \A i, j \in 1..Len(r) : r[i] = r[j] => i = j
  BY <1>1, <1>2, <1>3
<1>6. ASSUME NEW i \in 1..Len(s), i # p PROVE \E j \in 1..Len(r) : r[j] = s[i]
  <2>1. CASE i < p
    <3>1. i \in 1..Len(r) /\ r[i] = s[i]
      BY <1>1, <1>2, <2>1
    <3>2. QED
      BY <3>1
  <2>2. CASE ~(i < p)
    <3>1. i - 1 \in 1..Len(r) /\ ~(i - 1 < p) /\ (i - 1) + 1 = i
      BY <1>1, <1>6, <2>2
    <3>2. r[i - 1] = s[i]
      BY <1>2, <3>1
    <3>3. QED
      BY <3>1, <3>2
  <2>3. QED
    BY <2>1, <2>2
<1>7. QED
  BY <1>1, <1>2, <1>4, <1>5, <1>6

\* Unlink() of the p-th node, when the node before it is known.
LEMMA UnlinkList ==
    ASSUME QueueAssumption, NEW s, IsList(s), NEW p \in 1..Len(s), NEW r, IsWithout(r, s, p),
           first' = IF p = 1 THEN f_next[s[p]] ELSE first,
           f_next' = IF p = 1 THEN [f_next EXCEPT ![s[p]] = Null]
                     ELSE [f_next EXCEPT ![s[p-1]] = f_next[s[p]], ![s[p]] = Null],
           last' = IF s[p] # last THEN last ELSE IF p = 1 THEN Null ELSE s[p-1],
           held' = held \cup {s[p]}, pref' \in [QueueThreads -> Cores \cup {NoCore}]
    PROVE  IsList(r)'
<1>1. /\ Len(s) \in Nat /\ Len(r) = Len(s) - 1 /\ Len(r) \in Nat
      /\ \A j \in 1..Len(r) : /\ j \in 1..Len(s) /\ j + 1 \in 1..Len(s)
                              /\ r[j] = IF j < p THEN s[j] ELSE s[j + 1]
                              /\ r[j] # s[p]
      /\ \A i, j \in 1..Len(r) : r[i] = r[j] => i = j
      /\ \A i \in 1..Len(s) : i # p => \E j \in 1..Len(r) : r[j] = s[i]
  BY WithoutFacts
<1>2. /\ \A i \in 1..Len(s) : s[i] \in QueueThreads /\ s[i] # Null
      /\ \A i, j \in 1..Len(s) : s[i] = s[j] => i = j
      /\ \A i \in 1..Len(s) : f_next[s[i]] = IF i = Len(s) THEN Null ELSE s[i + 1]
      /\ f_next \in [QueueThreads -> QueueThreads \cup {Null}]
      /\ p \in Nat /\ p <= Len(s) /\ p >= 1 /\ Len(s) # 0
      /\ first = s[1] /\ last = s[Len(s)]
  BY <1>1, LenProperties DEF IsList, QueueAssumption
<1>3. r \in Seq(QueueThreads)
  BY DEF IsWithout
<1>4. held' \subseteq QueueThreads
  BY <1>2 DEF IsList
<1>5. ASSUME NEW t \in QueueThreads PROVE t \notin held' <=> \E j \in 1..Len(r) : r[j] = t
  <2>1. t \notin held <=> \E i \in 1..Len(s) : s[i] = t
    BY DEF IsList
  <2>2. t \notin held' <=> t # s[p] /\ \E i \in 1..Len(s) : s[i] = t
    BY <2>1
  <2>3. QED
    BY <1>1, <2>2
<1>6. first' = IF Len(r) = 0 THEN Null ELSE r[1]
  <2>1. CASE p = 1
    BY <1>1, <1>2, <2>1
  <2>2. CASE p # 1
    <3>1. 1 < p /\ Len(r) # 0 /\ 1 \in 1..Len(r)
      <4>1. p \in Nat /\ p <= Len(s) /\ p >= 1 /\ Len(s) \in Nat /\ Len(r) = Len(s) - 1
        BY <1>1, <1>2
      <4>2. 1 < p /\ Len(s) - 1 >= 1
        BY <2>2, <4>1
      <4>3. QED
        BY <4>1, <4>2
    <3>2. r[1] = s[1] /\ first' = s[1]
      BY <1>1, <1>2, <2>2, <3>1
    <3>3. QED
      BY <3>1, <3>2
  <2>3. QED
    BY <2>1, <2>2
<1>7. last' = IF Len(r) = 0 THEN Null ELSE r[Len(r)]
  <2>1. s[p] = last <=> p = Len(s)
    BY <1>2
  <2>2. CASE Len(s) = 1
    <3>1. p = 1 /\ Len(r) = 0
      BY <1>1, <1>2, <2>2
    <3>2. QED
      BY <2>1, <2>2, <3>1
  <2>3. CASE Len(s) # 1
    <3>1. Len(r) \in 1..Len(r) /\ r[Len(r)] = IF Len(r) < p THEN s[Len(r)] ELSE s[Len(r) + 1]
      BY <1>1, <1>2, <2>3
    <3>2. CASE p = Len(s)
      BY <1>1, <1>2, <2>1, <2>3, <3>1, <3>2
    <3>3. CASE p # Len(s)
      <4>1. ~(Len(r) < p) /\ Len(r) + 1 = Len(s) /\ Len(r) # 0
        BY <1>1, <1>2, <2>3, <3>3
      <4>2. last' = last
        BY <2>1, <3>3
      <4>3. QED
        BY <1>2, <3>1, <4>1, <4>2
    <3>4. QED
      BY <3>2, <3>3
  <2>4. QED
    BY <2>2, <2>3
<1>8. f_next' \in [QueueThreads -> QueueThreads \cup {Null}]
  BY <1>2
<1>9. ASSUME NEW j \in 1..Len(r)
      PROVE  f_next'[r[j]] = IF j = Len(r) THEN Null ELSE r[j + 1]
  <2>1. r[j] \in QueueThreads /\ r[j] # s[p] /\ r[j] = IF j < p THEN s[j] ELSE s[j + 1]
    BY <1>1, <1>2
  <2>2. j # Len(r) => j + 1 \in 1..Len(r) /\ r[j + 1] = IF j + 1 < p THEN s[j + 1] ELSE s[(j + 1) + 1]
    BY <1>1
  <2>3. CASE p # 1 /\ j = p - 1
    <3>1. r[j] = s[p-1] /\ p - 1 \in 1..Len(s)
      BY <1>1, <1>2, <2>1, <2>3
    <3>2. f_next'[s[p-1]] = f_next[s[p]]
      BY <1>2, <2>1, <2>3, <3>1
    <3>3. f_next[s[p]] = IF p = Len(s) THEN Null ELSE s[p + 1]
      BY <1>2
    <3>4. j = Len(r) <=> p = Len(s)
      <4>1. p \in Nat /\ Len(s) \in Nat /\ Len(r) = Len(s) - 1
        BY <1>1, <1>2
      <4>2. QED
        BY <4>1, <2>3
    <3>5. j # Len(r) => r[j + 1] = s[p + 1]
      <4>1. p \in Nat
        BY <1>2
      <4>2. j + 1 = p /\ ~(j + 1 < p) /\ (j + 1) + 1 = p + 1
        BY <4>1, <2>3
      <4>3. QED
        BY <4>2, <2>2
    <3>6. QED
      BY <3>1, <3>2, <3>3, <3>4, <3>5
  <2>4. CASE ~(p # 1 /\ j = p - 1)
    <3>1. p # 1 => r[j] # s[p-1]
      <4>1. SUFFICES ASSUME p # 1, r[j] = s[p-1] PROVE FALSE
        OBVIOUS
      <4>2. p - 1 \in 1..Len(s)
        BY <1>1, <1>2, <4>1
      <4>3. QED
        BY <1>1, <1>2, <2>1, <2>4, <4>1, <4>2
    <3>2. f_next'[r[j]] = f_next[r[j]]
      BY <1>2, <2>1, <3>1
    <3>3. CASE j < p
      <4>1. j \in 1..Len(s) /\ j # Len(s) /\ r[j] = s[j] /\ j + 1 < p
        BY <1>1, <1>2, <2>1, <2>4, <3>3
      <4>2. f_next[s[j]] = s[j + 1]
        BY <1>2, <4>1
      <4>3. j # Len(r)
        BY <1>1, <1>2, <4>1
      <4>4. QED
        BY <2>2, <3>2, <4>1, <4>2, <4>3
    <3>4. CASE ~(j < p)
      <4>1. j + 1 \in 1..Len(s) /\ r[j] = s[j + 1] /\ (j + 1 = Len(s) <=> j = Len(r)) /\ ~(j + 1 < p)
        BY <1>1, <1>2, <2>1, <3>4
      <4>2. f_next[s[j + 1]] = IF j + 1 = Len(s) THEN Null ELSE s[(j + 1) + 1]
        BY <1>2, <4>1
      <4>3. QED
        BY <2>2, <3>2, <4>1, <4>2
    <3>5. QED
      BY <3>3, <3>4
  <2>5. QED
    BY <2>3, <2>4
<1>10. QED
  BY <1>1, <1>3, <1>4, <1>5, <1>6, <1>7, <1>8, <1>9 DEF IsList

\* push_back() of a thread the caller owns, which is therefore not listed.
LEMMA PushList ==
    ASSUME QueueAssumption, NEW s, IsList(s), NEW t \in held, Queue!PushBack(t)
    PROVE  IsList(Append(s, t))' /\ t \in QueueThreads /\ \A i \in 1..Len(s) : s[i] # t
<1> DEFINE r == Append(s, t)
<1>1. /\ t \in QueueThreads /\ \A i \in 1..Len(s) : s[i] # t
      /\ \A i \in 1..Len(s) : s[i] \in QueueThreads /\ s[i] # Null
      /\ \A i, j \in 1..Len(s) : s[i] = s[j] => i = j
      /\ \A i \in 1..Len(s) : f_next[s[i]] = IF i = Len(s) THEN Null ELSE s[i + 1]
      /\ f_next \in [QueueThreads -> QueueThreads \cup {Null}] /\ Len(s) \in Nat
      /\ first = IF Len(s) = 0 THEN Null ELSE s[1]
      /\ last = IF Len(s) = 0 THEN Null ELSE s[Len(s)]
  BY LenProperties DEF IsList, QueueAssumption
<1>2. /\ r \in Seq(QueueThreads) /\ Len(r) = Len(s) + 1 /\ r[Len(s) + 1] = t
      /\ \A i \in 1..Len(s) : r[i] = s[i]
  BY <1>1 DEF IsList
<1>3. /\ f_next' = IF last # Null THEN [f_next EXCEPT ![t] = Null, ![last] = t]
                                  ELSE [f_next EXCEPT ![t] = Null]
      /\ first' = IF last # Null THEN first ELSE t
      /\ last' = t /\ held' = held \ {t} /\ pref' = pref
  BY DEF Queue!PushBack
<1> HIDE DEF r
<1>4. \A i \in 1..Len(r) : i \in 1..Len(s) \/ i = Len(s) + 1
  BY <1>1, <1>2
<1>5. \A i \in 1..Len(s) : i \in 1..Len(r) /\ i # Len(s) + 1
  BY <1>1, <1>2
<1>6. \A i, j \in 1..Len(r) : r[i] = r[j] => i = j
  BY <1>1, <1>2, <1>4
<1>7. held' \subseteq QueueThreads /\ pref' \in [QueueThreads -> Cores \cup {NoCore}]
  BY <1>3 DEF IsList
<1>8. ASSUME NEW u \in QueueThreads PROVE u \notin held' <=> \E i \in 1..Len(r) : r[i] = u
  <2>1. u \notin held <=> \E i \in 1..Len(s) : s[i] = u
    BY DEF IsList
  <2>2. Len(s) + 1 \in 1..Len(r)
    BY <1>1, <1>2
  <2>3. QED
    BY <1>2, <1>3, <1>4, <1>5, <2>1, <2>2
<1>9. last # Null <=> Len(s) # 0
  BY <1>1
<1>10. /\ first' = IF Len(r) = 0 THEN Null ELSE r[1]
       /\ last' = IF Len(r) = 0 THEN Null ELSE r[Len(r)]
  BY <1>1, <1>2, <1>3, <1>9
<1>11. f_next' \in [QueueThreads -> QueueThreads \cup {Null}]
  BY <1>1, <1>3, <1>9
<1>12. ASSUME NEW i \in 1..Len(r)
       PROVE  f_next'[r[i]] = IF i = Len(r) THEN Null ELSE r[i + 1]
  <2>1. CASE i = Len(s) + 1
    <3>0. t # Null
      BY <1>1 DEF QueueAssumption
    <3>1. last # t
      <4>1. Len(s) # 0 => Len(s) \in 1..Len(s)
        BY <1>1
      <4>2. QED
        BY <1>1, <3>0, <4>1
    <3>2. f_next'[t] = Null
      BY <1>1, <1>3, <3>1
    <3>3. QED
      BY <1>2, <2>1, <3>2
  <2>2. CASE i \in 1..Len(s)
    <3>1. r[i] = s[i] /\ s[i] # t /\ i # Len(r) /\ last # Null
      BY <1>1, <1>2, <1>9, <2>2
    <3>2. CASE i = Len(s)
      <4>1. s[i] = last /\ f_next'[last] = t
        BY <1>1, <1>3, <2>2, <3>1, <3>2
      <4>2. QED
        BY <1>2, <3>1, <3>2, <4>1
    <3>3. CASE i # Len(s)
      <4>1. s[i] # last /\ i + 1 \in 1..Len(s)
        BY <1>1, <2>2, <3>3
      <4>2. f_next'[s[i]] = s[i + 1]
        BY <1>1, <1>3, <2>2, <3>1, <3>3, <4>1
      <4>3. QED
        BY <1>2, <3>1, <4>1, <4>2
    <3>4. QED
      BY <3>2, <3>3
  <2>3. QED
    BY <1>4, <2>1, <2>2
<1>13. IsList(r)'
  BY <1>2, <1>6, <1>7, <1>8, <1>10, <1>11, <1>12 DEF IsList
<1>14. QED
  BY <1>1, <1>13 DEF r

\* The abstract choice on one core is the one of the code.
LEMMA ChoiceIs ==
    ASSUME QueueAssumption, NEW c, NEW s, IsList(s)
    PROVE  /\ Queue!GetOptimalOwn(c) =>
                \E p \in 1..Len(s) :
                    /\ p # 1 /\ p = Queue!Abstract!BestOf(s, pref, c) /\ pref[s[p]] = c
                    /\ Queue!Unlink(p - 1, s[p - 1]) /\ Queue!Node[p - 1] = s[p] /\ pref' = pref
           /\ Queue!GetOptimalOther(c) /\ ~severed' =>
                /\ 1 \in 1..Len(s) /\ 1 = Queue!Abstract!BestOf(s, pref, c)
                /\ Queue!Node[0] = s[1] /\ pref' = [pref EXCEPT ![s[1]] = c]
                /\ \E z : Queue!Unlink(0, z)
<1>1. Len(s) \in Nat /\ \A i \in 1..Len(s) : s[i] \in QueueThreads
  BY LenProperties DEF IsList
<1>2. /\ \A k \in 0..Len(s) : k < Len(s) => Queue!Node[k] = s[k + 1]
      /\ Queue!Walked = 0..(Len(s) - 1)
  BY WalkSees
<1>3. \A k \in Queue!Walked : k \in Nat /\ k + 1 \in 1..Len(s) /\ Queue!Node[k] = s[k + 1]
  BY <1>1, <1>2
<1>4. \A i \in 1..Len(s) : i - 1 \in Queue!Walked /\ (i - 1) + 1 = i
  BY <1>1, <1>2
<1>5. \A x : Queue!Abstract!Preferring(s, pref, x) = {i \in 1..Len(s) : pref[s[i]] = x}
  BY DEF Queue!Abstract!Preferring
<1>6. \A k : k \in Queue!Own(c) <=> k \in Queue!Walked /\ pref[Queue!Node[k]] = c
  BY DEF Queue!Own
<1> DEFINE P == Queue!Abstract!Preferring(s, pref, c)
           O == Queue!Own(c)
<1>7. P \in SUBSET Nat /\ O \in SUBSET Nat
  BY <1>1, <1>3, <1>5, <1>6
<1>8. \A k \in O : k + 1 \in P
  BY <1>3, <1>5, <1>6
<1>9. \A i \in P : i - 1 \in O /\ (i - 1) + 1 = i
  <2>1. SUFFICES ASSUME NEW i \in P PROVE i - 1 \in O /\ (i - 1) + 1 = i
    OBVIOUS
  <2>2. i \in 1..Len(s) /\ pref[s[i]] = c
    BY <1>5
  <2>3. i - 1 \in Queue!Walked /\ (i - 1) + 1 = i
    BY <1>4, <2>2
  <2>4. Queue!Node[i - 1] = s[i]
    BY <1>3, <2>3
  <2>5. QED
    BY <1>6, <2>2, <2>3, <2>4
<1>10. Queue!Abstract!BestOf(s, pref, c) =
            IF P # {} THEN Queue!Abstract!Min(P)
            ELSE IF Queue!Abstract!Preferring(s, pref, NoCore) # {}
                 THEN Queue!Abstract!Min(Queue!Abstract!Preferring(s, pref, NoCore))
                 ELSE 1
  BY DEF Queue!Abstract!BestOf
<1>11. ASSUME Queue!GetOptimalOwn(c)
       PROVE  \E p \in 1..Len(s) :
                    /\ p # 1 /\ p = Queue!Abstract!BestOf(s, pref, c) /\ pref[s[p]] = c
                    /\ Queue!Unlink(p - 1, s[p - 1]) /\ Queue!Node[p - 1] = s[p] /\ pref' = pref
  <2>1. /\ O # {} /\ 0 \notin O /\ pref' = pref
        /\ Queue!Unlink(Queue!Min(O), Queue!Node[Queue!Min(O) - 1])
    BY <1>11 DEF Queue!GetOptimalOwn
  <2> HIDE DEF P, O
  <2>2. PICK m \in O : \A x \in O : m <= x
    BY <1>7, <2>1, LeastOf
  <2>3. Queue!Min(O) = m
    BY <1>7, <2>2, MinIs
  <2>4. m \in Nat /\ m # 0 /\ m + 1 \in P
    BY <1>7, <1>8, <2>1, <2>2
  <2>5. \A i \in P : m + 1 <= i
    <3>1. SUFFICES ASSUME NEW i \in P PROVE m + 1 <= i
      OBVIOUS
    <3>2. i \in Nat /\ i - 1 \in O /\ m <= i - 1
      BY <1>7, <1>9, <2>2
    <3>3. QED
      BY <2>4, <3>2
  <2>6. Queue!Abstract!Min(P) = m + 1
    BY <1>7, <2>4, <2>5, MinIs
  <2>7. Queue!Abstract!BestOf(s, pref, c) = m + 1
    BY <1>10, <2>4, <2>6
  <2>8. /\ m \in Queue!Walked /\ m + 1 \in 1..Len(s) /\ Queue!Node[m] = s[m + 1]
        /\ pref[s[m + 1]] = c
    BY <1>3, <1>6, <2>2 DEF O
  <2>9. Queue!Node[m - 1] = s[m]
    <3>1. m \in 1..Len(s)
      BY <1>1, <2>4, <2>8
    <3>2. QED
      BY <1>3, <1>4, <3>1
  <2>10. PICK p \in 1..Len(s) : p = m + 1
    BY <2>8
  <2>11. p # 1 /\ p - 1 = m
    BY <2>4, <2>10
  <2>12. Queue!Unlink(p - 1, s[p - 1])
    BY <2>1, <2>3, <2>9, <2>11
  <2>13. QED
    BY <2>1, <2>7, <2>8, <2>10, <2>11, <2>12
<1>12. ASSUME Queue!GetOptimalOther(c), ~severed'
       PROVE  /\ 1 \in 1..Len(s) /\ 1 = Queue!Abstract!BestOf(s, pref, c)
              /\ Queue!Node[0] = s[1] /\ pref' = [pref EXCEPT ![s[1]] = c]
              /\ \E z : Queue!Unlink(0, z)
  <2>1. /\ Queue!Walked # {} /\ (O = {} \/ 0 \in O)
        /\ \E z : Queue!Unlink(Queue!FrontOrNew(c), z)
        /\ pref' = [pref EXCEPT ![Queue!Node[Queue!FrontOrNew(c)]] = c]
        /\ Queue!FrontOrNew(c) = 0
    BY <1>12 DEF Queue!GetOptimalOther
  <2>2. 1 \in 1..Len(s) /\ 0 \in Queue!Walked /\ Queue!Node[0] = s[1]
    BY <1>1, <1>2, <2>1
  <2>3. \A k : k \in Queue!NeverRan <=> k \in Queue!Walked /\ pref[Queue!Node[k]] = NoCore
    BY DEF Queue!NeverRan
  <2>5. Queue!NeverRan \in SUBSET Nat
    BY <1>3, <2>3
  <2>6. O = {} /\ Queue!NeverRan # {} => 0 \in Queue!NeverRan
    <3>1. SUFFICES ASSUME O = {}, Queue!NeverRan # {} PROVE 0 \in Queue!NeverRan
      OBVIOUS
    <3>2. Queue!Min(Queue!NeverRan) = 0
      BY <2>1, <3>1 DEF Queue!FrontOrNew
    <3>3. PICK m \in Queue!NeverRan : \A x \in Queue!NeverRan : m <= x
      BY <2>5, <3>1, LeastOf
    <3>4. Queue!Min(Queue!NeverRan) = m
      BY <2>5, <3>3, MinIs
    <3>5. QED
      BY <3>2, <3>3, <3>4
  <2>7. 1 = Queue!Abstract!BestOf(s, pref, c)
    <3>1. CASE O = {}
      <4> DEFINE Q == Queue!Abstract!Preferring(s, pref, NoCore)
      <4>1. P = {}
        BY <1>9, <3>1
      <4>2. \A i \in Q : i \in 1..Len(s) /\ pref[s[i]] = NoCore
        BY <1>5
      <4>3. Q # {} => 1 \in Q
        <5>1. SUFFICES ASSUME NEW i \in Q PROVE 1 \in Q
          OBVIOUS
        <5>2. i - 1 \in Queue!Walked /\ (i - 1) + 1 = i
          BY <1>4, <4>2
        <5>3. i - 1 \in Queue!NeverRan
          BY <1>3, <2>3, <4>2, <5>2
        <5>4. pref[s[1]] = NoCore
          BY <2>2, <2>3, <2>6, <3>1, <5>3
        <5>5. QED
          BY <1>5, <2>2, <5>4
      <4>4. Q \in SUBSET Nat /\ \A x \in Q : 1 <= x
        BY <1>1, <4>2
      <4> HIDE DEF Q
      <4>5. Q # {} => Queue!Abstract!Min(Q) = 1
        BY <4>3, <4>4, MinIs
      <4> HIDE DEF P
      <4>6. QED
        BY <1>10, <4>1, <4>5 DEF Q
    <3>2. CASE O # {}
      <4> HIDE DEF P, O
      <4>1. 1 \in P
        BY <1>8, <2>1, <3>2
      <4>2. \A x \in P : 1 <= x
        BY <1>1, <1>5 DEF P
      <4>3. Queue!Abstract!Min(P) = 1
        BY <1>7, <4>1, <4>2, MinIs
      <4>4. QED
        BY <1>10, <4>1, <4>3
    <3>3. QED
      BY <3>1, <3>2
  <2>8. QED
    BY <2>1, <2>2, <2>7
<1>13. QED
  BY <1>11, <1>12

\* A core takes the thread at the abstract choice p.
LEMMA TakeList ==
    ASSUME QueueAssumption, NEW c \in Cores, NEW s, IsList(s), NEW p \in 1..Len(s),
           p = Queue!Abstract!BestOf(s, pref, c), Queue!Node[p - 1] = s[p], NEW z,
           Queue!Unlink(p - 1, z), p # 1 => z = s[p - 1],
           pref' = [pref EXCEPT ![s[p]] = c]
    PROVE  (\E r : IsList(r)') /\ Queue!Abstract!Take(c)
<1> DEFINE r == Queue!Abstract!RemoveAt(s, p)
<1>1. s \in Seq(QueueThreads) /\ Len(s) \in Nat /\ s[p] \in QueueThreads
  BY LenProperties DEF IsList
<1>2. IsWithout(r, s, p)
  BY <1>1, RemoveIs
<1>3. p - 1 = 0 <=> p = 1
  BY <1>1
<1>4. pref' \in [QueueThreads -> Cores \cup {NoCore}]
  BY <1>1 DEF IsList
<1>5. /\ first' = IF p = 1 THEN f_next[s[p]] ELSE first
      /\ f_next' = IF p = 1 THEN [f_next EXCEPT ![s[p]] = Null]
                   ELSE [f_next EXCEPT ![s[p-1]] = f_next[s[p]], ![s[p]] = Null]
      /\ last' = IF s[p] # last THEN last ELSE IF p = 1 THEN Null ELSE s[p-1]
      /\ held' = held \cup {s[p]}
  BY <1>3 DEF Queue!Unlink
<1> HIDE DEF r
<1>6. IsList(r)'
  BY <1>2, <1>4, <1>5, UnlinkList
<1>7. Queue!Listed = s /\ (Queue!Listed)' = r
  BY <1>6, WalkSees, WalkSeesNext
<1>8. s # <<>>
  BY <1>1, EmptySeq
<1>9. Queue!Abstract!Take(c)
  BY <1>7, <1>8 DEF Queue!Abstract!Take, r
<1>10. QED
  BY <1>6, <1>9

QueueInv == severed \in BOOLEAN /\ (~severed => \E s : IsList(s))

\* The empty list is the empty queue.
LEMMA QueueInit ==
    ASSUME QueueAssumption, Queue!Init PROVE QueueInv /\ ~severed /\ Queue!Abstract!Init
<1>1. IsList(<<>>)
  BY EmptySeq DEF Queue!Init, IsList
<1>2. Queue!Listed = <<>>
  BY <1>1, WalkSees
<1>3. QED
  BY <1>1, <1>2 DEF QueueInv, Queue!Init, Queue!Abstract!Init

\* Every step that does not sever keeps the list sound and is a step, or a stutter, of the
\* abstract queue; what is severed stays severed.
LEMMA QueueStep ==
    ASSUME QueueAssumption, QueueInv, [Queue!Next]_(Queue!vars)
    PROVE  /\ QueueInv'
           /\ ~severed' => ~severed /\ [Queue!Abstract!Next]_(Queue!Abstract!queueVars)
<1>0. severed' \in BOOLEAN /\ (severed => severed')
  BY DEF QueueInv, Queue!Next, Queue!vars, Queue!PushBack, Queue!GetOptimalOwn, Queue!GetOptimalOther
<1> SUFFICES ASSUME ~severed'
             PROVE  (\E r : IsList(r)') /\ [Queue!Abstract!Next]_(Queue!Abstract!queueVars)
  BY <1>0 DEF QueueInv
<1>1. PICK s : IsList(s)
  BY <1>0 DEF QueueInv
<1>3. ASSUME NEW t \in held, Queue!PushBack(t) PROVE (\E r : IsList(r)') /\ Queue!Abstract!Next
  <2>1. IsList(Append(s, t))' /\ t \in QueueThreads /\ \A i \in 1..Len(s) : s[i] # t
    BY <1>1, <1>3, PushList
  <2>2. Queue!Listed = s /\ (Queue!Listed)' = Append(s, t)
    BY <1>1, <2>1, WalkSees, WalkSeesNext
  <2>3. t \notin Queue!Abstract!ToSet(s)
    <3>1. DOMAIN s = 1..Len(s)
      BY <1>1, LenProperties DEF IsList
    <3>2. QED
      BY <2>1, <3>1 DEF Queue!Abstract!ToSet
  <2>4. pref' = pref
    BY <1>3 DEF Queue!PushBack
  <2>5. Queue!Abstract!Push(t)
    BY <2>2, <2>3, <2>4 DEF Queue!Abstract!Push
  <2>6. QED
    BY <2>1, <2>5 DEF Queue!Abstract!Next
<1>4. ASSUME NEW c \in Cores, Queue!GetOptimalOwn(c)
      PROVE  (\E r : IsList(r)') /\ Queue!Abstract!Next
  <2>1. PICK p \in 1..Len(s) :
            /\ p # 1 /\ p = Queue!Abstract!BestOf(s, pref, c) /\ pref[s[p]] = c
            /\ Queue!Unlink(p - 1, s[p - 1]) /\ Queue!Node[p - 1] = s[p] /\ pref' = pref
    BY <1>1, <1>4, ChoiceIs
  <2>2. pref' = [pref EXCEPT ![s[p]] = c]
    BY <1>1, <2>1 DEF IsList
  <2>4. (\E r : IsList(r)') /\ Queue!Abstract!Take(c)
    BY <1>1, <2>1, <2>2, TakeList
  <2>5. QED
    BY <2>4 DEF Queue!Abstract!Next
<1>5. ASSUME NEW c \in Cores, Queue!GetOptimalOther(c)
      PROVE  (\E r : IsList(r)') /\ Queue!Abstract!Next
  <2>1. /\ 1 \in 1..Len(s) /\ 1 = Queue!Abstract!BestOf(s, pref, c)
        /\ Queue!Node[0] = s[1] /\ pref' = [pref EXCEPT ![s[1]] = c]
        /\ \E z : Queue!Unlink(0, z)
    BY <1>1, <1>5, ChoiceIs
  <2>2. PICK z : Queue!Unlink(0, z)
    BY <2>1
  <2>3. PICK p \in 1..Len(s) : p = 1
    BY <2>1
  <2>4. p - 1 = 0
    BY <2>3
  <2>5. (\E r : IsList(r)') /\ Queue!Abstract!Take(c)
    BY <1>1, <2>1, <2>2, <2>3, <2>4, TakeList
  <2>6. QED
    BY <2>5 DEF Queue!Abstract!Next
<1>6. ASSUME UNCHANGED Queue!vars
      PROVE  (\E r : IsList(r)') /\ UNCHANGED Queue!Abstract!queueVars
  <2>1. IsList(s)' /\ pref' = pref
    BY <1>1, <1>6 DEF IsList, Queue!vars
  <2>2. Queue!Listed = s /\ (Queue!Listed)' = s
    BY <1>1, <2>1, WalkSees, WalkSeesNext
  <2>3. QED
    BY <2>1, <2>2 DEF Queue!Abstract!queueVars
<1>7. QED
  BY <1>3, <1>4, <1>5, <1>6 DEF Queue!Next

\* For any number of threads and of cores: the list of ThreadQueue, through every push_back()
\* and every get_optimal_thread(), is the sequence the scheduler expects (RunQueue): arrival
\* order, choice by affinity, and the thread taken is the only one that leaves
\* (thread_queue.hpp:63, 114), up to the first step that unlinks a thread at
\* thread_queue.hpp:141 from a node that is not before it.
THEOREM RefinesRunQueue ==
    Queue!Spec => ImplementsRunQueue
<1>1. QueueAssumption
  BY LibraryAssumption
<1>2. Queue!Init => QueueInv /\ Queue!Abstract!Init
  BY <1>1, QueueInit
<1>3. QueueInv /\ [Queue!Next]_(Queue!vars) =>
          QueueInv' /\ [severed' \/ Queue!Abstract!Next]_<<Queue!Abstract!queueVars, severed>>
  <2>1. SUFFICES ASSUME QueueInv, [Queue!Next]_(Queue!vars)
                 PROVE  QueueInv' /\ [severed' \/ Queue!Abstract!Next]_<<Queue!Abstract!queueVars, severed>>
    OBVIOUS
  <2>2. /\ QueueInv'
        /\ ~severed' => ~severed /\ [Queue!Abstract!Next]_(Queue!Abstract!queueVars)
    BY <1>1, <2>1, QueueStep
  <2>3. severed' \in BOOLEAN /\ severed \in BOOLEAN
    BY <2>1, <2>2 DEF QueueInv
  <2>4. QED
    BY <2>2, <2>3
<1>5. QED
  BY <1>2, <1>3, PTL DEF Queue!Spec, ImplementsRunQueue, Queue!ImplementsRunQueue

\* With one core nothing is severed: a thread in the queue that ran before ran there.
LEMMA NeverSevered ==
    ASSUME QueueAssumption, NEW c, Cores = {c}, QueueInv, ~severed, [Queue!Next]_(Queue!vars)
    PROVE  ~severed'
<1>1. PICK s : IsList(s)
  BY DEF QueueInv
<1>2. SUFFICES ASSUME Queue!GetOptimalOther(c) PROVE Queue!FrontOrNew(c) = 0
  BY DEF Queue!Next, Queue!vars, Queue!PushBack, Queue!GetOptimalOwn, Queue!GetOptimalOther
<1>3. SUFFICES ASSUME Queue!Own(c) = {}, Queue!NeverRan # {} PROVE Queue!Min(Queue!NeverRan) = 0
  BY DEF Queue!FrontOrNew
<1>4. Len(s) \in Nat /\ \A i \in 1..Len(s) : s[i] \in QueueThreads
  BY <1>1, LenProperties DEF IsList
<1>5. /\ \A k \in 0..Len(s) : k < Len(s) => Queue!Node[k] = s[k + 1]
      /\ Queue!Walked = 0..(Len(s) - 1) /\ Queue!Walked # {}
  BY <1>1, <1>2, WalkSees DEF Queue!GetOptimalOther
<1>6. 0 \in Queue!Walked /\ Queue!Node[0] = s[1] /\ 1 \in 1..Len(s)
  BY <1>4, <1>5
<1>7. pref[s[1]] = c \/ pref[s[1]] = NoCore
  BY <1>1, <1>4, <1>6 DEF IsList
<1>8. 0 \in Queue!NeverRan
  BY <1>3, <1>6, <1>7 DEF Queue!Own, Queue!NeverRan
<1>9. Queue!NeverRan \in SUBSET Nat /\ \A x \in Queue!NeverRan : 0 <= x
  BY <1>4, <1>5 DEF Queue!NeverRan
<1>10. QED
  BY <1>8, <1>9, MinIs

\* On a machine with one core the list is the expected sequence without exception.
THEOREM RefinesOnOneCore ==
    (\E c : Cores = {c}) /\ Queue!Spec => Queue!Abstract!Spec
<1> DEFINE OneCore == \E c : Cores = {c}
<1>1. QueueAssumption
  BY LibraryAssumption
<1>2. Queue!Init => QueueInv /\ ~severed /\ Queue!Abstract!Init
  BY <1>1, QueueInit
<1>3. OneCore /\ QueueInv /\ ~severed /\ [Queue!Next]_(Queue!vars) =>
          /\ QueueInv' /\ ~severed' /\ [Queue!Abstract!Next]_(Queue!Abstract!queueVars)
  BY <1>1, QueueStep, NeverSevered
<1>4. OneCore => OneCore'
  OBVIOUS
<1> HIDE DEF OneCore
<1>5. OneCore /\ Queue!Spec => Queue!Abstract!Spec
  BY <1>2, <1>3, <1>4, PTL DEF Queue!Spec, Queue!Abstract!Spec
<1>6. QED
  BY <1>5 DEF OneCore

-----------------------------------------------------------------------------
(* Semaphores.  The conservation of permits is almost inductive; it needs  *)
(* one more fact, that undone decrements never outnumber what they         *)
(* borrowed (NoOverdraft), to bound the holders.                           *)

\* What f_current would be if no failed decrement were outstanding is not negative.
NoOverdraft == f_current + Cardinality(Undoing) >= 0

SemaphoreShape ==
    /\ f_current \in Int
    /\ at \in [Threads -> Locations]

\* Thread t moves to l.
Moves(t, l) == at' = [at EXCEPT ![t] = l]

SemaphoreInv == SemaphoreShape /\ PermitsConserved /\ NoOverdraft

\* The sets of holders and of undoing threads are finite.
LEMMA PartsFinite ==
    /\ IsFiniteSet(Holders) /\ Cardinality(Holders) \in Nat
    /\ IsFiniteSet(Undoing) /\ Cardinality(Undoing) \in Nat
<1>1. Holders \in SUBSET Threads /\ Undoing \in SUBSET Threads
  BY DEF Holders, Undoing
<1>2. QED
  BY <1>1, FS_Subset, FS_CardinalityType, SemaphoreAssumption

\* How one thread's move changes the two sets and their sizes.
LEMMA OneMoves ==
    ASSUME SemaphoreShape, NEW t \in Threads, NEW l \in Locations, Moves(t, l)
    PROVE  /\ at' \in [Threads -> Locations]
           /\ Cardinality(Holders)' = Cardinality(Holders)
                - (IF at[t] = "in" THEN 1 ELSE 0) + (IF l = "in" THEN 1 ELSE 0)
           /\ Cardinality(Undoing)' = Cardinality(Undoing)
                - (IF at[t] = "undo" THEN 1 ELSE 0) + (IF l = "undo" THEN 1 ELSE 0)
<1>1. at' \in [Threads -> Locations]
  BY DEF SemaphoreShape, Moves
<1>2. Holders' = IF l = "in" THEN Holders \cup {t} ELSE Holders \ {t}
  BY DEF Holders, SemaphoreShape, Moves
<1>3. Undoing' = IF l = "undo" THEN Undoing \cup {t} ELSE Undoing \ {t}
  BY DEF Undoing, SemaphoreShape, Moves
<1>4. (t \in Holders <=> at[t] = "in") /\ (t \in Undoing <=> at[t] = "undo")
  BY DEF Holders, Undoing
<1>5. /\ Cardinality(Holders \cup {t}) =
            IF t \in Holders THEN Cardinality(Holders) ELSE Cardinality(Holders) + 1
      /\ Cardinality(Holders \ {t}) =
            IF t \in Holders THEN Cardinality(Holders) - 1 ELSE Cardinality(Holders)
  BY PartsFinite, FS_AddElement, FS_RemoveElement
<1>6. /\ Cardinality(Undoing \cup {t}) =
            IF t \in Undoing THEN Cardinality(Undoing) ELSE Cardinality(Undoing) + 1
      /\ Cardinality(Undoing \ {t}) =
            IF t \in Undoing THEN Cardinality(Undoing) - 1 ELSE Cardinality(Undoing)
  BY PartsFinite, FS_AddElement, FS_RemoveElement
<1>7. Cardinality(Holders)' = Cardinality(Holders)
                - (IF at[t] = "in" THEN 1 ELSE 0) + (IF l = "in" THEN 1 ELSE 0)
  BY <1>2, <1>4, <1>5, PartsFinite
<1>8. Cardinality(Undoing)' = Cardinality(Undoing)
                - (IF at[t] = "undo" THEN 1 ELSE 0) + (IF l = "undo" THEN 1 ELSE 0)
  BY <1>3, <1>4, <1>6, PartsFinite
<1>9. QED
  BY <1>1, <1>7, <1>8

LEMMA SemaphoreInit == Init => SemaphoreInv
<1> SUFFICES ASSUME Init PROVE SemaphoreInv
  OBVIOUS
<1>1. SemaphoreShape
  BY SemaphoreAssumption DEF Init, SemaphoreShape, Locations
<1>2. Holders = {} /\ Undoing = {}
  BY DEF Init, Holders, Undoing
<1>3. QED
  BY <1>1, <1>2, FS_EmptySet, SemaphoreAssumption
     DEF Init, SemaphoreInv, PermitsConserved, NoOverdraft

LEMMA SemaphoreStep == SemaphoreInv /\ [Next]_vars => SemaphoreInv'
<1> SUFFICES ASSUME SemaphoreInv, [Next]_vars PROVE SemaphoreInv'
  OBVIOUS
<1>1. ASSUME NEW t \in Threads, at[t] = "out", Call(t) PROVE SemaphoreInv'
  <2>1. Moves(t, "load") /\ "load" \in Locations
    BY <1>1 DEF Call, Locations, Moves
  <2>2. /\ at' \in [Threads -> Locations]
        /\ Cardinality(Holders)' = Cardinality(Holders)
        /\ Cardinality(Undoing)' = Cardinality(Undoing)
    BY <1>1, <2>1, OneMoves, PartsFinite DEF SemaphoreInv, Call
  <2>3. QED
    BY <1>1, <2>2, PartsFinite, SemaphoreAssumption
       DEF Call, SemaphoreInv, SemaphoreShape, PermitsConserved, NoOverdraft
<1>2. ASSUME NEW t \in Threads, Load(t) PROVE SemaphoreInv'
  <2>1. PICK l \in {"load", "sub"} : Moves(t, l)
    BY <1>2 DEF Load, Moves
  <2>2. l \in Locations /\ l \notin {"in", "undo"}
    BY DEF Locations
  <2>3. /\ at' \in [Threads -> Locations]
        /\ Cardinality(Holders)' = Cardinality(Holders)
        /\ Cardinality(Undoing)' = Cardinality(Undoing)
    BY <1>2, <2>1, <2>2, OneMoves, PartsFinite DEF SemaphoreInv, Load
  <2>4. QED
    BY <1>2, <2>3, PartsFinite, SemaphoreAssumption
       DEF Load, SemaphoreInv, SemaphoreShape, PermitsConserved, NoOverdraft
<1>3. ASSUME NEW t \in Threads, Sub(t) PROVE SemaphoreInv'
  <2>1. CASE f_current > 0
    <3>1. Moves(t, "in") /\ "in" \in Locations
      BY <1>3, <2>1 DEF Sub, Locations, Moves
    <3>2. /\ at' \in [Threads -> Locations]
          /\ Cardinality(Holders)' = Cardinality(Holders) + 1
          /\ Cardinality(Undoing)' = Cardinality(Undoing)
      BY <1>3, <3>1, OneMoves, PartsFinite DEF SemaphoreInv, Sub
    <3>3. QED
      BY <1>3, <2>1, <3>2, PartsFinite, SemaphoreAssumption
         DEF Sub, SemaphoreInv, SemaphoreShape, PermitsConserved, NoOverdraft
  <2>2. CASE ~(f_current > 0)
    <3>1. Moves(t, "undo") /\ "undo" \in Locations
      BY <1>3, <2>2 DEF Sub, Locations, Moves
    <3>2. /\ at' \in [Threads -> Locations]
          /\ Cardinality(Holders)' = Cardinality(Holders)
          /\ Cardinality(Undoing)' = Cardinality(Undoing) + 1
      BY <1>3, <3>1, OneMoves, PartsFinite DEF SemaphoreInv, Sub
    <3>3. QED
      BY <1>3, <2>2, <3>2, PartsFinite, SemaphoreAssumption
         DEF Sub, SemaphoreInv, SemaphoreShape, PermitsConserved, NoOverdraft
  <2>3. QED
    BY <2>1, <2>2
<1>4. ASSUME NEW t \in Threads, Undo(t) PROVE SemaphoreInv'
  <2>1. Moves(t, "load") /\ "load" \in Locations
    BY <1>4 DEF Undo, Locations, Moves
  <2>2. /\ at' \in [Threads -> Locations]
        /\ Cardinality(Holders)' = Cardinality(Holders)
        /\ Cardinality(Undoing)' = Cardinality(Undoing) - 1
    BY <1>4, <2>1, OneMoves, PartsFinite DEF SemaphoreInv, Undo
  <2>3. QED
    BY <1>4, <2>2, PartsFinite, SemaphoreAssumption
       DEF Undo, SemaphoreInv, SemaphoreShape, PermitsConserved, NoOverdraft
<1>5. ASSUME NEW t \in Threads, at[t] = "in", Release(t) PROVE SemaphoreInv'
  <2>1. Moves(t, "out") /\ "out" \in Locations
    BY <1>5 DEF Release, Locations, Moves
  <2>2. /\ at' \in [Threads -> Locations]
        /\ Cardinality(Holders)' = Cardinality(Holders) - 1
        /\ Cardinality(Undoing)' = Cardinality(Undoing)
    BY <1>5, <2>1, OneMoves, PartsFinite DEF SemaphoreInv, Release
  <2>3. QED
    BY <1>5, <2>2, PartsFinite, SemaphoreAssumption
       DEF Release, SemaphoreInv, SemaphoreShape, PermitsConserved, NoOverdraft
<1>6. CASE UNCHANGED vars
  <2>1. Holders' = Holders /\ Undoing' = Undoing
    BY <1>6 DEF vars, Holders, Undoing
  <2>2. QED
    BY <1>6, <2>1 DEF vars, SemaphoreInv, SemaphoreShape, PermitsConserved, NoOverdraft
<1>7. QED
  BY <1>1, <1>2, <1>3, <1>4, <1>5, <1>6 DEF Next

LEMMA SemaphoreAlways == Spec => []SemaphoreInv
<1>1. QED
  BY SemaphoreInit, SemaphoreStep, PTL DEF Spec

\* acquire() and release() neither lose nor invent a permit.
THEOREM PermitsAreConserved == Spec => []PermitsConserved
<1>1. SemaphoreInv => PermitsConserved
  BY DEF SemaphoreInv
<1>2. QED
  BY <1>1, SemaphoreAlways, PTL

\* A semaphore of n permits lets at most n threads past acquire().
THEOREM CapacityHolds == Spec => []Capacity
<1>1. SemaphoreInv => Capacity
  BY PartsFinite, SemaphoreAssumption
     DEF SemaphoreInv, SemaphoreShape, PermitsConserved, NoOverdraft, Capacity
<1>2. QED
  BY <1>1, SemaphoreAlways, PTL

\* The assertion in release() never fails.
THEOREM ReleaseNeverAsserts == Spec => []ReleaseAssert
<1>1. SemaphoreInv => ReleaseAssert
  <2> SUFFICES ASSUME SemaphoreInv, NEW t \in Threads, at[t] = "in" PROVE f_current < f_max
    BY DEF ReleaseAssert
  <2>1. Cardinality(Holders) # 0
    BY PartsFinite, FS_EmptySet DEF Holders
  <2>2. QED
    BY <2>1, PartsFinite, SemaphoreAssumption DEF SemaphoreInv, SemaphoreShape, PermitsConserved
<1>2. QED
  BY <1>1, SemaphoreAlways, PTL

\* The counter stays within the bounds an atomic_int has to hold: it drops below
\* zero by at most the number of threads and never exceeds f_max.
THEOREM TypeCorrect == Spec => []TypeOK
<1>1. SemaphoreInv => TypeOK
  <2> SUFFICES ASSUME SemaphoreInv PROVE TypeOK
    OBVIOUS
  <2>1. IsFiniteSet(Threads) /\ Cardinality(Threads) \in Nat
    BY FS_CardinalityType, SemaphoreAssumption
  <2>2. Holders \in SUBSET Threads
    BY DEF Holders
  <2>3. Cardinality(Undoing) <= Cardinality(Threads)
    <3>1. Undoing \in SUBSET Threads
      BY DEF Undoing
    <3>2. QED
      BY <3>1, <2>1, FS_Subset
  <2>4. QED
    BY <2>1, <2>3, PartsFinite, SemaphoreAssumption
       DEF SemaphoreInv, SemaphoreShape, PermitsConserved, NoOverdraft, TypeOK
<1>2. QED
  BY <1>1, SemaphoreAlways, PTL

=============================================================================
