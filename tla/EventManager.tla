----------------------------- MODULE EventManager ------------------------------
(***************************************************************************)
(* kernel::EventManager (src/kernel/src/event/event_manager.cpp): threads  *)
(* raise events into a queue under f_lock, one event loop takes them out,  *)
(* fires the handlers and itself raises two kinds of meta events:          *)
(* EVENT_PROCESSED_EVENT after every ordinary event, EVENT_QUEUE_EMPTY     *)
(* when it runs dry.  wait() and raise_wait() put a Wait on f_event_waits  *)
(* and sleep.  The loop looks at the size of the queue without the lock.   *)
(***************************************************************************)
EXTENDS Integers, Sequences

CONSTANTS
    Clients,    \* threads that raise events and wait for them
    Loop,       \* the event loop's thread
    NoThread,   \* f_lock is free
    Idents,     \* identifiers of ordinary events, "sync" is EVENT_SYNC
    Handlers,   \* f_handlers: the names of the handlers of each identifier; the
                \* constructor registers "sync_event_handler" for "sync", and does
                \* not register event_processed_handler
    MaxRaises   \* bound on the ordinary events of a behaviour

AnyEvent == "any"    \* identifier 0 or eid 0 of a Wait
Actors == Clients \cup {Loop}
AllIdents == Idents \cup {"processed", "queue_empty"}

VARIABLES
    f_lock,             \* the thread that holds f_lock
    f_event_queue,      \* a sequence of events
    f_next_eid,
    f_processing_event,
    f_event_waits,      \* a sequence of Waits [ident, eid, thread]
    pc,                 \* where each thread is
    ev,                 \* the event a thread is raising, or is asleep on
    ret,                \* where raise() returns to
    cur,                \* the loop's event, and
    h,                  \* the index of its next handler
    done,               \* the events the loop has finished with, in order
    raises              \* how many ordinary events were raised

loopvars == <<f_processing_event, cur, h, done>>
vars == <<f_lock, f_event_queue, f_next_eid, f_event_waits, pc, ev, ret, raises, loopvars>>

\* An event; of is the first argument of a PROCESSED_EVENT.
Event(ident, meta, of) == [ident |-> ident, meta |-> meta, of |-> of, eid |-> 0]
NoEvent == Event("none", TRUE, 0)

Init ==
    /\ f_lock = NoThread
    /\ f_event_queue = <<>>
    /\ f_next_eid = 1
    /\ f_processing_event = FALSE
    /\ f_event_waits = <<>>
    /\ pc = [t \in Actors |-> IF t = Loop THEN "check" ELSE "idle"]
    /\ ev = [t \in Actors |-> NoEvent]
    /\ ret = [t \in Actors |-> "idle"]
    /\ cur = NoEvent
    /\ h = 1
    /\ done = <<>>
    /\ raises = 0

\* t calls raise(e) and goes on at r.
CallRaise(t, e, r) ==
    /\ pc' = [pc EXCEPT ![t] = "lock"]
    /\ ev' = [ev EXCEPT ![t] = e]
    /\ ret' = [ret EXCEPT ![t] = r]

\* The waits event_processed_handler ends: it compares each wait with the
\* identifier and the id of the meta event itself.
Ended(w, e) == w.ident \in {AnyEvent, e.ident} /\ w.eid \in {0, e.eid}

\* The effect of handler f on the waits: its threads are woken.
EndWaits(f, e) ==
    IF f = "event_processed_handler"
    THEN {k \in DOMAIN f_event_waits : Ended(f_event_waits[k], e)}
    ELSE {}
StillWaiting(f, e) ==
    IF f = "event_processed_handler"
    THEN SelectSeq(f_event_waits, LAMBDA w : ~Ended(w, e))
    ELSE f_event_waits
Woken(f, e) ==
    [t \in Actors |->
        IF \E k \in EndWaits(f, e) : f_event_waits[k].thread = t THEN "idle" ELSE pc[t]]

-----------------------------------------------------------------------------
\* Mutated forms of the steps below: plausible slips in event_manager.cpp that
\* the properties must detect.  Spec does not use them.

\* Variant: raise() without the Locker.
MutRaiseLock(t) ==
    /\ pc[t] = "lock"
    /\ f_lock' = IF f_lock = NoThread THEN t ELSE f_lock
    /\ pc' = [pc EXCEPT ![t] = "eid"]
    /\ UNCHANGED <<f_event_queue, f_next_eid, f_event_waits, ev, ret, raises, loopvars>>

\* Variant: the loop halts on an empty queue before it looks at f_processing_event.
MutLoopCheck ==
    /\ pc[Loop] = "check"
    /\ \/ f_event_queue # <<>> /\ pc' = [pc EXCEPT ![Loop] = "pop"]
       \/ f_event_queue = <<>> /\ UNCHANGED pc
    /\ UNCHANGED <<f_lock, f_event_queue, f_next_eid, f_event_waits, f_processing_event,
                   ev, ret, raises, cur, h, done>>

-----------------------------------------------------------------------------
(* The callers *)

\* raise() is called.
Raise(c, ident) ==
    /\ pc[c] = "idle" /\ raises < MaxRaises
    /\ raises' = raises + 1
    /\ CallRaise(c, Event(ident, FALSE, 0), "idle")
    /\ UNCHANGED <<f_lock, f_event_queue, f_next_eid, f_event_waits, loopvars>>

\* raise_wait() is called.
RaiseWait(c, ident) ==
    /\ pc[c] = "idle" /\ raises < MaxRaises
    /\ raises' = raises + 1
    /\ CallRaise(c, Event(ident, FALSE, 0), "sleep")
    /\ UNCHANGED <<f_lock, f_event_queue, f_next_eid, f_event_waits, loopvars>>

\* wait(): the lock is taken and the wait goes on the list.
Wait(c, ident) ==
    /\ pc[c] = "idle" /\ f_lock = NoThread
    /\ f_lock' = c
    /\ f_event_waits' = Append(f_event_waits, [ident |-> ident, eid |-> 0, thread |-> c])
    /\ pc' = [pc EXCEPT ![c] = "sleep"]
    /\ UNCHANGED <<f_event_queue, f_next_eid, ev, ret, raises, loopvars>>

\* The lock of raise() and raise_wait().
RaiseLock(t) ==
    /\ pc[t] = "lock" /\ f_lock = NoThread
    /\ f_lock' = t
    /\ pc' = [pc EXCEPT ![t] = "eid"]
    /\ UNCHANGED <<f_event_queue, f_next_eid, f_event_waits, ev, ret, raises, loopvars>>

\* event->f_local_id = f_next_eid++; raise_wait() submits its wait next.
AssignEid(t) ==
    /\ pc[t] = "eid"
    /\ ev' = [ev EXCEPT ![t].eid = f_next_eid]
    /\ f_next_eid' = f_next_eid + 1
    /\ pc' = [pc EXCEPT ![t] = IF ret[t] = "sleep" THEN "submit" ELSE "push"]
    /\ UNCHANGED <<f_lock, f_event_queue, f_event_waits, ret, raises, loopvars>>

\* raise_wait() puts its wait on the list.
SubmitWait(t) ==
    /\ pc[t] = "submit"
    /\ f_event_waits' =
        Append(f_event_waits, [ident |-> ev[t].ident, eid |-> ev[t].eid, thread |-> t])
    /\ pc' = [pc EXCEPT ![t] = "push"]
    /\ UNCHANGED <<f_lock, f_event_queue, f_next_eid, ev, ret, raises, loopvars>>

\* The event goes on the queue; raise() drops the lock, raise_wait() keeps it.
Push(t) ==
    /\ pc[t] = "push"
    /\ f_event_queue' = Append(f_event_queue, ev[t])
    /\ f_lock' = IF ret[t] = "sleep" THEN f_lock ELSE NoThread
    /\ pc' = [pc EXCEPT ![t] = ret[t]]
    /\ UNCHANGED <<f_next_eid, f_event_waits, ev, ret, raises, loopvars>>

\* The critical section of wait() and raise_wait(): Thread::sleep() takes the thread out of
\* the run queue, the lock is dropped, and the task switch follows.  The running thread is
\* not queued, and erase() looks for it with ++t (thread_queue.hpp:86): it may walk the
\* address space and not return, with f_lock held.
Sleep(t) ==
    /\ pc[t] = "sleep"
    /\ \/ f_lock' = NoThread /\ pc' = [pc EXCEPT ![t] = "asleep"]
       \/ UNCHANGED f_lock /\ pc' = [pc EXCEPT ![t] = "erase"]
    /\ UNCHANGED <<f_event_queue, f_next_eid, f_event_waits, ev, ret, raises, loopvars>>

\* The next ++t of erase().
WalkOn(t) == pc[t] = "erase" /\ UNCHANGED vars

-----------------------------------------------------------------------------
(* The event loop *)

\* The size of the queue is read without the lock.  An empty queue raises
\* QUEUE_EMPTY once; after that the loop halts until an interrupt, and looks again.
LoopCheck ==
    /\ pc[Loop] = "check"
    /\ \/ /\ f_event_queue # <<>>
          /\ pc' = [pc EXCEPT ![Loop] = "pop"]
          /\ UNCHANGED <<f_processing_event, ev, ret>>
       \/ /\ f_event_queue = <<>> /\ f_processing_event
          /\ f_processing_event' = FALSE
          /\ CallRaise(Loop, Event("queue_empty", TRUE, 0), "check")
       \/ /\ f_event_queue = <<>> /\ ~f_processing_event
          /\ UNCHANGED <<pc, ev, ret, f_processing_event>>
    /\ UNCHANGED <<f_lock, f_event_queue, f_next_eid, f_event_waits, raises, cur, h, done>>

\* The front event is taken out under the lock.
LoopPop ==
    /\ pc[Loop] = "pop" /\ f_lock = NoThread
    /\ cur' = Head(f_event_queue)
    /\ f_event_queue' = Tail(f_event_queue)
    /\ f_processing_event' = (f_processing_event \/ ~cur'.meta)
    /\ h' = 1
    /\ pc' = [pc EXCEPT ![Loop] = "handle"]
    /\ UNCHANGED <<f_lock, f_next_eid, f_event_waits, ev, ret, done, raises>>

\* One handler: it may consume the event, which skips the rest, and what it calls
\* (the callback of EVENT_SYNC) may raise another event.
LoopHandle ==
    /\ pc[Loop] = "handle" /\ h <= Len(Handlers[cur.ident])
    /\ LET f == Handlers[cur.ident][h] IN
        /\ f_event_waits' = StillWaiting(f, cur)
        /\ \/ pc' = Woken(f, cur) /\ UNCHANGED <<ev, ret, raises>>
           \/ /\ raises < MaxRaises
              /\ raises' = raises + 1
              /\ pc' = [Woken(f, cur) EXCEPT ![Loop] = "lock"]
              /\ ret' = [ret EXCEPT ![Loop] = "handle"]
              /\ \E ident \in Idents : ev' = [ev EXCEPT ![Loop] = Event(ident, FALSE, 0)]
    /\ \E consumed \in BOOLEAN :
        h' = IF consumed THEN Len(Handlers[cur.ident]) + 1 ELSE h + 1
    /\ UNCHANGED <<f_lock, f_event_queue, f_next_eid, f_processing_event, cur, done>>

\* All handlers are done: an ordinary event is reported by a meta event.
LoopFinish ==
    /\ pc[Loop] = "handle" /\ h > Len(Handlers[cur.ident])
    /\ done' = Append(done, cur)
    /\ IF cur.meta
       THEN pc' = [pc EXCEPT ![Loop] = "check"] /\ UNCHANGED <<ev, ret>>
       ELSE CallRaise(Loop, Event("processed", TRUE, cur.eid), "check")
    /\ UNCHANGED <<f_lock, f_event_queue, f_next_eid, f_event_waits, f_processing_event,
                   cur, h, raises>>

Next ==
    \/ \E c \in Clients :
        \/ \E ident \in Idents : Raise(c, ident) \/ RaiseWait(c, ident)
        \/ \E ident \in Idents \cup {AnyEvent} : Wait(c, ident)
        \/ Sleep(c) \/ WalkOn(c)
    \/ \E t \in Actors : RaiseLock(t) \/ AssignEid(t) \/ SubmitWait(t) \/ Push(t)
    \/ LoopCheck \/ LoopPop \/ LoopHandle \/ LoopFinish

\* Threads inside the event manager run on.  Weak fairness of the lock is enough:
\* with finitely many events the spin lock is free for good in the end.
Fairness ==
    /\ \A t \in Actors :
        WF_vars(RaiseLock(t)) /\ WF_vars(AssignEid(t)) /\ WF_vars(Push(t))
    /\ \A c \in Clients : WF_vars(SubmitWait(c)) /\ WF_vars(Sleep(c))
    /\ WF_vars(LoopCheck) /\ WF_vars(LoopPop) /\ WF_vars(LoopHandle) /\ WF_vars(LoopFinish)

Spec == Init /\ [][Next]_vars /\ Fairness

-----------------------------------------------------------------------------

TypeOK ==
    /\ f_lock \in Actors \cup {NoThread}
    /\ \A k \in DOMAIN f_event_queue : f_event_queue[k].ident \in AllIdents
    /\ f_next_eid \in Nat \ {0}
    /\ f_processing_event \in BOOLEAN
    /\ \A k \in DOMAIN f_event_waits : f_event_waits[k].thread \in Clients
    /\ \A t \in Actors : pc[t] \in
        {"idle", "lock", "eid", "submit", "push", "sleep", "erase", "asleep", "check", "pop",
         "handle"}
    /\ raises \in 0..MaxRaises

\* An event the loop has taken out and not finished.
InHand == IF \/ pc[Loop] = "handle"
             \/ ret[Loop] = "handle" /\ pc[Loop] \in {"lock", "eid", "push"}
          THEN <<cur>> ELSE <<>>

\* An event that has its eid and is not on the queue yet.
Arriving == {t \in Actors : pc[t] \in {"submit", "push"}}

\* EVENT_SYNC relies on it: the loop finishes the events exactly once each and in
\* the order of their ids, with none skipped, however raise(), raise_wait(),
\* handlers that raise and the loop's own meta events interleave.
ProcessedInOrder ==
    LET stream == done \o InHand \o f_event_queue
    IN  /\ \A k \in DOMAIN stream : stream[k].eid = k
        /\ f_next_eid = Len(stream) + 1 + (IF Arriving = {} THEN 0 ELSE 1)

\* raise_wait() cannot lose its wait: once its event can be seen by the loop the
\* wait for it is on the list.
WaitBeforeEvent ==
    \A c \in Clients :
        pc[c] \in {"sleep", "erase", "asleep"} /\ ret[c] = "sleep" =>
            \E k \in DOMAIN f_event_waits :
                f_event_waits[k].thread = c /\ f_event_waits[k].eid \in {0, ev[c].eid}

AtRest ==
    /\ f_event_queue = <<>> /\ pc[Loop] = "check" /\ ~f_processing_event
    /\ \A c \in Clients : pc[c] \in {"idle", "asleep"}

\* When the loop is at rest it owes nothing: every ordinary event was reported by
\* exactly one EVENT_PROCESSED_EVENT with its id, and a QUEUE_EMPTY came last,
\* also when events arrived while the loop was raising that QUEUE_EMPTY.
RestIsReported ==
    AtRest /\ done # <<>> =>
        /\ done[Len(done)].ident = "queue_empty"
        /\ \A k \in DOMAIN done : ~done[k].meta =>
            \E j \in DOMAIN done :
                /\ \A m \in DOMAIN done :
                    done[m].ident = "processed" /\ done[m].of = done[k].eid <=> m = j
                /\ j > k

\* "Meta-event don't trigger event manager events (So that we don't create an
\* infinite event loop)": once nobody raises, the loop processes what there is
\* and comes to rest, unless a thread that goes to sleep never leaves erase().
LoopComesToRest == <>[](AtRest \/ \E c \in Clients : pc[c] = "erase")

\* The event queue keeps what raise(), raise_wait() and the loop promise: processing in
\* the order of the ids, no lost wait, and a loop that owes nothing when it rests.
EventsHandled == TypeOK /\ ProcessedInOrder /\ WaitBeforeEvent /\ RestIsReported

=============================================================================
