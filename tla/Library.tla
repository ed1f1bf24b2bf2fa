------------------------------- MODULE Library -------------------------------
(***************************************************************************)
(* The event queue, the run queue's list and the counted handles, as parts *)
(* that share no state, with the properties that are checked for small     *)
(* instances (MCLibrary) and, as far as LibraryProofs goes, proved for all.*)
(***************************************************************************)
EXTENDS Integers, Sequences, FiniteSets

CONSTANTS Clients, Loop, NoThread, Idents, Handlers, MaxRaises, \* of EventManager
          QueueThreads, Cores, NoCore, Null,                    \* of ThreadQueue
          Handles, MaxObjects                                   \* of Counted

VARIABLES
    f_lock, f_event_queue, f_next_eid, f_processing_event, f_event_waits, pc, ev, ret, cur, h,
    done, raises,
    first, last, f_next, pref, held, severed,
    data, ref_count, destroyed, storages, raw_ptr, count, counter, mapped, made, misused

Events == INSTANCE EventManager
Queue == INSTANCE ThreadQueue WITH Threads <- QueueThreads
Counts == INSTANCE Counted

\* The code has a Loop thread apart from its clients, meta events of its own, and does not
\* register event_processed_handler.
EventAssumption ==
    /\ Loop \notin Clients /\ NoThread \notin Events!Actors
    /\ {"processed", "queue_empty"} \cap Idents = {}
    /\ Handlers \in [Events!AllIdents -> Seq(STRING \ {"event_processed_handler"})]
    /\ MaxRaises \in Nat

\* The null pointer is no thread.
QueueAssumption == IsFiniteSet(QueueThreads) /\ Null \notin QueueThreads

CountedAssumption == IsFiniteSet(Handles) /\ MaxObjects \in Nat

ASSUME LibraryAssumption == EventAssumption /\ QueueAssumption /\ CountedAssumption

-----------------------------------------------------------------------------
\* The loop finishes every event once and in the order of the event ids, however raising,
\* waiting, handlers and the loop's own events interleave; raise_wait() loses no wait, and
\* a loop at rest has reported every event (event_manager.cpp).
EventsHandled == Events!EventsHandled
\* The linked list of threads is the run queue the scheduler is specified with
\* (thread_queue.hpp).
ImplementsRunQueue == Queue!ImplementsRunQueue
\* Counted storage and pages live exactly as long as a handle knows them
\* (shared_pointer.hpp:73, kbuffer.cpp:25).
CountsExact == Counts!CountsExact

=============================================================================
