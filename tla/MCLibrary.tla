------------------------------ MODULE MCLibrary -------------------------------
\* Semaphores, the event queue and the kernel's containers, side by side: a behaviour is
\* one of the component `part` names.  Semaphore: two permits shared by four threads:
\* with more threads than permits plus one, several can hold a failed decrement at once.
\* Events: two clients and two ordinary events: one may
\* overtake the other at the lock, arrive while the loop is deciding that the queue is
\* empty, or be raised by a handler; "load" stands for any event with handlers of its
\* own.  Run queue: four threads on two cores.  Map: five keys over buckets that
\* double early, so that chains and rehashes happen, and a word of sixteen values for
\* f_size to wrap.  List: five entries of two values in two lists.  Ranges: ends 0..6.
\* Handles: three, over two storages or page runs.
EXTENDS Semaphore, Library

CONSTANTS Keys, MapValues, InitialBuckets, Granule, Word,
          Nodes, ListValues, MaxValue, MaxRanges

VARIABLES part,
    f_bucket, f_capacity, f_size, content, uncounted, dead,
    next, prev, length, abstract, backwards, damaged,
    ranges, members

Registered == [ident \in {"sync", "load", "processed", "queue_empty"} |->
    CASE ident = "sync" -> <<"sync_event_handler">>
      [] ident = "load" -> <<"handler1", "handler2">>
      [] OTHER -> <<>>]

Map == INSTANCE HashMap WITH Values <- MapValues
List == INSTANCE LinkedList WITH Values <- ListValues
Ranges == INSTANCE RangeList

events == <<f_lock, f_event_queue, f_next_eid, f_processing_event, f_event_waits, pc, ev, ret,
            cur, h, done, raises>>
queue == <<first, last, f_next, pref, held, severed>>
map == <<f_bucket, f_capacity, f_size, content, uncounted, dead>>
list == <<next, prev, length, abstract, backwards, damaged>>
range == <<ranges, members>>
ptr == <<data, ref_count, destroyed, storages>>
buf == <<raw_ptr, count, counter, mapped, made, misused>>

MCInit ==
    /\ part \in {"semaphore", "events", "queue", "map", "list", "ranges", "pointers", "buffers"}
    /\ Init /\ Events!Init /\ Queue!Init /\ Map!Init /\ List!Init /\ Ranges!Init /\ Counts!Init

\* the containers are not checked for deadlock: they may come to their bounds
MCNext ==
    /\ UNCHANGED part
    /\ \/ /\ part = "semaphore" /\ Next
          /\ UNCHANGED <<events, queue, map, list, range, ptr, buf>>
       \/ /\ part = "events" /\ Events!Next
          /\ UNCHANGED <<vars, queue, map, list, range, ptr, buf>>
       \/ /\ part = "queue" /\ Queue!Next
          /\ UNCHANGED <<vars, events, map, list, range, ptr, buf>>
       \/ /\ part = "map" /\ Map!Next
          /\ UNCHANGED <<vars, events, queue, list, range, ptr, buf>>
       \/ /\ part = "list" /\ List!Next
          /\ UNCHANGED <<vars, events, queue, map, range, ptr, buf>>
       \/ /\ part = "ranges" /\ Ranges!Next
          /\ UNCHANGED <<vars, events, queue, map, list, ptr, buf>>
       \/ /\ part = "pointers" /\ Counts!PtrNext
          /\ UNCHANGED <<vars, events, queue, map, list, range, buf>>
       \/ /\ part = "buffers" /\ Counts!BufNext
          /\ UNCHANGED <<vars, events, queue, map, list, range, ptr>>
       \/ /\ part \notin {"semaphore", "events"}
          /\ UNCHANGED <<vars, events, queue, map, list, range, ptr, buf>>

all == <<part, vars, events, queue, map, list, range, ptr, buf>>
MCSpec == MCInit /\ [][MCNext]_all /\ Events!Fairness /\ (part = "semaphore" => Fairness)

\* The events the loop raises itself do not keep it busy: once nobody raises, it comes
\* to rest (event_manager.cpp), unless a thread that goes to sleep walks out of the run
\* queue with the lock of the events (thread_queue.hpp:86).  Threads that undo each
\* other's subtractions do not all stay outside a semaphore (semaphore.cpp:23).
WaitingEnds == Events!LoopComesToRest /\ (part = "semaphore" => SomeoneEnters)
\* A lookup gives what was stored last through every insertion, removal and rehash,
\* and f_size is right up to the entries operator[] made (unordered_map.hpp:229).
\* A list reads the same forwards and backwards, in the order its operations promise (a
\* copy: with the entries, not in the order of its source, list.hpp:122), until an empty
\* one is sorted or moved from (list.hpp:154, 260).
\* A range list covers what was added and not removed, each value once
\* (range_list.hpp:97).  The run queue's list holds the threads nobody owns, each once,
\* up to the first wrong unlinking (thread_queue.hpp:141).
ContainersExact ==
    /\ Map!MapExact /\ List!ListsExact /\ Ranges!RangesExact
    /\ Queue!TypeOK /\ Queue!ListIsExact

=============================================================================
