----------------------------- MODULE StreamTable -------------------------------
(***************************************************************************)
(* The descriptors of processes: Process::f_streams and f_next_fd          *)
(* (src/kernel/src/tasking/process.cpp), shared between processes by fork  *)
(* through the reference counts of StreamWrapper (src/kernel/src/streams/  *)
(* streamwrapper.cpp).  A table entry is a StreamWrapper; wrappers that are *)
(* copies of one another share a DataStorage, here a number.  The storage  *)
(* counts them and deletes the stream behind it with the last one.         *)
(* A process has one thread, so its table has one user; the storages are   *)
(* shared by all.  dup onto the same descriptor is left out: it copies the *)
(* entry it has just destroyed.                                            *)
(***************************************************************************)
EXTENDS Integers, SequencesExt

CONSTANTS
    Procs,      \* processes
    InitProc,   \* the first one, which gets the console in stage2_init
    NStd,       \* its standard descriptors 0..NStd-1: three in the code
    MaxFd,      \* bound on descriptors
    MaxStorage, \* bound on the storages of a behaviour
    Null

ASSUME StreamAssumption ==
    /\ IsFiniteSet(Procs) /\ InitProc \in Procs
    /\ NStd \in Nat /\ MaxFd \in Nat /\ MaxStorage \in Nat
    /\ NStd <= MaxFd + 1 /\ NStd <= MaxStorage
    /\ Null \notin 1..MaxStorage

Storages == 1..MaxStorage
Fds == (-1)..MaxFd      \* -1 is a descriptor a program may pass to close()

\* Each open makes a stream and a storage for it, but the three wrappers made by
\* stage2_init are three storages of one DMesgStream.
Console == 0
StreamOf(d) == IF d <= NStd THEN Console ELSE d

VARIABLES
    f_streams,      \* [Procs -> [Fds -> storage or Null]]
    f_next_fd,      \* [Procs -> Fds or MaxFd + 1]
    refs,           \* f_referenceCount of each storage
    made,           \* the storages created so far: 1..made
    cloexec,        \* the storages whose stream has O_CLOEXEC
    gone,           \* the streams that were deleted
    freed,          \* the storages that were deleted
    pc,             \* where each process is
    todo,           \* the wrappers it is destroying, a sequence of storages
    insert          \* the entry dup_stream is about to insert, <<fd, storage>>

table == <<f_streams, f_next_fd>>
heap == <<refs, made, cloexec, gone, freed>>
vars == <<table, heap, pc, todo, insert>>

Init ==
    /\ f_streams = [p \in Procs |-> [fd \in Fds |->
            IF p = InitProc /\ fd \in 0..(NStd - 1) THEN fd + 1 ELSE Null]]
    /\ f_next_fd = [p \in Procs |-> IF p = InitProc THEN NStd ELSE 0]
    /\ refs = [d \in Storages |-> IF d <= NStd THEN 1 ELSE 0]
    /\ made = NStd
    /\ cloexec = {}
    /\ gone = {}
    /\ freed = {}
    /\ pc = [p \in Procs |-> IF p = InitProc THEN "run" ELSE "unborn"]
    /\ todo = [p \in Procs |-> <<>>]
    /\ insert = [p \in Procs |-> <<>>]

\* The first descriptor from f_next_fd on that is not in the table.
FreeFd(p, fd) ==
    /\ fd \in Fds /\ fd >= f_next_fd[p]
    /\ f_streams[p][fd] = Null
    /\ \A g \in Fds : f_next_fd[p] <= g /\ g < fd => f_streams[p][g] # Null

Entries(p) == {fd \in Fds : f_streams[p][fd] # Null}

-----------------------------------------------------------------------------
\* Mutated forms of the steps below: plausible slips in process.cpp and
\* streamwrapper.cpp that the properties must detect.  Spec does not use them.

\* Variant: close_stream() takes the entry out and leaves the wrapper alone.
MutClose(p, fd) ==
    /\ pc[p] = "run"
    /\ f_streams' = [f_streams EXCEPT ![p][fd] = Null]
    /\ f_next_fd' = [f_next_fd EXCEPT ![p] = IF fd < @ THEN fd ELSE @]
    /\ UNCHANGED <<heap, pc, todo, insert>>

-----------------------------------------------------------------------------

\* openat() and each half of pipe(): a new stream, its wrapper and its entry.
Open(p) ==
    /\ pc[p] = "run" /\ made < MaxStorage
    /\ made' = made + 1
    /\ \E fd \in Fds, cloe \in BOOLEAN :
        /\ FreeFd(p, fd)
        /\ f_streams' = [f_streams EXCEPT ![p][fd] = made + 1]
        /\ f_next_fd' = [f_next_fd EXCEPT ![p] = IF fd = @ THEN fd + 1 ELSE @]
        /\ cloexec' = IF cloe THEN cloexec \cup {made + 1} ELSE cloexec
    /\ refs' = [refs EXCEPT ![made + 1] = 1]
    /\ UNCHANGED <<gone, freed, pc, todo, insert>>

\* p takes the descriptors fds out of its table and starts to destroy their
\* wrappers, in the order of the map's buckets.
Destroy(p, fds) ==
    /\ LET order == SetToSeq(fds) IN
        todo' = [todo EXCEPT ![p] = [k \in DOMAIN order |-> f_streams[p][order[k]]]]
    /\ f_streams' = [f_streams EXCEPT ![p] =
            [fd \in Fds |-> IF fd \in fds THEN Null ELSE f_streams[p][fd]]]

\* close_stream(), also for a descriptor that is not open.
Close(p, fd) ==
    /\ pc[p] = "run"
    /\ Destroy(p, {fd} \cap Entries(p))
    /\ f_next_fd' = [f_next_fd EXCEPT ![p] = IF fd < @ THEN fd ELSE @]
    /\ pc' = [pc EXCEPT ![p] = IF fd \in Entries(p) THEN "clear" ELSE "run"]
    /\ UNCHANGED <<heap, insert>>

\* dup_stream() with a new descriptor: what was there is destroyed first.
DupTo(p, old, new) ==
    /\ pc[p] = "run" /\ old \in Entries(p) /\ new # -1 /\ new # old
    /\ Destroy(p, {new} \cap Entries(p))
    /\ insert' = [insert EXCEPT ![p] = <<new, f_streams[p][old]>>]
    /\ pc' = [pc EXCEPT ![p] = IF new \in Entries(p) THEN "clear" ELSE "insert"]
    /\ UNCHANGED <<f_next_fd, heap>>

\* dup_stream() with -1: the first free descriptor is looked for.
DupFree(p, old) ==
    /\ pc[p] = "run" /\ old \in Entries(p)
    /\ \E fd \in Fds :
        /\ FreeFd(p, fd)
        /\ insert' = [insert EXCEPT ![p] = <<fd, f_streams[p][old]>>]
    /\ pc' = [pc EXCEPT ![p] = "insert"]
    /\ UNCHANGED <<table, heap, todo>>

\* f_streams.insert({ newFd, *val }): a copied wrapper; f_next_fd stays.
Insert(p) ==
    /\ pc[p] = "insert"
    /\ LET fd == insert[p][1]  d == insert[p][2] IN
        /\ f_streams' = [f_streams EXCEPT ![p][fd] = d]
        /\ refs' = [refs EXCEPT ![d] = @ + 1]
    /\ insert' = [insert EXCEPT ![p] = <<>>]
    /\ pc' = [pc EXCEPT ![p] = "run"]
    /\ UNCHANGED <<f_next_fd, made, cloexec, gone, freed, todo>>

\* fork(): the child gets a copy of every wrapper.
Fork(p, c) ==
    /\ pc[p] = "run" /\ pc[c] = "unborn"
    /\ f_streams' = [f_streams EXCEPT ![c] = f_streams[p]]
    /\ f_next_fd' = [f_next_fd EXCEPT ![c] = f_next_fd[p]]
    /\ refs' = [d \in Storages |->
            refs[d] + Cardinality({fd \in Fds : f_streams[p][fd] = d})]
    /\ pc' = [pc EXCEPT ![c] = "run"]
    /\ UNCHANGED <<made, cloexec, gone, freed, todo, insert>>

\* execve() closes the descriptors whose stream has O_CLOEXEC, one by one: nobody
\* else sees this table, and the storages are cleared one at a time below.
Exec(p) ==
    LET fds == {fd \in Entries(p) : f_streams[p][fd] \in cloexec} IN
    /\ pc[p] = "run" /\ fds # {}
    /\ Destroy(p, fds)
    /\ f_next_fd' = [f_next_fd EXCEPT ![p] = Min(fds \cup {@})]
    /\ pc' = [pc EXCEPT ![p] = "clear"]
    /\ UNCHANGED <<heap, insert>>

\* die(): f_streams.clear(); f_next_fd has no further use.
Exit(p) ==
    /\ pc[p] = "run"
    /\ Destroy(p, Entries(p))
    /\ f_next_fd' = [f_next_fd EXCEPT ![p] = 0]
    /\ insert' = [insert EXCEPT ![p] = <<"exit">>]
    /\ pc' = [pc EXCEPT ![p] = IF Entries(p) = {} THEN "dead" ELSE "clear"]
    /\ UNCHANGED heap

\* Where p goes on when the wrapper at the head of todo is destroyed.
Continue(p) ==
    /\ todo' = [todo EXCEPT ![p] = Tail(@)]
    /\ pc' = [pc EXCEPT ![p] =
            CASE Tail(todo[p]) # <<>> -> "clear"
              [] Tail(todo[p]) = <<>> /\ insert[p] = <<>> -> "run"
              [] Tail(todo[p]) = <<>> /\ insert[p] = <<"exit">> -> "dead"
              [] OTHER -> "insert"]

\* StreamWrapper::clear(): the fetch_sub; the last one goes on to delete.
Clear(p) ==
    /\ pc[p] = "clear"
    /\ LET d == Head(todo[p]) IN
        /\ refs' = [refs EXCEPT ![d] = @ - 1]
        /\ IF refs[d] = 1
           THEN pc' = [pc EXCEPT ![p] = "delete"] /\ UNCHANGED todo
           ELSE Continue(p)
    /\ UNCHANGED <<table, made, cloexec, gone, freed, insert>>

\* StreamWrapper::clear(): delete f_base, delete f_data.
Delete(p) ==
    /\ pc[p] = "delete"
    /\ gone' = gone \cup {StreamOf(Head(todo[p]))}
    /\ freed' = freed \cup {Head(todo[p])}
    /\ Continue(p)
    /\ UNCHANGED <<table, refs, made, cloexec, insert>>

Next ==
    \E p \in Procs :
        \/ Open(p) \/ Insert(p) \/ Exec(p) \/ Exit(p) \/ Clear(p) \/ Delete(p)
        \/ \E fd \in Fds : Close(p, fd) \/ DupFree(p, fd)
        \/ \E old, new \in Fds : DupTo(p, old, new)
        \/ \E c \in Procs : Fork(p, c)

Spec == Init /\ [][Next]_vars

-----------------------------------------------------------------------------

TypeOK ==
    /\ f_streams \in [Procs -> [Fds -> Storages \cup {Null}]]
    /\ f_next_fd \in [Procs -> (-1)..(MaxFd + 1)]
    /\ refs \in [Storages -> Nat]
    /\ made \in NStd..MaxStorage
    /\ cloexec \subseteq Storages /\ freed \subseteq Storages
    /\ gone \subseteq Storages \cup {Console}
    /\ pc \in [Procs -> {"unborn", "run", "insert", "clear", "delete", "dead"}]

\* The wrappers of storage d that still have to be destroyed by p; the one that
\* has been subtracted and is being deleted no longer counts.
Pending(p, d) ==
    {i \in DOMAIN todo[p] : todo[p][i] = d /\ ~(pc[p] = "delete" /\ i = 1)}

\* The wrappers of d in the tables, and those being destroyed.
Holders(d) == {e \in Procs \X Fds : f_streams[e[1]][e[2]] = d}
Dying(d) == UNION {{p} \X Pending(p, d) : p \in Procs}

\* f_referenceCount is the number of wrappers: entries of all tables plus those
\* being destroyed, across fork, dup, close, exec and exit of several processes.
RefsExact ==
    \A d \in Storages : refs[d] = Cardinality(Holders(d)) + Cardinality(Dying(d))

\* A storage is deleted once, and only when no table has an entry for it.
StorageDeletedOnce ==
    /\ \A p, q \in Procs :
        p # q /\ pc[p] = "delete" /\ pc[q] = "delete" => Head(todo[p]) # Head(todo[q])
    /\ \A p \in Procs : pc[p] = "delete" => Head(todo[p]) \notin freed
    /\ \A p \in Procs, fd \in Fds : f_streams[p][fd] \notin freed

\* A stream opened by a system call lives exactly as long as some process has a
\* descriptor for it or is about to delete it: the other end of a pipe sees it
\* closed when, and only when, the last descriptor is gone.
OpenedStreamsLive ==
    \A d \in (NStd + 1)..made :
        d \notin gone <=>
            \/ refs[d] > 0
            \/ \E p \in Procs : pc[p] = "delete" /\ Head(todo[p]) = d

\* f_next_fd is never above a free descriptor, so that the search of add_stream()
\* finds the lowest one that is free.
NoFreeBelowNext ==
    \A p \in Procs : pc[p] \in {"run", "insert"} =>
        \A fd \in 0..(f_next_fd[p] - 1) :
            \/ f_streams[p][fd] # Null
            \/ insert[p] # <<>> /\ insert[p][1] = fd

\* The tables, the reference counts and the streams agree through every order of open,
\* dup, close, fork, exec and exit of several processes (process.cpp, streamwrapper.cpp).
DescriptorsSound ==
    TypeOK /\ RefsExact /\ StorageDeletedOnce /\ OpenedStreamsLive /\ NoFreeBelowNext

=============================================================================
