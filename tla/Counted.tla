-------------------------------- MODULE Counted --------------------------------
(***************************************************************************)
(* The two counted handles of the kernel: std::SharedPtr                   *)
(* (src/kernel/std/include/shared_pointer.hpp), whose storage is destroyed *)
(* with its last handle, and KBuffer (src/kernel/src/memory/kbuffer.cpp),  *)
(* whose handles each keep the address of the pages beside a shared count. *)
(***************************************************************************)
EXTENDS Integers, FiniteSetsExt

CONSTANTS Handles,
          MaxObjects    \* bound on the storages, counts and page runs made

Objects == 1..MaxObjects

VARIABLES
    data,       \* SharedPtr: [Handles -> 0 or a storage]
    ref_count,  \* the count of each storage
    destroyed,  \* history: how often each storage was destroyed
    storages,   \* how many storages were made
    raw_ptr,    \* KBuffer: [Handles -> 0 or the pages]
    count,      \* [Handles -> 0 or the counter], the ref_count pointer
    counter,    \* the value of each counter
    mapped,     \* page runs that are allocated
    made,       \* <<page runs made, counters made>>
    misused     \* history: a handle was used as KBuffer does not support it

ptrVars == <<data, ref_count, destroyed, storages>>
bufVars == <<raw_ptr, count, counter, mapped, made, misused>>
countedVars == <<ptrVars, bufVars>>

Init ==
    /\ data = [h \in Handles |-> 0]
    /\ ref_count = [o \in Objects |-> 0] /\ destroyed = [o \in Objects |-> 0] /\ storages = 0
    /\ raw_ptr = [h \in Handles |-> 0] /\ count = [h \in Handles |-> 0]
    /\ counter = [o \in Objects |-> 0] /\ mapped = {} /\ made = <<0, 0>> /\ misused = FALSE

-----------------------------------------------------------------------------
\* Variant: the last but one handle destroys.
MutCleared(h) ==
    [refs |-> IF data[h] = 0 THEN ref_count ELSE [ref_count EXCEPT ![data[h]] = @ - 1],
     dead |-> IF data[h] # 0 /\ ref_count[data[h]] <= 2
              THEN [destroyed EXCEPT ![data[h]] = @ + 1] ELSE destroyed]

\* SharedPtr.  clear(): the handle that takes the count to zero destroys.
Cleared(h) ==
    [refs |-> IF data[h] = 0 THEN ref_count ELSE [ref_count EXCEPT ![data[h]] = @ - 1],
     dead |-> IF data[h] # 0 /\ ref_count[data[h]] = 1
              THEN [destroyed EXCEPT ![data[h]] = @ + 1] ELSE destroyed]

\* make_shared() into an empty handle.
MakeShared(h) ==
    /\ data[h] = 0 /\ storages < MaxObjects
    /\ storages' = storages + 1
    /\ data' = [data EXCEPT ![h] = storages']
    /\ ref_count' = [ref_count EXCEPT ![storages'] = 1]
    /\ UNCHANGED destroyed

\* operator=(const SharedPtr&): clears first, so an assignment to itself ends empty.
CopyAssign(h, from) ==
    LET c == Cleared(h)
        source == IF h = from THEN 0 ELSE data[from]
    IN  /\ data' = [data EXCEPT ![h] = source]
        /\ ref_count' = IF source = 0 THEN c.refs ELSE [c.refs EXCEPT ![source] = @ + 1]
        /\ destroyed' = c.dead
        /\ UNCHANGED storages

\* operator=(SharedPtr&&): the storage leaves the other handle without counting.
MoveAssign(h, from) ==
    LET c == Cleared(h) IN
    /\ data' = IF h = from THEN [data EXCEPT ![h] = 0]
               ELSE [data EXCEPT ![h] = data[from], ![from] = 0]
    /\ ref_count' = c.refs /\ destroyed' = c.dead
    /\ UNCHANGED storages

\* The destructor, and operator=(nullptr_t).
Destroy(h) ==
    /\ data[h] # 0
    /\ data' = [data EXCEPT ![h] = 0]
    /\ ref_count' = Cleared(h).refs /\ destroyed' = Cleared(h).dead
    /\ UNCHANGED storages

-----------------------------------------------------------------------------
\* KBuffer.  What the destructor and both assignments do first: the handle that
\* takes the count to zero frees the pages it knows.
Dropped(h) ==
    [counts |-> IF count[h] = 0 THEN counter ELSE [counter EXCEPT ![count[h]] = @ - 1],
     pages |-> IF count[h] # 0 /\ counter[count[h]] = 1 THEN mapped \ {raw_ptr[h]} ELSE mapped]

\* The constructor, with pages or (size 0) without.
NewBuffer(h, pages) ==
    /\ count[h] = 0 /\ made[1] + pages <= MaxObjects /\ made[2] < MaxObjects
    /\ made' = <<made[1] + pages, made[2] + 1>>
    /\ raw_ptr' = [raw_ptr EXCEPT ![h] = IF pages = 1 THEN made'[1] ELSE 0]
    /\ count' = [count EXCEPT ![h] = made'[2]]
    /\ counter' = [counter EXCEPT ![made'[2]] = 1]
    /\ mapped' = mapped \cup (IF pages = 1 THEN {made'[1]} ELSE {})
    /\ UNCHANGED misused

DropBuffer(h) ==
    /\ count[h] # 0
    /\ counter' = Dropped(h).counts /\ mapped' = Dropped(h).pages
    /\ raw_ptr' = [raw_ptr EXCEPT ![h] = 0] /\ count' = [count EXCEPT ![h] = 0]
    /\ UNCHANGED <<made, misused>>

\* operator=(KBuffer&&).
MoveBuffer(h, from) ==
    /\ counter' = Dropped(h).counts /\ mapped' = Dropped(h).pages
    /\ raw_ptr' = [[raw_ptr EXCEPT ![h] = raw_ptr[from]] EXCEPT ![from] = 0]
    /\ count' = [[count EXCEPT ![h] = count[from]] EXCEPT ![from] = 0]
    /\ UNCHANGED <<made, misused>>

\* operator=(const KBuffer&).  Assigned to itself, a last handle keeps the address
\* of the pages it frees; a moved-from source has no counter to add to.
CopyBuffer(h, from) ==
    /\ misused' = (h = from \/ count[from] = 0)
    /\ mapped' = Dropped(h).pages
    /\ raw_ptr' = [raw_ptr EXCEPT ![h] = raw_ptr[from]]
    /\ count' = [count EXCEPT ![h] = count[from]]
    /\ counter' = IF count[from] = 0 THEN Dropped(h).counts
                  ELSE [Dropped(h).counts EXCEPT ![count[from]] = @ + 1]
    /\ UNCHANGED made

\* resize(): new pages for this handle alone, the old ones are freed whoever else
\* knows them.
Resize(h) ==
    /\ made[1] < MaxObjects
    /\ made' = <<made[1] + 1, made[2]>>
    /\ raw_ptr' = [raw_ptr EXCEPT ![h] = made'[1]]
    /\ mapped' = (mapped \ {raw_ptr[h]}) \cup {made'[1]}
    /\ misused' = (count[h] = 0 \/ counter[count[h]] # 1)
    /\ UNCHANGED <<count, counter>>

ClearBuffer(h) ==
    /\ raw_ptr[h] # 0
    /\ mapped' = mapped \ {raw_ptr[h]}
    /\ raw_ptr' = [raw_ptr EXCEPT ![h] = 0]
    /\ misused' = (counter[count[h]] # 1)
    /\ UNCHANGED <<count, counter, made>>

PtrNext ==
    \/ \E h \in Handles : MakeShared(h) \/ Destroy(h)
    \/ \E h, from \in Handles : CopyAssign(h, from) \/ MoveAssign(h, from)
BufNext ==
    /\ ~misused
    /\ \/ \E h \in Handles : DropBuffer(h) \/ Resize(h) \/ ClearBuffer(h)
       \/ \E h \in Handles, pages \in 0..1 : NewBuffer(h, pages)
       \/ \E h, from \in Handles : MoveBuffer(h, from) \/ CopyBuffer(h, from)
Next == (PtrNext /\ UNCHANGED bufVars) \/ (BufNext /\ UNCHANGED ptrVars)

-----------------------------------------------------------------------------
\* Storage and pages live exactly as long as a handle knows them, and go once:
\* a storage is destroyed when its last SharedPtr is cleared (shared_pointer.hpp:73);
\* pages are mapped while a KBuffer has their address, as long as no buffer was
\* assigned to itself, resized or cleared while shared, or used after a move
\* (kbuffer.cpp:60, 85, 103).
CountsExact ==
    /\ \A o \in 1..storages :
        /\ ref_count[o] = Cardinality({h \in Handles : data[h] = o})
        /\ destroyed[o] = IF ref_count[o] = 0 THEN 1 ELSE 0
    /\ ~misused =>
        /\ mapped = {raw_ptr[h] : h \in Handles} \ {0}
        /\ \A h \in Handles : count[h] # 0 =>
            counter[count[h]] = Cardinality({g \in Handles : count[g] = count[h]})

=============================================================================
