--------------------------------- MODULE Disk ----------------------------------
(***************************************************************************)
(* Reading from an AHCI disk (src/kernel/modules/ahci/src/ata.cpp and      *)
(* devfs.cpp): readers share the command slots of a port.  A slot is       *)
(* chosen, filled and issued under drive->lock, and waited for without it; *)
(* the controller completes the issued slots in any order.  command_issue  *)
(* is a register: `|=` reads it and writes it back, and a bit that the     *)
(* controller has cleared in between is set again.  A sector is one unit   *)
(* of memory, and the content of sector n of the disk is n.                *)
(* structures.hpp declares `drives` static, so devfs.cpp and drive.cpp     *)
(* have a map each; dev_block_read() finds a minor or not.                 *)
(***************************************************************************)
EXTENDS Integers, SequencesExt, FiniteSetsExt

CONSTANTS
    Readers,
    Slots,          \* 0..31 in the code
    PageSize,       \* units to a page
    Maps,           \* the physical pages of the buffers: a set of [Readers -> sequence]
    PhysPages,      \* number of physical pages
    MaxPrdt,        \* max_prdt_size
    MaxEntry,       \* 4 MB, the most an entry of the table may cover
    PartStart, PartEnd, \* the partition read from
    CountWrap,      \* 2^16, the range of a sector count
    DiskRequests,   \* the requests made: <<lba, count, offset of the buffer in its page>>
    MaxReads        \* bound on the calls of a behaviour

VARIABLES
    lock,           \* owner of drive->lock
    command_issue,  \* slots the controller is working on
    tables,         \* what each slot was filled with: [reader, lba, units]
    memory,         \* content of each physical unit
    pageMap,        \* the map of this behaviour
    reader,         \* the call each reader is in
    reissued,       \* history: a completed command was issued again
    reads           \* calls made

diskVars == <<lock, command_issue, tables, memory, pageMap, reader, reissued, reads>>
Free == "free"
Resting == [pc |-> "idle", lba |-> 0, count |-> 0, read |-> 0, addr |-> 0, start |-> 0,
            slot |-> -1, now |-> 0, latched |-> {}, result |-> 0]

Init ==
    /\ lock = Free /\ command_issue = {} /\ reissued = FALSE
    /\ tables = [s \in Slots |-> [reader |-> Free, lba |-> 0, units |-> <<>>]]
    /\ memory = [u \in 0..(PhysPages * PageSize - 1) |-> -1]
    /\ pageMap \in Maps /\ reads = 0
    /\ reader = [r \in Readers |-> Resting]

\* Pager::getPhysicalAddress()
Physical(map, addr) == map[addr \div PageSize + 1] * PageSize + (addr % PageSize)

\* Variant: an entry grows over pages that do not follow in memory.
MutPrdt(map, addr, count) ==
    LET RECURSIVE From(_, _, _)
        From(at, left, entries) ==
            IF left = 0 \/ Len(entries) = MaxPrdt THEN entries
            ELSE LET RECURSIVE Grow(_, _, _)
                     Grow(n, a, l) ==
                        IF n >= MaxEntry \/ l = 0 THEN n
                        ELSE LET step == IF PageSize - (a % PageSize) > l THEN l ELSE PageSize - (a % PageSize)
                             IN  Grow(n + step, a + step, l - step)
                     n == Grow(0, at, left)
                 IN  From(at + n, left - n, Append(entries, [base |-> Physical(map, at), count |-> n]))
    IN  From(addr, count, <<>>)

\* The table ahci_ata_read() fills: entries [base, count] that each grow, page by page,
\* while the next page follows in memory and the entry is below its limit.
Prdt(map, addr, count) ==
    LET RECURSIVE From(_, _, _)
        From(at, left, entries) ==
            IF left = 0 \/ Len(entries) = MaxPrdt THEN entries
            ELSE LET base == Physical(map, at)
                     RECURSIVE Grow(_, _, _)
                     Grow(n, a, l) ==
                        IF n >= MaxEntry \/ l = 0 \/ Physical(map, a) # base + n THEN n
                        ELSE LET step == IF PageSize - (a % PageSize) > l THEN l ELSE PageSize - (a % PageSize)
                             IN  Grow(n + step, a + step, l - step)
                     n == Grow(0, at, left)
                 IN  From(at + n, left - n, Append(entries, [base |-> base, count |-> n]))
    IN  From(addr, count, <<>>)

\* The physical units the controller writes for it, in order: it takes the count of an
\* entry from 22 bits.
Scatter(entries) ==
    FoldLeft(LAMBDA units, e : units \o [i \in 1..(((e.count - 1) % MaxEntry) + 1) |-> e.base + i - 1],
             <<>>, entries)

-----------------------------------------------------------------------------
\* dev_block_read() of a minor that is not in the map of devfs.cpp.
NoDevice(r) ==
    /\ reader[r].pc \in {"idle", "done"} /\ reads < MaxReads
    /\ reads' = reads + 1
    /\ reader' = [reader EXCEPT ![r] = [Resting EXCEPT !.pc = "done"]]
    /\ UNCHANGED <<lock, command_issue, tables, memory, pageMap, reissued>>

\* dev_block_read() otherwise: what lies beyond the partition is cut off.
BlockRead(r, lba, count, addr) ==
    LET len == PartEnd - PartStart + 1
        cut == IF lba + count >= len THEN len - lba ELSE count
    IN  /\ reader[r].pc \in {"idle", "done"} /\ reads < MaxReads
        /\ reads' = reads + 1
        /\ reader' = [reader EXCEPT ![r] =
            IF lba >= len THEN [Resting EXCEPT !.pc = "done", !.addr = addr, !.lba = lba + PartStart]
            ELSE [Resting EXCEPT !.pc = "lock", !.lba = lba + PartStart, !.count = cut,
                                 !.addr = addr, !.start = addr, !.now = cut % CountWrap]]
        /\ UNCHANGED <<lock, command_issue, tables, memory, pageMap, reissued>>

\* ahci_ata_read(): the lock, then a slot the controller is not working on.
Lock(r) ==
    /\ reader[r].pc = "lock" /\ lock = Free
    /\ lock' = r
    /\ reader' = [reader EXCEPT ![r].pc = "slot"]
    /\ UNCHANGED <<command_issue, tables, memory, pageMap, reissued, reads>>

\* get_cmd_slot() takes the lowest slot that is not issued.
GetSlot(r) ==
    /\ reader[r].pc = "slot" /\ Slots \ command_issue # {}
    /\ reader' = [reader EXCEPT ![r].slot = Min(Slots \ command_issue), ![r].pc = "fill"]
    /\ UNCHANGED <<lock, command_issue, tables, memory, pageMap, reissued, reads>>

Fill(r) ==
    /\ reader[r].pc = "fill"
    /\ LET entries == Prdt(pageMap[r], reader[r].addr, reader[r].now) IN
        /\ tables' = [tables EXCEPT ![reader[r].slot] =
                        [reader |-> r, lba |-> reader[r].lba + reader[r].read, units |-> Scatter(entries)]]
        /\ reader' = [reader EXCEPT ![r].pc = "issue",
                        ![r].result = FoldLeft(LAMBDA sum, e : sum + e.count, 0, entries)]
    /\ UNCHANGED <<lock, command_issue, memory, pageMap, reissued, reads>>

\* port->command_issue |= 1 << slot: the read.
ReadIssue(r) ==
    /\ reader[r].pc = "issue"
    /\ reader' = [reader EXCEPT ![r].latched = command_issue, ![r].pc = "write"]
    /\ UNCHANGED <<lock, command_issue, tables, memory, pageMap, reissued, reads>>

\* The write, which sets bits and clears none, and the unlock.
WriteIssue(r) ==
    /\ reader[r].pc = "write"
    /\ command_issue' = command_issue \cup reader[r].latched \cup {reader[r].slot}
    /\ reissued' = (reissued \/ ~(reader[r].latched \subseteq command_issue))
    /\ lock' = Free
    /\ reader' = [reader EXCEPT ![r].pc = "wait"]
    /\ UNCHANGED <<tables, memory, pageMap, reads>>

\* The controller (external) moves the sectors of a slot and clears its bit.
Complete(s) ==
    /\ s \in command_issue
    /\ memory' = [u \in DOMAIN memory |->
        IF u \in ToSet(tables[s].units)
        THEN tables[s].lba + SelectInSeq(tables[s].units, LAMBDA x : x = u) - 1 ELSE memory[u]]
    /\ command_issue' = command_issue \ {s}
    /\ UNCHANGED <<lock, tables, pageMap, reader, reissued, reads>>

\* The spin ends; dev_block_read() goes on unless fewer sectors came than it asked for.
Return(r) ==
    LET me == reader[r]  read == me.read + me.result IN
    /\ me.pc = "wait" /\ me.slot \notin command_issue
    /\ reader' = [reader EXCEPT ![r] = [me EXCEPT
        !.read = read, !.addr = me.addr + me.result, !.result = 0, !.slot = -1, !.latched = {},
        !.pc = IF me.result # me.now \/ read >= me.count THEN "done" ELSE "lock",
        !.now = (me.count - read) % CountWrap]]
    /\ UNCHANGED <<lock, command_issue, tables, memory, pageMap, reissued, reads>>

\* What a command that is issued again does to memory is left open.
Next == ~reissued /\
    (\/ \E r \in Readers :
        \/ \E q \in DiskRequests : BlockRead(r, q[1], q[2], q[3])
        \/ NoDevice(r) \/ Lock(r) \/ GetSlot(r) \/ Fill(r) \/ ReadIssue(r) \/ WriteIssue(r) \/ Return(r)
     \/ \E s \in Slots : Complete(s))

-----------------------------------------------------------------------------
\* The table of the read had an entry of more than 4 MB, which a buffer that does not
\* begin on a page can produce (ata.cpp:64) and the controller does not take.
TooLong(r) == \E e \in ToSet(Prdt(pageMap[r], reader[r].start, reader[r].read)) : e.count > MaxEntry

\* When block_read() returns n sectors, the buffer holds the n sectors from the one
\* asked for, and no transfer is under way into the memory of a reader that does not
\* wait for it -- whatever the other readers do, as long as no completed command was
\* set off again by the write of command_issue (ata.cpp:88).
ReadCorrect ==
    ~reissued =>
        /\ \A r \in Readers : reader[r].pc = "done" /\ ~TooLong(r) =>
            \A k \in 0..(reader[r].read - 1) :
                memory[Physical(pageMap[r], reader[r].start + k)] = reader[r].lba + k
        /\ \A s \in command_issue : LET r == tables[s].reader IN
            reader[r].pc = "wait" /\ reader[r].slot = s

=============================================================================
