------------------------------- MODULE MCStreams -------------------------------
\* Descriptors and what lies behind them: pipes, terminals, files and disks.  The
\* parts are checked side by side: a behaviour is one of a single part, as `part`
\* says.
\*
\* Descriptors: two processes, the descriptors -1, 0 and 1, one stream from
\*   stage2_init and one opened later: enough for both processes to drop the last
\*   references of a shared storage at the same time, for dup over an open
\*   descriptor, and for a descriptor below f_next_fd to be freed.
\* Pipe: a buffer of three bytes, five bytes and calls of up to two, so that the
\*   heads wrap, the buffer fills, and a call is interrupted at every step.
\* Terminal: an input buffer and a FIFO of three, three received characters, four
\*   settings that between them use every flag.
\* Files: two processes in one ext2 file system; a file with blocks of every level
\*   of indirection, consecutive and scattered, in the second block group, the last
\*   one behind the first 4 GiB; one read of the disk may fail.
\* Disk: two readers, two command slots, buffers whose pages are in order, reversed
\*   or scattered, requests that cross a page, the table or the partition.
EXTENDS Streams

CONSTANTS Lengths, Targets, Offsets, MaxFailures,
          Readers, Slots, MaxReads

VARIABLES
    part,
    groups, base, stream, shared, children, proc, calls, failures,
    lock, command_issue, tables, memory, pageMap, request, reissued, reads

pipe == <<f_buffer, f_writeHead, f_readHead, f_closed, writer, reader, written, received, raced>>

TtySettings == {{}, {"ICANON", "OPOST", "ONLCR", "ICRNL", "PARMRK"},
                {"ICANON", "OPOST", "ONLRET", "IGNCR", "IGNPAR", "BRKINT"},
                {"ICANON", "OPOST", "OCRNL", "INLCR", "PARMRK", "PARENB", "IGNBRK"}}
tty == <<flags, f_input_buffer, f_read_head, f_write_head, f_line_head, serial, input, lineLen,
         taken, user, overrun, seen>>

-----------------------------------------------------------------------------
Cells(s) == [i \in 0..(Len(s) - 1) |-> s[i + 1]]
\* block 10: inodes 1 and 2 (the directory); 21: inodes 7 (the file) and 8; 60 to 66
\* and 72: indirect blocks; 70, 71: the directory's entries
Image == [b \in {0, 10, 21, 60, 61, 62, 63, 64, 65, 66, 70, 71, 72} |->
    Cells(CASE b = 0 -> <<0, 0>>
            [] b = 10 -> <<0, 0, 0, 0, 70, 72, 0, 0>>
            [] b = 21 -> <<40, 60, 61, 64, 0, 0, 0, 0>>
            [] b = 60 -> <<41, 42>>
            [] b = 61 -> <<62, 63>>
            [] b = 62 -> <<50, 51>>
            [] b = 63 -> <<44, 45>>
            [] b = 64 -> <<65, 0>>
            [] b = 65 -> <<66, 0>>
            [] b = 66 -> <<146, 0>>
            [] b = 70 -> <<<<2, ".">>, <<7, "f">>, <<0, "x">>>>
            [] b = 71 -> <<<<8, "g">>>>
            [] b = 72 -> <<71, 0>>)]
Files == INSTANCE Ext2 WITH
    Procs <- {"p", "q"}, BlockSize <- 2, SeekUnit <- 2, PageSize <- 4, Word <- 256, Direct <- 1,
    PtrPerBlock <- 2, InodesPerGroup <- 4, InodesPerBlock <- 2, GroupsPerBlock <- 2,
    Tables <- <<10, 20, 30>>, Disk <- Image, FileInode <- 7, FileSize <- 15,
    DirInode <- 2, DirBlocks <- 2, Names <- {"g", "x"},
    FileBlocks <- <<40, 41, 42, 50, 51, 44, 45, 146>>,
    Directory <- [n \in {".", "f", "g"} |->
                     CASE n = "." -> 2 [] n = "f" -> 7 [] n = "g" -> 8],
    Calls <- [p |-> {"read", "seek"}, q |-> {"map", "list", "lookup"}],
    MaxCalls <- [p |-> 2, q |-> 1]
files == <<groups, base, stream, shared, children, proc, calls, failures>>

-----------------------------------------------------------------------------
Drive == INSTANCE Disk WITH
    reader <- request, PageSize <- 2, PhysPages <- 4,
    Maps <- {[r1 |-> <<0, 1>>, r2 |-> <<3, 2>>], [r1 |-> <<1, 0>>, r2 |-> <<2, 3>>],
             [r1 |-> <<0, 2>>, r2 |-> <<1, 3>>]},
    MaxPrdt <- 2, MaxEntry <- 2, PartStart <- 1, PartEnd <- 4, CountWrap <- 4,
    DiskRequests <- {<<0, 4, 0>>, <<0, 3, 0>>, <<1, 2, 1>>, <<3, 3, 1>>, <<0, 3, 1>>,
                     <<4, 1, 0>>}
drive == <<lock, command_issue, tables, memory, pageMap, request, reissued, reads>>

-----------------------------------------------------------------------------
all == <<part, vars, pipe, tty, files, drive>>

MCInit ==
    /\ part \in {"table", "pipe", "terminal", "files", "disk"}
    /\ Init /\ Pipe!Init /\ Files!Init
    /\ Tty!Init /\ (part = "terminal" \/ flags = {})
    /\ Drive!Init /\ (part = "disk" \/ pageMap = [r1 |-> <<0, 1>>, r2 |-> <<3, 2>>])

MCNext ==
    /\ UNCHANGED part
    /\ \/ part = "table" /\ Next /\ UNCHANGED <<pipe, tty, files, drive>>
       \/ part = "pipe" /\ Pipe!Next /\ UNCHANGED <<vars, tty, files, drive>>
       \/ part = "terminal" /\ Tty!Next /\ UNCHANGED <<vars, pipe, files, drive>>
       \/ part = "files" /\ Files!Next /\ UNCHANGED <<vars, pipe, tty, drive>>
       \/ part = "disk" /\ Drive!Next /\ UNCHANGED <<vars, pipe, tty, files>>

MCSpec == MCInit /\ [][MCNext]_all /\ Pipe!Fairness

\* A waiting read() returns once the write end of the pipe is closed
\* (pipestream.cpp:47-53).
ReadReturns == Pipe!ReadReturns
\* A call that met no failing or half-read block gives the file's bytes, the page's
\* bytes or the directory's names, below 4 GiB (ext2: rw.cpp:11, map.cpp:10, files.cpp:26).
FileDataExact == Files!FileDataExact
\* A returned disk read has filled the caller's buffer with the sectors asked for,
\* unless a command was issued twice (ahci: ata.cpp:28-95, devfs.cpp:20-31).
ReadCorrect == Drive!ReadCorrect

=============================================================================
