------------------------------ MODULE PipeStream -------------------------------
(***************************************************************************)
(* A pipe (src/kernel/src/streams/pipestream.cpp): the StreamData shared   *)
(* by its two ends, one thread that reads and one that writes, and the     *)
(* destructors of the ends.  Nothing locks the data.  The kernel is built  *)
(* without optimisation and threads are preempted inside system calls, so  *)
(* an assignment such as buffer[head++] = byte is several steps: the head  *)
(* is stored first, the byte next, and %= brings the head back in range    *)
(* last.  A byte is its position in the stream of bytes written.           *)
(***************************************************************************)
EXTENDS Integers, Sequences

CONSTANTS
    PipeSize,   \* sizeof(f_buffer): 4096 in the code
    MaxLength,  \* the longest read or write
    MaxBytes    \* bound on the bytes written, and on those read, in a behaviour

VARIABLES
    f_buffer, f_writeHead, f_readHead,
    f_closed,   \* the ends whose destructor ran: f_readClosed and f_writeClosed
    writer,     \* [pc, left]: the writing thread and the bytes its call has left
    reader,     \* [pc, left]: the reading thread
    written,    \* the bytes taken from the writer so far
    received,   \* the bytes handed to the reader
    raced       \* one side acted on a head the other was still moving

pipeVars == <<f_buffer, f_writeHead, f_readHead, f_closed, writer, reader, written, received, raced>>
Idle == [pc |-> "idle", left |-> 0]

\* StreamData() and make_pair().
Init ==
    /\ f_buffer = [i \in 0..(PipeSize - 1) |-> 0]
    /\ f_writeHead = 0 /\ f_readHead = 0
    /\ f_closed = {}
    /\ writer = Idle /\ reader = Idle
    /\ written = 0 /\ received = <<>>
    /\ raced = FALSE

\* A call that moved a byte goes on with the next one or returns.
Moved(call) == IF call.left = 1 THEN Idle ELSE [pc |-> "test", left |-> call.left - 1]

\* The writer has announced the byte of the reader's slot and not stored it, or
\* its head is outside the buffer while the reader has nothing left to take.
AheadOfWriter == \/ writer.pc = "store" /\ f_readHead = f_writeHead - 1
                 \/ f_writeHead = PipeSize /\ f_readHead = 0
\* The reader's head is past the byte it has not taken yet, or outside the buffer.
AheadOfReader == reader.pc \in {"load", "wrap"}

-----------------------------------------------------------------------------
\* Mutated forms: plausible slips in pipestream.cpp.

\* Variant: the writer takes the buffer to be full only when the heads meet.
MutTestFull ==
    /\ writer.pc = "test"
    /\ writer' = [writer EXCEPT !.pc = "head"]
    /\ raced' = (raced \/ AheadOfReader)
    /\ UNCHANGED <<f_buffer, f_writeHead, f_readHead, f_closed, reader, written, received>>

\* Variant: the reader waits for data and does not look for a closed pipe.
MutTestEmpty ==
    /\ reader.pc = "test" /\ f_readHead # f_writeHead
    /\ reader' = [reader EXCEPT !.pc = "head"]
    /\ raced' = (raced \/ AheadOfWriter)
    /\ UNCHANGED <<f_buffer, f_writeHead, f_readHead, f_closed, writer, written, received>>

-----------------------------------------------------------------------------
\* write(): EPIPE, ENOTSUP and a length of zero return at once.
Write(n) ==
    /\ writer.pc = "idle" /\ f_closed = {} /\ written + n <= MaxBytes
    /\ writer' = [pc |-> "test", left |-> n]
    /\ UNCHANGED <<f_buffer, f_writeHead, f_readHead, f_closed, reader, written, received, raced>>

TestFull ==
    /\ writer.pc = "test" /\ (f_writeHead + 1) % PipeSize # f_readHead
    /\ writer' = [writer EXCEPT !.pc = "head"]
    /\ raced' = (raced \/ AheadOfReader)
    /\ UNCHANGED <<f_buffer, f_writeHead, f_readHead, f_closed, reader, written, received>>

WriteByte ==
    /\ \/ /\ writer.pc = "head"
          /\ f_writeHead' = f_writeHead + 1
          /\ writer' = [writer EXCEPT !.pc = "store"]
          /\ UNCHANGED <<f_buffer, written>>
       \/ /\ writer.pc = "store"
          /\ f_buffer' = [f_buffer EXCEPT ![f_writeHead - 1] = written + 1]
          /\ written' = written + 1
          /\ writer' = [writer EXCEPT !.pc = "wrap"]
          /\ UNCHANGED f_writeHead
       \/ /\ writer.pc = "wrap"
          /\ f_writeHead' = f_writeHead % PipeSize
          /\ writer' = Moved(writer)
          /\ UNCHANGED <<f_buffer, written>>
    /\ UNCHANGED <<f_readHead, f_closed, reader, received, raced>>

\* read(): 0 at once when the writer has gone, whatever is still in the buffer.
Read(n) ==
    /\ reader.pc = "idle" /\ f_closed = {} /\ Len(received) + n <= MaxBytes
    /\ reader' = [pc |-> "test", left |-> n]
    /\ UNCHANGED <<f_buffer, f_writeHead, f_readHead, f_closed, writer, written, received, raced>>

TestEmpty ==
    /\ reader.pc = "test"
    /\ \/ /\ f_readHead # f_writeHead
          /\ reader' = [reader EXCEPT !.pc = "head"]
          /\ raced' = (raced \/ AheadOfWriter)
       \/ /\ f_readHead = f_writeHead /\ "write" \in f_closed
          /\ reader' = Idle
          /\ UNCHANGED raced
    /\ UNCHANGED <<f_buffer, f_writeHead, f_readHead, f_closed, writer, written, received>>

ReadByte ==
    /\ \/ /\ reader.pc = "head"
          /\ f_readHead' = f_readHead + 1
          /\ reader' = [reader EXCEPT !.pc = "load"]
          /\ UNCHANGED received
       \/ /\ reader.pc = "load"
          /\ received' = Append(received, f_buffer[f_readHead - 1])
          /\ reader' = [reader EXCEPT !.pc = "wrap"]
          /\ UNCHANGED f_readHead
       \/ /\ reader.pc = "wrap"
          /\ f_readHead' = f_readHead % PipeSize
          /\ reader' = Moved(reader)
          /\ UNCHANGED received
    /\ UNCHANGED <<f_buffer, f_writeHead, f_closed, writer, written, raced>>

\* ~PipeStream() of an end whose thread is in no call.
Close(end) ==
    /\ end \notin f_closed
    /\ (IF end = "write" THEN writer ELSE reader) = Idle
    /\ f_closed' = f_closed \cup {end}
    /\ UNCHANGED <<f_buffer, f_writeHead, f_readHead, writer, reader, written, received, raced>>

Next ==
    \/ \E n \in 1..MaxLength : Write(n) \/ Read(n)
    \/ TestFull \/ WriteByte \/ TestEmpty \/ ReadByte
    \/ \E end \in {"read", "write"} : Close(end)

\* Both threads are scheduled again and again while they are in a call.
Fairness ==
    /\ WF_pipeVars(TestFull \/ WriteByte)
    /\ WF_pipeVars(TestEmpty \/ ReadByte)
Spec == Init /\ [][Next]_pipeVars /\ Fairness

-----------------------------------------------------------------------------
\* The reader gets the bytes in the order they were written, none twice and none
\* left out, in every interleaving but those in which a side acts on a head that
\* the other is still moving (pipestream.cpp:55, 78).
BytesInOrder == ~raced => \A k \in DOMAIN received : received[k] = k

\* A read() that waits, or is in the middle of its bytes, returns once the write
\* end is closed.
ReadReturns == ("write" \in f_closed /\ reader.pc # "idle") ~> (reader.pc = "idle")

=============================================================================
