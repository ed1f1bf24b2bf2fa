------------------------------- MODULE Terminal --------------------------------
(***************************************************************************)
(* A serial terminal: the line discipline TermiosHelper                    *)
(* (src/kernel/src/streams/termios.cpp) and the driver under it            *)
(* (src/kernel/modules/pc_serial), whose interrupt hands it characters and *)
(* whose write callback takes its output to the transmitter or to a FIFO.  *)
(* The interrupt runs with interrupts disabled, so it is one step; a       *)
(* reading thread is interrupted between its steps.  Characters that are   *)
(* sent are only counted.  The settings are those of TermiosHelper's       *)
(* interface: the driver leaves them all zero and its own read and write   *)
(* entries always answer ENODEV (devfs.cpp tests a variable of its own).   *)
(***************************************************************************)
EXTENDS Integers, SequencesExt

CONSTANTS
    InputSize,      \* size of f_input_buffer: 4096 in the code
    FifoSize,       \* f_capacity of the output FIFO: 256
    Chars,          \* a subset of {"a", "cr", "nl", "bs", "eof", "del"}
    Settings,       \* the sets of flags a terminal may have
    MaxChars,       \* bound on the characters received in a behaviour
    MaxRead         \* the longest stream_read

Noise == {"none", "parity", "break"}    \* bits 8 and 9 of a received word

VARIABLES
    flags,                                  \* f_termios
    f_input_buffer, f_read_head, f_write_head, f_line_head,
    serial,     \* [empty, rd, wr, sent, put, wrapped, hung]: transmitter and FIFO
    input,      \* history: the characters of finished lines, then of the open one
    lineLen,    \* how many of them belong to finished lines
    taken,      \* the characters stream_read returned
    user,       \* [pc, left]: the reading thread
    overrun,    \* write_input() has stored into the last free slot, or the write
                \* head has been taken below zero
    seen        \* characters received so far

termVars == <<flags, f_input_buffer, f_read_head, f_write_head, f_line_head,
              serial, input, lineLen, taken, user, overrun, seen>>

Init ==
    /\ flags \in Settings
    /\ f_input_buffer = [i \in 0..(InputSize - 1) |-> "a"]
    /\ f_read_head = 0 /\ f_write_head = 0 /\ f_line_head = 0
    /\ serial = [empty |-> TRUE, rd |-> 0, wr |-> 0, sent |-> 0, put |-> 0,
                 wrapped |-> FALSE, hung |-> FALSE]
    /\ input = <<>> /\ lineLen = 0 /\ taken = <<>>
    /\ user = [pc |-> "idle", left |-> 0]
    /\ overrun = FALSE
    /\ seen = 0

-----------------------------------------------------------------------------
\* Output.

\* FIFO::write(c, true): the full test does not wrap, so the last free slot is
\* taken when the read head is 0, and the FIFO is empty.
FifoPut(s) ==
    IF s.wr + 1 = s.rd THEN [s EXCEPT !.hung = TRUE]
    ELSE [s EXCEPT !.wr = (@ + 1) % FifoSize,
                   !.wrapped = @ \/ (s.wr + 1) % FifoSize = s.rd]

\* termios_write_callback(); the caller is an interrupt, so a full FIFO is for good.
WriteCallback(s) ==
    IF s.hung THEN s
    ELSE IF s.empty THEN [s EXCEPT !.empty = FALSE, !.sent = @ + 1, !.put = @ + 1]
    ELSE FifoPut([s EXCEPT !.put = @ + 1])

\* The characters write_output() passes on.
OutputOf(c) ==
    IF "OPOST" \notin flags THEN <<c>>
    ELSE IF c = "nl" /\ "ONLCR" \in flags THEN <<"cr", "nl">>
    ELSE IF c = "cr" /\ "ONLRET" \in flags THEN <<>>
    ELSE IF c = "cr" /\ "OCRNL" \in flags THEN <<"nl">>
    ELSE <<c>>

WriteOutput(s, c) ==
    LET n == Len(OutputOf(c)) IN
    IF n = 0 THEN s ELSE IF n = 1 THEN WriteCallback(s) ELSE WriteCallback(WriteCallback(s))

FifoLength == (serial.wr - serial.rd + FifoSize) % FifoSize

-----------------------------------------------------------------------------
\* Input.

\* handle_conditions(): is the character kept?
Kept(c, noise) ==
    /\ ~(noise = "break" /\ "IGNBRK" \in flags)
    /\ ~(noise = "parity" /\ "IGNPAR" \in flags)
    /\ ~(c = "cr" /\ "IGNCR" \in flags)

\* translate_character_input(); "del" is 0177, "nul" is 0.  PARENB is looked for
\* in the input flags; ISTRIP changes none of these characters.
Translate(c, noise) ==
    IF "PARENB" \in flags /\ noise = "parity"
    THEN IF "PARMRK" \in flags THEN <<"del", "nul", c>> ELSE <<"nul">>
    ELSE IF {"PARENB", "PARMRK"} \subseteq flags /\ c = "del" /\ noise = "none"
    THEN <<"del", "del">>
    ELSE IF noise = "break" /\ "PARMRK" \in flags /\ "BRKINT" \notin flags
    THEN <<"del", "nul", "nul">>
    ELSE IF c = "nl" /\ noise = "none" /\ "INLCR" \in flags THEN <<"cr">>
    ELSE IF c = "cr" /\ noise = "none" /\ "ICRNL" \in flags THEN <<"nl">>
    ELSE <<c>>

\* The part of the state write_input() and handle_canon() work on.
Line == [buf |-> f_input_buffer, wr |-> f_write_head, line |-> f_line_head,
         input |-> input, lineLen |-> lineLen, overrun |-> overrun, out |-> serial]

\* Variant: the buffer is never full.
MutWriteInput(l, c) ==
    [l EXCEPT !.buf[l.wr] = c, !.wr = (@ + 1) % InputSize, !.input = Append(@, c)]

\* write_input(): nothing is stored when the head is just below the read head.
WriteInput(l, c) ==
    IF l.wr + 1 = f_read_head THEN l
    ELSE [l EXCEPT !.buf[l.wr] = c,
                   !.wr = (@ + 1) % InputSize,
                   !.input = Append(@, c),
                   !.overrun = @ \/ (l.wr + 1) % InputSize = f_read_head]

PassLine(l) == [l EXCEPT !.line = l.wr, !.lineLen = Len(l.input)]

\* '\b' in handle_canon(): it takes a character back only when the write head has
\* wrapped and the line head has not.
Backspace(l) ==
    IF l.line > l.wr
    THEN [l EXCEPT !.out = WriteOutput(@, "bs"), !.wr = @ - 1, !.overrun = @ \/ l.wr = 0,
                   !.input = IF @ = <<>> THEN @ ELSE Front(@)]
    ELSE l

\* The loop over a translation, which has at most three characters.
WriteNth(l, out, n) == IF n <= Len(out) THEN WriteInput(l, out[n]) ELSE l
WriteAll(l, out) == WriteNth(WriteNth(WriteNth(l, out, 1), out, 2), out, 3)

\* handle_canon() and the rest of character_received(): the last character of the
\* translation decides; signals and flow control do nothing.
Discipline(l, out) ==
    LET c == Last(out) IN
    IF "ICANON" \notin flags \/ c \notin {"eof", "cr", "bs"} THEN WriteAll(l, out)
    ELSE IF c = "eof" THEN PassLine(WriteInput(l, "cr"))
    ELSE IF c = "cr" THEN PassLine(l)
    ELSE Backspace(l)

\* serial_interrupt(), "receiver data available", for one character, and
\* character_received() with its echo.  Once the write head is below zero the
\* next character is stored outside the buffer: that is not followed.
Receive(c, noise) ==
    /\ seen < MaxChars /\ ~serial.hung /\ f_write_head >= 0
    /\ seen' = seen + 1
    /\ LET echoed == [Line EXCEPT !.out = WriteOutput(serial, c)]
           after == IF ~Kept(c, noise) THEN echoed
                    ELSE Discipline(echoed, Translate(c, noise))
       IN /\ f_input_buffer' = after.buf
          /\ f_write_head' = after.wr
          /\ f_line_head' = after.line
          /\ input' = after.input
          /\ lineLen' = after.lineLen
          /\ overrun' = after.overrun
          /\ serial' = after.out
    /\ UNCHANGED <<flags, f_read_head, taken, user>>

\* The transmitter has sent its character.
Sent ==
    /\ ~serial.empty
    /\ serial' = [serial EXCEPT !.empty = TRUE]
    /\ UNCHANGED <<flags, f_input_buffer, f_read_head, f_write_head, f_line_head,
                   input, lineLen, taken, user, overrun, seen>>

\* Variant: the character stays in the FIFO.
MutTransmit ==
    /\ serial.empty /\ ~serial.hung /\ serial.rd # serial.wr
    /\ serial' = [serial EXCEPT !.empty = FALSE, !.sent = @ + 1]
    /\ UNCHANGED <<flags, f_input_buffer, f_read_head, f_write_head, f_line_head,
                   input, lineLen, taken, user, overrun, seen>>

\* serial_interrupt(), "transmitter empty".
Transmit ==
    /\ serial.empty /\ ~serial.hung /\ serial.rd # serial.wr
    /\ serial' = [serial EXCEPT !.empty = FALSE, !.sent = @ + 1, !.rd = (@ + 1) % FifoSize]
    /\ UNCHANGED <<flags, f_input_buffer, f_read_head, f_write_head, f_line_head,
                   input, lineLen, taken, user, overrun, seen>>

-----------------------------------------------------------------------------
\* stream_read(): with ICANON it waits for a line, then it takes what there is.
StreamRead(n) ==
    /\ user.pc = "idle" /\ Len(taken) + n <= MaxChars
    /\ user' = [pc |-> IF "ICANON" \in flags THEN "wait" ELSE "test", left |-> n]
    /\ UNCHANGED <<flags, f_input_buffer, f_read_head, f_write_head, f_line_head,
                   serial, input, lineLen, taken, overrun, seen>>

ReadTest ==
    /\ \/ /\ user.pc = "wait" /\ f_line_head # f_read_head
          /\ user' = [user EXCEPT !.pc = "test"]
       \/ /\ user.pc = "test"
          /\ user' = IF f_line_head = f_read_head \/ user.left = 0
                     THEN [pc |-> "idle", left |-> 0]
                     ELSE [user EXCEPT !.pc = "load"]
    /\ UNCHANGED <<flags, f_input_buffer, f_read_head, f_write_head, f_line_head,
                   serial, input, lineLen, taken, overrun, seen>>

\* read_input(): the byte first, the head in a second step.
ReadInput ==
    /\ \/ /\ user.pc = "load" /\ f_read_head # f_line_head
          /\ taken' = Append(taken, f_input_buffer[f_read_head])
          /\ user' = [user EXCEPT !.pc = "advance"]
          /\ UNCHANGED f_read_head
       \/ /\ user.pc = "advance"
          /\ f_read_head' = (f_read_head + 1) % InputSize
          /\ user' = [pc |-> "test", left |-> user.left - 1]
          /\ UNCHANGED taken
    /\ UNCHANGED <<flags, f_input_buffer, f_write_head, f_line_head,
                   serial, input, lineLen, overrun, seen>>

Next ==
    \/ \E c \in Chars, noise \in Noise : Receive(c, noise)
    \/ Sent \/ Transmit
    \/ \E n \in 1..MaxRead : StreamRead(n)
    \/ ReadTest \/ ReadInput

Spec == Init /\ [][Next]_termVars

-----------------------------------------------------------------------------
\* A program reads the characters of finished lines only, in the order they came,
\* none twice and none left out, until write_input() overruns the buffer
\* (termios.cpp:230) or a backspace takes the head below it (:192).
LinesInOrder ==
    ~overrun => IsPrefix(taken, SubSeq(input, 1, lineLen))

\* Every character the line discipline has put out is on the wire or in the FIFO,
\* until the FIFO's full test misses the wrap (fifo.hpp:25) or it waits for ever.
OutputConserved ==
    ~serial.wrapped /\ ~serial.hung => serial.put = serial.sent + FifoLength

=============================================================================
