------------------------------- MODULE Streams -------------------------------
(***************************************************************************)
(* Descriptors (StreamTable) and, beside them, a pipe (PipeStream) and a   *)
(* terminal (Terminal): the parts of the streams that are checked for      *)
(* small instances (MCStreams) and proved for all (StreamProofs).          *)
(***************************************************************************)
EXTENDS StreamTable

CONSTANTS PipeSize, MaxLength, MaxBytes,                            \* of PipeStream
          InputSize, FifoSize, Chars, Settings, MaxChars, MaxRead   \* of Terminal

VARIABLES
    f_buffer, f_writeHead, f_readHead, f_closed, writer, reader, written, received, raced,
    flags, f_input_buffer, f_read_head, f_write_head, f_line_head, serial, input, lineLen,
    taken, user, overrun, seen

\* The code's buffer has 4096 bytes; with one cell a ring is full and empty at once.
PipeAssumption == PipeSize \in Nat /\ PipeSize > 1 /\ MaxLength \in Nat
ASSUME PipeIsRing == PipeAssumption

\* The code has 4096 and 256.
TerminalAssumption == InputSize \in Nat \ {0} /\ FifoSize \in Nat \ {0}
ASSUME TerminalHasRings == TerminalAssumption

Pipe == INSTANCE PipeStream
Tty == INSTANCE Terminal

\* Bytes leave a pipe in the order they entered it, unless one end acts on a head
\* the other end is still moving (pipestream.cpp:55, 78).
BytesInOrder == Pipe!BytesInOrder
\* What a program reads from a terminal is what was typed, line by line, until the
\* input buffer is overrun (termios.cpp:171-235).
LinesInOrder == Tty!LinesInOrder
\* Characters leave the serial port once and in order, until its FIFO wraps over what
\* was not sent (pc_serial: fifo.hpp:23, main.cpp:102).
OutputConserved == Tty!OutputConserved

=============================================================================
