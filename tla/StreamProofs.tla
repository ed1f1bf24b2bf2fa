----------------------------- MODULE StreamProofs ------------------------------
(***************************************************************************)
(* Proofs about StreamTable, for any finite set of processes and any bound *)
(* on descriptors and storages, about PipeStream, for a buffer of any size *)
(* and about Terminal, for buffers of any size and all settings.           *)
(***************************************************************************)
EXTENDS Streams, FiniteSetTheorems, SequenceTheorems, TLAPS

-----------------------------------------------------------------------------
(* Positions in a ring of n cells. *)

LEMMA DivMod == \A n, a \in Int : n > 0 => a = n * (a \div n) + (a % n)
OBVIOUS

LEMMA NextMultiple ==
    ASSUME NEW n \in Nat, n > 0, NEW p \in Int, NEW q \in Int, p < q
    PROVE  n * q >= n * p + n
<1>1. PICK k \in Nat : q = p + 1 + k
  <2>1. q - p - 1 \in Nat
    OBVIOUS
  <2>2. QED
    BY <2>1
<1>2. n * q = n * p + n + n * k
  BY <1>1
<1>3. n * k \in Nat
  OBVIOUS
<1>4. QED
  BY <1>2, <1>3

LEMMA DivisionUnique ==
    ASSUME NEW n \in Nat, n > 0, NEW p \in Int, NEW q \in Int,
           NEW r \in 0..(n - 1), NEW s \in 0..(n - 1), n * p + r = n * q + s
    PROVE  r = s
<1>1. n * p \in Int /\ n * q \in Int
  OBVIOUS
<1>2. ~(p < q)
  BY <1>1, NextMultiple
<1>3. ~(q < p)
  BY <1>1, NextMultiple
<1>4. QED
  BY <1>1, <1>2, <1>3

LEMMA Division ==
    ASSUME NEW n \in Nat, n > 0, NEW a \in Nat
    PROVE  a % n \in 0..(n - 1) /\ a \div n \in Int /\ a = n * (a \div n) + (a % n)
<1>1. a % n \in 0..(n - 1) /\ a \div n \in Int
  OBVIOUS
<1>2. QED
  BY <1>1, DivMod

LEMMA HeadMod ==
    ASSUME NEW n \in Nat, n > 0, NEW h \in 0..n
    PROVE  h % n = IF h = n THEN 0 ELSE h
<1>1. h % n \in 0..(n - 1) /\ h \div n \in Int /\ h = n * (h \div n) + (h % n)
  BY Division
<1>2. n * 0 = 0 /\ n * 1 = n
  OBVIOUS
<1>3. CASE h = n
  BY <1>1, <1>2, <1>3, DivisionUnique
<1>4. CASE h # n
  BY <1>1, <1>2, <1>4, DivisionUnique
<1>5. QED
  BY <1>3, <1>4

\* A position moves on to the next cell, or from the last cell to the first.
LEMMA NextCell ==
    ASSUME NEW n \in Nat, n > 0, NEW a \in Nat
    PROVE  (a + 1) % n = IF a % n = n - 1 THEN 0 ELSE (a % n) + 1
<1> DEFINE q == a \div n
           r == a % n
           t == (a + 1) \div n
           s == (a + 1) % n
<1>1. r \in 0..(n - 1) /\ q \in Int /\ a = n * q + r
  BY Division
<1>2. s \in 0..(n - 1) /\ t \in Int /\ a + 1 = n * t + s
  BY Division
<1>3. n * q \in Int /\ n * t \in Int /\ n * (q + 1) = n * q + n
  BY <1>1, <1>2
<1> HIDE DEF q, r, t, s
<1>4. CASE r = n - 1
  <2>1. n * (q + 1) + 0 = n * t + s
    BY <1>1, <1>2, <1>3, <1>4
  <2>2. s = 0
    BY <2>1, <1>1, <1>2, DivisionUnique
  <2>3. QED
    BY <2>2, <1>4 DEF s, r
<1>5. CASE r # n - 1
  <2>1. n * q + (r + 1) = n * t + s
    BY <1>1, <1>2, <1>3
  <2>2. s = r + 1
    BY <2>1, <1>1, <1>2, <1>5, DivisionUnique
  <2>3. QED
    BY <2>2, <1>5 DEF s, r
<1>6. QED
  BY <1>4, <1>5

\* Two positions less than a ring apart are in different cells.
LEMMA CellsDiffer ==
    ASSUME NEW n \in Nat, n > 0, NEW a \in Nat, NEW b \in Nat, a < b, b - a < n
    PROVE  a % n # b % n
<1> DEFINE q == a \div n
           r == a % n
           t == b \div n
           s == b % n
<1>1. r \in 0..(n - 1) /\ q \in Int /\ a = n * q + r
  BY Division
<1>2. s \in 0..(n - 1) /\ t \in Int /\ b = n * t + s
  BY Division
<1>3. n * q \in Int /\ n * t \in Int
  BY <1>1, <1>2
<1> HIDE DEF q, r, t, s
<1> SUFFICES ASSUME r = s PROVE FALSE
  BY DEF r, s
<1>4. n * q < n * t /\ n * t < n * q + n
  BY <1>1, <1>2, <1>3
<1>5. ~(q < t)
  BY <1>1, <1>2, <1>3, <1>4, NextMultiple
<1>6. ~(t < q)
  BY <1>1, <1>2, <1>3, <1>4, NextMultiple
<1>7. QED
  BY <1>1, <1>2, <1>4, <1>5, <1>6

\* One turn of the ring leads back to the same cell.
LEMMA SameCell ==
    ASSUME NEW n \in Nat, n > 0, NEW a \in Nat
    PROVE  (a + n) % n = a % n
<1> DEFINE q == a \div n
           r == a % n
           t == (a + n) \div n
           s == (a + n) % n
<1>1. r \in 0..(n - 1) /\ q \in Int /\ a = n * q + r
  BY Division
<1>2. s \in 0..(n - 1) /\ t \in Int /\ a + n = n * t + s
  BY Division
<1>3. n * (q + 1) = n * q + n /\ n * q \in Int /\ n * t \in Int
  BY <1>1, <1>2
<1> HIDE DEF q, r, t, s
<1>4. n * (q + 1) + r = n * t + s
  BY <1>1, <1>2, <1>3
<1>5. s = r
  BY <1>1, <1>2, <1>4, DivisionUnique
<1>6. QED
  BY <1>5 DEF r, s

-----------------------------------------------------------------------------
(* Pipes.  The heads always stand where the counts of the bytes say; what a *)
(* raced step breaks is the distance between them.  As long as none was     *)
(* taken, the reader is behind the writer by less than the buffer, and the  *)
(* bytes between them lie in their cells.                                   *)

Calls == [pc : {"idle", "test", "head", "store", "load", "wrap"}, left : Int]

PipeShape ==
    /\ f_buffer \in [0..(PipeSize - 1) -> Nat]
    /\ f_writeHead \in 0..PipeSize /\ f_readHead \in 0..PipeSize
    /\ writer \in Calls /\ reader \in Calls
    /\ writer.pc # "load" /\ reader.pc # "store"
    /\ written \in Nat /\ received \in Seq(Nat)

\* The cell of the byte that comes after n bytes, and where the head of a side that moved n
\* bytes stands: "aside" is where it is past the cell of the byte being moved.
Cell(n) == n % PipeSize
HeadAt(call, n, aside) ==
    IF call.pc = aside THEN Cell(n) + 1
    ELSE IF call.pc = "wrap" THEN Cell(n - 1) + 1 ELSE Cell(n)

HeadsExact ==
    /\ writer.pc = "wrap" => written > 0
    /\ reader.pc = "wrap" => Len(received) > 0
    /\ f_writeHead = HeadAt(writer, written, "store")
    /\ f_readHead = HeadAt(reader, Len(received), "load")

\* The reader has claimed a byte that is there, the writer a cell that is free.
ReaderBehind ==
    /\ Len(received) <= written
    /\ reader.pc \in {"head", "load"} => Len(received) < written
WriterInRing ==
    /\ written - Len(received) < PipeSize
    /\ writer.pc \in {"head", "store"} => written + 1 - Len(received) < PipeSize
BytesInPlace ==
    \A k \in Nat : Len(received) <= k /\ k < written => f_buffer[Cell(k)] = k + 1

PipeInv ==
    /\ PipeShape /\ HeadsExact
    /\ ~raced => ReaderBehind /\ WriterInRing /\ BytesInPlace /\ Pipe!BytesInOrder

LEMMA CellFacts ==
    ASSUME PipeAssumption, NEW n \in Nat
    PROVE  /\ Cell(n) \in 0..(PipeSize - 1)
           /\ Cell(n + 1) = IF Cell(n) = PipeSize - 1 THEN 0 ELSE Cell(n) + 1
           /\ Cell(Cell(n) + 1) = Cell(n + 1)
           /\ Cell(n + PipeSize) = Cell(n)
           /\ \A m \in Nat : m < n /\ n - m < PipeSize => Cell(m) # Cell(n)
<1>0. PipeSize \in Nat /\ PipeSize > 0
  BY DEF PipeAssumption
<1>1. Cell(n) \in 0..(PipeSize - 1)
  BY <1>0, Division, Zenon DEF Cell
<1>2. Cell(n + 1) = IF Cell(n) = PipeSize - 1 THEN 0 ELSE Cell(n) + 1
  BY <1>0, NextCell, Zenon DEF Cell
<1>3. Cell(n) + 1 \in 0..PipeSize
  BY <1>0, <1>1
<1>4. Cell(Cell(n) + 1) = IF Cell(n) + 1 = PipeSize THEN 0 ELSE Cell(n) + 1
  BY <1>0, <1>3, HeadMod, Zenon DEF Cell
<1>5. Cell(Cell(n) + 1) = Cell(n + 1)
  <2> HIDE DEF Cell
  <2>1. QED
    BY <1>0, <1>1, <1>2, <1>4
<1>6. Cell(n + PipeSize) = Cell(n)
  BY <1>0, SameCell, Zenon DEF Cell
<1>7. ASSUME NEW m \in Nat, m < n, n - m < PipeSize PROVE Cell(m) # Cell(n)
  BY <1>0, <1>7, CellsDiffer, Zenon DEF Cell
<1>8. QED
  BY <1>1, <1>2, <1>5, <1>6, <1>7

LEMMA CellZero == ASSUME PipeAssumption PROVE Cell(0) = 0
<1>1. PipeSize \in Nat /\ PipeSize > 0 /\ 0 \in 0..PipeSize /\ 0 # PipeSize
  BY DEF PipeAssumption
<1>2. QED
  BY <1>1, HeadMod, Zenon DEF Cell

LEMMA InitPipe == ASSUME PipeAssumption PROVE Pipe!Init => PipeInv
<1> SUFFICES ASSUME Pipe!Init PROVE PipeInv
  OBVIOUS
<1>1. PipeShape
  <2>1. /\ f_buffer \in [0..(PipeSize - 1) -> Nat]
        /\ f_writeHead \in 0..PipeSize /\ f_readHead \in 0..PipeSize
        /\ written \in Nat /\ received \in Seq(Nat)
    BY DEF PipeAssumption, Pipe!Init
  <2>2. writer \in Calls /\ reader \in Calls /\ writer.pc # "load" /\ reader.pc # "store"
    BY DEF Pipe!Init, Pipe!Idle, Calls
  <2>3. QED
    BY <2>1, <2>2 DEF PipeShape
<1>2. HeadsExact
  BY CellZero DEF HeadsExact, HeadAt, Pipe!Init, Pipe!Idle
<1>3. ReaderBehind /\ WriterInRing /\ BytesInPlace /\ Pipe!BytesInOrder
  BY DEF ReaderBehind, WriterInRing, BytesInPlace, Pipe!BytesInOrder, PipeAssumption,
         Pipe!Init, Pipe!Idle
<1>4. QED
  BY <1>1, <1>2, <1>3 DEF PipeInv

\* A step that moves neither head nor a byte, and takes the sides to places where their heads
\* stand as before, keeps everything; what the test of a side claims is shown apart.
LEMMA Quiet ==
    ASSUME PipeInv, UNCHANGED <<f_buffer, f_writeHead, f_readHead, written, received>>,
           writer' \in Calls, reader' \in Calls,
           writer' # writer => {writer.pc, writer'.pc} \subseteq {"idle", "test", "head"},
           reader' # reader => {reader.pc, reader'.pc} \subseteq {"idle", "test", "head"},
           ~raced' => ~raced,
           ~raced' /\ writer' # writer /\ writer'.pc = "head" =>
                written + 1 - Len(received) < PipeSize,
           ~raced' /\ reader' # reader /\ reader'.pc = "head" => Len(received) < written
    PROVE  PipeInv'
<1>1. PipeShape'
  BY DEF PipeInv, PipeShape
<1>2. HeadsExact'
  BY DEF PipeInv, HeadsExact, HeadAt
<1>3. ~raced' => ReaderBehind' /\ WriterInRing'
  BY DEF PipeInv, ReaderBehind, WriterInRing
<1>4. ~raced' => BytesInPlace' /\ Pipe!BytesInOrder'
  BY DEF PipeInv, BytesInPlace, Pipe!BytesInOrder
<1>5. QED
  BY <1>1, <1>2, <1>3, <1>4 DEF PipeInv

LEMMA StepTestFull == ASSUME PipeAssumption, PipeInv, Pipe!TestFull PROVE PipeInv'
<1>1. /\ writer.pc = "test" /\ Cell(f_writeHead + 1) # f_readHead
      /\ writer' = [writer EXCEPT !.pc = "head"]
      /\ raced' = (raced \/ Pipe!AheadOfReader)
      /\ UNCHANGED <<f_buffer, f_writeHead, f_readHead, f_closed, reader, written, received>>
  BY DEF Pipe!TestFull, Cell
<1>2. writer \in Calls /\ reader \in Calls /\ written \in Nat /\ Len(received) \in Nat
  BY DEF PipeInv, PipeShape
<1>3. writer' \in Calls /\ writer'.pc = "head"
  BY <1>1, <1>2 DEF Calls
<1>4. ASSUME ~raced' PROVE ~raced /\ written + 1 - Len(received) < PipeSize
  <2>1. ~raced /\ reader.pc \notin {"load", "wrap"}
    BY <1>1, <1>4 DEF Pipe!AheadOfReader
  <2>2. f_writeHead = Cell(written) /\ f_readHead = Cell(Len(received))
    BY <1>1, <2>1 DEF PipeInv, HeadsExact, HeadAt
  <2>3. Cell(written + 1) # Cell(Len(received))
    BY <1>1, <1>2, <2>2, CellFacts
  <2>4. Cell(Len(received) + PipeSize) = Cell(Len(received))
    BY <1>2, CellFacts
  <2>5. written + 1 # Len(received) + PipeSize
    BY <2>3, <2>4
  <2>6. QED
    BY <1>2, <2>1, <2>5 DEF PipeInv, WriterInRing, PipeAssumption
<1>5. QED
  BY <1>1, <1>2, <1>3, <1>4, Quiet

LEMMA StepTestEmpty == ASSUME PipeAssumption, PipeInv, Pipe!TestEmpty PROVE PipeInv'
<1>1. writer \in Calls /\ reader \in Calls /\ written \in Nat /\ Len(received) \in Nat
  BY DEF PipeInv, PipeShape
<1>2. /\ reader.pc = "test"
      /\ UNCHANGED <<f_buffer, f_writeHead, f_readHead, f_closed, writer, written, received>>
  BY DEF Pipe!TestEmpty
<1>3. CASE reader' = Pipe!Idle /\ raced' = raced
  BY <1>1, <1>2, <1>3, Quiet DEF Pipe!Idle, Calls
<1>4. CASE /\ f_readHead # f_writeHead /\ reader' = [reader EXCEPT !.pc = "head"]
           /\ raced' = (raced \/ Pipe!AheadOfWriter)
  <2>1. reader' \in Calls /\ reader'.pc = "head"
    BY <1>1, <1>4 DEF Calls
  <2>2. ASSUME ~raced' PROVE ~raced /\ Len(received) < written
    <3>1. ~raced /\ ~Pipe!AheadOfWriter
      BY <1>4, <2>2
    <3>2. f_readHead = Cell(Len(received)) /\ Len(received) <= written
      BY <1>2, <3>1 DEF PipeInv, HeadsExact, HeadAt, ReaderBehind
    <3>3. Cell(written) \in Int /\ PipeSize \in Int
      BY <1>1, CellFacts DEF PipeAssumption
    <3>4. CASE writer.pc = "store"
      <4>1. f_writeHead = Cell(written) + 1
        BY <3>4 DEF PipeInv, HeadsExact, HeadAt
      <4>2. Cell(Len(received)) # Cell(written)
        BY <3>1, <3>2, <3>3, <3>4, <4>1 DEF Pipe!AheadOfWriter
      <4>3. QED
        BY <1>1, <3>1, <3>2, <4>2
    <3>5. CASE writer.pc = "wrap"
      <4>1. f_writeHead = Cell(written - 1) + 1 /\ written - 1 \in Nat
        BY <1>1, <3>5 DEF PipeInv, HeadsExact, HeadAt
      <4>2. Cell(written - 1) \in 0..(PipeSize - 1)
            /\ Cell(written) = IF Cell(written - 1) = PipeSize - 1 THEN 0 ELSE Cell(written - 1) + 1
        <5>1. (written - 1) + 1 = written
          BY <1>1
        <5>2. QED
          BY <4>1, <5>1, CellFacts
      <4>3. Cell(Len(received)) # Cell(written)
        BY <1>4, <3>1, <3>2, <3>3, <4>1, <4>2 DEF Pipe!AheadOfWriter
      <4>4. QED
        BY <1>1, <3>1, <3>2, <4>3
    <3>6. CASE writer.pc \notin {"store", "wrap"}
      <4>1. f_writeHead = Cell(written)
        BY <3>6 DEF PipeInv, HeadsExact, HeadAt
      <4>2. QED
        BY <1>1, <1>4, <3>1, <3>2, <4>1
    <3>7. QED
      BY <3>4, <3>5, <3>6
  <2>3. QED
    BY <1>1, <1>2, <2>1, <2>2, Quiet
<1>5. QED
  BY <1>3, <1>4 DEF Pipe!TestEmpty

LEMMA StepWriteByte == ASSUME PipeAssumption, PipeInv, Pipe!WriteByte PROVE PipeInv'
<1>1. /\ PipeShape /\ HeadsExact /\ PipeSize \in Nat /\ PipeSize > 1
      /\ writer \in Calls /\ written \in Nat /\ Len(received) \in Nat
      /\ f_buffer \in [0..(PipeSize - 1) -> Nat]
      /\ Cell(written) \in 0..(PipeSize - 1)
  <2>1. /\ PipeShape /\ HeadsExact
        /\ writer \in Calls /\ written \in Nat /\ Len(received) \in Nat
        /\ f_buffer \in [0..(PipeSize - 1) -> Nat]
    BY DEF PipeInv, PipeShape
  <2>2. Cell(written) \in 0..(PipeSize - 1)
    BY <2>1, CellFacts
  <2>3. QED
    BY <2>1, <2>2 DEF PipeAssumption
<1>2. UNCHANGED <<f_readHead, f_closed, reader, received, raced>>
  BY DEF Pipe!WriteByte
<1>3. CASE writer.pc = "head"
  <2>1. /\ f_writeHead' = f_writeHead + 1 /\ writer' = [writer EXCEPT !.pc = "store"]
        /\ UNCHANGED <<f_buffer, written>>
    BY <1>3 DEF Pipe!WriteByte
  <2>2. writer' \in Calls /\ writer'.pc = "store"
    BY <1>1, <2>1 DEF Calls
  <2>3. f_writeHead = Cell(written)
    BY <1>1, <1>3 DEF HeadsExact, HeadAt
  <2>4. PipeShape'
    BY <1>1, <1>2, <2>1, <2>2, <2>3 DEF PipeShape
  <2>5. HeadsExact'
    BY <1>1, <1>2, <2>1, <2>2, <2>3 DEF HeadsExact, HeadAt
  <2>6. ~raced' => ReaderBehind' /\ WriterInRing' /\ BytesInPlace' /\ Pipe!BytesInOrder'
    BY <1>2, <1>3, <2>1, <2>2
    DEF PipeInv, ReaderBehind, WriterInRing, BytesInPlace, Pipe!BytesInOrder
  <2>7. QED
    BY <2>4, <2>5, <2>6 DEF PipeInv
<1>4. CASE writer.pc = "store"
  <2>1. f_writeHead = Cell(written) + 1 /\ f_writeHead - 1 = Cell(written)
    BY <1>1, <1>4 DEF HeadsExact, HeadAt
  <2>2. /\ f_buffer' = [f_buffer EXCEPT ![Cell(written)] = written + 1]
        /\ written' = written + 1 /\ writer' = [writer EXCEPT !.pc = "wrap"]
        /\ UNCHANGED f_writeHead
    BY <1>4, <2>1 DEF Pipe!WriteByte
  <2>3. writer' \in Calls /\ writer'.pc = "wrap"
    BY <1>1, <2>2 DEF Calls
  <2>4. PipeShape'
    BY <1>1, <1>2, <2>1, <2>2, <2>3 DEF PipeShape
  <2>5. HeadsExact'
    <3>1. (written + 1) - 1 = written
      BY <1>1
    <3>2. QED
      BY <1>1, <1>2, <2>1, <2>2, <2>3, <3>1 DEF HeadsExact, HeadAt
  <2>6. ~raced' => ReaderBehind' /\ WriterInRing' /\ Pipe!BytesInOrder'
    BY <1>1, <1>2, <1>4, <2>2, <2>3
    DEF PipeInv, ReaderBehind, WriterInRing, Pipe!BytesInOrder
  <2>7. ASSUME ~raced', NEW k \in Nat, Len(received) <= k, k < written'
        PROVE  f_buffer'[Cell(k)] = k + 1
    <3>1. CASE k = written
      BY <1>1, <2>2, <3>1
    <3>2. CASE k < written
      <4>1. written - k < PipeSize /\ f_buffer[Cell(k)] = k + 1
        BY <1>1, <1>2, <1>4, <2>7, <3>2 DEF PipeInv, WriterInRing, BytesInPlace
      <4>2. Cell(k) # Cell(written) /\ Cell(k) \in 0..(PipeSize - 1)
        BY <1>1, <3>2, <4>1, CellFacts
      <4>3. QED
        BY <1>1, <2>2, <4>1, <4>2
    <3>3. QED
      BY <1>1, <2>2, <2>7, <3>1, <3>2
  <2>8. ~raced' => BytesInPlace'
    BY <1>2, <2>7 DEF BytesInPlace
  <2>9. QED
    BY <2>4, <2>5, <2>6, <2>8 DEF PipeInv
<1>5. CASE writer.pc = "wrap"
  <2>1. f_writeHead = Cell(written - 1) + 1 /\ written - 1 \in Nat /\ (written - 1) + 1 = written
    BY <1>1, <1>5 DEF HeadsExact, HeadAt
  <2>2. Cell(f_writeHead) = Cell(written)
    BY <2>1, CellFacts
  <2>3. f_writeHead' = Cell(written) /\ writer' = Pipe!Moved(writer)
        /\ UNCHANGED <<f_buffer, written>>
    BY <1>5, <2>2 DEF Pipe!WriteByte, Cell
  <2>4. writer' \in Calls /\ writer'.pc \in {"idle", "test"}
    BY <1>1, <2>3 DEF Pipe!Moved, Pipe!Idle, Calls
  <2>5. PipeShape'
    BY <1>1, <1>2, <2>3, <2>4 DEF PipeShape
  <2>6. HeadsExact'
    BY <1>1, <1>2, <2>3, <2>4 DEF HeadsExact, HeadAt
  <2>7. ~raced' => ReaderBehind' /\ WriterInRing' /\ BytesInPlace' /\ Pipe!BytesInOrder'
    BY <1>2, <2>3, <2>4
    DEF PipeInv, ReaderBehind, WriterInRing, BytesInPlace, Pipe!BytesInOrder
  <2>8. QED
    BY <2>5, <2>6, <2>7 DEF PipeInv
<1>6. QED
  BY <1>3, <1>4, <1>5 DEF Pipe!WriteByte

LEMMA StepReadByte == ASSUME PipeAssumption, PipeInv, Pipe!ReadByte PROVE PipeInv'
<1> DEFINE n == Len(received)
<1>1. /\ PipeShape /\ HeadsExact /\ PipeSize \in Nat /\ PipeSize > 1
      /\ reader \in Calls /\ written \in Nat /\ n \in Nat /\ received \in Seq(Nat)
      /\ f_buffer \in [0..(PipeSize - 1) -> Nat]
      /\ Cell(n) \in 0..(PipeSize - 1)
  <2>1. /\ PipeShape /\ HeadsExact
        /\ reader \in Calls /\ written \in Nat /\ n \in Nat /\ received \in Seq(Nat)
        /\ f_buffer \in [0..(PipeSize - 1) -> Nat]
    BY DEF PipeInv, PipeShape
  <2>2. Cell(n) \in 0..(PipeSize - 1)
    BY <2>1, CellFacts
  <2>3. QED
    BY <2>1, <2>2 DEF PipeAssumption
<1>2. UNCHANGED <<f_buffer, f_writeHead, f_closed, writer, written, raced>>
  BY DEF Pipe!ReadByte
<1>3. CASE reader.pc = "head"
  <2>1. /\ f_readHead' = f_readHead + 1 /\ reader' = [reader EXCEPT !.pc = "load"]
        /\ UNCHANGED received
    BY <1>3 DEF Pipe!ReadByte
  <2>2. reader' \in Calls /\ reader'.pc = "load"
    BY <1>1, <2>1 DEF Calls
  <2>3. f_readHead = Cell(n)
    BY <1>1, <1>3 DEF HeadsExact, HeadAt
  <2>4. PipeShape'
    BY <1>1, <1>2, <2>1, <2>2, <2>3 DEF PipeShape
  <2>5. HeadsExact'
    BY <1>1, <1>2, <2>1, <2>2, <2>3 DEF HeadsExact, HeadAt
  <2>6. ~raced' => ReaderBehind' /\ WriterInRing' /\ BytesInPlace' /\ Pipe!BytesInOrder'
    BY <1>2, <1>3, <2>1, <2>2
    DEF PipeInv, ReaderBehind, WriterInRing, BytesInPlace, Pipe!BytesInOrder
  <2>7. QED
    BY <2>4, <2>5, <2>6 DEF PipeInv
<1>4. CASE reader.pc = "load"
  <2>1. f_readHead = Cell(n) + 1 /\ f_readHead - 1 = Cell(n)
    BY <1>1, <1>4 DEF HeadsExact, HeadAt
  <2>2. /\ received' = Append(received, f_buffer[Cell(n)])
        /\ reader' = [reader EXCEPT !.pc = "wrap"]
        /\ UNCHANGED f_readHead
    BY <1>4, <2>1 DEF Pipe!ReadByte
  <2>3. reader' \in Calls /\ reader'.pc = "wrap"
    BY <1>1, <2>2 DEF Calls
  <2>4. /\ received' \in Seq(Nat) /\ Len(received') = n + 1 /\ DOMAIN received' = 1..(n + 1)
        /\ \A k \in 1..n : received'[k] = received[k]
        /\ received'[n + 1] = f_buffer[Cell(n)]
    <3>1. f_buffer[Cell(n)] \in Nat
      BY <1>1
    <3>2. QED
      BY <1>1, <2>2, <3>1
  <2>5. PipeShape'
    BY <1>1, <1>2, <2>2, <2>3, <2>4 DEF PipeShape
  <2>6. HeadsExact'
    <3>1. (n + 1) - 1 = n
      BY <1>1
    <3>2. QED
      BY <1>1, <1>2, <2>1, <2>2, <2>3, <2>4, <3>1 DEF HeadsExact, HeadAt
  <2>7. ASSUME ~raced' PROVE ReaderBehind' /\ WriterInRing' /\ BytesInPlace'
    BY <1>1, <1>2, <1>4, <2>3, <2>4, <2>7
    DEF PipeInv, ReaderBehind, WriterInRing, BytesInPlace
  <2>8. ASSUME ~raced' PROVE Pipe!BytesInOrder'
    <3>1. f_buffer[Cell(n)] = n + 1
      BY <1>1, <1>2, <1>4, <2>8 DEF PipeInv, ReaderBehind, BytesInPlace
    <3>2. \A k \in 1..n : received[k] = k
      BY <1>1, <1>2, <2>8 DEF PipeInv, Pipe!BytesInOrder
    <3>3. ASSUME NEW k \in 1..(n + 1) PROVE received'[k] = k
      <4>1. CASE k = n + 1
        BY <2>4, <3>1, <4>1
      <4>2. CASE k \in 1..n
        BY <2>4, <3>2, <4>2
      <4>3. QED
        BY <1>1, <4>1, <4>2
    <3>4. QED
      BY <2>4, <3>3 DEF Pipe!BytesInOrder
  <2>9. QED
    BY <2>5, <2>6, <2>7, <2>8 DEF PipeInv
<1>5. CASE reader.pc = "wrap"
  <2>1. f_readHead = Cell(n - 1) + 1 /\ n - 1 \in Nat /\ (n - 1) + 1 = n
    BY <1>1, <1>5 DEF HeadsExact, HeadAt
  <2>2. Cell(f_readHead) = Cell(n)
    BY <2>1, CellFacts
  <2>3. f_readHead' = Cell(n) /\ reader' = Pipe!Moved(reader) /\ UNCHANGED received
    BY <1>5, <2>2 DEF Pipe!ReadByte, Cell
  <2>4. reader' \in Calls /\ reader'.pc \in {"idle", "test"}
    BY <1>1, <2>3 DEF Pipe!Moved, Pipe!Idle, Calls
  <2>5. PipeShape'
    BY <1>1, <1>2, <2>3, <2>4 DEF PipeShape
  <2>6. HeadsExact'
    BY <1>1, <1>2, <2>3, <2>4 DEF HeadsExact, HeadAt
  <2>7. ~raced' => ReaderBehind' /\ WriterInRing' /\ BytesInPlace' /\ Pipe!BytesInOrder'
    BY <1>2, <2>3, <2>4
    DEF PipeInv, ReaderBehind, WriterInRing, BytesInPlace, Pipe!BytesInOrder
  <2>8. QED
    BY <2>5, <2>6, <2>7 DEF PipeInv
<1>6. QED
  BY <1>3, <1>4, <1>5 DEF Pipe!ReadByte

LEMMA StepPipe == ASSUME PipeAssumption PROVE PipeInv /\ [Pipe!Next]_(Pipe!pipeVars) => PipeInv'
<1> SUFFICES ASSUME PipeInv, [Pipe!Next]_(Pipe!pipeVars) PROVE PipeInv'
  OBVIOUS
<1>0. writer \in Calls /\ reader \in Calls
  BY DEF PipeInv, PipeShape
<1>1. ASSUME NEW n \in 1..MaxLength, Pipe!Write(n) PROVE PipeInv'
  BY <1>0, <1>1, Quiet DEF Pipe!Write, Calls
<1>2. ASSUME NEW n \in 1..MaxLength, Pipe!Read(n) PROVE PipeInv'
  BY <1>0, <1>2, Quiet DEF Pipe!Read, Calls
<1>3. ASSUME NEW end \in {"read", "write"}, Pipe!Close(end) PROVE PipeInv'
  BY <1>0, <1>3, Quiet DEF Pipe!Close
<1>4. CASE UNCHANGED Pipe!pipeVars
  BY <1>0, <1>4, Quiet DEF Pipe!pipeVars
<1>5. QED
  BY <1>1, <1>2, <1>3, <1>4, StepTestFull, StepWriteByte, StepTestEmpty, StepReadByte
  DEF Pipe!Next

\* Whatever the size of the buffer: bytes leave a pipe in the order they entered it, none
\* twice and none left out, unless one side acted on a head that the other was still moving
\* (pipestream.cpp:55, 78).
THEOREM PipeKeepsOrder == Pipe!Spec => []BytesInOrder
<1>1. PipeInv => BytesInOrder
  BY DEF PipeInv, BytesInOrder, Pipe!BytesInOrder
<1>2. Pipe!Init => PipeInv
  BY InitPipe, PipeIsRing
<1>3. PipeInv /\ [Pipe!Next]_(Pipe!pipeVars) => PipeInv'
  BY StepPipe, PipeIsRing
<1>4. QED
  BY <1>1, <1>2, <1>3, PTL DEF Pipe!Spec

-----------------------------------------------------------------------------
(* Descriptors.  The counts are exact because every step moves wrappers     *)
(* between the tables and the sequences being destroyed, one for one; that  *)
(* nothing is deleted twice or early follows from the counts: what a        *)
(* process deletes, and what was deleted, has count zero, and only a        *)
(* storage that some table holds is ever copied.                            *)

TableShape ==
    /\ TypeOK
    /\ f_streams \in [Procs -> [Fds -> 1..made \cup {Null}]]
    /\ todo \in [Procs -> Seq(1..made)]
    /\ insert \in [Procs -> {<<>>, <<"exit">>} \cup (Fds \X Storages)]
    /\ freed \subseteq 1..made /\ gone \subseteq 0..made

\* What a process has at hand where it is.
PlaceExact ==
    \A p \in Procs :
        /\ pc[p] \in {"clear", "delete"} <=> todo[p] # <<>>
        /\ pc[p] \in {"unborn", "run"} => insert[p] = <<>>
        /\ pc[p] = "insert" => insert[p] \in Fds \X Storages
        /\ pc[p] = "unborn" => \A fd \in Fds : f_streams[p][fd] = Null

\* dup_stream() inserts a copy of an entry that is still in the table, at a free place.
InsertLive ==
    \A p \in Procs : insert[p] \in Fds \X Storages =>
        /\ f_streams[p][insert[p][1]] = Null
        /\ \E fd \in Fds : f_streams[p][fd] = insert[p][2]

ZeroCounts ==
    /\ \A p \in Procs : pc[p] = "delete" => refs[Head(todo[p])] = 0
    /\ \A d \in freed : refs[d] = 0

NextIsLow ==
    \A p \in Procs : \A fd \in 0..(f_next_fd[p] - 1) :
        \/ f_streams[p][fd] # Null
        \/ insert[p] # <<>> /\ insert[p][1] = fd

TableInv ==
    /\ TableShape /\ PlaceExact /\ InsertLive /\ RefsExact /\ ZeroCounts
    /\ StorageDeletedOnce /\ OpenedStreamsLive /\ NextIsLow

LEMMA FdsFinite == IsFiniteSet(Fds)
<1>1. MaxFd \in Int /\ -1 \in Int
  BY StreamAssumption
<1>2. QED
  BY <1>1, FS_Interval DEF Fds

LEMMA CopySize == ASSUME NEW x, NEW S, IsFiniteSet(S)
                  PROVE  IsFiniteSet({x} \X S) /\ Cardinality({x} \X S) = Cardinality(S)
<1>1. IsFiniteSet({x}) /\ Cardinality({x}) = 1
  BY FS_Singleton
<1>2. IsFiniteSet({x} \X S) /\ Cardinality({x} \X S) = 1 * Cardinality(S)
  BY <1>1, FS_Product
<1>3. Cardinality(S) \in Nat
  BY FS_CardinalityType
<1>4. QED
  BY <1>2, <1>3

LEMMA DyingMember ==
    ASSUME TableShape, NEW d, NEW e
    PROVE  e \in Dying(d) <=> \E p \in Procs, i \in Nat : i \in Pending(p, d) /\ e = <<p, i>>
<1>1. \A p \in Procs : Pending(p, d) \subseteq Nat
  BY DEF Pending, TableShape
<1>2. QED
  BY <1>1 DEF Dying

LEMMA CountsFinite ==
    ASSUME TableShape, NEW d \in Storages
    PROVE  /\ IsFiniteSet(Holders(d)) /\ Cardinality(Holders(d)) \in Nat
           /\ IsFiniteSet(Dying(d)) /\ Cardinality(Dying(d)) \in Nat
<1>1. IsFiniteSet(Holders(d))
  <2>1. IsFiniteSet(Procs \X Fds)
    BY FdsFinite, FS_Product, StreamAssumption
  <2>2. Holders(d) \in SUBSET (Procs \X Fds)
    BY DEF Holders
  <2>3. QED
    BY <2>1, <2>2, FS_Subset
<1>2. IsFiniteSet(Dying(d))
  <2> DEFINE Part(p) == {p} \X Pending(p, d)
             Parts == {Part(p) : p \in Procs}
             f == [p \in Procs |-> Part(p)]
  <2>1. f \in Surjection(Procs, Parts)
    BY DEF Surjection
  <2>2. IsFiniteSet(Parts)
    BY <2>1, FS_Surjection, StreamAssumption
  <2>3. ASSUME NEW p \in Procs PROVE IsFiniteSet(Part(p))
    <3>1. DOMAIN todo[p] = 1..Len(todo[p]) /\ Len(todo[p]) \in Int
      BY DEF TableShape
    <3>2. IsFiniteSet(1..Len(todo[p]))
      BY <3>1, FS_Interval
    <3>3. Pending(p, d) \in SUBSET (1..Len(todo[p]))
      BY <3>1 DEF Pending
    <3>4. IsFiniteSet(Pending(p, d))
      BY <3>2, <3>3, FS_Subset
    <3>5. QED
      BY <3>4, CopySize
  <2>4. QED
    BY <2>2, <2>3, FS_UNION DEF Dying
<1>3. QED
  BY <1>1, <1>2, FS_CardinalityType

\* Some wrapper of d is in a table: its count is not zero.
LEMMA HeldIsCounted ==
    ASSUME TableInv, NEW p \in Procs, NEW fd \in Fds, f_streams[p][fd] \in Storages
    PROVE  refs[f_streams[p][fd]] > 0
<1> DEFINE d == f_streams[p][fd]
<1>1. <<p, fd>> \in Holders(d)
  BY DEF Holders
<1>2. Cardinality(Holders(d)) # 0 /\ Cardinality(Holders(d)) \in Nat
  BY <1>1, CountsFinite, FS_EmptySet DEF TableInv
<1>3. Cardinality(Dying(d)) \in Nat
  BY CountsFinite DEF TableInv
<1>4. refs[d] = Cardinality(Holders(d)) + Cardinality(Dying(d))
  BY DEF TableInv, RefsExact
<1>5. QED
  BY <1>2, <1>3, <1>4

LEMMA SameDying ==
    ASSUME UNCHANGED todo, \A p \in Procs : pc'[p] = "delete" <=> pc[p] = "delete", NEW d
    PROVE  Dying(d)' = Dying(d)
<1>1. \A p \in Procs : Pending(p, d)' = Pending(p, d)
  BY DEF Pending
<1>2. QED
  BY <1>1 DEF Dying

LEMMA SameHolders == ASSUME UNCHANGED f_streams, NEW d PROVE Holders(d)' = Holders(d)
BY DEF Holders

LEMMA AddEntry ==
    ASSUME TableShape, NEW p \in Procs, NEW fd \in Fds, NEW s \in Storages,
           f_streams[p][fd] = Null, f_streams' = [f_streams EXCEPT ![p][fd] = s],
           NEW d \in Storages
    PROVE  Cardinality(Holders(d)') = Cardinality(Holders(d)) + (IF d = s THEN 1 ELSE 0)
<1>1. f_streams \in [Procs -> [Fds -> Storages \cup {Null}]] /\ Null \notin Storages
  BY StreamAssumption DEF TableShape, TypeOK, Storages
<1>2. \A q \in Procs, g \in Fds :
          f_streams'[q][g] = IF q = p /\ g = fd THEN s ELSE f_streams[q][g]
  BY <1>1
<1>3. CASE d = s
  <2>1. Holders(d)' = Holders(d) \cup {<<p, fd>>}
    BY <1>2, <1>3 DEF Holders
  <2>2. <<p, fd>> \notin Holders(d)
    BY <1>1 DEF Holders
  <2>3. QED
    BY <1>3, <2>1, <2>2, CountsFinite, FS_AddElement
<1>4. CASE d # s
  <2>1. Holders(d)' = Holders(d)
    BY <1>1, <1>2, <1>4 DEF Holders
  <2>2. QED
    BY <1>4, <2>1, CountsFinite
<1>5. QED
  BY <1>3, <1>4

LEMMA ForkCount ==
    ASSUME TableShape, NEW p \in Procs, NEW c \in Procs,
           \A fd \in Fds : f_streams[c][fd] = Null,
           f_streams' = [f_streams EXCEPT ![c] = f_streams[p]], NEW d \in Storages
    PROVE  /\ Cardinality({fd \in Fds : f_streams[p][fd] = d}) \in Nat
           /\ Cardinality(Holders(d)') =
                Cardinality(Holders(d)) + Cardinality({fd \in Fds : f_streams[p][fd] = d})
<1> DEFINE F == {fd \in Fds : f_streams[p][fd] = d}
<1>1. f_streams \in [Procs -> [Fds -> Storages \cup {Null}]] /\ Null \notin Storages
  BY StreamAssumption DEF TableShape, TypeOK, Storages
<1>2. IsFiniteSet(F) /\ Cardinality(F) \in Nat
  BY FdsFinite, FS_Subset, FS_CardinalityType
<1>3. IsFiniteSet({c} \X F) /\ Cardinality({c} \X F) = Cardinality(F)
  BY <1>2, CopySize
<1>4. Holders(d)' = Holders(d) \cup ({c} \X F)
  BY <1>1 DEF Holders
<1>5. Holders(d) \cap ({c} \X F) = {}
  BY <1>1 DEF Holders
<1>6. Cardinality(Holders(d)') = Cardinality(Holders(d)) + Cardinality(F) - 0
  BY <1>3, <1>4, <1>5, CountsFinite, FS_Union, FS_EmptySet
<1>7. QED
  BY <1>2, <1>6, CountsFinite

\* Destroy() lists the wrappers of the descriptors it takes out, each once.
LEMMA OrderFacts ==
    ASSUME NEW fds \in SUBSET Fds
    PROVE  /\ Cardinality(fds) \in Nat /\ (Cardinality(fds) = 0 <=> fds = {})
           /\ SetToSeq(fds) \in [1..Cardinality(fds) -> fds]
           /\ SetToSeq(fds) \in Bijection(1..Cardinality(fds), fds)
<1> DEFINE m == Cardinality(fds)
<1>1. IsFiniteSet(fds)
  BY FdsFinite, FS_Subset
<1>2. m \in Nat /\ ExistsBijection(1..m, fds)
  BY <1>1, FS_CardinalityType
<1>3. \E f \in [1..m -> fds] : IsInjective(f)
  BY <1>2 DEF ExistsBijection, Bijection, Injection
<1>4. SetToSeq(fds) \in [1..m -> fds] /\ IsInjective(SetToSeq(fds))
  BY <1>3 DEF SetToSeq
<1>5. SetToSeq(fds) \in Injection(1..m, fds)
  BY <1>4 DEF Injection
<1>6. Cardinality(1..m) = m
  BY <1>2, FS_Interval
<1>7. SetToSeq(fds) \in Surjection(1..m, fds)
  BY <1>1, <1>5, <1>6, FS_Injection
<1>8. QED
  BY <1>1, <1>2, <1>4, <1>5, <1>7, FS_EmptySet DEF Bijection

LEMMA FunctionIsSeq ==
    ASSUME NEW S, NEW m \in Nat, NEW f \in [1..m -> S]
    PROVE  f \in Seq(S) /\ Len(f) = m /\ (f = <<>> <=> m = 0)
<1>1. f \in Seq(S)
  BY SeqDef
<1>2. DOMAIN f = 1..Len(f) /\ Len(f) \in Nat /\ DOMAIN f = 1..m
  BY <1>1, LenProperties
<1>3. Len(f) = m
  BY <1>2
<1>4. f = <<>> <=> m = 0
  BY <1>1, <1>3, EmptySeq
<1>5. QED
  BY <1>1, <1>3, <1>4

LEMMA DestroyFacts ==
    ASSUME TableShape, NEW p \in Procs, NEW fds \in SUBSET Entries(p), Destroy(p, fds)
    PROVE  /\ todo' \in [Procs -> Seq(1..made)]
           /\ todo' = [todo EXCEPT ![p] = todo'[p]]
           /\ todo'[p] = <<>> <=> fds = {}
           /\ f_streams' \in [Procs -> [Fds -> 1..made \cup {Null}]]
           /\ \A q \in Procs, fd \in Fds :
                f_streams'[q][fd] = IF q = p /\ fd \in fds THEN Null ELSE f_streams[q][fd]
<1> DEFINE order == SetToSeq(fds)
           m == Cardinality(fds)
           list == [k \in DOMAIN order |-> f_streams[p][order[k]]]
<1>1. fds \in SUBSET Fds /\ \A fd \in fds : f_streams[p][fd] \in 1..made
  BY DEF Entries, TableShape
<1>2. m \in Nat /\ (m = 0 <=> fds = {}) /\ order \in [1..m -> fds]
  BY <1>1, OrderFacts
<1>3. todo' = [todo EXCEPT ![p] = list]
  BY DEF Destroy
<1>4. list \in [1..m -> 1..made]
  BY <1>1, <1>2
<1>5. list \in Seq(1..made) /\ (list = <<>> <=> m = 0)
  <2> HIDE DEF list
  <2>1. QED
    BY <1>2, <1>4, FunctionIsSeq
<1>7. /\ todo' \in [Procs -> Seq(1..made)] /\ todo' = [todo EXCEPT ![p] = todo'[p]]
      /\ todo'[p] = <<>> <=> fds = {}
  BY <1>2, <1>3, <1>5 DEF TableShape
<1>8. f_streams' = [f_streams EXCEPT ![p] =
            [fd \in Fds |-> IF fd \in fds THEN Null ELSE f_streams[p][fd]]]
  BY DEF Destroy
<1>9. /\ f_streams' \in [Procs -> [Fds -> 1..made \cup {Null}]]
      /\ \A q \in Procs, fd \in Fds :
            f_streams'[q][fd] = IF q = p /\ fd \in fds THEN Null ELSE f_streams[q][fd]
  BY <1>8 DEF TableShape
<1>10. QED
  BY <1>7, <1>9

\* The wrappers that leave the table of p are the ones p has to destroy.
LEMMA DestroyCount ==
    ASSUME TableShape, NEW p \in Procs, NEW fds \in SUBSET Entries(p), Destroy(p, fds),
           todo[p] = <<>>, pc'[p] # "delete", \A q \in Procs \ {p} : pc'[q] = pc[q],
           NEW d \in Storages
    PROVE  Cardinality(Holders(d)') + Cardinality(Dying(d)')
                = Cardinality(Holders(d)) + Cardinality(Dying(d))
<1> DEFINE order == SetToSeq(fds)
           m == Cardinality(fds)
           F == {fd \in fds : f_streams[p][fd] = d}
           K == {k \in 1..m : f_streams[p][order[k]] = d}
           b == [k \in K |-> order[k]]
<1>1. fds \in SUBSET Fds /\ Null \notin Storages
  BY StreamAssumption DEF Entries, Storages
<1>2. m \in Nat /\ order \in [1..m -> fds] /\ order \in Bijection(1..m, fds)
  BY <1>1, OrderFacts
<1>3. IsFiniteSet(K) /\ IsFiniteSet(F)
  <2>1. IsFiniteSet(1..m) /\ IsFiniteSet(fds)
    BY <1>1, <1>2, FS_Interval, FdsFinite, FS_Subset
  <2>2. QED
    BY <2>1, FS_Subset
<1>4. b \in Bijection(K, F)
  BY <1>2 DEF Bijection, Injection, Surjection, IsInjective
<1>5. Cardinality(F) = Cardinality(K)
  BY <1>3, <1>4, FS_Bijection DEF ExistsBijection
<1>6. /\ IsFiniteSet({p} \X F) /\ Cardinality({p} \X F) = Cardinality(F)
      /\ IsFiniteSet({p} \X K) /\ Cardinality({p} \X K) = Cardinality(F)
      /\ Cardinality(F) \in Nat
  BY <1>3, <1>5, CopySize, FS_CardinalityType
<1>7. Cardinality(Holders(d)') = Cardinality(Holders(d)) - Cardinality(F)
  <2>1. Holders(d)' = Holders(d) \ ({p} \X F)
    BY <1>1, DestroyFacts DEF Holders
  <2>2. Holders(d) \cap ({p} \X F) = {p} \X F
    BY <1>1 DEF Holders
  <2>3. IsFiniteSet(Holders(d))
    BY CountsFinite
  <2>4. Cardinality(Holders(d) \ ({p} \X F)) =
            Cardinality(Holders(d)) - Cardinality(Holders(d) \cap ({p} \X F))
    BY <2>3, FS_Difference
  <2>5. QED
    BY <1>6, <2>1, <2>2, <2>4
<1>8. Cardinality(Dying(d)') = Cardinality(Dying(d)) + Cardinality(F)
  <2>1. todo' = [todo EXCEPT ![p] = [k \in DOMAIN order |-> f_streams[p][order[k]]]]
    BY DEF Destroy
  <2>2. Pending(p, d)' = K /\ Pending(p, d) = {}
    BY <1>2, <2>1 DEF Pending, TableShape
  <2>3. \A q \in Procs \ {p} : Pending(q, d)' = Pending(q, d)
    BY <2>1 DEF Pending, TableShape
  <2>4. Dying(d)' = Dying(d) \cup ({p} \X K)
    BY <2>2, <2>3 DEF Dying
  <2>5. Dying(d) \cap ({p} \X K) = {}
    BY <2>2 DEF Dying
  <2>6. IsFiniteSet(Dying(d)) /\ Cardinality(Dying(d)) \in Nat
    BY CountsFinite
  <2>7. Cardinality(Dying(d) \cup ({p} \X K)) = Cardinality(Dying(d)) + Cardinality({p} \X K)
            - Cardinality(Dying(d) \cap ({p} \X K))
    BY <1>6, <2>6, FS_Union
  <2>8. Cardinality(Dying(d) \cap ({p} \X K)) = 0
    BY <2>5, FS_EmptySet
  <2>9. Cardinality(Dying(d)') = Cardinality(Dying(d)) + Cardinality({p} \X K) - 0
    BY <2>4, <2>7, <2>8
  <2>10. QED
    BY <1>6, <2>6, <2>9
<1>9. QED
  BY <1>6, <1>7, <1>8, CountsFinite

\* When p goes on to its next wrapper the others keep their number.
LEMMA ContinueCount ==
    ASSUME TableShape, NEW p \in Procs, todo[p] # <<>>,
           todo' = [todo EXCEPT ![p] = Tail(@)],
           pc'[p] # "delete", \A q \in Procs \ {p} : pc'[q] = pc[q],
           NEW d \in Storages
    PROVE  Cardinality(Dying(d)') = Cardinality(Dying(d) \ {<<p, 1>>})
<1> DEFINE Q == Dying(d) \ {<<p, 1>>}
           b == [e \in Q |-> IF e[1] = p THEN <<p, e[2] - 1>> ELSE e]
<1>1. /\ todo[p] \in Seq(1..made) /\ Len(todo[p]) \in Nat /\ Len(todo[p]) > 0
      /\ todo'[p] = Tail(todo[p])
  BY DEF TableShape
<1>2. /\ DOMAIN todo[p] = 1..Len(todo[p]) /\ DOMAIN todo'[p] = 1..(Len(todo[p]) - 1)
      /\ \A i \in 1..(Len(todo[p]) - 1) : todo'[p][i] = todo[p][i + 1]
  <2>1. /\ Tail(todo[p]) \in Seq(1..made) /\ Len(Tail(todo[p])) = Len(todo[p]) - 1
        /\ \A i \in 1..Len(Tail(todo[p])) : Tail(todo[p])[i] = todo[p][i + 1]
    BY <1>1, HeadTailProperties
  <2>2. DOMAIN todo[p] = 1..Len(todo[p])
        /\ DOMAIN Tail(todo[p]) = 1..Len(Tail(todo[p]))
    BY <1>1, <2>1, LenProperties
  <2>3. QED
    BY <1>1, <2>1, <2>2
<1>3. ASSUME NEW i \in Nat PROVE i \in Pending(p, d)' <=> i > 0 /\ i + 1 \in Pending(p, d)
  BY <1>1, <1>2 DEF Pending
<1>4. Pending(p, d) \subseteq Nat \ {0} /\ Pending(p, d)' \subseteq Nat \ {0}
  BY <1>1, <1>2 DEF Pending
<1>5. \A q \in Procs \ {p} : Pending(q, d)' = Pending(q, d)
  BY DEF Pending, TableShape
<1>6. b \in [Q -> Dying(d)']
  <2> SUFFICES ASSUME NEW e \in Q PROVE b[e] \in Dying(d)'
    OBVIOUS
  <2>1. PICK q \in Procs, i \in Nat : i \in Pending(q, d) /\ e = <<q, i>>
    BY DyingMember
  <2>2. CASE q = p
    <3>1. i \in Nat /\ i # 0 /\ i # 1
      BY <1>4, <2>1, <2>2
    <3>2. i - 1 \in Nat /\ i - 1 > 0 /\ (i - 1) + 1 = i
      BY <3>1
    <3>3. i - 1 \in Pending(p, d)'
      BY <1>3, <2>1, <2>2, <3>2
    <3>4. b[e] = <<p, i - 1>>
      BY <2>1, <2>2
    <3>5. QED
      BY <3>3, <3>4 DEF Dying
  <2>3. CASE q # p
    <3>1. b[e] = e
      BY <2>1, <2>3
    <3>2. QED
      BY <1>5, <2>1, <2>3, <3>1 DEF Dying
  <2>4. QED
    BY <2>2, <2>3
<1>7. ASSUME NEW e \in Q, NEW h \in Q, b[e] = b[h] PROVE e = h
  <2>1. PICK q \in Procs, i \in Nat : i \in Pending(q, d) /\ e = <<q, i>>
    BY DyingMember
  <2>2. PICK r \in Procs, j \in Nat : j \in Pending(r, d) /\ h = <<r, j>>
    BY DyingMember
  <2>3. q = r
    BY <1>7, <2>1, <2>2
  <2>4. CASE q = p
    <3>1. i \in Nat /\ j \in Nat
      BY <1>4, <2>1, <2>2, <2>3, <2>4
    <3>2. b[e] = <<p, i - 1>> /\ b[h] = <<p, j - 1>>
      BY <2>1, <2>2, <2>3, <2>4
    <3>3. i - 1 = j - 1
      BY <1>7, <3>2
    <3>4. QED
      BY <2>1, <2>2, <2>3, <3>1, <3>3
  <2>5. CASE q # p
    BY <1>7, <2>1, <2>2, <2>3, <2>5
  <2>6. QED
    BY <2>4, <2>5
<1>8. ASSUME NEW t \in Dying(d)' PROVE \E e \in Q : b[e] = t
  <2>0. \A q \in Procs : Pending(q, d)' \subseteq Nat
    BY <1>4, <1>5 DEF Pending, TableShape
  <2>1. PICK q \in Procs, i \in Nat : i \in Pending(q, d)' /\ t = <<q, i>>
    BY <2>0 DEF Dying
  <2>2. CASE q = p
    <3>1. i \in Nat /\ i # 0 /\ i + 1 \in Pending(p, d)
      BY <1>3, <1>4, <2>1, <2>2
    <3>2. <<p, i + 1>> \in Q
      BY <3>1, DyingMember
    <3>3. b[<<p, i + 1>>] = <<p, (i + 1) - 1>> /\ (i + 1) - 1 = i
      BY <3>1, <3>2
    <3>4. QED
      BY <2>1, <2>2, <3>2, <3>3
  <2>3. CASE q # p
    <3>1. t \in Q
      BY <1>5, <2>1, <2>3, DyingMember
    <3>2. QED
      BY <2>1, <2>3, <3>1
  <2>4. QED
    BY <2>2, <2>3
<1>9. b \in Bijection(Q, Dying(d)')
  BY <1>6, <1>7, <1>8, Zenon DEF Bijection, Injection, Surjection, IsInjective
<1>10. IsFiniteSet(Q)
  BY CountsFinite, FS_RemoveElement
<1>11. QED
  BY <1>9, <1>10, FS_Bijection DEF ExistsBijection

\* What the invariant says of the types, in the form the steps use.
LEMMA TableTypes ==
    ASSUME TableInv
    PROVE  /\ f_streams \in [Procs -> [Fds -> 1..made \cup {Null}]]
           /\ f_next_fd \in [Procs -> (-1)..(MaxFd + 1)]
           /\ refs \in [Storages -> Nat]
           /\ made \in Nat /\ NStd <= made /\ made <= MaxStorage
           /\ cloexec \subseteq Storages /\ freed \subseteq 1..made /\ gone \subseteq 0..made
           /\ pc \in [Procs -> {"unborn", "run", "insert", "clear", "delete", "dead"}]
           /\ todo \in [Procs -> Seq(1..made)]
           /\ insert \in [Procs -> {<<>>, <<"exit">>} \cup (Fds \X Storages)]
           /\ 1..made \subseteq Storages /\ Null \notin Storages
           /\ NStd \in Nat /\ MaxFd \in Nat /\ MaxStorage \in Nat
           /\ <<>> \notin Fds \X Storages
           /\ \A p \in Procs : todo[p] # <<>> => Head(todo[p]) \in 1..made
<1>1. NStd \in Nat /\ MaxFd \in Nat /\ MaxStorage \in Nat /\ Null \notin Storages
  BY StreamAssumption DEF Storages
<1>2. made \in Nat /\ NStd <= made /\ made <= MaxStorage /\ 1..made \subseteq Storages
  BY <1>1 DEF TableInv, TableShape, TypeOK, Storages
<1>3. todo \in [Procs -> Seq(1..made)]
  BY DEF TableInv, TableShape
<1>4. \A p \in Procs : todo[p] # <<>> => Head(todo[p]) \in 1..made
  BY <1>3, HeadTailProperties
<1>5. <<>> \notin Fds \X Storages
  OBVIOUS
<1>6. QED
  BY <1>1, <1>2, <1>3, <1>4, <1>5 DEF TableInv, TableShape, TypeOK

\* A storage that was not made yet has no wrappers.
LEMMA UnmadeIsZero == ASSUME TableInv, NEW d \in Storages, d > made PROVE refs[d] = 0
<1>1. Holders(d) = {}
  <2>1. ASSUME NEW e \in Procs \X Fds PROVE f_streams[e[1]][e[2]] # d
    <3>1. f_streams[e[1]][e[2]] \in 1..made \cup {Null}
      BY TableTypes
    <3>2. QED
      BY <3>1, TableTypes
  <2>2. QED
    BY <2>1 DEF Holders
<1>2. Dying(d) = {}
  <2>1. ASSUME NEW p \in Procs, NEW i \in DOMAIN todo[p] PROVE todo[p][i] # d
    <3>1. todo[p] \in Seq(1..made)
      BY TableTypes
    <3>2. todo[p][i] \in 1..made
      BY <3>1, LenProperties
    <3>3. QED
      BY <3>2, TableTypes
  <2>2. \A p \in Procs : Pending(p, d) = {}
    BY <2>1 DEF Pending
  <2>3. QED
    BY <2>2 DEF Dying
<1>3. refs[d] = Cardinality(Holders(d)) + Cardinality(Dying(d))
  BY DEF TableInv, RefsExact
<1>4. QED
  BY <1>1, <1>2, <1>3, FS_EmptySet

\* The streams opened by system calls have storages.
LEMMA OpenedIsStorage == ASSUME TableInv, NEW d \in (NStd + 1)..made PROVE d \in Storages
<1>1. NStd \in Nat /\ made \in Nat /\ 1..made \subseteq Storages
  BY TableTypes
<1>2. d \in 1..made
  BY <1>1
<1>3. QED
  BY <1>1, <1>2

LEMMA BelowNext == ASSUME NEW x \in (-1)..(MaxFd + 1), NEW g \in 0..(x - 1) PROVE g \in Fds
BY StreamAssumption DEF Fds

LEMMA StepOpen == ASSUME TableInv, NEW p \in Procs, Open(p) PROVE TableInv'
<1> DEFINE s == made + 1
<1>1. PICK fd \in Fds :
        /\ FreeFd(p, fd)
        /\ f_streams' = [f_streams EXCEPT ![p][fd] = s]
        /\ f_next_fd' = [f_next_fd EXCEPT ![p] = IF fd = @ THEN fd + 1 ELSE @]
        /\ cloexec' \subseteq cloexec \cup {s}
  BY DEF Open
<1>2. /\ pc[p] = "run" /\ made < MaxStorage /\ made' = s
      /\ refs' = [refs EXCEPT ![s] = 1]
      /\ UNCHANGED <<gone, freed, pc, todo, insert>>
  BY DEF Open
<1>3. s \in Storages /\ s > made /\ s \in Nat /\ 1..made \subseteq 1..s
  BY <1>2, TableTypes DEF Storages
<1>4. f_streams[p][fd] = Null /\ fd \in Int /\ fd <= MaxFd /\ f_next_fd[p] <= fd
  BY <1>1, TableTypes DEF FreeFd, Fds
<1>5. \A q \in Procs, g \in Fds :
          f_streams'[q][g] = IF q = p /\ g = fd THEN s ELSE f_streams[q][g]
  BY <1>1, TableTypes
<1>6. \A d \in Storages : refs'[d] = IF d = s THEN 1 ELSE refs[d]
  BY <1>2, <1>3, TableTypes
<1>7. \A q \in Procs : f_next_fd'[q] = IF q = p /\ fd = f_next_fd[p] THEN fd + 1 ELSE f_next_fd[q]
  BY <1>1, TableTypes
<1>8. TableShape'
  <2>1. f_streams' \in [Procs -> [Fds -> 1..made' \cup {Null}]]
    BY <1>1, <1>2, <1>3, TableTypes
  <2>2. f_next_fd' \in [Procs -> (-1)..(MaxFd + 1)]
    BY <1>1, <1>4, TableTypes
  <2>3. refs' \in [Storages -> Nat]
    BY <1>2, <1>3, TableTypes
  <2>4. todo' \in [Procs -> Seq(1..made')]
    BY <1>2, <1>3, TableTypes, SeqMonotonic
  <2>5. /\ made' \in NStd..MaxStorage /\ cloexec' \subseteq Storages
        /\ freed' \subseteq 1..made' /\ gone' \subseteq 0..made'
    BY <1>1, <1>2, <1>3, TableTypes
  <2>6. 1..made' \subseteq Storages /\ 0..made' \subseteq Storages \cup {Console}
    BY <1>2, <1>3, TableTypes DEF Storages, Console
  <2>7. pc' \in [Procs -> {"unborn", "run", "insert", "clear", "delete", "dead"}]
        /\ insert' \in [Procs -> {<<>>, <<"exit">>} \cup (Fds \X Storages)]
    BY <1>2, TableTypes
  <2>8. f_streams' \in [Procs -> [Fds -> Storages \cup {Null}]]
    BY <2>1, <2>6
  <2>9. QED
    BY <2>1, <2>2, <2>3, <2>4, <2>5, <2>6, <2>7, <2>8 DEF TableShape, TypeOK
<1>9. PlaceExact'
  BY <1>2, <1>5 DEF TableInv, PlaceExact
<1>10. InsertLive'
  <2>1. ASSUME NEW q \in Procs, insert[q] \in Fds \X Storages
        PROVE  q # p /\ insert[q][1] \in Fds
    BY <1>2, <2>1, TableTypes DEF TableInv, PlaceExact
  <2>2. QED
    BY <1>2, <1>5, <2>1 DEF TableInv, InsertLive
<1>11. RefsExact'
  <2> SUFFICES ASSUME NEW d \in Storages
               PROVE  refs'[d] = Cardinality(Holders(d)') + Cardinality(Dying(d)')
    BY DEF RefsExact
  <2>1. Cardinality(Holders(d)') = Cardinality(Holders(d)) + (IF d = s THEN 1 ELSE 0)
    BY <1>1, <1>3, <1>4, AddEntry DEF TableInv
  <2>2. Dying(d)' = Dying(d)
    BY <1>2, SameDying
  <2>3. refs[d] = Cardinality(Holders(d)) + Cardinality(Dying(d)) /\ (d = s => refs[d] = 0)
    BY <1>3, UnmadeIsZero DEF TableInv, RefsExact
  <2>4. Cardinality(Holders(d)) \in Nat /\ Cardinality(Dying(d)) \in Nat
    BY CountsFinite DEF TableInv
  <2>5. QED
    BY <1>6, <2>1, <2>2, <2>3, <2>4
<1>12. ZeroCounts'
  BY <1>2, <1>3, <1>6, TableTypes DEF TableInv, ZeroCounts, PlaceExact
<1>13. StorageDeletedOnce'
  <2>1. s \notin freed
    BY <1>3, TableTypes
  <2>2. QED
    BY <1>2, <1>5, <2>1 DEF TableInv, StorageDeletedOnce
<1>14. OpenedStreamsLive'
  BY <1>2, <1>3, <1>6, TableTypes DEF TableInv, OpenedStreamsLive
<1>15. NextIsLow'
  <2> SUFFICES ASSUME NEW q \in Procs, NEW g \in 0..(f_next_fd'[q] - 1)
               PROVE  f_streams'[q][g] # Null \/ (insert[q] # <<>> /\ insert[q][1] = g)
    BY <1>2 DEF NextIsLow
  <2>0. f_next_fd'[q] \in (-1)..(MaxFd + 1)
    BY <1>8 DEF TableShape, TypeOK
  <2>1. g \in Fds /\ s # Null
    BY <1>3, <2>0, BelowNext, TableTypes
  <2>2. CASE q = p /\ g = fd
    BY <1>5, <2>1, <2>2
  <2>3. CASE ~(q = p /\ g = fd)
    <3>1. g \in 0..(f_next_fd[q] - 1)
      BY <1>4, <1>7, <2>3, TableTypes
    <3>2. QED
      BY <1>5, <2>1, <2>3, <3>1 DEF TableInv, NextIsLow
  <2>4. QED
    BY <2>2, <2>3
<1>16. QED
  BY <1>8, <1>9, <1>10, <1>11, <1>12, <1>13, <1>14, <1>15 DEF TableInv

\* close_stream(), dup_stream() over a descriptor, execve() and exit: p takes descriptors out
\* of its table, goes on to destroy them if there are any, and leaves f_next_fd no higher
\* than it may be.
TakesOut(p, fds) ==
    /\ Destroy(p, fds) /\ UNCHANGED heap
    /\ pc' = [pc EXCEPT ![p] = pc'[p]]
    /\ pc'[p] \in {"run", "insert", "dead", "clear"} /\ (pc'[p] = "clear" <=> fds # {})
    /\ insert' = [insert EXCEPT ![p] = insert'[p]]
    /\ insert'[p] \in {<<>>, <<"exit">>} \cup (Fds \X Storages)
    /\ pc'[p] = "run" => insert'[p] = <<>>
    /\ pc'[p] = "insert" => insert'[p] \in Fds \X Storages
    /\ insert'[p] \in Fds \X Storages =>
          /\ f_streams'[p][insert'[p][1]] = Null
          /\ \E fd \in Fds : f_streams'[p][fd] = insert'[p][2]
    /\ f_next_fd' \in [Procs -> (-1)..(MaxFd + 1)]
    /\ \A q \in Procs \ {p} : f_next_fd'[q] = f_next_fd[q]
    /\ \A fd \in 0..(f_next_fd'[p] - 1) :
          f_streams'[p][fd] # Null \/ (insert'[p] # <<>> /\ insert'[p][1] = fd)

LEMMA StepDestroy ==
    ASSUME TableInv, NEW p \in Procs, pc[p] = "run",
           NEW fds \in SUBSET Entries(p), TakesOut(p, fds)
    PROVE  TableInv'
<1> DEFINE x == pc'[p]
           v == insert'[p]
<1>t. /\ Destroy(p, fds) /\ UNCHANGED heap
      /\ pc' = [pc EXCEPT ![p] = x]
      /\ x \in {"run", "insert", "dead", "clear"} /\ (x = "clear" <=> fds # {})
      /\ insert' = [insert EXCEPT ![p] = v]
      /\ v \in {<<>>, <<"exit">>} \cup (Fds \X Storages)
      /\ x = "run" => v = <<>>
      /\ x = "insert" => v \in Fds \X Storages
      /\ v \in Fds \X Storages =>
            f_streams'[p][v[1]] = Null /\ \E fd \in Fds : f_streams'[p][fd] = v[2]
      /\ f_next_fd' \in [Procs -> (-1)..(MaxFd + 1)]
      /\ \A q \in Procs \ {p} : f_next_fd'[q] = f_next_fd[q]
      /\ \A fd \in 0..(f_next_fd'[p] - 1) :
            f_streams'[p][fd] # Null \/ (v # <<>> /\ v[1] = fd)
  BY DEF TakesOut
<1>1. /\ todo' \in [Procs -> Seq(1..made)]
      /\ todo' = [todo EXCEPT ![p] = todo'[p]]
      /\ todo'[p] = <<>> <=> fds = {}
      /\ f_streams' \in [Procs -> [Fds -> 1..made \cup {Null}]]
      /\ \A q \in Procs, fd \in Fds :
            f_streams'[q][fd] = IF q = p /\ fd \in fds THEN Null ELSE f_streams[q][fd]
  BY <1>t, DestroyFacts DEF TableInv
<1>2. UNCHANGED <<refs, made, cloexec, gone, freed>>
  BY <1>t DEF heap
<1>3. todo[p] = <<>> /\ insert[p] = <<>>
  BY DEF TableInv, PlaceExact
<1>4. /\ \A q \in Procs : pc'[q] = IF q = p THEN x ELSE pc[q]
      /\ \A q \in Procs : insert'[q] = IF q = p THEN v ELSE insert[q]
      /\ \A q \in Procs \ {p} : todo'[q] = todo[q]
      /\ \A q \in Procs \ {p} : f_streams'[q] = f_streams[q]
  BY <1>t, <1>1, TableTypes DEF Destroy
<1>5. TableShape'
  <2>1. f_streams' \in [Procs -> [Fds -> Storages \cup {Null}]]
    BY <1>1, TableTypes
  <2>2. /\ pc' \in [Procs -> {"unborn", "run", "insert", "clear", "delete", "dead"}]
        /\ insert' \in [Procs -> {<<>>, <<"exit">>} \cup (Fds \X Storages)]
    <3> HIDE DEF x, v
    <3>1. QED
      BY <1>t, TableTypes
  <2>3. QED
    BY <1>t, <1>1, <1>2, <2>1, <2>2 DEF TableInv, TableShape, TypeOK
<1>6. PlaceExact'
  <2> SUFFICES ASSUME NEW q \in Procs
               PROVE  /\ pc'[q] \in {"clear", "delete"} <=> todo'[q] # <<>>
                      /\ pc'[q] \in {"unborn", "run"} => insert'[q] = <<>>
                      /\ pc'[q] = "insert" => insert'[q] \in Fds \X Storages
                      /\ pc'[q] = "unborn" => \A fd \in Fds : f_streams'[q][fd] = Null
    BY DEF PlaceExact
  <2>1. CASE q = p
    BY <1>t, <1>1, <1>4, <2>1
  <2>2. CASE q # p
    <3>1. pc'[q] = pc[q] /\ todo'[q] = todo[q] /\ insert'[q] = insert[q]
          /\ f_streams'[q] = f_streams[q]
      BY <1>4, <2>2
    <3>2. QED
      BY <3>1 DEF TableInv, PlaceExact
  <2>3. QED
    BY <2>1, <2>2
<1>7. InsertLive'
  <2> SUFFICES ASSUME NEW q \in Procs, insert'[q] \in Fds \X Storages
               PROVE  /\ f_streams'[q][insert'[q][1]] = Null
                      /\ \E fd \in Fds : f_streams'[q][fd] = insert'[q][2]
    BY DEF InsertLive
  <2>1. CASE q = p
    BY <1>t, <1>4, <2>1
  <2>2. CASE q # p
    <3>1. insert'[q] = insert[q] /\ f_streams'[q] = f_streams[q]
      BY <1>4, <2>2
    <3>2. QED
      BY <3>1 DEF TableInv, InsertLive
  <2>3. QED
    BY <2>1, <2>2
<1>8. RefsExact'
  <2> SUFFICES ASSUME NEW d \in Storages
               PROVE  refs'[d] = Cardinality(Holders(d)') + Cardinality(Dying(d)')
    BY DEF RefsExact
  <2>1. Cardinality(Holders(d)') + Cardinality(Dying(d)')
            = Cardinality(Holders(d)) + Cardinality(Dying(d))
    BY <1>t, <1>3, <1>4, DestroyCount DEF TableInv
  <2>2. QED
    BY <1>2, <2>1 DEF TableInv, RefsExact
<1>9. ZeroCounts'
  BY <1>t, <1>2, <1>4 DEF TableInv, ZeroCounts
<1>10. StorageDeletedOnce'
  <2>1. \A q \in Procs : pc'[q] = "delete" => q # p /\ pc[q] = "delete" /\ todo'[q] = todo[q]
    BY <1>t, <1>4
  <2>2. Null \notin freed
    BY TableTypes
  <2>3. ASSUME NEW q \in Procs, NEW fd \in Fds PROVE f_streams'[q][fd] \notin freed
    <3>1. f_streams'[q][fd] \in {Null, f_streams[q][fd]}
      BY <1>1
    <3>2. f_streams[q][fd] \notin freed
      BY DEF TableInv, StorageDeletedOnce
    <3>3. QED
      BY <2>2, <3>1, <3>2
  <2>4. QED
    BY <1>2, <2>1, <2>3 DEF TableInv, StorageDeletedOnce
<1>11. OpenedStreamsLive'
  BY <1>t, <1>2, <1>4 DEF TableInv, OpenedStreamsLive
<1>12. NextIsLow'
  <2> SUFFICES ASSUME NEW q \in Procs, NEW g \in 0..(f_next_fd'[q] - 1)
               PROVE  f_streams'[q][g] # Null \/ (insert'[q] # <<>> /\ insert'[q][1] = g)
    BY DEF NextIsLow
  <2>1. CASE q = p
    BY <1>t, <1>4, <2>1
  <2>2. CASE q # p
    <3>1. f_next_fd'[q] = f_next_fd[q] /\ f_next_fd[q] \in (-1)..(MaxFd + 1)
      BY <1>t, <2>2, TableTypes
    <3>2. g \in Fds /\ g \in 0..(f_next_fd[q] - 1)
      BY <3>1, BelowNext
    <3>3. insert'[q] = insert[q] /\ f_streams'[q] = f_streams[q]
      BY <1>4, <2>2
    <3>4. QED
      BY <3>2, <3>3 DEF TableInv, NextIsLow
  <2>3. QED
    BY <2>1, <2>2
<1>13. QED
  BY <1>5, <1>6, <1>7, <1>8, <1>9, <1>10, <1>11, <1>12 DEF TableInv

\* The least of finitely many descriptors exists.
LEMMA MinFacts ==
    ASSUME NEW S \in SUBSET Int, S # {}, NEW lo \in Int, \A y \in S : lo <= y
    PROVE  Min(S) \in S /\ \A y \in S : Min(S) <= y
<1> DEFINE T == {k \in Nat : lo + k \in S}
           R == {e \in Nat \X Nat : e[1] < e[2]}
<1>1. T # {}
  <2>1. PICK y \in S : TRUE
    OBVIOUS
  <2>2. y - lo \in Nat /\ lo + (y - lo) = y
    OBVIOUS
  <2>3. QED
    BY <2>2
<1>2. IsWellFoundedOn(R, Nat)
  <2>1. OpToRel(<, Nat) = R
    BY Zenon DEF OpToRel
  <2>2. QED
    BY <2>1, NatLessThanWellFounded, Zenon
<1>3. PICK t \in T : \A y \in T : <<y, t>> \notin R
  <2>1. T \subseteq Nat
    OBVIOUS
  <2> HIDE DEF T, R
  <2>2. QED
    BY <1>1, <1>2, <2>1, WFMin
<1>4. ASSUME NEW y \in S PROVE lo + t <= y
  <2>1. y - lo \in T
    OBVIOUS
  <2>2. ~(y - lo < t)
    BY <1>3, <2>1
  <2>3. QED
    BY <2>1, <2>2
<1>5. lo + t \in S
  OBVIOUS
<1>6. QED
  BY <1>4, <1>5 DEF Min

LEMMA NextUnchanged ==
    ASSUME TableInv, NEW p \in Procs, NEW fd \in 0..(f_next_fd[p] - 1)
    PROVE  fd \in Fds /\ (f_streams[p][fd] # Null \/ (insert[p] # <<>> /\ insert[p][1] = fd))
<1>1. f_next_fd[p] \in (-1)..(MaxFd + 1)
  BY TableTypes
<1>2. QED
  BY <1>1, BelowNext DEF TableInv, NextIsLow

LEMMA StepClose == ASSUME TableInv, NEW p \in Procs, NEW fd \in Fds, Close(p, fd) PROVE TableInv'
<1> DEFINE fds == {fd} \cap Entries(p)
           x == IF fd \in Entries(p) THEN "clear" ELSE "run"
<1>1. /\ pc[p] = "run" /\ Destroy(p, fds) /\ pc' = [pc EXCEPT ![p] = x]
      /\ f_next_fd' = [f_next_fd EXCEPT ![p] = IF fd < @ THEN fd ELSE @]
      /\ UNCHANGED heap /\ UNCHANGED insert
  BY DEF Close
<1>2. insert[p] = <<>>
  BY <1>1 DEF TableInv, PlaceExact
<1>3. insert' = [insert EXCEPT ![p] = <<>>]
  BY <1>1, <1>2, TableTypes
<1>4. fd \in Int /\ fd >= -1 /\ fd <= MaxFd
  BY TableTypes DEF Fds
<1>5. /\ f_next_fd' \in [Procs -> (-1)..(MaxFd + 1)]
      /\ \A q \in Procs \ {p} : f_next_fd'[q] = f_next_fd[q]
      /\ f_next_fd'[p] <= f_next_fd[p] /\ f_next_fd'[p] <= fd /\ f_next_fd[p] \in Int
  BY <1>1, <1>4, TableTypes
<1>6. ASSUME NEW g \in 0..(f_next_fd'[p] - 1) PROVE f_streams'[p][g] # Null
  <2>1. g # fd /\ g \in 0..(f_next_fd[p] - 1)
    BY <1>4, <1>5
  <2>2. g \in Fds /\ f_streams[p][g] # Null
    BY <1>2, <2>1, NextUnchanged
  <2>3. f_streams'[p][g] = f_streams[p][g]
    BY <1>1, <2>1, <2>2, TableTypes DEF Destroy
  <2>4. QED
    BY <2>2, <2>3
<1>7. insert'[p] = <<>> /\ pc'[p] = x /\ (x = "clear" <=> fds # {})
  BY <1>1, <1>3, TableTypes
<1>8. TakesOut(p, fds)
  BY <1>1, <1>3, <1>5, <1>6, <1>7, TableTypes DEF TakesOut
<1>9. QED
  BY <1>1, <1>8, StepDestroy

LEMMA StepDupTo ==
    ASSUME TableInv, NEW p \in Procs, NEW old \in Fds, NEW new \in Fds, DupTo(p, old, new)
    PROVE  TableInv'
<1> DEFINE fds == {new} \cap Entries(p)
           x == IF new \in Entries(p) THEN "clear" ELSE "insert"
           v == <<new, f_streams[p][old]>>
<1>1. /\ pc[p] = "run" /\ old \in Entries(p) /\ new # old
      /\ Destroy(p, fds) /\ pc' = [pc EXCEPT ![p] = x] /\ insert' = [insert EXCEPT ![p] = v]
      /\ UNCHANGED f_next_fd /\ UNCHANGED heap
  BY DEF DupTo
<1>2. insert[p] = <<>>
  BY <1>1 DEF TableInv, PlaceExact
<1>3. f_streams[p][old] \in Storages /\ v \in Fds \X Storages
  BY <1>1, TableTypes DEF Entries
<1>4. \A g \in Fds : f_streams'[p][g] = IF g \in fds THEN Null ELSE f_streams[p][g]
  BY <1>1, TableTypes DEF Destroy
<1>5. f_streams'[p][v[1]] = Null
  BY <1>4 DEF Entries
<1>6. f_streams'[p][old] = v[2]
  BY <1>1, <1>4
<1>7. ASSUME NEW g \in 0..(f_next_fd'[p] - 1)
      PROVE  f_streams'[p][g] # Null \/ (v # <<>> /\ v[1] = g)
  <2>1. g \in Fds /\ f_streams[p][g] # Null
    BY <1>1, <1>2, NextUnchanged
  <2>2. QED
    BY <1>4, <2>1
<1>8. f_next_fd' \in [Procs -> (-1)..(MaxFd + 1)]
  BY <1>1, TableTypes
<1>9. insert'[p] = v /\ pc'[p] = x /\ (x = "clear" <=> fds # {})
  BY <1>1, TableTypes
<1>10. pc'[p] = "run" => insert'[p] = <<>>
  BY <1>9
<1>11. pc' = [pc EXCEPT ![p] = pc'[p]] /\ insert' = [insert EXCEPT ![p] = insert'[p]]
  BY <1>1, <1>9
<1>12. /\ pc'[p] \in {"run", "insert", "dead", "clear"} /\ (pc'[p] = "clear" <=> fds # {})
       /\ insert'[p] \in Fds \X Storages
       /\ f_streams'[p][insert'[p][1]] = Null /\ f_streams'[p][old] = insert'[p][2]
  BY <1>3, <1>5, <1>6, <1>9
<1>13. \A g \in 0..(f_next_fd'[p] - 1) :
           f_streams'[p][g] # Null \/ (insert'[p] # <<>> /\ insert'[p][1] = g)
  BY <1>7, <1>9
<1> HIDE DEF fds, x, v
<1>14. TakesOut(p, fds)
  BY <1>1, <1>8, <1>10, <1>11, <1>12, <1>13 DEF TakesOut
<1>15. QED
  BY <1>1, <1>14, StepDestroy DEF fds

LEMMA StepExec == ASSUME TableInv, NEW p \in Procs, Exec(p) PROVE TableInv'
<1> DEFINE fds == {fd \in Entries(p) : f_streams[p][fd] \in cloexec}
           least == Min(fds \cup {f_next_fd[p]})
<1>1. /\ pc[p] = "run" /\ fds # {} /\ Destroy(p, fds) /\ pc' = [pc EXCEPT ![p] = "clear"]
      /\ f_next_fd' = [f_next_fd EXCEPT ![p] = least]
      /\ UNCHANGED heap /\ UNCHANGED insert
  BY TableTypes DEF Exec
<1>2. insert[p] = <<>>
  BY <1>1 DEF TableInv, PlaceExact
<1>3. insert' = [insert EXCEPT ![p] = <<>>]
  BY <1>1, <1>2, TableTypes
<1>4. fds \cup {f_next_fd[p]} \subseteq (-1)..(MaxFd + 1)
  BY TableTypes DEF Entries, Fds
<1>5. least \in (-1)..(MaxFd + 1) /\ \A y \in fds \cup {f_next_fd[p]} : least <= y
  <2> DEFINE S == fds \cup {f_next_fd[p]}
  <2>1. S \in SUBSET Int /\ S # {} /\ -1 \in Int /\ \A y \in S : -1 <= y
    BY <1>4, TableTypes
  <2> HIDE DEF S
  <2>2. Min(S) \in S /\ \A y \in S : Min(S) <= y
    BY <2>1, MinFacts
  <2>3. QED
    BY <1>4, <2>2 DEF S
<1>6. /\ f_next_fd' \in [Procs -> (-1)..(MaxFd + 1)] /\ f_next_fd'[p] = least
      /\ \A q \in Procs \ {p} : f_next_fd'[q] = f_next_fd[q]
  BY <1>1, <1>5, TableTypes
<1>7. ASSUME NEW g \in 0..(f_next_fd'[p] - 1) PROVE f_streams'[p][g] # Null
  <2>1. g \notin fds /\ g \in 0..(f_next_fd[p] - 1)
    <3>1. least \in Int /\ f_next_fd[p] \in Int /\ least <= f_next_fd[p]
      BY <1>5, TableTypes
    <3> HIDE DEF fds, least
    <3>2. g \in 0..(least - 1) /\ g \in Int /\ g < least
      BY <1>6, <3>1
    <3>3. g \notin fds
      BY <1>5, <3>1, <3>2
    <3>4. QED
      BY <3>1, <3>2, <3>3
  <2>2. g \in Fds /\ f_streams[p][g] # Null
    BY <1>2, <2>1, NextUnchanged
  <2>3. f_streams'[p][g] = f_streams[p][g]
    BY <1>1, <2>1, <2>2, TableTypes DEF Destroy
  <2>4. QED
    BY <2>2, <2>3
<1>8. insert'[p] = <<>> /\ pc'[p] = "clear"
  BY <1>1, <1>3, TableTypes
<1>9. TakesOut(p, fds)
  BY <1>1, <1>3, <1>6, <1>7, <1>8, TableTypes DEF TakesOut
<1>10. QED
  BY <1>1, <1>9, StepDestroy

LEMMA StepExit == ASSUME TableInv, NEW p \in Procs, Exit(p) PROVE TableInv'
<1> DEFINE x == IF Entries(p) = {} THEN "dead" ELSE "clear"
<1>1. /\ pc[p] = "run" /\ Destroy(p, Entries(p)) /\ pc' = [pc EXCEPT ![p] = x]
      /\ insert' = [insert EXCEPT ![p] = <<"exit">>]
      /\ f_next_fd' = [f_next_fd EXCEPT ![p] = 0]
      /\ UNCHANGED heap
  BY DEF Exit
<1>2. /\ f_next_fd' \in [Procs -> (-1)..(MaxFd + 1)] /\ f_next_fd'[p] = 0
      /\ \A q \in Procs \ {p} : f_next_fd'[q] = f_next_fd[q]
  BY <1>1, TableTypes
<1>3. <<"exit">> \notin Fds \X Storages
  OBVIOUS
<1>4. 0..(f_next_fd'[p] - 1) = {}
  BY <1>2
<1>5. insert'[p] = <<"exit">> /\ pc'[p] = x
  BY <1>1, TableTypes
<1>6. insert'[p] \notin Fds \X Storages /\ pc'[p] \notin {"run", "insert"}
      /\ pc'[p] \in {"dead", "clear"} /\ (pc'[p] = "clear" <=> Entries(p) # {})
  BY <1>3, <1>5
<1>7. pc' = [pc EXCEPT ![p] = pc'[p]] /\ insert' = [insert EXCEPT ![p] = insert'[p]]
  BY <1>1, <1>5
<1>8. TakesOut(p, Entries(p))
  BY <1>1, <1>2, <1>4, <1>5, <1>6, <1>7 DEF TakesOut
<1>9. QED
  BY <1>1, <1>8, StepDestroy

LEMMA StepDupFree == ASSUME TableInv, NEW p \in Procs, NEW old \in Fds, DupFree(p, old) PROVE TableInv'
<1>1. PICK fd \in Fds : FreeFd(p, fd) /\ insert' = [insert EXCEPT ![p] = <<fd, f_streams[p][old]>>]
  BY DEF DupFree
<1>2. /\ pc[p] = "run" /\ old \in Entries(p) /\ pc' = [pc EXCEPT ![p] = "insert"]
      /\ UNCHANGED <<f_streams, f_next_fd, refs, made, cloexec, gone, freed, todo>>
  BY DEF DupFree, table, heap
<1>3. f_streams[p][fd] = Null /\ f_streams[p][old] \in Storages
  BY <1>1, <1>2, TableTypes DEF FreeFd, Entries
<1>4. /\ \A q \in Procs : pc'[q] = IF q = p THEN "insert" ELSE pc[q]
      /\ \A q \in Procs \ {p} : insert'[q] = insert[q]
      /\ insert'[p] = <<fd, f_streams[p][old]>> /\ insert'[p] \in Fds \X Storages
      /\ insert'[p][1] = fd /\ insert'[p][2] = f_streams[p][old]
  BY <1>1, <1>2, <1>3, TableTypes
<1>5. /\ pc' \in [Procs -> {"unborn", "run", "insert", "clear", "delete", "dead"}]
      /\ insert' \in [Procs -> {<<>>, <<"exit">>} \cup (Fds \X Storages)]
  BY <1>1, <1>2, <1>3, TableTypes
<1>6. TableShape'
  BY <1>2, <1>5 DEF TableInv, TableShape, TypeOK
<1>7. PlaceExact'
  BY <1>2, <1>4 DEF TableInv, PlaceExact
<1>8. InsertLive'
  BY <1>2, <1>3, <1>4 DEF TableInv, InsertLive
<1>9. RefsExact'
  <2> SUFFICES ASSUME NEW d \in Storages
               PROVE  refs'[d] = Cardinality(Holders(d)') + Cardinality(Dying(d)')
    BY DEF RefsExact
  <2>1. Holders(d)' = Holders(d) /\ Dying(d)' = Dying(d)
    BY <1>2, <1>4, SameHolders, SameDying
  <2>2. QED
    BY <1>2, <2>1 DEF TableInv, RefsExact
<1>10. ZeroCounts' /\ StorageDeletedOnce' /\ OpenedStreamsLive'
  BY <1>2, <1>4 DEF TableInv, ZeroCounts, StorageDeletedOnce, OpenedStreamsLive
<1>11. NextIsLow'
  <2> SUFFICES ASSUME NEW q \in Procs, NEW g \in 0..(f_next_fd[q] - 1)
               PROVE  f_streams[q][g] # Null \/ (insert'[q] # <<>> /\ insert'[q][1] = g)
    BY <1>2 DEF NextIsLow
  <2>1. CASE q = p
    BY <1>2, <2>1 DEF TableInv, NextIsLow, PlaceExact
  <2>2. CASE q # p
    BY <1>4, <2>2 DEF TableInv, NextIsLow
  <2>3. QED
    BY <2>1, <2>2
<1>12. QED
  BY <1>6, <1>7, <1>8, <1>9, <1>10, <1>11 DEF TableInv

LEMMA StepInsert == ASSUME TableInv, NEW p \in Procs, Insert(p) PROVE TableInv'
<1> DEFINE fd == insert[p][1]
           s == insert[p][2]
<1>1. /\ pc[p] = "insert" /\ pc' = [pc EXCEPT ![p] = "run"]
      /\ f_streams' = [f_streams EXCEPT ![p][fd] = s]
      /\ refs' = [refs EXCEPT ![s] = @ + 1]
      /\ insert' = [insert EXCEPT ![p] = <<>>]
      /\ UNCHANGED <<f_next_fd, made, cloexec, gone, freed, todo>>
  BY DEF Insert
<1>2. insert[p] \in Fds \X Storages /\ fd \in Fds /\ s \in Storages
  BY <1>1 DEF TableInv, PlaceExact
<1>3. f_streams[p][fd] = Null /\ \E g \in Fds : f_streams[p][g] = s
  BY <1>2 DEF TableInv, InsertLive
<1>4. s \in 1..made /\ refs[s] > 0 /\ s \notin freed
  <2>1. PICK g \in Fds : f_streams[p][g] = s
    BY <1>3
  <2>2. refs[s] > 0
    BY <1>2, <2>1, HeldIsCounted
  <2>3. s \notin freed
    BY <2>1 DEF TableInv, StorageDeletedOnce
  <2>4. s \in 1..made
    BY <1>2, <2>1, TableTypes
  <2>5. QED
    BY <2>2, <2>3, <2>4
<1> HIDE DEF fd, s
<1>5. /\ \A q \in Procs, g \in Fds :
            f_streams'[q][g] = IF q = p /\ g = fd THEN s ELSE f_streams[q][g]
      /\ \A q \in Procs \ {p} : f_streams'[q] = f_streams[q]
      /\ \A q \in Procs : pc'[q] = IF q = p THEN "run" ELSE pc[q]
      /\ \A q \in Procs : insert'[q] = IF q = p THEN <<>> ELSE insert[q]
      /\ \A d \in Storages : refs'[d] = IF d = s THEN refs[d] + 1 ELSE refs[d]
  BY <1>1, <1>2, TableTypes
<1>6. TableShape'
  <2>1. f_streams' \in [Procs -> [Fds -> 1..made \cup {Null}]]
    BY <1>1, <1>2, <1>4, TableTypes
  <2>2. f_streams' \in [Procs -> [Fds -> Storages \cup {Null}]]
    BY <2>1, TableTypes
  <2>3. /\ pc' \in [Procs -> {"unborn", "run", "insert", "clear", "delete", "dead"}]
        /\ insert' \in [Procs -> {<<>>, <<"exit">>} \cup (Fds \X Storages)]
        /\ refs' \in [Storages -> Nat]
    BY <1>1, <1>2, TableTypes
  <2>4. QED
    BY <1>1, <2>1, <2>2, <2>3 DEF TableInv, TableShape, TypeOK
<1>7. PlaceExact'
  BY <1>1, <1>5 DEF TableInv, PlaceExact
<1>8. InsertLive'
  <2>1. ASSUME NEW q \in Procs, insert'[q] \in Fds \X Storages
        PROVE  insert'[q] = insert[q] /\ f_streams'[q] = f_streams[q]
    BY <1>5, <2>1, TableTypes
  <2>2. QED
    BY <2>1 DEF TableInv, InsertLive
<1>9. RefsExact'
  <2> SUFFICES ASSUME NEW d \in Storages
               PROVE  refs'[d] = Cardinality(Holders(d)') + Cardinality(Dying(d)')
    BY DEF RefsExact
  <2>1. Cardinality(Holders(d)') = Cardinality(Holders(d)) + (IF d = s THEN 1 ELSE 0)
    BY <1>1, <1>2, <1>3, AddEntry DEF TableInv, fd, s
  <2>2. Dying(d)' = Dying(d)
    BY <1>1, <1>5, SameDying
  <2>3. refs[d] = Cardinality(Holders(d)) + Cardinality(Dying(d))
    BY DEF TableInv, RefsExact
  <2>4. Cardinality(Holders(d)) \in Nat /\ Cardinality(Dying(d)) \in Nat
    BY CountsFinite DEF TableInv
  <2>5. QED
    BY <1>5, <2>1, <2>2, <2>3, <2>4
<1>10. ZeroCounts'
  <2>1. \A q \in Procs : pc'[q] = "delete" =>
            pc[q] = "delete" /\ Head(todo[q]) # s /\ Head(todo[q]) \in Storages
    BY <1>1, <1>4, <1>5, TableTypes DEF TableInv, ZeroCounts, PlaceExact
  <2>2. QED
    BY <1>1, <1>4, <1>5, <2>1, TableTypes DEF TableInv, ZeroCounts
<1>11. StorageDeletedOnce'
  <2>1. ASSUME NEW q \in Procs, NEW g \in Fds PROVE f_streams'[q][g] \notin freed
    <3>1. f_streams'[q][g] \in {s, f_streams[q][g]}
      BY <1>5
    <3>2. QED
      BY <1>4, <3>1 DEF TableInv, StorageDeletedOnce
  <2>2. QED
    BY <1>1, <1>5, <2>1 DEF TableInv, StorageDeletedOnce
<1>12. OpenedStreamsLive'
  <2>1. ASSUME NEW d \in Storages PROVE refs'[d] > 0 <=> refs[d] > 0
    <3>1. refs[d] \in Nat
      BY TableTypes
    <3>2. QED
      BY <1>4, <1>5, <3>1
  <2>2. \A d \in (NStd + 1)..made : d \in Storages
    BY OpenedIsStorage
  <2>3. \A q \in Procs : pc'[q] = "delete" <=> pc[q] = "delete"
    BY <1>1, <1>5
  <2>4. QED
    BY <1>1, <2>1, <2>2, <2>3 DEF TableInv, OpenedStreamsLive
<1>13. NextIsLow'
  <2> SUFFICES ASSUME NEW q \in Procs, NEW g \in 0..(f_next_fd[q] - 1)
               PROVE  f_streams'[q][g] # Null \/ (insert'[q] # <<>> /\ insert'[q][1] = g)
    BY <1>1 DEF NextIsLow
  <2>1. g \in Fds /\ (f_streams[q][g] # Null \/ (insert[q] # <<>> /\ insert[q][1] = g))
    BY NextUnchanged
  <2>2. CASE q = p
    <3>1. f_streams[p][g] # Null \/ fd = g
      BY <2>1, <2>2 DEF fd
    <3>2. s # Null
      BY <1>2, TableTypes
    <3>3. QED
      BY <1>5, <2>1, <2>2, <3>1, <3>2
  <2>3. CASE q # p
    BY <1>5, <2>1, <2>3
  <2>4. QED
    BY <2>2, <2>3
<1>14. QED
  BY <1>6, <1>7, <1>8, <1>9, <1>10, <1>11, <1>12, <1>13 DEF TableInv

LEMMA StepFork == ASSUME TableInv, NEW p \in Procs, NEW c \in Procs, Fork(p, c) PROVE TableInv'
<1> DEFINE more(d) == Cardinality({fd \in Fds : f_streams[p][fd] = d})
<1>1. /\ pc[p] = "run" /\ pc[c] = "unborn" /\ pc' = [pc EXCEPT ![c] = "run"]
      /\ f_streams' = [f_streams EXCEPT ![c] = f_streams[p]]
      /\ f_next_fd' = [f_next_fd EXCEPT ![c] = f_next_fd[p]]
      /\ refs' = [d \in Storages |-> refs[d] + more(d)]
      /\ UNCHANGED <<made, cloexec, gone, freed, todo, insert>>
  BY DEF Fork
<1>2. \A fd \in Fds : f_streams[c][fd] = Null
  BY <1>1 DEF TableInv, PlaceExact
<1>3. ASSUME NEW d \in Storages
      PROVE  /\ more(d) \in Nat
             /\ Cardinality(Holders(d)') = Cardinality(Holders(d)) + more(d)
             /\ refs[d] = 0 => more(d) = 0
  <2>1. /\ more(d) \in Nat
        /\ Cardinality(Holders(d)') = Cardinality(Holders(d)) + more(d)
    BY <1>1, <1>2, ForkCount DEF TableInv
  <2>2. ASSUME refs[d] = 0 PROVE {fd \in Fds : f_streams[p][fd] = d} = {}
    BY <2>2, HeldIsCounted
  <2>3. QED
    BY <2>1, <2>2, FS_EmptySet
<1> HIDE DEF more
<1>4. /\ \A q \in Procs : pc'[q] = IF q = c THEN "run" ELSE pc[q]
      /\ \A q \in Procs : f_streams'[q] = IF q = c THEN f_streams[p] ELSE f_streams[q]
      /\ \A q \in Procs : f_next_fd'[q] = IF q = c THEN f_next_fd[p] ELSE f_next_fd[q]
  BY <1>1, TableTypes
<1>5. ASSUME NEW d \in Storages
      PROVE  refs'[d] = refs[d] + more(d) /\ refs'[d] \in Nat /\ (refs'[d] = 0 <=> refs[d] = 0)
  <2>1. refs[d] \in Nat /\ more(d) \in Nat
    BY <1>3, TableTypes
  <2>2. refs'[d] = refs[d] + more(d)
    BY <1>1
  <2>3. QED
    BY <1>3, <2>1, <2>2
<1>6. insert[p] = <<>> /\ insert[c] = <<>> /\ c # p
  BY <1>1 DEF TableInv, PlaceExact
<1>7. TableShape'
  <2>1. f_streams' \in [Procs -> [Fds -> 1..made \cup {Null}]]
        /\ f_streams' \in [Procs -> [Fds -> Storages \cup {Null}]]
    BY <1>1, TableTypes
  <2>2. /\ pc' \in [Procs -> {"unborn", "run", "insert", "clear", "delete", "dead"}]
        /\ f_next_fd' \in [Procs -> (-1)..(MaxFd + 1)]
    BY <1>1, TableTypes
  <2>3. refs' \in [Storages -> Nat]
    BY <1>1, <1>5
  <2>4. QED
    BY <1>1, <2>1, <2>2, <2>3 DEF TableInv, TableShape, TypeOK
<1>8. PlaceExact'
  BY <1>1, <1>4, <1>6 DEF TableInv, PlaceExact
<1>9. InsertLive'
  <2>1. ASSUME NEW q \in Procs, insert'[q] \in Fds \X Storages
        PROVE  insert'[q] = insert[q] /\ f_streams'[q] = f_streams[q]
    BY <1>1, <1>4, <1>6, <2>1, TableTypes
  <2>2. QED
    BY <2>1 DEF TableInv, InsertLive
<1>10. RefsExact'
  <2> SUFFICES ASSUME NEW d \in Storages
               PROVE  refs'[d] = Cardinality(Holders(d)') + Cardinality(Dying(d)')
    BY DEF RefsExact
  <2>1. \A q \in Procs : pc'[q] = "delete" <=> pc[q] = "delete"
    BY <1>1, <1>4
  <2>2. Dying(d)' = Dying(d)
    BY <1>1, <2>1, SameDying
  <2>3. refs[d] = Cardinality(Holders(d)) + Cardinality(Dying(d))
    BY DEF TableInv, RefsExact
  <2>4. Cardinality(Holders(d)) \in Nat /\ Cardinality(Dying(d)) \in Nat /\ more(d) \in Nat
    BY <1>3, CountsFinite DEF TableInv
  <2>5. refs'[d] = refs[d] + more(d) /\ Cardinality(Holders(d)') = Cardinality(Holders(d)) + more(d)
    BY <1>3, <1>5
  <2>6. QED
    BY <2>2, <2>3, <2>4, <2>5
<1>11. ZeroCounts'
  <2>1. \A q \in Procs : pc'[q] = "delete" => pc[q] = "delete" /\ Head(todo[q]) \in Storages
    BY <1>1, <1>4, TableTypes DEF TableInv, PlaceExact
  <2>2. QED
    BY <1>1, <1>5, <2>1, TableTypes DEF TableInv, ZeroCounts
<1>12. StorageDeletedOnce'
  BY <1>1, <1>4 DEF TableInv, StorageDeletedOnce
<1>13. OpenedStreamsLive'
  <2>1. ASSUME NEW d \in Storages PROVE refs'[d] > 0 <=> refs[d] > 0
    <3>1. refs[d] \in Nat /\ refs'[d] \in Nat /\ (refs'[d] = 0 <=> refs[d] = 0)
      BY <1>5, TableTypes
    <3>2. QED
      BY <3>1
  <2>2. \A d \in (NStd + 1)..made : d \in Storages
    BY OpenedIsStorage
  <2>3. \A q \in Procs : pc'[q] = "delete" <=> pc[q] = "delete"
    BY <1>1, <1>4
  <2>4. QED
    BY <1>1, <2>1, <2>2, <2>3 DEF TableInv, OpenedStreamsLive
<1>14. NextIsLow'
  BY <1>1, <1>4, <1>6 DEF TableInv, NextIsLow
<1>15. QED
  BY <1>7, <1>8, <1>9, <1>10, <1>11, <1>12, <1>13, <1>14 DEF TableInv

\* The wrapper p is about to subtract is counted for its storage and for no other.
LEMMA ClearCounted ==
    ASSUME TableInv, NEW p \in Procs, pc[p] = "clear"
    PROVE  /\ Head(todo[p]) \in 1..made /\ Head(todo[p]) = todo[p][1]
           /\ \A d \in Storages : <<p, 1>> \in Dying(d) <=> d = Head(todo[p])
           /\ refs[Head(todo[p])] > 0
<1> DEFINE h == Head(todo[p])
<1>1. todo[p] # <<>> /\ todo[p] \in Seq(1..made)
  BY TableTypes DEF TableInv, PlaceExact
<1>2. h \in 1..made /\ h = todo[p][1] /\ 1 \in DOMAIN todo[p]
  BY <1>1, TableTypes
<1>3. ASSUME NEW d \in Storages PROVE <<p, 1>> \in Dying(d) <=> d = h
  <2>1. 1 \in Pending(p, d) <=> d = h
    BY <1>2 DEF Pending
  <2>2. <<p, 1>> \in Dying(d) <=> 1 \in Pending(p, d)
    BY DEF Dying
  <2>3. QED
    BY <2>1, <2>2
<1>4. refs[h] > 0
  <2>1. h \in Storages
    BY <1>2, TableTypes
  <2>2. Cardinality(Dying(h)) # 0 /\ Cardinality(Dying(h)) \in Nat
    BY <1>3, <2>1, CountsFinite, FS_EmptySet DEF TableInv
  <2>3. Cardinality(Holders(h)) \in Nat
    BY <2>1, CountsFinite DEF TableInv
  <2>4. refs[h] = Cardinality(Holders(h)) + Cardinality(Dying(h))
    BY <2>1 DEF TableInv, RefsExact
  <2>5. QED
    BY <2>2, <2>3, <2>4
<1>5. QED
  BY <1>2, <1>3, <1>4

LEMMA ContinueFacts ==
    ASSUME TableInv, NEW p \in Procs, todo[p] # <<>>, Continue(p), UNCHANGED <<table, insert>>
    PROVE  /\ todo' \in [Procs -> Seq(1..made)]
           /\ pc' \in [Procs -> {"unborn", "run", "insert", "clear", "delete", "dead"}]
           /\ pc'[p] # "delete"
           /\ \A q \in Procs \ {p} : pc'[q] = pc[q] /\ todo'[q] = todo[q]
           /\ PlaceExact' /\ InsertLive' /\ NextIsLow'
<1> DEFINE rest == Tail(todo[p])
           x == CASE rest # <<>> -> "clear"
                  [] rest = <<>> /\ insert[p] = <<>> -> "run"
                  [] rest = <<>> /\ insert[p] = <<"exit">> -> "dead"
                  [] OTHER -> "insert"
<1>1. /\ todo' = [todo EXCEPT ![p] = rest] /\ pc' = [pc EXCEPT ![p] = x]
      /\ UNCHANGED <<f_streams, f_next_fd, insert>>
  BY TableTypes DEF Continue, table
<1>2. rest \in Seq(1..made)
  BY TableTypes, HeadTailProperties
<1>3. insert[p] \in {<<>>, <<"exit">>} \cup (Fds \X Storages)
  BY TableTypes
<1>4. /\ x \in {"clear", "run", "dead", "insert"}
      /\ x = "clear" <=> rest # <<>>
      /\ x = "run" => insert[p] = <<>>
      /\ x = "insert" => insert[p] \in Fds \X Storages
  <2>1. CASE rest # <<>>
    BY <2>1
  <2>2. CASE rest = <<>> /\ insert[p] = <<>>
    BY <2>2
  <2>3. CASE rest = <<>> /\ insert[p] # <<>> /\ insert[p] = <<"exit">>
    BY <2>3
  <2>4. CASE rest = <<>> /\ insert[p] # <<>> /\ insert[p] # <<"exit">>
    BY <1>3, <2>4
  <2>5. QED
    BY <2>1, <2>2, <2>3, <2>4
<1> HIDE DEF x, rest
<1>5. /\ \A q \in Procs : pc'[q] = IF q = p THEN x ELSE pc[q]
      /\ \A q \in Procs : todo'[q] = IF q = p THEN rest ELSE todo[q]
      /\ todo' \in [Procs -> Seq(1..made)]
      /\ pc' \in [Procs -> {"unborn", "run", "insert", "clear", "delete", "dead"}]
  BY <1>1, <1>2, <1>4, TableTypes
<1>6. PlaceExact'
  BY <1>1, <1>4, <1>5 DEF TableInv, PlaceExact
<1>7. InsertLive' /\ NextIsLow'
  BY <1>1 DEF TableInv, InsertLive, NextIsLow
<1>8. QED
  BY <1>4, <1>5, <1>6, <1>7

\* The fetch_sub that finds another wrapper left.
LEMMA StepClearMore ==
    ASSUME TableInv, NEW p \in Procs, Clear(p), refs[Head(todo[p])] # 1
    PROVE  TableInv'
<1> DEFINE h == Head(todo[p])
<1>1. /\ pc[p] = "clear" /\ refs' = [refs EXCEPT ![h] = @ - 1] /\ Continue(p)
      /\ UNCHANGED <<table, made, cloexec, gone, freed, insert>>
  BY DEF Clear
<1>2. /\ h \in 1..made /\ h \in Storages /\ refs[h] \in Nat /\ refs[h] > 1
      /\ \A d \in Storages : <<p, 1>> \in Dying(d) <=> d = h
  <2>1. h \in Storages
    BY <1>1, ClearCounted, TableTypes
  <2>2. refs[h] \in Nat
    BY <2>1, TableTypes
  <2>3. QED
    BY <1>1, <2>1, <2>2, ClearCounted
<1>3. todo[p] # <<>>
  BY <1>1 DEF TableInv, PlaceExact
<1>4. /\ todo' \in [Procs -> Seq(1..made)]
      /\ pc' \in [Procs -> {"unborn", "run", "insert", "clear", "delete", "dead"}]
      /\ pc'[p] # "delete" /\ \A q \in Procs \ {p} : pc'[q] = pc[q] /\ todo'[q] = todo[q]
      /\ PlaceExact' /\ InsertLive' /\ NextIsLow'
  BY <1>1, <1>3, ContinueFacts
<1>5. /\ refs' \in [Storages -> Nat]
      /\ \A d \in Storages : refs'[d] = IF d = h THEN refs[d] - 1 ELSE refs[d]
  BY <1>1, <1>2, TableTypes
<1> HIDE DEF h
<1>6. UNCHANGED <<f_streams, f_next_fd, made, cloexec, gone, freed>>
  BY <1>1 DEF table
<1>7. TableShape'
  BY <1>1, <1>4, <1>5, <1>6 DEF TableInv, TableShape, TypeOK
<1>8. RefsExact'
  <2> SUFFICES ASSUME NEW d \in Storages
               PROVE  refs'[d] = Cardinality(Holders(d)') + Cardinality(Dying(d)')
    BY DEF RefsExact
  <2>1. Holders(d)' = Holders(d)
    BY <1>6, SameHolders
  <2>2. Cardinality(Dying(d)') = Cardinality(Dying(d) \ {<<p, 1>>})
    BY <1>1, <1>3, <1>4, ContinueCount DEF TableInv, Continue
  <2>3. /\ IsFiniteSet(Dying(d)) /\ Cardinality(Dying(d)) \in Nat
        /\ Cardinality(Holders(d)) \in Nat
    BY CountsFinite DEF TableInv
  <2>4. Cardinality(Dying(d) \ {<<p, 1>>}) =
            IF d = h THEN Cardinality(Dying(d)) - 1 ELSE Cardinality(Dying(d))
    BY <1>2, <2>3, FS_RemoveElement
  <2>5. refs[d] = Cardinality(Holders(d)) + Cardinality(Dying(d))
    BY DEF TableInv, RefsExact
  <2>6. QED
    BY <1>5, <2>1, <2>2, <2>3, <2>4, <2>5
<1>9. \A q \in Procs : pc'[q] = "delete" =>
          pc[q] = "delete" /\ todo'[q] = todo[q] /\ Head(todo[q]) \in Storages /\ Head(todo[q]) # h
  <2> SUFFICES ASSUME NEW q \in Procs, pc'[q] = "delete"
               PROVE  /\ pc[q] = "delete" /\ todo'[q] = todo[q]
                      /\ Head(todo[q]) \in Storages /\ Head(todo[q]) # h
    OBVIOUS
  <2>1. q # p /\ pc[q] = "delete" /\ todo'[q] = todo[q]
    BY <1>4
  <2>2. todo[q] # <<>> /\ refs[Head(todo[q])] = 0
    BY <2>1 DEF TableInv, PlaceExact, ZeroCounts
  <2>3. Head(todo[q]) \in Storages
    BY <2>2, TableTypes
  <2>4. QED
    BY <1>2, <2>1, <2>2, <2>3
<1>10. ZeroCounts'
  <2>1. \A d \in freed : d \in Storages /\ d # h /\ refs[d] = 0
    BY <1>2, TableTypes DEF TableInv, ZeroCounts
  <2>2. \A q \in Procs : pc'[q] = "delete" => refs[Head(todo[q])] = 0
    BY <1>9 DEF TableInv, ZeroCounts
  <2>3. QED
    BY <1>5, <1>6, <1>9, <2>1, <2>2 DEF ZeroCounts
<1>11. StorageDeletedOnce'
  BY <1>6, <1>9 DEF TableInv, StorageDeletedOnce
<1>12. OpenedStreamsLive'
  <2>1. ASSUME NEW d \in Storages PROVE refs'[d] > 0 <=> refs[d] > 0
    <3>1. refs[d] \in Nat
      BY TableTypes
    <3>2. QED
      BY <1>2, <1>5, <3>1
  <2>2. \A d \in (NStd + 1)..made : d \in Storages
    BY OpenedIsStorage
  <2>3. \A q \in Procs : /\ pc'[q] = "delete" <=> pc[q] = "delete"
                         /\ pc[q] = "delete" => todo'[q] = todo[q]
    BY <1>1, <1>4
  <2>4. QED
    BY <1>6, <2>1, <2>2, <2>3 DEF TableInv, OpenedStreamsLive
<1>13. QED
  BY <1>4, <1>7, <1>8, <1>10, <1>11, <1>12 DEF TableInv

\* The fetch_sub of the last wrapper: p goes on to delete the storage.
LEMMA StepClearLast ==
    ASSUME TableInv, NEW p \in Procs, Clear(p), refs[Head(todo[p])] = 1
    PROVE  TableInv'
<1> DEFINE h == Head(todo[p])
<1>1. /\ pc[p] = "clear" /\ refs' = [refs EXCEPT ![h] = @ - 1]
      /\ pc' = [pc EXCEPT ![p] = "delete"]
      /\ UNCHANGED <<f_streams, f_next_fd, made, cloexec, gone, freed, insert, todo>>
  BY DEF Clear, table
<1>2. /\ h \in 1..made /\ h \in Storages /\ refs[h] = 1
      /\ \A d \in Storages : <<p, 1>> \in Dying(d) <=> d = h
  BY <1>1, ClearCounted, TableTypes
<1>3. /\ \A d \in Storages : refs'[d] = IF d = h THEN 0 ELSE refs[d]
      /\ \A q \in Procs : pc'[q] = IF q = p THEN "delete" ELSE pc[q]
      /\ refs' \in [Storages -> Nat]
      /\ pc' \in [Procs -> {"unborn", "run", "insert", "clear", "delete", "dead"}]
  BY <1>1, <1>2, TableTypes
<1>4. TableShape'
  BY <1>1, <1>3 DEF TableInv, TableShape, TypeOK
<1>5. PlaceExact' /\ InsertLive' /\ NextIsLow'
  BY <1>1, <1>3 DEF TableInv, PlaceExact, InsertLive, NextIsLow
<1>6. RefsExact'
  <2> SUFFICES ASSUME NEW d \in Storages
               PROVE  refs'[d] = Cardinality(Holders(d)') + Cardinality(Dying(d)')
    BY DEF RefsExact
  <2>1. Holders(d)' = Holders(d)
    BY <1>1, SameHolders
  <2>2. Dying(d)' = Dying(d) \ {<<p, 1>>}
    <3>1. \A q \in Procs : Pending(q, d)' = IF q = p THEN Pending(q, d) \ {1} ELSE Pending(q, d)
      BY <1>1, <1>3 DEF Pending
    <3>2. QED
      BY <3>1 DEF Dying
  <2>3. /\ IsFiniteSet(Dying(d)) /\ Cardinality(Dying(d)) \in Nat
        /\ Cardinality(Holders(d)) \in Nat
    BY CountsFinite DEF TableInv
  <2>4. Cardinality(Dying(d) \ {<<p, 1>>}) =
            IF d = h THEN Cardinality(Dying(d)) - 1 ELSE Cardinality(Dying(d))
    BY <1>2, <2>3, FS_RemoveElement
  <2>5. refs[d] = Cardinality(Holders(d)) + Cardinality(Dying(d))
    BY DEF TableInv, RefsExact
  <2> HIDE DEF h
  <2>6. QED
    BY <1>2, <1>3, <2>1, <2>2, <2>3, <2>4, <2>5
<1>7. ZeroCounts'
  <2>1. h \notin freed
    BY <1>2 DEF TableInv, ZeroCounts
  <2>2. \A q \in Procs : pc'[q] = "delete" => Head(todo[q]) \in Storages
    BY <1>1, <1>3, TableTypes DEF TableInv, PlaceExact
  <2>3. QED
    BY <1>1, <1>3, <2>1, <2>2, TableTypes DEF TableInv, ZeroCounts
<1>8. StorageDeletedOnce'
  <2>1. h \notin freed /\ \A q \in Procs : pc[q] = "delete" => Head(todo[q]) # h
    BY <1>2 DEF TableInv, ZeroCounts
  <2>2. QED
    BY <1>1, <1>3, <2>1 DEF TableInv, StorageDeletedOnce
<1>9. OpenedStreamsLive'
  <2> SUFFICES ASSUME NEW d \in (NStd + 1)..made
               PROVE  d \notin gone <=>
                        \/ refs'[d] > 0
                        \/ \E q \in Procs : pc'[q] = "delete" /\ Head(todo[q]) = d
    BY <1>1 DEF OpenedStreamsLive
  <2>1. d \in Storages
    BY OpenedIsStorage
  <2>2. d \notin gone <=> (refs[d] > 0 \/ \E q \in Procs : pc[q] = "delete" /\ Head(todo[q]) = d)
    BY DEF TableInv, OpenedStreamsLive
  <2>3. CASE d = h
    BY <1>2, <1>3, <2>2, <2>3
  <2>4. CASE d # h
    BY <1>1, <1>3, <2>1, <2>2, <2>4
  <2>5. QED
    BY <2>3, <2>4
<1>10. QED
  BY <1>4, <1>5, <1>6, <1>7, <1>8, <1>9 DEF TableInv

LEMMA StepDelete == ASSUME TableInv, NEW p \in Procs, Delete(p) PROVE TableInv'
<1> DEFINE h == Head(todo[p])
<1>1. /\ pc[p] = "delete" /\ gone' = gone \cup {StreamOf(h)} /\ freed' = freed \cup {h}
      /\ Continue(p) /\ UNCHANGED <<table, refs, made, cloexec, insert>>
  BY DEF Delete
<1>2. todo[p] # <<>>
  BY <1>1 DEF TableInv, PlaceExact
<1>3. h \in 1..made /\ h \in Storages /\ refs[h] = 0
  BY <1>1, <1>2, TableTypes DEF TableInv, ZeroCounts
<1>4. /\ todo' \in [Procs -> Seq(1..made)]
      /\ pc' \in [Procs -> {"unborn", "run", "insert", "clear", "delete", "dead"}]
      /\ pc'[p] # "delete" /\ \A q \in Procs \ {p} : pc'[q] = pc[q] /\ todo'[q] = todo[q]
      /\ PlaceExact' /\ InsertLive' /\ NextIsLow'
  BY <1>1, <1>2, ContinueFacts
<1>5. UNCHANGED <<f_streams, f_next_fd, refs, made, cloexec, insert>>
  BY <1>1 DEF table
<1>6. /\ \A q \in Procs : pc'[q] = "delete" => q # p /\ pc[q] = "delete" /\ todo'[q] = todo[q]
      /\ \A q \in Procs \ {p} : pc[q] = "delete" =>
            pc'[q] = "delete" /\ todo'[q] = todo[q] /\ Head(todo[q]) # h
  BY <1>1, <1>4 DEF TableInv, StorageDeletedOnce
<1>7. StreamOf(h) \in 0..made /\ \A d \in (NStd + 1)..made : StreamOf(h) = d <=> h = d
  BY <1>3, TableTypes DEF StreamOf, Console
<1>8. TableShape'
  <2>1. freed' \subseteq 1..made /\ gone' \subseteq 0..made
    BY <1>1, <1>3, <1>7, TableTypes
  <2>2. freed' \subseteq Storages /\ gone' \subseteq Storages \cup {Console}
    BY <2>1, TableTypes DEF Storages, Console
  <2>3. QED
    BY <1>4, <1>5, <2>1, <2>2 DEF TableInv, TableShape, TypeOK
<1>9. RefsExact'
  <2> SUFFICES ASSUME NEW d \in Storages
               PROVE  refs'[d] = Cardinality(Holders(d)') + Cardinality(Dying(d)')
    BY DEF RefsExact
  <2>1. Holders(d)' = Holders(d)
    BY <1>5, SameHolders
  <2>2. Cardinality(Dying(d)') = Cardinality(Dying(d) \ {<<p, 1>>})
    BY <1>1, <1>2, <1>4, ContinueCount DEF TableInv, Continue
  <2>3. <<p, 1>> \notin Dying(d)
    BY <1>1 DEF Dying, Pending
  <2>4. Dying(d) \ {<<p, 1>>} = Dying(d)
    BY <2>3
  <2>5. refs[d] = Cardinality(Holders(d)) + Cardinality(Dying(d))
    BY DEF TableInv, RefsExact
  <2>6. QED
    BY <1>5, <2>1, <2>2, <2>4, <2>5
<1>10. ZeroCounts'
  BY <1>1, <1>3, <1>5, <1>6 DEF TableInv, ZeroCounts
<1>11. StorageDeletedOnce'
  <2>1. ASSUME NEW q \in Procs, NEW fd \in Fds PROVE f_streams[q][fd] # h
    BY <1>3, HeldIsCounted
  <2> HIDE DEF h
  <2>2. \A q \in Procs, fd \in Fds : f_streams'[q][fd] \notin freed'
    BY <1>1, <1>5, <2>1 DEF TableInv, StorageDeletedOnce
  <2>3. QED
    BY <1>1, <1>6, <2>2 DEF TableInv, StorageDeletedOnce
<1>12. OpenedStreamsLive'
  <2> SUFFICES ASSUME NEW d \in (NStd + 1)..made
               PROVE  d \notin gone' <=>
                        \/ refs[d] > 0
                        \/ \E q \in Procs : pc'[q] = "delete" /\ Head(todo'[q]) = d
    BY <1>5 DEF OpenedStreamsLive
  <2>1. d \notin gone <=> (refs[d] > 0 \/ \E q \in Procs : pc[q] = "delete" /\ Head(todo[q]) = d)
    BY DEF TableInv, OpenedStreamsLive
  <2>2. d \in gone' <=> d \in gone \/ h = d
    BY <1>1, <1>7
  <2>3. CASE d = h
    BY <1>3, <1>6, <2>2, <2>3
  <2>4. CASE d # h
    <3>1. (\E q \in Procs : pc'[q] = "delete" /\ Head(todo'[q]) = d)
            <=> (\E q \in Procs : pc[q] = "delete" /\ Head(todo[q]) = d)
      <4>1. \A q \in Procs : /\ pc'[q] = "delete" => pc[q] = "delete" /\ todo'[q] = todo[q]
                             /\ pc[q] = "delete" /\ q # p => pc'[q] = "delete" /\ todo'[q] = todo[q]
        BY <1>6
      <4>2. \A q \in Procs : Head(todo[q]) = d => q # p
        BY <2>4
      <4> HIDE DEF h
      <4>3. QED
        BY <4>1, <4>2, Zenon
    <3>2. QED
      BY <2>1, <2>2, <2>4, <3>1
  <2>5. QED
    BY <2>3, <2>4
<1>13. QED
  BY <1>4, <1>8, <1>9, <1>10, <1>11, <1>12 DEF TableInv

\* stage2_init: the first process has the three wrappers of the console.
LEMMA InitTable == Init => TableInv
<1> SUFFICES ASSUME Init PROVE TableInv
  OBVIOUS
<1>1. /\ NStd \in Nat /\ MaxFd \in Nat /\ MaxStorage \in Nat /\ NStd <= MaxFd + 1
      /\ NStd <= MaxStorage /\ InitProc \in Procs /\ Null \notin Storages
  BY StreamAssumption DEF Storages
<1>2. \A p \in Procs, fd \in Fds : f_streams[p][fd] =
            IF p = InitProc /\ fd \in 0..(NStd - 1) THEN fd + 1 ELSE Null
  BY DEF Init
<1>3. made = NStd /\ cloexec = {} /\ gone = {} /\ freed = {}
  BY DEF Init
<1>a. \A d \in Storages : refs[d] = IF d <= NStd THEN 1 ELSE 0
  BY DEF Init
<1>b. \A p \in Procs : todo[p] = <<>> /\ insert[p] = <<>>
  BY DEF Init
<1>c. \A p \in Procs : pc[p] = IF p = InitProc THEN "run" ELSE "unborn"
  BY DEF Init
<1>d. \A p \in Procs : f_next_fd[p] = IF p = InitProc THEN NStd ELSE 0
  BY DEF Init
<1>4. 1..made \subseteq Storages
  BY <1>1, <1>3 DEF Storages
<1>5. TableShape
  <2>1. f_streams \in [Procs -> [Fds -> 1..made \cup {Null}]]
    <3>1. \A fd \in 0..(NStd - 1) : fd + 1 \in 1..made
      BY <1>1, <1>3
    <3>2. QED
      BY <3>1 DEF Init
  <2>2. f_next_fd \in [Procs -> (-1)..(MaxFd + 1)]
    <3>1. NStd \in (-1)..(MaxFd + 1) /\ 0 \in (-1)..(MaxFd + 1)
      BY <1>1
    <3>2. QED
      BY <3>1 DEF Init
  <2>3. refs \in [Storages -> Nat]
    BY DEF Init
  <2>4. made \in NStd..MaxStorage
    BY <1>1, <1>3
  <2>5. pc \in [Procs -> {"unborn", "run", "insert", "clear", "delete", "dead"}]
    BY DEF Init
  <2>6. todo \in [Procs -> Seq(1..made)]
    <3>1. <<>> \in Seq(1..made)
      BY EmptySeq
    <3>2. QED
      BY <3>1 DEF Init
  <2>7. insert \in [Procs -> {<<>>, <<"exit">>} \cup (Fds \X Storages)]
    BY DEF Init
  <2>8. f_streams \in [Procs -> [Fds -> Storages \cup {Null}]]
    BY <1>4, <2>1
  <2>9. QED
    BY <1>3, <2>1, <2>2, <2>3, <2>4, <2>5, <2>6, <2>7, <2>8 DEF TableShape, TypeOK
<1>6. PlaceExact
  BY <1>2, <1>b, <1>c DEF PlaceExact
<1>7. InsertLive
  <2>1. <<>> \notin Fds \X Storages
    OBVIOUS
  <2>2. QED
    BY <1>b, <2>1 DEF InsertLive
<1>8. RefsExact
  <2> SUFFICES ASSUME NEW d \in Storages
               PROVE  refs[d] = Cardinality(Holders(d)) + Cardinality(Dying(d))
    BY DEF RefsExact
  <2>1. Dying(d) = {}
    <3>1. \A p \in Procs : Pending(p, d) = {}
      BY <1>b DEF Pending
    <3>2. QED
      BY <3>1 DEF Dying
  <2>2. d \in Int /\ d > 0
    BY <1>1 DEF Storages
  <2>3. CASE d <= NStd
    <3>1. d - 1 \in Fds /\ d - 1 \in 0..(NStd - 1) /\ (d - 1) + 1 = d
      BY <1>1, <2>2, <2>3 DEF Fds
    <3>2. \A p \in Procs, fd \in Fds : f_streams[p][fd] = d <=> p = InitProc /\ fd = d - 1
      <4> SUFFICES ASSUME NEW p \in Procs, NEW fd \in Fds
                   PROVE  f_streams[p][fd] = d <=> p = InitProc /\ fd = d - 1
        OBVIOUS
      <4>1. fd \in Int
        BY <1>1 DEF Fds
      <4>2. QED
        BY <1>1, <1>2, <2>2, <3>1, <4>1
    <3>3. Holders(d) = {<<InitProc, d - 1>>}
      BY <1>1, <3>1, <3>2 DEF Holders
    <3>4. Cardinality(Holders(d)) = 1
      BY <3>3, FS_Singleton
    <3>5. QED
      BY <1>a, <2>1, <2>3, <3>4, FS_EmptySet
  <2>4. CASE ~(d <= NStd)
    <3>1. \A p \in Procs, fd \in Fds : f_streams[p][fd] # d
      <4> SUFFICES ASSUME NEW p \in Procs, NEW fd \in Fds PROVE f_streams[p][fd] # d
        OBVIOUS
      <4>1. fd \in Int
        BY <1>1 DEF Fds
      <4>2. QED
        BY <1>1, <1>2, <2>2, <2>4, <4>1
    <3>2. Holders(d) = {}
      BY <3>1 DEF Holders
    <3>3. QED
      BY <1>a, <2>1, <2>4, <3>2, FS_EmptySet
  <2>5. QED
    BY <2>3, <2>4
<1>9. ZeroCounts
  BY <1>3, <1>c DEF ZeroCounts
<1>10. StorageDeletedOnce
  BY <1>3, <1>c DEF StorageDeletedOnce
<1>11. OpenedStreamsLive
  BY <1>1, <1>3 DEF OpenedStreamsLive
<1>12. NextIsLow
  <2> SUFFICES ASSUME NEW p \in Procs, NEW fd \in 0..(f_next_fd[p] - 1)
               PROVE  f_streams[p][fd] # Null
    BY DEF NextIsLow
  <2>1. p = InitProc /\ fd \in 0..(NStd - 1) /\ fd \in Fds /\ fd + 1 \in Storages
    BY <1>1, <1>d DEF Fds, Storages
  <2>2. QED
    BY <1>1, <1>2, <2>1
<1>13. QED
  BY <1>5, <1>6, <1>7, <1>8, <1>9, <1>10, <1>11, <1>12 DEF TableInv

LEMMA StepTable == TableInv /\ [Next]_vars => TableInv'
<1> SUFFICES ASSUME TableInv, [Next]_vars PROVE TableInv'
  OBVIOUS
<1>1. ASSUME NEW p \in Procs, Clear(p) PROVE TableInv'
  BY <1>1, StepClearMore, StepClearLast
<1>2. ASSUME NEW p \in Procs, Open(p) \/ Insert(p) \/ Exec(p) \/ Exit(p) \/ Delete(p)
      PROVE  TableInv'
  BY <1>2, StepOpen, StepInsert, StepExec, StepExit, StepDelete
<1>3. ASSUME NEW p \in Procs, NEW fd \in Fds, Close(p, fd) \/ DupFree(p, fd) PROVE TableInv'
  BY <1>3, StepClose, StepDupFree
<1>4. ASSUME NEW p \in Procs, NEW old \in Fds, NEW new \in Fds, DupTo(p, old, new)
      PROVE  TableInv'
  BY <1>4, StepDupTo
<1>5. ASSUME NEW p \in Procs, NEW c \in Procs, Fork(p, c) PROVE TableInv'
  BY <1>5, StepFork
<1>6. CASE UNCHANGED vars
  <2>1. UNCHANGED <<f_streams, f_next_fd, refs, made, cloexec, gone, freed, pc, todo, insert>>
    BY <1>6 DEF vars, table, heap
  <2>2. TableShape' /\ PlaceExact' /\ InsertLive' /\ NextIsLow'
    BY <2>1 DEF TableInv, TableShape, TypeOK, PlaceExact, InsertLive, NextIsLow
  <2>3. RefsExact'
    BY <2>1, SameHolders, SameDying DEF TableInv, RefsExact
  <2>4. ZeroCounts' /\ StorageDeletedOnce' /\ OpenedStreamsLive'
    BY <2>1 DEF TableInv, ZeroCounts, StorageDeletedOnce, OpenedStreamsLive
  <2>5. QED
    BY <2>2, <2>3, <2>4 DEF TableInv
<1>7. QED
  BY <1>1, <1>2, <1>3, <1>4, <1>5, <1>6 DEF Next

\* Every reference count is the number of wrappers in the tables and being destroyed, a
\* storage is deleted once and with its last wrapper, a stream opened by a system call lives
\* exactly as long as a descriptor for it, and the search for a free descriptor starts at or
\* below the lowest one: for any number of processes opening, copying, closing, forking,
\* executing and exiting in any order (Process in process.cpp, StreamWrapper).
THEOREM DescriptorsAreSound == Spec => []DescriptorsSound
<1>1. TableInv => DescriptorsSound
  BY DEF TableInv, TableShape, DescriptorsSound, NextIsLow, NoFreeBelowNext
<1>2. QED
  BY InitTable, StepTable, <1>1, PTL DEF Spec

-----------------------------------------------------------------------------
(* A terminal.  The heads of the input buffer are numbers of characters     *)
(* modulo its size: those read, those of finished lines, those typed.  Up   *)
(* to an overrun they are in this order and less than the buffer apart, and *)
(* the characters that are typed and not read lie in their cells.           *)

Letters == Chars \cup {"a", "cr", "nl", "del", "nul"}
Serials == [empty : BOOLEAN, rd : 0..(FifoSize - 1), wr : 0..(FifoSize - 1), sent : Nat,
            put : Nat, wrapped : BOOLEAN, hung : BOOLEAN]
Lines == [buf : [0..(InputSize - 1) -> Letters], wr : Int, line : Int, input : Seq(Letters),
          lineLen : Nat, overrun : BOOLEAN, out : Serials]

\* The characters in the FIFO, and that every other one that was put out was sent.
Waiting(s) == IF s.wr >= s.rd THEN s.wr - s.rd ELSE s.wr - s.rd + FifoSize
SerialFits(s) == s \in Serials /\ (~s.wrapped /\ ~s.hung => s.put = s.sent + Waiting(s))

\* The cell of the character that comes after n others.
Spot(n) == n % InputSize

\* The input buffer when the program has got the characters "got" and the read head is
\* past n of them.
LineFits(l, got, n) ==
    /\ l \in Lines /\ SerialFits(l.out)
    /\ ~l.overrun =>
        /\ Len(got) <= l.lineLen /\ l.lineLen <= Len(l.input) /\ Len(l.input) - n < InputSize
        /\ l.wr = Spot(Len(l.input)) /\ l.line = Spot(l.lineLen)
        /\ \A k \in Nat : n <= k /\ k < Len(l.input) => l.buf[Spot(k)] = l.input[k + 1]
        /\ \A k \in 1..Len(got) : got[k] = l.input[k]

Passed == IF user.pc = "advance" THEN Len(taken) - 1 ELSE Len(taken)

TtyInv ==
    /\ user \in [pc : {"idle", "wait", "test", "load", "advance"}, left : Int]
    /\ taken \in Seq(Letters)
    /\ user.pc = "advance" => Len(taken) > 0
    /\ f_read_head = Spot(Passed)
    /\ LineFits(Tty!Line, taken, Passed)

\* The cells of the input buffer.
LEMMA SpotFacts ==
    ASSUME TerminalAssumption, NEW n \in Nat
    PROVE  /\ Spot(n) \in 0..(InputSize - 1)
           /\ Spot(n + 1) = IF Spot(n) = InputSize - 1 THEN 0 ELSE Spot(n) + 1
           /\ (Spot(n) + 1) % InputSize = Spot(n + 1)
           /\ Spot(n + InputSize) = Spot(n)
           /\ \A m \in Nat : m < n /\ n - m < InputSize => Spot(m) # Spot(n)
<1>0. InputSize \in Nat /\ InputSize > 0
  BY DEF TerminalAssumption
<1>1. Spot(n) \in 0..(InputSize - 1)
  BY <1>0, Division, Zenon DEF Spot
<1>2. Spot(n + 1) = IF Spot(n) = InputSize - 1 THEN 0 ELSE Spot(n) + 1
  BY <1>0, NextCell, Zenon DEF Spot
<1>3. Spot(n) + 1 \in 0..InputSize
  BY <1>0, <1>1
<1>4. (Spot(n) + 1) % InputSize = IF Spot(n) + 1 = InputSize THEN 0 ELSE Spot(n) + 1
  BY <1>0, <1>3, HeadMod, Zenon
<1>5. (Spot(n) + 1) % InputSize = Spot(n + 1)
  BY <1>0, <1>1, <1>2, <1>4
<1>6. Spot(n + InputSize) = Spot(n)
  BY <1>0, SameCell, Zenon DEF Spot
<1>7. ASSUME NEW m \in Nat, m < n, n - m < InputSize PROVE Spot(m) # Spot(n)
  BY <1>0, <1>7, CellsDiffer, Zenon DEF Spot
<1>8. QED
  BY <1>1, <1>2, <1>5, <1>6, <1>7

\* The heads of the FIFO.
LEMMA FifoNext ==
    ASSUME TerminalAssumption, NEW a \in 0..(FifoSize - 1)
    PROVE  (a + 1) % FifoSize = IF a + 1 = FifoSize THEN 0 ELSE a + 1
<1>1. FifoSize \in Nat /\ FifoSize > 0 /\ a + 1 \in 0..FifoSize
  BY DEF TerminalAssumption
<1>2. QED
  BY <1>1, HeadMod, Zenon

\* The distance of the heads.
LEMMA WaitingIsLength ==
    ASSUME TerminalAssumption, serial \in Serials PROVE Tty!FifoLength = Waiting(serial)
<1> DEFINE w == serial.wr
           r == serial.rd
           n == FifoSize
<1>1. /\ n \in Nat /\ n > 0 /\ w \in 0..(n - 1) /\ r \in 0..(n - 1)
      /\ Tty!FifoLength = (w - r + n) % n
      /\ Waiting(serial) = IF w >= r THEN w - r ELSE w - r + n
  BY DEF TerminalAssumption, Serials, Waiting, Tty!FifoLength
<1> HIDE DEF w, r, n
<1>2. CASE w >= r
  <2> DEFINE d == w - r
  <2>1. d \in Nat /\ d \in 0..n /\ d # n
    BY <1>1, <1>2
  <2> HIDE DEF d
  <2>2. (d + n) % n = d % n /\ d % n = d
    BY <2>1, <1>1, SameCell, HeadMod
  <2>3. QED
    BY <2>2, <1>1, <1>2 DEF d
<1>3. CASE ~(w >= r)
  <2> DEFINE d == w - r + n
  <2>1. d \in 0..n /\ d # n
    BY <1>1, <1>3
  <2> HIDE DEF d
  <2>2. d % n = d
    BY <2>1, <1>1, HeadMod
  <2>3. QED
    BY <2>2, <1>1, <1>3 DEF d
<1>4. QED
  BY <1>2, <1>3

\* The write callback keeps the account of the characters.
LEMMA CallbackFits ==
    ASSUME TerminalAssumption, NEW s, SerialFits(s) PROVE SerialFits(Tty!WriteCallback(s))
<1>0. /\ s \in Serials /\ FifoSize \in Nat /\ FifoSize > 0
      /\ s.wr \in 0..(FifoSize - 1) /\ s.rd \in 0..(FifoSize - 1) /\ s.put \in Nat /\ s.sent \in Nat
      /\ ~s.wrapped /\ ~s.hung => s.put = s.sent + Waiting(s)
  BY DEF SerialFits, Serials, TerminalAssumption
<1>1. CASE s.hung
  BY <1>1 DEF Tty!WriteCallback
<1>2. CASE ~s.hung /\ s.empty
  <2> DEFINE t == [s EXCEPT !.empty = FALSE, !.sent = @ + 1, !.put = @ + 1]
  <2>1. /\ t \in Serials /\ t.wr = s.wr /\ t.rd = s.rd /\ t.sent = s.sent + 1 /\ t.put = s.put + 1
        /\ t.wrapped = s.wrapped /\ t.hung = s.hung
    <3>1. s.sent + 1 \in Nat /\ s.put + 1 \in Nat
      BY <1>0
    <3>2. t \in Serials
      BY <1>0, <3>1 DEF Serials
    <3>3. t.wr = s.wr /\ t.rd = s.rd /\ t.wrapped = s.wrapped /\ t.hung = s.hung
      BY <1>0 DEF Serials
    <3>4. t.sent = s.sent + 1 /\ t.put = s.put + 1
      BY <1>0 DEF Serials
    <3>5. QED
      BY <3>2, <3>3, <3>4
  <2>2. Tty!WriteCallback(s) = t
    BY <1>2 DEF Tty!WriteCallback
  <2> HIDE DEF t
  <2>3. SerialFits(t)
    BY <2>1, <1>0 DEF SerialFits, Waiting
  <2>4. QED
    BY <2>2, <2>3
<1>3. CASE ~s.hung /\ ~s.empty
  <2> DEFINE p == [s EXCEPT !.put = @ + 1]
  <2>1. /\ p \in Serials /\ p.wr = s.wr /\ p.rd = s.rd /\ p.sent = s.sent /\ p.put = s.put + 1
        /\ p.wrapped = s.wrapped /\ p.hung = s.hung
    BY <1>0 DEF Serials
  <2>2. Tty!WriteCallback(s) = Tty!FifoPut(p)
    BY <1>3 DEF Tty!WriteCallback
  <2> HIDE DEF p
  <2>3. CASE p.wr + 1 = p.rd
    <3> DEFINE t == [p EXCEPT !.hung = TRUE]
    <3>1. t \in Serials /\ t.hung = TRUE
      BY <2>1 DEF Serials
    <3>2. Tty!FifoPut(p) = t
      BY <2>3 DEF Tty!FifoPut
    <3> HIDE DEF t
    <3>3. QED
      BY <3>1, <3>2, <2>2 DEF SerialFits
  <2>4. CASE p.wr + 1 # p.rd
    <3> DEFINE at == (p.wr + 1) % FifoSize
               w == p.wrapped \/ at = p.rd
               t == [p EXCEPT !.wr = at, !.wrapped = w]
    <3>1. Tty!FifoPut(p) = t
      BY <2>4 DEF Tty!FifoPut
    <3>2. at = IF p.wr + 1 = FifoSize THEN 0 ELSE p.wr + 1
      BY <1>0, <2>1, FifoNext
    <3>3. at \in 0..(FifoSize - 1) /\ w \in BOOLEAN
      BY <1>0, <2>1, <3>2
    <3>4. w <=> p.wrapped \/ at = p.rd
      OBVIOUS
    <3> HIDE DEF at, w
    <3>5. /\ t \in Serials /\ t.wr = at /\ t.rd = p.rd /\ t.sent = p.sent /\ t.put = p.put
          /\ t.wrapped = w /\ t.hung = p.hung
      BY <2>1, <3>3 DEF Serials
    <3> HIDE DEF t
    <3>6. ASSUME ~t.wrapped, ~t.hung PROVE t.put = t.sent + Waiting(t)
      <4>1. ~s.wrapped /\ ~s.hung /\ at # s.rd
        BY <3>4, <3>5, <3>6, <2>1
      <4>2. s.put = s.sent + Waiting(s)
        BY <4>1, <1>0
      <4>3. Waiting(t) = Waiting(s) + 1
        BY <4>1, <3>2, <3>5, <2>1, <1>0 DEF Waiting
      <4>4. Waiting(s) \in Int
        BY <1>0 DEF Waiting
      <4>5. QED
        BY <4>2, <4>3, <4>4, <3>5, <2>1, <1>0
    <3>7. QED
      BY <3>1, <3>5, <3>6, <2>2 DEF SerialFits
  <2>5. QED
    BY <2>3, <2>4
<1>4. QED
  BY <1>1, <1>2, <1>3

\* So does the output of any character.
LEMMA OutputFits ==
    ASSUME TerminalAssumption, NEW s, SerialFits(s), NEW c PROVE SerialFits(Tty!WriteOutput(s, c))
<1>1. SerialFits(Tty!WriteCallback(s))
  BY CallbackFits
<1>2. SerialFits(Tty!WriteCallback(Tty!WriteCallback(s)))
  BY <1>1, CallbackFits
<1>3. QED
  BY <1>1, <1>2 DEF Tty!WriteOutput

\* The fields of a line.
LEMMA LineFacts ==
    ASSUME TerminalAssumption, NEW got, NEW n, NEW l, LineFits(l, got, n)
    PROVE  /\ l \in Lines /\ l.buf \in [0..(InputSize - 1) -> Letters] /\ l.wr \in Int
           /\ l.line \in Int /\ l.input \in Seq(Letters) /\ Len(l.input) \in Nat
           /\ l.lineLen \in Nat /\ l.overrun \in BOOLEAN /\ SerialFits(l.out) /\ l.out \in Serials
           /\ InputSize \in Nat /\ InputSize > 0
<1>1. /\ l \in Lines /\ SerialFits(l.out) /\ l.out \in Serials
  BY DEF LineFits, Lines
<1>2. /\ l.buf \in [0..(InputSize - 1) -> Letters] /\ l.wr \in Int
      /\ l.line \in Int /\ l.input \in Seq(Letters) /\ l.lineLen \in Nat /\ l.overrun \in BOOLEAN
  BY <1>1 DEF Lines
<1>3. QED
  BY <1>1, <1>2 DEF TerminalAssumption

\* write_input() stores behind what is there, or nothing.
LEMMA WriteInputFits ==
    ASSUME TerminalAssumption, NEW got \in Seq(Letters), NEW n \in Nat, n <= Len(got),
           f_read_head = Spot(n), NEW l, LineFits(l, got, n), NEW c \in Letters
    PROVE  LineFits(Tty!WriteInput(l, c), got, n)
<1>0. /\ l \in Lines /\ l.buf \in [0..(InputSize - 1) -> Letters] /\ l.wr \in Int
      /\ l.line \in Int /\ l.input \in Seq(Letters) /\ Len(l.input) \in Nat
      /\ l.lineLen \in Nat /\ l.overrun \in BOOLEAN /\ SerialFits(l.out) /\ l.out \in Serials
      /\ InputSize \in Nat /\ InputSize > 0
  BY LineFacts
<1>1. CASE l.wr + 1 = f_read_head
  BY <1>1 DEF Tty!WriteInput
<1>2. CASE l.wr + 1 # f_read_head
  <2> DEFINE at == (l.wr + 1) % InputSize
             buf == [l.buf EXCEPT ![l.wr] = c]
             typed == Append(l.input, c)
             over == l.overrun \/ at = f_read_head
             m == [l EXCEPT !.buf = buf, !.wr = at, !.input = typed, !.overrun = over]
             W == Len(l.input)
  <2>1. Tty!WriteInput(l, c) = m
    BY <1>2, <1>0 DEF Tty!WriteInput, Lines
  <2>2. /\ buf \in [0..(InputSize - 1) -> Letters]
        /\ \A i \in 0..(InputSize - 1) : buf[i] = IF i = l.wr THEN c ELSE l.buf[i]
    BY <1>0
  <2>3. /\ typed \in Seq(Letters) /\ Len(typed) = W + 1 /\ typed[W + 1] = c
        /\ \A i \in 1..W : typed[i] = l.input[i]
    BY <1>0, AppendProperties
  <2>4. at \in Int
    BY <1>0
  <2>5. over \in BOOLEAN /\ (over <=> l.overrun \/ at = f_read_head)
    OBVIOUS
  <2>6. W \in Nat
    BY <1>0
  <2>7. ASSUME ~l.overrun PROVE at = Spot(W + 1) /\ l.wr = Spot(W)
    <3>1. l.wr = Spot(W)
      BY <2>7 DEF LineFits
    <3>2. QED
      BY <3>1, <2>6, SpotFacts
  <2> HIDE DEF at, buf, typed, over
  <2>8. /\ m \in Lines /\ m.buf = buf /\ m.wr = at /\ m.line = l.line /\ m.input = typed
        /\ m.lineLen = l.lineLen /\ m.overrun = over /\ m.out = l.out
    BY <1>0, <2>2, <2>3, <2>4, <2>5 DEF Lines
  <2> HIDE DEF m, W
  <2>9. ASSUME ~over
        PROVE  /\ Len(got) <= l.lineLen /\ l.lineLen <= W + 1 /\ W + 1 - n < InputSize
               /\ at = Spot(W + 1) /\ l.line = Spot(l.lineLen)
               /\ \A k \in Nat : n <= k /\ k < W + 1 => buf[Spot(k)] = typed[k + 1]
               /\ \A k \in 1..Len(got) : got[k] = typed[k]
    <3>1. ~l.overrun /\ at # Spot(n)
      BY <2>5, <2>9
    <3>2. /\ Len(got) <= l.lineLen /\ l.lineLen <= W /\ W - n < InputSize
          /\ l.line = Spot(l.lineLen)
          /\ \A k \in Nat : n <= k /\ k < W => l.buf[Spot(k)] = l.input[k + 1]
          /\ \A k \in 1..Len(got) : got[k] = l.input[k]
      BY <3>1 DEF LineFits, W
    <3>3. at = Spot(W + 1) /\ l.wr = Spot(W)
      BY <3>1, <2>7
    <3>4. W + 1 - n < InputSize
      <4>1. CASE W + 1 = n + InputSize
        <5>1. Spot(n + InputSize) = Spot(n)
          BY SpotFacts
        <5>2. QED
          BY <4>1, <5>1, <3>1, <3>3
      <4>2. QED
        BY <4>1, <3>2, <2>6, <1>0
    <3>5. Len(got) \in Nat
      OBVIOUS
    <3>6. ASSUME NEW k \in Nat, n <= k, k < W + 1 PROVE buf[Spot(k)] = typed[k + 1]
      <4>1. Spot(k) \in 0..(InputSize - 1)
        BY SpotFacts
      <4>2. CASE k = W
        <5>1. buf[Spot(k)] = c
          BY <4>1, <4>2, <3>3, <2>2
        <5>2. QED
          BY <5>1, <4>2, <2>3
      <4>3. CASE k # W
        <5>1. k < W /\ W - k < InputSize /\ k + 1 \in 1..W
          BY <4>3, <3>6, <3>2, <2>6, <1>0
        <5>2. Spot(k) # Spot(W)
          BY <5>1, <2>6, SpotFacts
        <5>3. buf[Spot(k)] = l.buf[Spot(k)]
          BY <5>2, <4>1, <3>3, <2>2
        <5>4. typed[k + 1] = l.input[k + 1]
          BY <5>1, <2>3
        <5>5. l.buf[Spot(k)] = l.input[k + 1]
          BY <5>1, <3>2, <3>6
        <5>6. QED
          BY <5>3, <5>4, <5>5
      <4>4. QED
        BY <4>2, <4>3
    <3>7. ASSUME NEW k \in 1..Len(got) PROVE got[k] = typed[k]
      <4>1. k \in 1..W
        BY <3>2, <3>5, <2>6, <1>0
      <4>2. QED
        BY <4>1, <3>2, <2>3
    <3>8. QED
      BY <3>2, <3>3, <3>4, <3>6, <3>7, <2>6, <1>0
  <2>10. LineFits(m, got, n)
    <3>1. Len(m.input) = W + 1 /\ SerialFits(m.out)
      BY <2>8, <2>3, <1>0
    <3>2. ASSUME ~m.overrun
          PROVE  /\ Len(got) <= m.lineLen /\ m.lineLen <= Len(m.input)
                 /\ Len(m.input) - n < InputSize
                 /\ m.wr = Spot(Len(m.input)) /\ m.line = Spot(m.lineLen)
                 /\ \A k \in Nat : n <= k /\ k < Len(m.input) => m.buf[Spot(k)] = m.input[k + 1]
                 /\ \A k \in 1..Len(got) : got[k] = m.input[k]
      <4>1. ~over
        BY <3>2, <2>8
      <4>2. Len(m.input) - n < InputSize /\ m.lineLen <= Len(m.input) /\ m.wr = Spot(Len(m.input))
        <5>1. l.lineLen <= W + 1 /\ W + 1 - n < InputSize /\ at = Spot(W + 1)
          BY <4>1, <2>9
        <5>2. QED
          BY <5>1, <3>1, <2>6, <2>8, <1>0
      <4>3. ASSUME NEW k \in Nat, n <= k, k < Len(m.input) PROVE m.buf[Spot(k)] = m.input[k + 1]
        <5>1. buf[Spot(k)] = typed[k + 1]
          BY <4>1, <4>3, <3>1, <2>9
        <5>2. QED
          BY <5>1, <2>8
      <4>4. QED
        BY <4>1, <4>2, <4>3, <2>8, <2>9
    <3>3. QED
      BY <3>1, <3>2, <2>8 DEF LineFits
  <2>11. QED
    BY <2>1, <2>10
<1>3. QED
  BY <1>1, <1>2

\* A line that is passed on ends where the write head is.
LEMMA PassLineFits ==
    ASSUME TerminalAssumption, NEW got \in Seq(Letters), NEW n \in Nat, NEW l, LineFits(l, got, n)
    PROVE  LineFits(Tty!PassLine(l), got, n)
<1>0. l \in Lines /\ Len(l.input) \in Nat /\ l.lineLen \in Nat /\ l.wr \in Int /\ SerialFits(l.out)
  BY LineFacts
<1> DEFINE W == Len(l.input)
           m == [l EXCEPT !.line = l.wr, !.lineLen = W]
<1>1. Tty!PassLine(l) = m
  BY DEF Tty!PassLine
<1> HIDE DEF W
<1>2. /\ m \in Lines /\ m.buf = l.buf /\ m.wr = l.wr /\ m.line = l.wr /\ m.input = l.input
      /\ m.lineLen = W /\ m.overrun = l.overrun /\ m.out = l.out
  BY <1>0 DEF Lines, W
<1> HIDE DEF m
<1>3. ASSUME ~l.overrun
      PROVE  /\ Len(got) <= W /\ W - n < InputSize /\ l.wr = Spot(W)
             /\ \A k \in Nat : n <= k /\ k < W => l.buf[Spot(k)] = l.input[k + 1]
             /\ \A k \in 1..Len(got) : got[k] = l.input[k]
  <2>1. /\ Len(got) <= l.lineLen /\ l.lineLen <= W /\ W - n < InputSize /\ l.wr = Spot(W)
        /\ \A k \in Nat : n <= k /\ k < W => l.buf[Spot(k)] = l.input[k + 1]
        /\ \A k \in 1..Len(got) : got[k] = l.input[k]
    BY <1>3 DEF LineFits, W
  <2>2. Len(got) \in Nat /\ W \in Nat
    BY <1>0 DEF W
  <2>3. QED
    BY <2>1, <2>2, <1>0
<1>4. W \in Nat
  BY <1>0 DEF W
<1>5. LineFits(m, got, n)
  BY <1>0, <1>2, <1>3, <1>4 DEF LineFits, W
<1>6. QED
  BY <1>1, <1>5

\* A backspace takes a character of the open line back.
LEMMA BackspaceFits ==
    ASSUME TerminalAssumption, NEW got \in Seq(Letters), NEW n \in Nat, n <= Len(got),
           NEW l, LineFits(l, got, n)
    PROVE  LineFits(Tty!Backspace(l), got, n)
<1>0. /\ l \in Lines /\ l.buf \in [0..(InputSize - 1) -> Letters] /\ l.wr \in Int
      /\ l.line \in Int /\ l.input \in Seq(Letters) /\ Len(l.input) \in Nat
      /\ l.lineLen \in Nat /\ l.overrun \in BOOLEAN /\ SerialFits(l.out) /\ l.out \in Serials
      /\ InputSize \in Nat /\ InputSize > 0
  BY LineFacts
<1>1. CASE ~(l.line > l.wr)
  BY <1>1 DEF Tty!Backspace
<1>2. CASE l.line > l.wr
  <2> DEFINE W == Len(l.input)
             typed == IF l.input = <<>> THEN l.input ELSE Tty!Front(l.input)
             out == Tty!WriteOutput(l.out, "bs")
             over == l.overrun \/ l.wr = 0
             m == [l EXCEPT !.out = out, !.wr = @ - 1, !.overrun = over, !.input = typed]
  <2>1. Tty!Backspace(l) = m
    BY <1>2 DEF Tty!Backspace
  <2>2. SerialFits(out) /\ out \in Serials
    <3>1. SerialFits(out)
      BY <1>0, OutputFits
    <3>2. QED
      BY <3>1 DEF SerialFits
  <2>3. typed \in Seq(Letters) /\ (W > 0 => Len(typed) = W - 1 /\ \A i \in 1..(W - 1) : typed[i] = l.input[i])
    <3>1. CASE l.input = <<>>
      BY <1>0, <3>1
    <3>2. CASE l.input # <<>>
      <4>1. W \in Nat /\ W > 0
        BY <3>2, <1>0
      <4>2. typed = SubSeq(l.input, 1, W - 1)
        BY <3>2 DEF Tty!Front
      <4>3. \A i \in 1..(W - 1) : l.input[i] \in Letters
        BY <1>0, <4>1
      <4> HIDE DEF typed
      <4>4. /\ typed \in Seq(Letters) /\ Len(typed) = IF 1 <= W - 1 THEN W - 1 - 1 + 1 ELSE 0
            /\ \A i \in 1..(W - 1 - 1 + 1) : typed[i] = l.input[1 + i - 1]
        <5> HIDE DEF W
        <5>1. 1 \in Int /\ W - 1 \in Int
          BY <4>1
        <5>2. QED
          BY <5>1, <4>2, <4>3, SubSeqProperties
      <4> HIDE DEF W
      <4>5. Len(typed) = W - 1
        BY <4>1, <4>4
      <4>6. \A i \in 1..(W - 1) : typed[i] = l.input[i]
        <5>1. \A i \in 1..(W - 1) : i \in 1..(W - 1 - 1 + 1) /\ 1 + i - 1 = i
          BY <4>1
        <5>2. QED
          BY <5>1, <4>4
      <4>7. QED
        BY <4>4, <4>5, <4>6
    <3>3. QED
      BY <3>1, <3>2
  <2>4. over \in BOOLEAN /\ (over <=> l.overrun \/ l.wr = 0)
    OBVIOUS
  <2>5. W \in Nat
    BY <1>0
  <2> HIDE DEF typed, out, over
  <2>6. /\ m \in Lines /\ m.buf = l.buf /\ m.wr = l.wr - 1 /\ m.line = l.line /\ m.input = typed
        /\ m.lineLen = l.lineLen /\ m.overrun = over /\ m.out = out
    <3>1. l.wr - 1 \in Int /\ typed \in Seq(Letters) /\ out \in Serials /\ over \in BOOLEAN
      BY <1>0, <2>2, <2>3, <2>4
    <3>2. m \in Lines
      BY <1>0, <3>1 DEF Lines
    <3>3. m.buf = l.buf /\ m.line = l.line /\ m.lineLen = l.lineLen
      BY <1>0 DEF Lines
    <3>4. m.wr = l.wr - 1 /\ m.input = typed /\ m.overrun = over /\ m.out = out
      BY <1>0 DEF Lines
    <3>5. QED
      BY <3>2, <3>3, <3>4
  <2> HIDE DEF m, W
  <2>7. ASSUME ~over
        PROVE  /\ Len(got) <= l.lineLen /\ l.lineLen <= Len(typed) /\ Len(typed) - n < InputSize
               /\ l.wr - 1 = Spot(Len(typed)) /\ l.line = Spot(l.lineLen)
               /\ \A k \in Nat : n <= k /\ k < Len(typed) => l.buf[Spot(k)] = typed[k + 1]
               /\ \A k \in 1..Len(got) : got[k] = typed[k]
    <3>1. ~l.overrun /\ l.wr # 0
      BY <2>4, <2>7
    <3>2. /\ Len(got) <= l.lineLen /\ l.lineLen <= W /\ W - n < InputSize
          /\ l.wr = Spot(W) /\ l.line = Spot(l.lineLen)
          /\ \A k \in Nat : n <= k /\ k < W => l.buf[Spot(k)] = l.input[k + 1]
          /\ \A k \in 1..Len(got) : got[k] = l.input[k]
      BY <3>1 DEF LineFits, W
    <3>3. l.lineLen # W
      BY <1>2, <3>2, <1>0
    <3>4. l.lineLen < W /\ W > 0 /\ W - 1 \in Nat /\ Len(typed) = W - 1
      BY <3>2, <3>3, <2>3, <2>5, <1>0
    <3>5. Len(got) \in Nat
      OBVIOUS
    <3>6. l.wr - 1 = Spot(W - 1)
      <4> DEFINE v == W - 1
      <4>1. v \in Nat /\ v + 1 = W
        BY <3>4, <2>5
      <4> HIDE DEF v
      <4>2. Spot(v) \in 0..(InputSize - 1) /\ Spot(v + 1) = IF Spot(v) = InputSize - 1 THEN 0 ELSE Spot(v) + 1
        BY <4>1, SpotFacts
      <4>3. l.wr - 1 = Spot(v)
        BY <4>1, <4>2, <3>1, <3>2, <1>0
      <4>4. QED
        BY <4>3 DEF v
    <3>7. ASSUME NEW k \in Nat, n <= k, k < W - 1 PROVE l.buf[Spot(k)] = typed[k + 1]
      <4>1. k < W /\ k + 1 \in 1..(W - 1)
        BY <3>7, <2>5
      <4>2. QED
        BY <4>1, <3>7, <3>2, <3>4, <2>3
    <3>8. ASSUME NEW k \in 1..Len(got) PROVE got[k] = typed[k]
      <4>1. k \in 1..(W - 1)
        BY <3>2, <3>4, <3>5, <2>5, <1>0
      <4>2. QED
        BY <4>1, <3>2, <3>4, <2>3
    <3>9. l.lineLen <= W - 1 /\ W - 1 - n < InputSize
      BY <3>2, <3>4, <2>5, <1>0
    <3>10. QED
      BY <3>2, <3>4, <3>6, <3>7, <3>8, <3>9
  <2>8. LineFits(m, got, n)
    BY <2>6, <2>7, <2>2 DEF LineFits
  <2>9. QED
    BY <2>1, <2>8
<1>3. QED
  BY <1>1, <1>2

\* A translation has one to three characters.
LEMMA TranslateFacts ==
    ASSUME NEW c \in Chars, NEW noise
    PROVE  LET out == Tty!Translate(c, noise)
           IN Len(out) \in 1..3 /\ \A i \in 1..Len(out) : out[i] \in Letters
<1>1. c \in Letters /\ {"del", "nul", "cr", "nl"} \subseteq Letters
  BY DEF Letters
<1> HIDE DEF Letters
<1>2. ASSUME NEW a \in Letters
      PROVE  Len(<<a>>) \in 1..3 /\ \A i \in 1..Len(<<a>>) : <<a>>[i] \in Letters
  OBVIOUS
<1>3. ASSUME NEW a \in Letters, NEW b \in Letters
      PROVE  Len(<<a, b>>) \in 1..3 /\ \A i \in 1..Len(<<a, b>>) : <<a, b>>[i] \in Letters
  OBVIOUS
<1>4. ASSUME NEW a \in Letters, NEW b \in Letters, NEW d \in Letters
      PROVE  Len(<<a, b, d>>) \in 1..3 /\ \A i \in 1..Len(<<a, b, d>>) : <<a, b, d>>[i] \in Letters
  OBVIOUS
<1>5. \/ \E a \in Letters : Tty!Translate(c, noise) = <<a>>
      \/ \E a, b \in Letters : Tty!Translate(c, noise) = <<a, b>>
      \/ \E a, b, d \in Letters : Tty!Translate(c, noise) = <<a, b, d>>
  <2>1. \/ Tty!Translate(c, noise) \in {<<"nul">>, <<"cr">>, <<"nl">>, <<c>>}
        \/ Tty!Translate(c, noise) = <<"del", "del">>
        \/ Tty!Translate(c, noise) \in {<<"del", "nul", c>>, <<"del", "nul", "nul">>}
    BY DEF Tty!Translate
  <2>2. QED
    BY <1>1, <2>1
<1>6. QED
  BY <1>2, <1>3, <1>4, <1>5

\* The line discipline for a translated character.
LEMMA DisciplineFits ==
    ASSUME TerminalAssumption, NEW got \in Seq(Letters), NEW n \in Nat, n <= Len(got),
           f_read_head = Spot(n), NEW l, LineFits(l, got, n),
           NEW out, Len(out) \in 1..3, \A i \in 1..Len(out) : out[i] \in Letters
    PROVE  LineFits(Tty!Discipline(l, out), got, n)
<1>1. ASSUME NEW m, LineFits(m, got, n), NEW i \in {1, 2, 3}
      PROVE  LineFits(Tty!WriteNth(m, out, i), got, n)
  <2>1. CASE i <= Len(out)
    <3>1. out[i] \in Letters
      BY <2>1
    <3>2. LineFits(Tty!WriteInput(m, out[i]), got, n)
      BY <1>1, <3>1, WriteInputFits
    <3>3. QED
      BY <2>1, <3>2 DEF Tty!WriteNth
  <2>2. CASE ~(i <= Len(out))
    BY <1>1, <2>2 DEF Tty!WriteNth
  <2>3. QED
    BY <2>1, <2>2
<1>2. LineFits(Tty!WriteAll(l, out), got, n)
  BY <1>1 DEF Tty!WriteAll
<1>3. LineFits(Tty!PassLine(Tty!WriteInput(l, "cr")), got, n)
  <2>1. "cr" \in Letters
    BY DEF Letters
  <2>2. LineFits(Tty!WriteInput(l, "cr"), got, n)
    BY <2>1, WriteInputFits
  <2>3. QED
    BY <2>2, PassLineFits
<1>4. LineFits(Tty!PassLine(l), got, n)
  BY PassLineFits
<1>5. LineFits(Tty!Backspace(l), got, n)
  BY BackspaceFits
<1>6. QED
  BY <1>2, <1>3, <1>4, <1>5 DEF Tty!Discipline

\* What the invariant says of the numbers of characters.
LEMMA TtyFacts ==
    ASSUME TerminalAssumption, TtyInv
    PROVE  /\ taken \in Seq(Letters) /\ Len(taken) \in Nat
           /\ Passed \in Nat /\ Passed <= Len(taken) /\ f_read_head = Spot(Passed)
           /\ LineFits(Tty!Line, taken, Passed)
<1>1. taken \in Seq(Letters) /\ (user.pc = "advance" => Len(taken) > 0)
  BY DEF TtyInv
<1>2. Len(taken) \in Nat
  BY <1>1
<1>3. QED
  BY <1>1, <1>2 DEF TtyInv, Passed

\* A character arrives.
LEMMA ReceiveInv ==
    ASSUME TerminalAssumption, TtyInv, NEW c \in Chars, NEW noise \in Tty!Noise, Tty!Receive(c, noise)
    PROVE  TtyInv'
<1> DEFINE echoed == [Tty!Line EXCEPT !.out = Tty!WriteOutput(serial, c)]
           after == IF ~Tty!Kept(c, noise) THEN echoed
                    ELSE Tty!Discipline(echoed, Tty!Translate(c, noise))
<1>1. /\ f_input_buffer' = after.buf /\ f_write_head' = after.wr /\ f_line_head' = after.line
      /\ input' = after.input /\ lineLen' = after.lineLen /\ overrun' = after.overrun
      /\ serial' = after.out /\ UNCHANGED <<f_read_head, taken, user>>
  BY DEF Tty!Receive
<1>2. /\ taken \in Seq(Letters) /\ Passed \in Nat /\ Passed <= Len(taken)
      /\ f_read_head = Spot(Passed) /\ LineFits(Tty!Line, taken, Passed)
  BY TtyFacts
<1>3. PICK l : l = Tty!Line
  OBVIOUS
<1>4. LineFits(l, taken, Passed) /\ l.out = serial
  BY <1>2, <1>3 DEF Tty!Line
<1>5. PICK out : out = Tty!WriteOutput(serial, c)
  OBVIOUS
<1>6. SerialFits(out) /\ out \in Serials
  <2>1. SerialFits(serial)
    BY <1>4, LineFacts
  <2>2. SerialFits(out)
    BY <2>1, <1>5, OutputFits
  <2>3. QED
    BY <2>2 DEF SerialFits
<1>7. PICK e : e = [l EXCEPT !.out = out]
  OBVIOUS
<1>8. e = echoed
  BY <1>3, <1>5, <1>7
<1>9. LineFits(e, taken, Passed)
  <2>1. l \in Lines
    BY <1>4, LineFacts
  <2>2. /\ e \in Lines /\ e.buf = l.buf /\ e.wr = l.wr /\ e.line = l.line /\ e.input = l.input
        /\ e.lineLen = l.lineLen /\ e.overrun = l.overrun /\ e.out = out
    BY <2>1, <1>6, <1>7 DEF Lines
  <2>3. QED
    BY <2>2, <1>4, <1>6 DEF LineFits
<1> HIDE DEF echoed
<1>10. LineFits(after, taken, Passed)
  <2>1. CASE ~Tty!Kept(c, noise)
    BY <2>1, <1>8, <1>9
  <2>2. CASE Tty!Kept(c, noise)
    <3>1. PICK t : t = Tty!Translate(c, noise)
      OBVIOUS
    <3>2. Len(t) \in 1..3 /\ \A i \in 1..Len(t) : t[i] \in Letters
      BY <3>1, TranslateFacts
    <3>3. LineFits(Tty!Discipline(e, t), taken, Passed)
      BY <3>2, <1>2, <1>9, DisciplineFits
    <3>4. QED
      BY <3>1, <3>3, <2>2, <1>8
  <2>3. QED
    BY <2>1, <2>2
<1> HIDE DEF after
<1>11. PICK m : m = after
  OBVIOUS
<1>12. LineFits(m, taken, Passed) /\ m \in Lines
  BY <1>10, <1>11 DEF LineFits
<1>13. Tty!Line' = m
  BY <1>1, <1>11, <1>12 DEF Lines, Tty!Line
<1>14. Passed' = Passed
  BY <1>1 DEF Passed
<1>15. LineFits(Tty!Line, taken, Passed)'
  BY <1>1, <1>12, <1>13, <1>14 DEF LineFits, SerialFits, Waiting, Spot
<1>16. f_read_head' = Spot(Passed)'
  BY <1>1, <1>2, <1>14 DEF Spot
<1>17. QED
  BY <1>1, <1>15, <1>16 DEF TtyInv

\* Steps that leave the input side alone.
LEMMA OutputStep ==
    ASSUME TerminalAssumption, TtyInv, SerialFits(serial)',
           UNCHANGED <<f_input_buffer, f_read_head, f_write_head, f_line_head, input, lineLen,
                       taken, overrun>>,
           user' \in [pc : {"idle", "wait", "test", "load", "advance"}, left : Int],
           user'.pc = "advance" <=> user.pc = "advance"
    PROVE  TtyInv'
<1>1. Passed' = Passed
  BY DEF Passed
<1>2. LineFits(Tty!Line, taken, Passed)
  BY DEF TtyInv
<1>3. PICK l, m : l = Tty!Line /\ m = Tty!Line'
  OBVIOUS
<1>4. /\ m.buf = l.buf /\ m.wr = l.wr /\ m.line = l.line /\ m.input = l.input
      /\ m.lineLen = l.lineLen /\ m.overrun = l.overrun /\ m.out = serial'
  BY <1>3 DEF Tty!Line
<1>5. l \in Lines /\ serial' \in Serials
  BY <1>2, <1>3 DEF LineFits, SerialFits, Serials
<1>6. m = [l EXCEPT !.out = serial']
  BY <1>3 DEF Tty!Line
<1>7. m \in Lines
  BY <1>5, <1>6 DEF Lines
<1>8. SerialFits(m.out)
  BY <1>4 DEF SerialFits, Serials, Waiting
<1>9. LineFits(m, taken, Passed)
  BY <1>2, <1>3, <1>4, <1>7, <1>8 DEF LineFits
<1>10. LineFits(Tty!Line, taken, Passed)'
  BY <1>1, <1>3, <1>9 DEF LineFits, SerialFits, Serials, Waiting, Spot, Lines, Letters
<1>11. QED
  BY <1>1, <1>10 DEF TtyInv, Spot, Letters

\* The transmitter.
LEMMA TransmitterInv ==
    ASSUME TerminalAssumption, TtyInv, Tty!Sent \/ Tty!Transmit PROVE TtyInv'
<1>0. /\ SerialFits(serial) /\ serial \in Serials
      /\ user \in [pc : {"idle", "wait", "test", "load", "advance"}, left : Int]
  <2>1. SerialFits(serial)
    BY DEF TtyInv, LineFits, Tty!Line
  <2>2. QED
    BY <2>1 DEF SerialFits, TtyInv
<1>1. UNCHANGED <<f_input_buffer, f_read_head, f_write_head, f_line_head, input, lineLen,
                  taken, user, overrun>>
  BY DEF Tty!Sent, Tty!Transmit
<1>2. PICK s : s = serial
  OBVIOUS
<1>3. /\ s \in Serials /\ s.rd \in 0..(FifoSize - 1) /\ s.wr \in 0..(FifoSize - 1)
      /\ s.sent \in Nat /\ s.put \in Nat /\ FifoSize \in Nat /\ FifoSize > 0
      /\ ~s.wrapped /\ ~s.hung => s.put = s.sent + Waiting(s)
  BY <1>0, <1>2 DEF SerialFits, Serials, TerminalAssumption
<1>4. PICK t : t = serial'
  OBVIOUS
<1>5. SerialFits(t)
  <2>1. CASE Tty!Sent
    <3>1. t = [s EXCEPT !.empty = TRUE]
      BY <2>1, <1>2, <1>4 DEF Tty!Sent
    <3>2. /\ t \in Serials /\ t.wr = s.wr /\ t.rd = s.rd /\ t.sent = s.sent /\ t.put = s.put
          /\ t.wrapped = s.wrapped /\ t.hung = s.hung
      BY <3>1, <1>3 DEF Serials
    <3>3. QED
      BY <3>2, <1>3 DEF SerialFits, Waiting
  <2>2. CASE Tty!Transmit
    <3> DEFINE at == (s.rd + 1) % FifoSize
    <3>1. at = IF s.rd + 1 = FifoSize THEN 0 ELSE s.rd + 1
      BY <1>3, FifoNext
    <3>2. at \in 0..(FifoSize - 1) /\ s.sent + 1 \in Nat
      BY <3>1, <1>3
    <3>3. t = [s EXCEPT !.empty = FALSE, !.sent = @ + 1, !.rd = at] /\ s.rd # s.wr
      BY <2>2, <1>2, <1>4 DEF Tty!Transmit
    <3> HIDE DEF at
    <3>4. t \in Serials
      BY <3>2, <3>3, <1>3 DEF Serials
    <3>5. t.wr = s.wr /\ t.put = s.put /\ t.wrapped = s.wrapped /\ t.hung = s.hung
      BY <3>3, <1>3 DEF Serials
    <3>6. t.rd = at /\ t.sent = s.sent + 1
      BY <3>3, <1>3 DEF Serials
    <3>7. Waiting(t) = Waiting(s) - 1 /\ Waiting(s) \in Int
      BY <3>1, <3>3, <3>5, <3>6, <1>3 DEF Waiting
    <3>8. QED
      BY <3>4, <3>5, <3>6, <3>7, <1>3 DEF SerialFits
  <2>3. QED
    BY <2>1, <2>2
<1>6. SerialFits(serial)'
  BY <1>4, <1>5 DEF SerialFits, Serials, Waiting
<1>7. QED
  BY <1>0, <1>1, <1>6, OutputStep

\* stream_read and its tests.
LEMMA ReaderTests ==
    ASSUME TerminalAssumption, TtyInv, (\E n \in 1..MaxRead : Tty!StreamRead(n)) \/ Tty!ReadTest
    PROVE  TtyInv'
<1>0. /\ SerialFits(serial)
      /\ user \in [pc : {"idle", "wait", "test", "load", "advance"}, left : Int]
  BY DEF TtyInv, LineFits, Tty!Line
<1>1. UNCHANGED <<f_input_buffer, f_read_head, f_write_head, f_line_head, serial, input, lineLen,
                  taken, overrun>>
  BY DEF Tty!StreamRead, Tty!ReadTest
<1>2. SerialFits(serial)'
  BY <1>0, <1>1 DEF SerialFits, Serials, Waiting
<1>3. /\ user' \in [pc : {"idle", "wait", "test", "load", "advance"}, left : Int]
      /\ user'.pc # "advance" /\ user.pc # "advance"
  <2>1. CASE \E n \in 1..MaxRead : Tty!StreamRead(n)
    <3>1. PICK n \in 1..MaxRead : Tty!StreamRead(n)
      BY <2>1
    <3>2. n \in Int
      OBVIOUS
    <3>3. user.pc = "idle" /\ (user' = [pc |-> "wait", left |-> n] \/ user' = [pc |-> "test", left |-> n])
      BY <3>1 DEF Tty!StreamRead
    <3>4. QED
      BY <3>2, <3>3
  <2>2. CASE Tty!ReadTest
    BY <2>2, <1>0 DEF Tty!ReadTest
  <2>3. QED
    BY <2>1, <2>2
<1>4. QED
  BY <1>1, <1>2, <1>3, OutputStep

\* read_input: the byte that is loaded is the next of the input.
LEMMA ReadInputInv == ASSUME TerminalAssumption, TtyInv, Tty!ReadInput PROVE TtyInv'
<1>0. /\ user \in [pc : {"idle", "wait", "test", "load", "advance"}, left : Int]
      /\ taken \in Seq(Letters) /\ Len(taken) \in Nat
      /\ Passed \in Nat /\ Passed <= Len(taken) /\ f_read_head = Spot(Passed)
      /\ LineFits(Tty!Line, taken, Passed)
  BY TtyFacts DEF TtyInv
<1>1. UNCHANGED <<f_input_buffer, f_write_head, f_line_head, serial, input, lineLen, overrun>>
  BY DEF Tty!ReadInput
<1>2. PICK l : l = Tty!Line
  OBVIOUS
<1>3. /\ LineFits(l, taken, Passed) /\ l.buf = f_input_buffer /\ l.line = f_line_head
  BY <1>0, <1>2 DEF Tty!Line
<1>4. /\ l \in Lines /\ l.buf \in [0..(InputSize - 1) -> Letters] /\ Len(l.input) \in Nat
      /\ l.lineLen \in Nat /\ SerialFits(l.out)
  BY <1>3, LineFacts
<1>5. Tty!Line' = l
  BY <1>1, <1>2 DEF Tty!Line
<1>6. CASE user.pc = "load"
  <2>1. /\ f_read_head # f_line_head /\ f_read_head' = f_read_head
        /\ taken' = Append(taken, f_input_buffer[f_read_head])
        /\ user' = [user EXCEPT !.pc = "advance"]
    BY <1>6 DEF Tty!ReadInput
  <2>2. PICK got, n, c : got = taken /\ n = Len(taken) /\ c = l.buf[Spot(n)]
    OBVIOUS
  <2>3. n \in Nat /\ Passed = n /\ got \in Seq(Letters) /\ Len(got) = n /\ Spot(n) \in 0..(InputSize - 1)
    BY <1>0, <1>6, <2>2, SpotFacts DEF Passed
  <2>4. c \in Letters
    BY <2>2, <2>3, <1>4
  <2>5. PICK more : more = Append(got, c)
    OBVIOUS
  <2>6. /\ more \in Seq(Letters) /\ Len(more) = n + 1 /\ more[n + 1] = c
        /\ \A i \in 1..n : more[i] = got[i]
    BY <2>3, <2>4, <2>5, AppendProperties
  <2>7. taken' = more
    BY <2>1, <2>2, <2>3, <2>5, <1>0, <1>3
  <2>8. user' \in [pc : {"idle", "wait", "test", "load", "advance"}, left : Int] /\ user'.pc = "advance"
    BY <2>1, <1>0
  <2>9. Passed' = n
    BY <2>6, <2>7, <2>8, <2>3 DEF Passed
  <2>10. LineFits(l, more, n)
    <3>1. ASSUME ~l.overrun
          PROVE  /\ Len(more) <= l.lineLen /\ l.lineLen <= Len(l.input) /\ Len(l.input) - n < InputSize
                 /\ l.wr = Spot(Len(l.input)) /\ l.line = Spot(l.lineLen)
                 /\ \A k \in Nat : n <= k /\ k < Len(l.input) => l.buf[Spot(k)] = l.input[k + 1]
                 /\ \A k \in 1..Len(more) : more[k] = l.input[k]
      <4>1. /\ n <= l.lineLen /\ l.lineLen <= Len(l.input) /\ Len(l.input) - n < InputSize
            /\ l.wr = Spot(Len(l.input)) /\ l.line = Spot(l.lineLen)
            /\ \A k \in Nat : n <= k /\ k < Len(l.input) => l.buf[Spot(k)] = l.input[k + 1]
            /\ \A k \in 1..n : got[k] = l.input[k]
        BY <3>1, <1>3, <2>2, <2>3 DEF LineFits
      <4>2. l.lineLen # n
        BY <4>1, <2>1, <2>3, <1>0, <1>3
      <4>3. n + 1 <= l.lineLen /\ n < Len(l.input)
        BY <4>1, <4>2, <2>3, <1>4
      <4>4. c = l.input[n + 1]
        BY <4>1, <4>3, <2>2, <2>3
      <4>5. ASSUME NEW k \in 1..Len(more) PROVE more[k] = l.input[k]
        <5>1. k \in 1..n \/ k = n + 1
          BY <2>3, <2>6
        <5>2. QED
          BY <5>1, <4>1, <4>4, <2>6
      <4>6. QED
        BY <4>1, <4>3, <4>5, <2>6
    <3>2. QED
      BY <3>1, <1>4 DEF LineFits
  <2>11. LineFits(Tty!Line, taken, Passed)'
    BY <1>5, <2>7, <2>9, <2>10 DEF LineFits, SerialFits, Serials, Waiting, Spot, Lines, Letters
  <2>12. f_read_head' = Spot(Passed)'
    BY <1>0, <2>1, <2>3, <2>9 DEF Spot
  <2>13. taken' \in Seq(Letters) /\ Len(taken') > 0
    BY <2>3, <2>6, <2>7
  <2>14. QED
    BY <2>8, <2>11, <2>12, <2>13 DEF TtyInv, Letters
<1>7. CASE user.pc = "advance"
  <2>1. /\ f_read_head' = (f_read_head + 1) % InputSize /\ taken' = taken
        /\ user' = [pc |-> "test", left |-> user.left - 1]
    BY <1>7 DEF Tty!ReadInput
  <2>2. PICK got, n : got = taken /\ n = Len(taken) - 1
    OBVIOUS
  <2>3. n \in Nat /\ Passed = n /\ Len(got) = n + 1
    BY <1>0, <1>7, <2>2 DEF Passed
  <2>4. /\ user' \in [pc : {"idle", "wait", "test", "load", "advance"}, left : Int]
        /\ user'.pc = "test"
    <3>1. user.left - 1 \in Int
      BY <1>0
    <3>2. QED
      BY <2>1, <3>1
  <2>5. Passed' = n + 1
    BY <2>1, <2>2, <2>3, <2>4 DEF Passed
  <2>6. f_read_head' = Spot(n + 1)
    BY <2>1, <2>3, <1>0, SpotFacts
  <2>7. LineFits(l, got, n + 1)
    <3>1. ASSUME ~l.overrun
          PROVE  /\ Len(got) <= l.lineLen /\ l.lineLen <= Len(l.input)
                 /\ Len(l.input) - (n + 1) < InputSize
                 /\ l.wr = Spot(Len(l.input)) /\ l.line = Spot(l.lineLen)
                 /\ \A k \in Nat : n + 1 <= k /\ k < Len(l.input) => l.buf[Spot(k)] = l.input[k + 1]
                 /\ \A k \in 1..Len(got) : got[k] = l.input[k]
      <4>1. /\ Len(got) <= l.lineLen /\ l.lineLen <= Len(l.input) /\ Len(l.input) - n < InputSize
            /\ l.wr = Spot(Len(l.input)) /\ l.line = Spot(l.lineLen)
            /\ \A k \in Nat : n <= k /\ k < Len(l.input) => l.buf[Spot(k)] = l.input[k + 1]
            /\ \A k \in 1..Len(got) : got[k] = l.input[k]
        BY <3>1, <1>3, <2>2, <2>3 DEF LineFits
      <4>2. Len(l.input) - (n + 1) < InputSize
        BY <4>1, <2>3, <1>4 DEF TerminalAssumption
      <4>3. \A k \in Nat : n + 1 <= k => n <= k
        BY <2>3
      <4>4. QED
        BY <4>1, <4>2, <4>3
    <3>2. QED
      BY <3>1, <1>4 DEF LineFits
  <2>8. LineFits(Tty!Line, taken, Passed)'
    BY <1>5, <2>1, <2>2, <2>5, <2>7 DEF LineFits, SerialFits, Serials, Waiting, Spot, Lines, Letters
  <2>9. QED
    BY <2>1, <2>4, <2>5, <2>6, <2>8, <1>0 DEF TtyInv, Spot, Letters
<1>8. QED
  BY <1>6, <1>7 DEF Tty!ReadInput

\* A terminal that nobody has used.
LEMMA InitTty == ASSUME TerminalAssumption, Tty!Init PROVE TtyInv
<1>1. /\ f_input_buffer = [i \in 0..(InputSize - 1) |-> "a"] /\ f_read_head = 0 /\ f_write_head = 0
      /\ f_line_head = 0 /\ input = <<>> /\ lineLen = 0 /\ taken = <<>> /\ overrun = FALSE
      /\ user = [pc |-> "idle", left |-> 0]
      /\ serial = [empty |-> TRUE, rd |-> 0, wr |-> 0, sent |-> 0, put |-> 0,
                   wrapped |-> FALSE, hung |-> FALSE]
  BY DEF Tty!Init
<1>2. InputSize \in Nat /\ InputSize > 0 /\ FifoSize \in Nat /\ FifoSize > 0
  BY DEF TerminalAssumption
<1>3. Spot(0) = 0
  <2>1. 0 \in 0..InputSize /\ 0 # InputSize
    BY <1>2
  <2>2. QED
    BY <2>1, <1>2, HeadMod, Zenon DEF Spot
<1>4. serial \in Serials /\ SerialFits(serial)
  <2>1. serial \in Serials
    BY <1>1, <1>2 DEF Serials
  <2>2. QED
    BY <2>1, <1>1 DEF SerialFits, Waiting
<1>5. f_input_buffer \in [0..(InputSize - 1) -> Letters]
  BY <1>1 DEF Letters
<1>6. <<>> \in Seq(Letters)
  OBVIOUS
<1>7. Tty!Line \in Lines
  <2>1. 0 \in Int /\ 0 \in Nat /\ FALSE \in BOOLEAN
    OBVIOUS
  <2>2. Tty!Line = [buf |-> f_input_buffer, wr |-> 0, line |-> 0, input |-> <<>>, lineLen |-> 0,
                    overrun |-> FALSE, out |-> serial]
    BY <1>1 DEF Tty!Line
  <2>3. QED
    BY <2>1, <2>2, <1>4, <1>5, <1>6 DEF Lines
<1>8. Passed = 0
  BY <1>1 DEF Passed
<1>9. LineFits(Tty!Line, taken, 0)
  BY <1>1, <1>2, <1>3, <1>4, <1>7 DEF LineFits, Tty!Line
<1>10. QED
  BY <1>1, <1>3, <1>6, <1>8, <1>9 DEF TtyInv

\* Every step of the interrupt and of the reading thread.
LEMMA StepTty == ASSUME TerminalAssumption PROVE TtyInv /\ [Tty!Next]_(Tty!termVars) => TtyInv'
<1>1. ASSUME TtyInv, Tty!Next PROVE TtyInv'
  BY <1>1, ReceiveInv, TransmitterInv, ReaderTests, ReadInputInv DEF Tty!Next
<1>2. ASSUME TtyInv, UNCHANGED Tty!termVars PROVE TtyInv'
  <2>1. UNCHANGED <<f_input_buffer, f_read_head, f_write_head, f_line_head, serial, input, lineLen,
                    taken, user, overrun>>
    BY <1>2 DEF Tty!termVars
  <2>2. SerialFits(serial)'
    BY <1>2, <2>1 DEF TtyInv, LineFits, Tty!Line, SerialFits, Serials, Waiting
  <2>3. QED
    BY <1>2, <2>1, <2>2, OutputStep DEF TtyInv
<1>3. QED
  BY <1>1, <1>2

\* For any sizes of the buffers, any settings and any characters with or without noise: up to
\* the first overrun of write_input a program reads the characters of finished lines, in the
\* order they were typed, none twice and none left out, wherever the interrupt comes between
\* the steps of stream_read.
THEOREM LinesKeepOrder == Tty!Spec => []LinesInOrder
<1>1. TerminalAssumption
  BY TerminalHasRings
<1>2. ASSUME TtyInv PROVE LinesInOrder
  <2>1. PICK l : l = Tty!Line
    OBVIOUS
  <2>2. /\ l.input = input /\ l.lineLen = lineLen /\ (l.overrun <=> overrun)
        /\ taken \in Seq(Letters) /\ Len(taken) \in Nat
    BY <1>1, <1>2, <2>1, TtyFacts DEF Tty!Line
  <2>3. LineFits(l, taken, Passed)
    BY <1>2, <2>1 DEF TtyInv
  <2>4. input \in Seq(Letters) /\ Len(input) \in Nat /\ lineLen \in Nat
    BY <1>1, <2>2, <2>3, LineFacts
  <2>5. ASSUME ~overrun PROVE Tty!IsPrefix(taken, SubSeq(input, 1, lineLen))
    <3>1. /\ Len(taken) <= lineLen /\ lineLen <= Len(input)
          /\ \A k \in 1..Len(taken) : taken[k] = input[k]
      BY <2>2, <2>3, <2>5 DEF LineFits
    <3>2. PICK p : p = SubSeq(input, 1, lineLen)
      OBVIOUS
    <3>3. p \in Seq(Letters) /\ Len(p) = lineLen /\ \A k \in 1..lineLen : p[k] = input[k]
      BY <3>1, <3>2, <2>4
    <3>4. SubSeq(taken, 1, Len(taken)) = SubSeq(p, 1, Len(taken))
      BY <3>1, <3>3, <2>2
    <3>5. QED
      BY <3>1, <3>2, <3>3, <3>4 DEF Tty!IsPrefix
  <2>6. QED
    BY <2>5 DEF LinesInOrder, Tty!LinesInOrder
<1>3. QED
  BY <1>1, <1>2, InitTty, StepTty, PTL DEF Tty!Spec

\* Likewise every character put out is sent or waits in the FIFO, and none is sent twice, up
\* to the moment the FIFO's test for being full misses the wrap or waits in the interrupt.
THEOREM OutputIsConserved == Tty!Spec => []OutputConserved
<1>1. TerminalAssumption
  BY TerminalHasRings
<1>2. ASSUME TtyInv PROVE OutputConserved
  <2>1. SerialFits(serial)
    BY <1>2 DEF TtyInv, LineFits, Tty!Line
  <2>2. Tty!FifoLength = Waiting(serial)
    BY <1>1, <2>1, WaitingIsLength DEF SerialFits
  <2>3. QED
    BY <2>1, <2>2 DEF SerialFits, OutputConserved, Tty!OutputConserved
<1>3. QED
  BY <1>1, <1>2, InitTty, StepTty, PTL DEF Tty!Spec

=============================================================================
