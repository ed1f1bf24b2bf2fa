-------------------------------- MODULE Ext2 --------------------------------
(***************************************************************************)
(* The ext2 driver (src/kernel/modules/ext2): mounting, the block cache,   *)
(* the walk through an inode's direct and indirect pointers, reading and   *)
(* seeking in an open file, reading a page for a file mapping and looking  *)
(* up names in a directory.  Nothing in the driver takes a lock, so the    *)
(* processes that use one file system interleave at every block read.      *)
(*                                                                         *)
(* A block is a number; its bytes are the pairs <<block, offset>>, and     *)
(* Disk[b] holds what the driver interprets: the pointers of an inode or   *)
(* of an indirect block, or the entries of a directory block.  A sector is *)
(* one byte.  The file read and the directory searched are one each.       *)
(***************************************************************************)
EXTENDS Integers, SequencesExt

CONSTANTS
    Procs,        \* processes inside the driver
    BlockSize,    \* mi.block_size, in bytes (here: sectors)
    SeekUnit,     \* what `>> (block_size + 10)' divides by: the shift is
                  \* taken modulo 64, which leaves 1 KiB for every block size
    PageSize,     \* bytes of a page
    Word,         \* sectors a 32-bit number of bytes reaches (2^32 / 512)
    Direct,       \* direct pointers of an inode (12)
    PtrPerBlock,  \* pointers of an indirect block
    InodesPerGroup, InodesPerBlock, GroupsPerBlock, Tables, \* superblock, groups
    Disk,         \* what the blocks hold
    FileInode, FileSize,      \* the file
    DirInode, DirBlocks, Names, \* the directory, the names looked up
    FileBlocks, Directory,    \* what the file and the directory consist of
    Lengths, Targets, Offsets,  \* lengths read, positions sought, pages mapped
    Calls, MaxCalls,    \* what every process calls, and how often
    MaxFailures         \* bound on failing disk reads

VARIABLES
    groups,    \* block_groups of the mounted file system; <<>>: not mounted
    base,      \* f_base of the cached blocks: None, the process filling it,
               \* "ready", or "bad" after a read that failed
    stream,    \* position and buffer of every process's open file; lax says
               \* that the buffer may not hold the block of the position
    shared,    \* f_shared_pages of the file's node
    children,  \* f_children of the directory's node
    proc,      \* what every process is doing
    calls, failures

extVars == <<groups, base, stream, shared, children, proc, calls, failures>>

None == "none"
Blocks == DOMAIN Disk
Pointers == Direct + 3   \* cells of an inode: direct, singly, doubly, triply

\* the block a transfer of block b begins at: get_lba multiplies in 32 bits, so a
\* block behind the first 4 GiB of the volume is taken for one near its beginning
OnDisk(b) == ((b * BlockSize) % Word) \div BlockSize
Addressable(b) == b * BlockSize < Word

Idle == [op |-> None, stage |-> "idle", at |-> 0, path |-> <<>>, then |-> None,
         from |-> 0, todo |-> 0, block |-> 0, count |-> 0, out |-> <<>>,
         name |-> None, sure |-> TRUE, error |-> FALSE]

Init ==
    /\ groups = <<>>
    /\ base = [b \in Blocks |-> None]
    /\ stream = [p \in Procs |-> <<>>]
    /\ shared = <<>> /\ children = <<>>
    /\ proc = [p \in Procs |-> Idle]
    /\ calls = [p \in Procs |-> 0] /\ failures = 0

-----------------------------------------------------------------------------
(* Mounting.  One block of group descriptors is read whatever their number, *)
(* and what lies behind it in the buffer is not the descriptor of a group.  *)

Mount ==
    /\ groups = <<>>
    /\ groups' = [g \in 1..Len(Tables) |->
                     IF g <= GroupsPerBlock THEN Tables[g] ELSE 0]
    /\ UNCHANGED <<base, stream, shared, children, proc, calls, failures>>

\* block of the inode table an inode is in, and its first cell in that block
InodeBlock(n) ==
    groups[((n - 1) \div InodesPerGroup) + 1]
        + (((n - 1) % InodesPerGroup) \div InodesPerBlock)
InodeCell(n) == ((n - 1) % InodesPerBlock) * Pointers

\* get_inode_block: the cells followed from the inode to the i-th block
Path(n, i) ==
    LET P == PtrPerBlock
        first(k) == InodeCell(n) + k
        single == i - Direct
        double == single - P
        triple == double - (P * P)
    IN CASE i < Direct -> <<first(i)>>
         [] i >= Direct /\ single < P -> <<first(Direct), single>>
         [] single >= P /\ double < P * P ->
               <<first(Direct + 1), double \div P, double % P>>
         [] OTHER -> <<first(Direct + 2), triple \div (P * P),
                       (triple \div P) % P, triple % P>>

Holds(b) == base[b] = "ready"

\* a buffer that is filled and that nobody is about to replace
Settled(b) == Holds(b) /\ \A q \in Procs : proc[q].stage = "alloc" => proc[q].at # b

RECURSIVE Follow(_, _)
Follow(at, path) ==
    IF path = <<>> \/ ~Settled(at) THEN [at |-> at, path |-> path]
    ELSE Follow(Disk[OnDisk(at)][Head(path)], Tail(path))

\* start to follow the pointers to block i of inode n, for the step "then".
\* Reading a settled buffer commutes with every step of another process, so the
\* pointers in settled buffers are followed at once.
Walk(r, n, i, then) ==
    LET f == Follow(InodeBlock(n), Path(n, i))
    IN [r EXCEPT !.at = f.at, !.path = f.path, !.then = then,
                 !.stage = IF f.path = <<>> THEN "got" ELSE "access"]

\* a block_read the driver checks or not: `failed' says how it went
Transfer(failed) ==
    \/ ~failed /\ UNCHANGED failures
    \/ failed /\ failures < MaxFailures /\ failures' = failures + 1

-----------------------------------------------------------------------------
(* CacheBlock::ptr: the buffer is published before it is filled, and a     *)
(* failing read goes unnoticed.                                            *)

Miss(p) ==
    /\ proc[p].stage = "access" /\ base[proc[p].at] = None
    /\ proc' = [proc EXCEPT ![p].stage = "alloc"]
    /\ UNCHANGED <<groups, base, stream, shared, children, calls, failures>>

Alloc(p) ==
    /\ proc[p].stage = "alloc"
    /\ base' = [base EXCEPT ![proc[p].at] = p]
    /\ proc' = [proc EXCEPT ![p].stage = "fill"]
    /\ UNCHANGED <<groups, stream, shared, children, calls, failures>>

Fill(p) ==
    /\ proc[p].stage = "fill"
    /\ proc' = [proc EXCEPT ![p].stage = "access"]
    /\ \E failed \in BOOLEAN :
         /\ Transfer(failed)
         /\ base' = [base EXCEPT ![proc[p].at] =
                       IF @ # p THEN @ ELSE IF failed THEN "bad" ELSE "ready"]
    /\ UNCHANGED <<groups, stream, shared, children, calls>>

\* one pointer of the path is read.  A buffer that was not filled holds
\* whatever its memory held: the walk ends at a block nothing is claimed
\* of (block 0 stands for it), and the call is no longer sure.
Access(p) ==
    LET r == proc[p]
        last == Len(r.path) <= 1
        To(v, end) == [r EXCEPT !.at = v, !.path = IF end THEN <<>> ELSE Tail(r.path),
                                !.stage = IF end THEN "got" ELSE "access"]
    IN /\ r.stage = "access" /\ base[r.at] # None
       /\ proc' = [proc EXCEPT ![p] =
             IF ~Holds(r.at) THEN [To(0, TRUE) EXCEPT !.sure = FALSE]
             ELSE To(IF r.path = <<>> THEN r.at ELSE Disk[OnDisk(r.at)][Head(r.path)], last)]
       /\ UNCHANGED <<groups, base, stream, shared, children, calls, failures>>

Got(p, then) == proc[p].stage = "got" /\ proc[p].then = then

\* n bytes from the beginning of block b on: one transfer from its address
Bytes(b, n) ==
    [i \in 1..n |-> <<OnDisk(b) + ((i - 1) \div BlockSize), (i - 1) % BlockSize>>]

-----------------------------------------------------------------------------
(* read(): a head out of the stream's buffer, whole blocks, a tail through *)
(* the buffer.                                                             *)

Open(p) ==
    /\ groups # <<>> /\ proc[p].stage = "idle" /\ stream[p] = <<>>
    /\ Calls[p] \intersect {"read", "seek"} # {} /\ calls[p] = 0
    /\ stream' = [stream EXCEPT ![p] =
                     [position |-> 0, buffer |-> 0, lax |-> FALSE]]
    /\ UNCHANGED <<groups, base, shared, children, proc, calls, failures>>

Close(p) ==
    /\ proc[p].stage = "idle" /\ stream[p] # <<>> /\ calls[p] = MaxCalls[p]
    /\ stream' = [stream EXCEPT ![p] = <<>>]
    /\ UNCHANGED <<groups, base, shared, children, proc, calls, failures>>

\* where read() goes with r.todo bytes left at the given position
Continue(r, position) ==
    CASE r.todo = 0 -> [r EXCEPT !.stage = "done"]
      [] r.todo >= BlockSize ->
            [Walk(r, FileInode, position \div BlockSize, "first") EXCEPT !.count = 0]
      [] OTHER -> Walk(r, FileInode, position \div BlockSize, "tail")

Starting(p, op) ==
    /\ groups # <<>> /\ proc[p].stage = "idle" /\ op \in Calls[p]
    /\ calls[p] < MaxCalls[p] /\ calls' = [calls EXCEPT ![p] = @ + 1]
    /\ op \in {"read", "seek"} => stream[p] # <<>>

\* the length is cut at the end of the file; from behind the end the
\* subtraction wraps and nothing is cut
Clipped(position, length) ==
    IF position <= FileSize THEN Min({length, FileSize - position}) ELSE length

HeadSize(position, length) ==
    IF position % BlockSize = 0 THEN 0
    ELSE Min({BlockSize - (position % BlockSize), length})

Read(p, length) ==
    LET s == stream[p]
        n == Clipped(s.position, length)
        h == HeadSize(s.position, n)
        head == [i \in 1..h |-> <<s.buffer, (s.position % BlockSize) + i - 1>>]
        moved == s.position + h
        r == [Idle EXCEPT !.op = "read", !.from = s.position, !.out = head,
                          !.todo = n - h,
                          !.sure = s.position <= FileSize /\ ~(s.lax /\ h > 0)]
    IN /\ Starting(p, "read")
       /\ stream' = [stream EXCEPT ![p].position = moved,
                                   ![p].lax = @ /\ moved % BlockSize # 0]
       /\ proc' = [proc EXCEPT ![p] = Continue(r, moved)]
       /\ UNCHANGED <<groups, base, shared, children, failures>>

\* the first block of a run of whole blocks is known
ReadFirst(p) ==
    /\ Got(p, "first")
    /\ proc' = [proc EXCEPT ![p] =
                   [Walk(@, FileInode, stream[p].position \div BlockSize, "count")
                       EXCEPT !.block = proc[p].at]]
    /\ UNCHANGED <<groups, base, stream, shared, children, calls, failures>>

\* Variant: the run is not checked against the following block's address
MutReadCount(p) ==
    LET r == proc[p]
    IN /\ Got(p, "count")
       /\ r.count < r.todo \div BlockSize
       /\ proc' = [proc EXCEPT ![p] =
                      [Walk(r, FileInode, (stream[p].position \div BlockSize) + r.count + 1,
                            "count") EXCEPT !.count = r.count + 1]]
       /\ UNCHANGED <<groups, base, stream, shared, children, calls, failures>>

\* the run grows while the next block follows on the disk
ReadCount(p) ==
    LET r == proc[p]
    IN /\ Got(p, "count")
       /\ r.at = r.block + r.count /\ r.count < r.todo \div BlockSize
       /\ proc' = [proc EXCEPT ![p] =
                      [Walk(r, FileInode, (stream[p].position \div BlockSize) + r.count + 1,
                            "count") EXCEPT !.count = r.count + 1]]
       /\ UNCHANGED <<groups, base, stream, shared, children, calls, failures>>

ReadRun(p) ==
    LET r == proc[p]
        n == r.count * BlockSize
    IN /\ Got(p, "count")
       /\ ~(r.at = r.block + r.count /\ r.count < r.todo \div BlockSize)
       /\ \E failed \in BOOLEAN :
            /\ Transfer(failed)
            /\ stream' = [stream EXCEPT ![p].position = IF failed THEN @ ELSE @ + n]
            /\ proc' = [proc EXCEPT ![p] =
                  IF failed THEN [r EXCEPT !.stage = "done", !.error = TRUE]
                  ELSE Continue([r EXCEPT !.out = @ \o Bytes(r.block, n),
                                          !.todo = @ - n], stream[p].position + n)]
       /\ UNCHANGED <<groups, base, shared, children, calls>>

ReadTail(p) ==
    LET r == proc[p]
    IN /\ Got(p, "tail")
       /\ \E failed \in BOOLEAN :
            /\ Transfer(failed)
            /\ stream' = [stream EXCEPT ![p] =
                  IF failed THEN [@ EXCEPT !.buffer = 0]
                  ELSE [@ EXCEPT !.position = @ + r.todo, !.buffer = OnDisk(r.at),
                                 !.lax = ~r.sure]]
            /\ proc' = [proc EXCEPT ![p] =
                  [r EXCEPT !.stage = "done", !.error = failed,
                            !.out = IF failed THEN @ ELSE @ \o Bytes(r.at, r.todo)]]
       /\ UNCHANGED <<groups, base, shared, children, calls>>

\* seek(): the buffer is loaded only when the position leaves its unit, also
\* when the buffer did not hold the block of the old position
Reload(old, new) == new % BlockSize # 0 /\ old \div SeekUnit # new \div SeekUnit

Seek(p, new) ==
    LET s == stream[p]
        r == [Idle EXCEPT !.op = "seek"]
    IN /\ Starting(p, "seek")
       /\ stream' = [stream EXCEPT ![p].position = new,
             ![p].lax = @ \/ (~Reload(s.position, new) /\ s.position % BlockSize = 0
                              /\ new % BlockSize # 0)]
       /\ proc' = [proc EXCEPT ![p] =
             IF Reload(s.position, new)
             THEN Walk(r, FileInode, new \div BlockSize, "seek")
             ELSE [r EXCEPT !.stage = "done"]]
       /\ UNCHANGED <<groups, base, shared, children, failures>>

SeekLoad(p) ==
    /\ Got(p, "seek")
    /\ \E failed \in BOOLEAN :
         /\ Transfer(failed)
         /\ stream' = [stream EXCEPT ![p].buffer = IF failed THEN 0 ELSE OnDisk(proc[p].at),
                                     ![p].lax = failed \/ ~proc[p].sure]
         /\ proc' = [proc EXCEPT ![p].stage = "done", ![p].error = failed]
    /\ UNCHANGED <<groups, base, shared, children, calls>>

-----------------------------------------------------------------------------
(* resolve_mapping(): a page of a shared mapping, sector by sector.        *)

Map(p, offset) ==
    /\ Starting(p, "map")
    /\ LET r == [Idle EXCEPT !.op = "map", !.from = offset]
       IN proc' = [proc EXCEPT ![p] =
             IF offset \in DOMAIN shared
             THEN [r EXCEPT !.stage = "done", !.out = shared[offset].page,
                            !.sure = shared[offset].sure]
             ELSE Walk(r, FileInode, offset \div BlockSize, "chunk")]
    /\ UNCHANGED <<groups, base, stream, shared, children, failures>>

Sector(r) == Len(r.out) + r.count   \* i

MapChunk(p) ==
    /\ Got(p, "chunk")
    /\ LET r == proc[p]
       IN proc' = [proc EXCEPT ![p] =
             [Walk(r, FileInode, (r.from + Len(r.out)) \div BlockSize, "sector")
                 EXCEPT !.block = r.at, !.count = 0]]
    /\ UNCHANGED <<groups, base, stream, shared, children, calls, failures>>

Follows(r) == /\ r.at = r.block + (r.count \div BlockSize)
              /\ Sector(r) < PageSize

MapSector(p) ==
    LET r == proc[p]
    IN /\ Got(p, "sector") /\ Follows(r)
       /\ proc' = [proc EXCEPT ![p] =
             [Walk(r, FileInode, (r.from + Sector(r) + 1) \div BlockSize, "sector")
                 EXCEPT !.count = @ + 1]]
       /\ UNCHANGED <<groups, base, stream, shared, children, calls, failures>>

\* the result of block_read is not looked at
MapRead(p) ==
    LET r == proc[p]
        skip == r.from % BlockSize
        chunk == SubSeq(Bytes(r.block, skip + r.count), skip + 1, skip + r.count)
    IN /\ Got(p, "sector") /\ ~Follows(r)
       /\ \E failed \in BOOLEAN :
            LET q == [r EXCEPT !.sure = @ /\ ~failed, !.out = @ \o chunk]
            IN /\ Transfer(failed)
               /\ proc' = [proc EXCEPT ![p] =
                     IF Len(q.out) < PageSize
                     THEN Walk(q, FileInode, (r.from + Len(q.out)) \div BlockSize, "chunk")
                     ELSE [q EXCEPT !.stage = "done"]]
               /\ shared' = IF Len(q.out) >= PageSize /\ r.from \notin DOMAIN shared
                            THEN [o \in DOMAIN shared \union {r.from} |->
                                     IF o = r.from THEN [page |-> q.out, sure |-> q.sure]
                                     ELSE shared[o]]
                            ELSE shared
       /\ UNCHANGED <<groups, base, stream, children, calls>>

-----------------------------------------------------------------------------
(* get_file() and get_files().                                             *)

Lookup(p, name) ==
    /\ Starting(p, "lookup") /\ name \notin DOMAIN children
    /\ proc' = [proc EXCEPT ![p] = Walk([Idle EXCEPT !.op = "lookup", !.name = name],
                                        DirInode, 0, "dir")]
    /\ UNCHANGED <<groups, base, stream, shared, children, failures>>

List(p) ==
    /\ Starting(p, "list")
    /\ proc' = [proc EXCEPT ![p] = Walk([Idle EXCEPT !.op = "list",
                                                      !.out = SetToSeq(DOMAIN children)],
                                        DirInode, 0, "dir")]
    /\ UNCHANGED <<groups, base, stream, shared, children, failures>>

\* the block of the directory is known and is read through the cache
DirBlock(p) ==
    /\ Got(p, "dir")
    /\ proc' = [proc EXCEPT ![p].stage = "access", ![p].path = <<>>, ![p].then = "scan"]
    /\ UNCHANGED <<groups, base, stream, shared, children, calls, failures>>

\* the entries of the block with an inode: for get_file those with the name, for
\* get_files all but the directory itself and its parent
Entries(r) ==
    {e \in Range(Disk[OnDisk(r.at)]) :
        e[1] # 0 /\ (IF r.op = "list" THEN e[2] \notin {".", ".."} ELSE e[2] = r.name)}

AddChildren(kids, es) ==
    [n \in DOMAIN kids \union {e[2] : e \in es} |->
        IF n \in DOMAIN kids THEN kids[n]
        ELSE (CHOOSE e \in es : e[2] = n)[1]]

NextDirBlock(r) ==
    IF r.count + 1 < DirBlocks
    THEN [Walk(r, DirInode, r.count + 1, "dir") EXCEPT !.count = r.count + 1]
    ELSE [r EXCEPT !.stage = "done", !.error = (r.op = "lookup")]

Scan(p) ==
    LET r == proc[p]
        es == IF r.sure THEN Entries(r) ELSE {}
        found == r.op = "lookup" /\ es # {}
    IN /\ Got(p, "scan")
       /\ children' = AddChildren(children, es)
       /\ proc' = [proc EXCEPT ![p] =
             IF found THEN [r EXCEPT !.stage = "done"]
             ELSE NextDirBlock([r EXCEPT !.out = IF r.op # "list" THEN @
                                  ELSE @ \o SetToSeq({e[2] : e \in es} \ DOMAIN children)])]
       /\ UNCHANGED <<groups, base, stream, shared, calls, failures>>

Return(p) ==
    /\ proc[p].stage = "done"
    /\ proc' = [proc EXCEPT ![p] = Idle]
    /\ UNCHANGED <<groups, base, stream, shared, children, calls, failures>>

\* A step that ends a walk, or that reads a settled buffer, commutes with every
\* step of another process: it is taken before the others move.
Local(p) ==
    \/ proc[p].stage \in {"got", "done"}
    \/ proc[p].stage = "access" /\ Settled(proc[p].at)

Turn(p) == (\E q \in Procs : Local(q)) => p = CHOOSE q \in Procs : Local(q)

Step(p) ==
    \/ Open(p) \/ Close(p) \/ List(p) \/ Return(p)
    \/ \E n \in Lengths : Read(p, n)
    \/ \E t \in Targets : Seek(p, t)
    \/ \E o \in Offsets : Map(p, o)
    \/ \E n \in Names : Lookup(p, n)
    \/ Miss(p) \/ Alloc(p) \/ Fill(p) \/ Access(p)
    \/ ReadFirst(p) \/ ReadCount(p) \/ ReadRun(p) \/ ReadTail(p) \/ SeekLoad(p)
    \/ MapChunk(p) \/ MapSector(p) \/ MapRead(p) \/ DirBlock(p) \/ Scan(p)

Next == Mount \/ \E p \in Procs : Turn(p) /\ Step(p)

-----------------------------------------------------------------------------
FileByte(i) == <<FileBlocks[(i \div BlockSize) + 1], i % BlockSize>>

Listed == DOMAIN Directory \ {".", ".."}

\* What a call that met no failing or half-read block gives its caller is the
\* file's or the directory's, as far as the first 4 GiB of the volume hold it: a
\* read returns the bytes behind the position it began at and moves the position
\* past them (rw.cpp), a mapped page holds the bytes of the file up to its end
\* (map.cpp), a name is found exactly when it is in the directory, and a listing
\* leaves all of its names but "." and ".." among the node's children and gives
\* none twice (files.cpp); and while the position is inside a block the buffer
\* holds that block, the "read interpretation" of rw.cpp, unless a seek inside
\* one unit or a failed one has left it stale.
FileDataExact ==
    /\ \A p \in Procs :
        LET r == proc[p]
            s == stream[p]
            Right(i) == r.out[i] = FileByte(r.from + i - 1)
                        \/ ~Addressable(FileByte(r.from + i - 1)[1])
        IN /\ r.stage = "done" /\ r.sure /\ ~r.error =>
                /\ r.op = "read" =>
                      /\ \A i \in 1..Len(r.out) : Right(i)
                      /\ s.position = r.from + Len(r.out)
                /\ r.op = "map" =>
                      \A i \in 1..PageSize : r.from + i <= FileSize => Right(i)
                /\ r.op = "list" =>
                      /\ DOMAIN children = Listed
                      /\ IsInjective(r.out) /\ Range(r.out) \subseteq Listed
           /\ r.stage = "done" /\ r.sure /\ r.op = "lookup" =>
                 (r.error <=> r.name \notin DOMAIN Directory)
           /\ r.stage \in {"idle", "done"} /\ s # <<>> =>
                 s.lax \/ s.position % BlockSize = 0 \/ s.position >= FileSize
                     \/ s.buffer = FileByte(s.position)[1]
                     \/ ~Addressable(FileByte(s.position)[1])
    /\ \A n \in DOMAIN children : children[n] = Directory[n]

=============================================================================
