# A TLA+ verification of the MierOS kernel

MierOS (patryk3211/MierOS) is a hobby x86_64 operating system in C++. This directory
models the parts of its kernel, drivers and start-up programs where state is shared
between threads, processes, cores and devices, and the algorithms they rest on; checks
them with TLC on small instances, and proves the central results with TLAPS for every
instance. All paths below are relative to the repository, which the
project calls `src/`; line numbers are those of the modelled commit.

Contents: [the system](#1-the-system), [modules](#2-modules-and-the-code),
[runs](#3-runs), [proofs](#4-proofs), [limits](#5-what-is-not-modelled),
[disagreements](#6-disagreements-met-while-modelling), [plan](#7-plan).

## 1. The system

### 1.1 Execution model

What the models assume about how the code runs, and where it says so:

- The kernel is built without optimisation; every C++ statement on a shared field is a
  load or a store, and `std::Atomic` operations are single locked instructions.
- `ASSERT_F` only logs. A failed assertion does not stop the kernel, so a model never
  uses one as a guard; assertions are properties instead.
- System calls and page faults run with interrupts enabled and are preempted by the
  timer (`arch/x86_64/interrupts.cpp:209`). Interrupts are off only where the code says
  `enter_critical()`, and in `Scheduler::schedule()`.
- Every process has one thread. What a process does to its own table of descriptors or
  memory map has one user; what it shares with others after `fork` has several.
- `handle_exception` halts the core: an unhandled fault in the kernel ends the system.

### 1.2 Inventory

For each component: its state, its operations, what it interacts with, what is hard,
and what makes it correct. "Module" names the TLA+ module, or "-".

| Component (kernel/...) | State | Operations | Hard because | Correct when | Module |
|---|---|---|---|---|---|
| `locking/semaphore` | `f_current` | acquire, release | optimistic subtract, undone when it went below zero | never more holders than permits; somebody gets in | `Semaphore` |
| `locking/recursive_mutex` | `f_counter`, `f_owner`, `f_recursion`, inner semaphore | lock, unlock, try_lock | three fields written in separate steps, hand-over through the semaphore | one owner; no self-deadlock; no lost hand-over | `RecursiveMutex` |
| `locking/spinlock`, `locker` | one atomic | lock, unlock | preemption of a holder | holders keep running | in `TaskScheduler`, `PhysicalMemory` |
| `tasking/thread_queue` | linked list through `f_next` | push_back, get_optimal_thread, erase | hand-written unlinking with affinities, threads of several cores in one list | exactly the pushed threads, by affinity, oldest first | `ThreadQueue`, abstract `RunQueue` |
| `tasking/scheduler`, `thread`, `sleep_queue` | run queue and its lock, current thread of each core, thread states, watcher lists | schedule, fork, get_state, change_state, sleep, wakeup | preemption between every two steps, two cores, interrupts off in parts, allocation with interrupts off | no thread lost or queued twice; sleepers can be woken; threads run again | `TaskScheduler` |
| `memory/physical` | bitmap, hint, counter, `pmm_lock` | palloc, pfree, release of init code | hint kept apart from the bitmap, search without end test | no page twice, none lost; lowest fit | `PhysicalMemory`, abstract `PageAllocator` |
| `memory/virtual` (Pager) | page tables, control page of work pages, kernel address hint | map, unmap, kmap, kalloc, free | shared work pages taken without a lock | a mapping reaches its page and nothing else; no work page is lost | `Pager` |
| heap (`memory/liballoc`, `liballoc_plugs`, `kbuffer`) | major and minor blocks, page bitmap and hint, counts of buffers | malloc, free, realloc, calloc; copy, move, resize | pointer arithmetic, counts kept in several places | blocks disjoint, counts exact, failure only when full | `Heap`, `Counted` |
| process memory (`tasking/process`, `memory/ppage`, `memory/page/*`) | memory map, page table, object and mapping counts of pages, shared pages of files and anonymous mappings | mmap, munmap, page fault, fork, exec, exit | counts read and acted upon steps later by several processes; shared objects without a lock | private memory is private; pages are freed once and not in use | `AddressSpace`, abstract `PrivateMemory` |
| descriptors (`tasking/process`, `streams/streamwrapper`) | table, `f_next_fd`, reference counts | open, close, dup, fork, exec, exit | wrappers shared after fork dropped concurrently | a stream is deleted once, after its last descriptor | `StreamTable` |
| `event/event_manager` | queue, ids, waits, `f_lock`, loop state | raise, wait, raise_wait, event_loop | loop looks at the queue without the lock; meta events feed the queue | order of ids; no lost wait; loop comes to rest | `EventManager` |
| VFS (`fs/vfs`, `fs/vnode`, `fs/vnodefs`, devfs, sysfs) | tree of VNodes, root | get_file, mount, symlink, mkdir, add_dev, add_node | recursion through links; no lock at all | entries and parents agree; walks end and find what the path means | `Vfs`, `PathResolution` |
| initrd, module filesystems | nodes from the archive; module calls | reading | data layout | - | in `Vfs` as the initial tree |
| pipes (`streams/pipestream`) | ring buffer, two heads, closed flags | read, write, close | reader and writer share heads without a lock | bytes in order; a read ends when the writer is gone | `PipeStream` |
| terminals, serial (`streams/termios`, `modules/pc_serial`) | line buffer, output FIFO | read, write, interrupt handler | interrupt handler against readers and writers | lines arrive as typed; no output lost | `Terminal` |
| modules (`modules/*`) | tables of modules, major numbers | load, link, init and its failure | loads of two processes, partial failure of `init()` | initialised after what they need; tables name live modules | `ModuleManager` |
| ext2 (`modules/ext2`) | block cache, open files, directory nodes | mount, open, read, seek, map, lookup, list | no lock; blocks published before they are read; disk errors | callers get the file's bytes and the directory's names | `Ext2` |
| disks (`modules/ahci`) | command slots, scatter tables, registers | block read, interrupt-free wait | controller and readers write one register | the sectors asked for, and no stray transfer | `Disk` |
| PCI, drives, partitions (`modules/pci`, `modules/partition`, mdev) | found functions, drives, minors, device files | scan, attach, probe, parse | counters shared by controllers, invalid tables | every disk and partition has a range, a minor and a name of its own | `Discovery` |
| containers (`std/include`) | hash map, list, range list, shared pointer | insert, erase, copy, move, sort, merge | pure algorithms on links | behave as a map, a list, a set, an owner | `HashMap`, `LinkedList`, `RangeList`, `Counted` |
| start-up (`arch/x86_64/cpu`, `acpi`, `apic`, `ap_starter`, `time`) | core map, I/O APIC lines, state of each core | parse the tables, start the cores | lost start-up interrupts, one boot stack, any order of records | dense ids, one core on the boot stack, the boot ends | `CpuStart` |
| interrupts (`arch/x86_64/interrupts`) | kernel stacks, `rsp0`, lists of handlers | enter, return, task switch, register, unregister | a thread returns on another core, perhaps before the first has left its stack; lists without a lock | frames never overwritten; handlers called once | `InterruptFrames`, `InterruptHandlers` |
| userspace `modprobe`, `mdev` | ordered list of modules | resolve aliases, order dependencies | list changed while iterated, wildcard backtracking | exactly what is needed, dependencies first; wildcards mean what they say | `Modprobe`, `Discovery` |
| futexes, uevents, printf, dmesg, other programs | see `PROJECT.json` | | | | - |

The components call each other as follows: a system call or page fault (process thread)
uses the process' descriptors and memory map; these allocate pages (`PhysicalMemory`),
map them (Pager) and ask filesystems for shared pages; blocking calls use the sleep
queues of threads, which use the semaphore and the scheduler; the scheduler uses the run
queue. `RecursiveMutex` contains an instance of `Semaphore`; `TaskScheduler` uses the
results of `ThreadQueue` (its run queue is the abstract sequence) and of `Semaphore` (a
sleep queue's semaphore of one permit is a mutex). When the system starts, `CpuStart` runs
first; then the pci module and mdev find the devices (`Discovery`), modprobe orders the
modules (`Modprobe`) and the kernel loads them (`ModuleManager`); a file that is mapped or
read goes through `Ext2` to `Disk`.

The hazards, at their lines and with the properties that cover them, are listed under
`hazards` in `PROJECT.json`.

## 2. Modules and the code

The `map` of `PROJECT.json` gives the source lines of every definition. A definition
named `Mut...` is a variant of another one with a plausible mistake; it is not part of any
specification and exists to show that a property notices the mistake.

- **`Semaphore`** - `Semaphore::acquire` and `release`. `f_current` is the counter,
  `at[t]` where a thread is: loading, subtracting, undoing, inside. Each atomic access is
  a step.
- **`RecursiveMutex`** - `lock`, `unlock`, `try_lock` with every access to the three
  fields a step, over an instance of `Semaphore`. `depth[t]` is the caller's nesting.
- **`RunQueue`**, **`ThreadQueue`** - the abstract queue and the linked list of all cores. A
  call is one step because the scheduler holds `queue_lock`. `FrontOrNew` is the thread the
  loop of `get_optimal_thread` settles on; when it is not the front, the code after the loop
  unlinks it through the end of the list (`thread_queue.hpp:141`), which the action does and
  the history variable `severed` records.
- **`TaskScheduler`** - cores, threads, run queue, watchers. `pc` places a thread inside
  `get_state`, `SleepQueue::sleep`, `change_state`, `wakeup` or `schedule_process`;
  `masked` says that its core has interrupts off; `Interrupt`/`Switch`/`Dispatch` are the
  parts of `Scheduler::schedule`. `EraseMiss` is what `erase()` may do when the thread is
  not the first of the queue: its walk uses `++t` on the node pointer
  (`thread_queue.hpp:86`), which reads memory behind the object, so it may return or spin.
  `heap_lock` is the spin lock of the heap: any kernel code may hold it and be preempted
  (`HeapLock`, `HeapUnlock`), and `SleepPush` and `WakeOne` need it for the entry of the
  watcher list, with interrupts off.
- **`PageAllocator`**, **`PhysicalMemory`** - the abstract lowest-fit allocator, and the
  bitmap with `pmm_first_potential_page`. A call waits for `pmm_lock`, then tests one page per
  step with the lock held. `RunOff` is the step behind the last page, for which the code has no
  test; the behaviour ends there (`lost`).
- **`EventManager`** - clients and the loop; the lock, the id and the push of an event are
  separate steps, as are the loop's unlocked look at the queue, the pop, and each handler.
  `raise_wait()` goes to sleep with `f_lock` released; `Thread::sleep()` may never leave the
  walk of `erase()` (`WalkOn`).
- **`StreamTable`** - descriptors of all processes and the counts of the storages behind
  them. Dropping a wrapper is two steps (subtract, then test and delete).
- **`PrivateMemory`**, **`AddressSpace`** - what private memory promises, and memory maps,
  page tables, page objects and counts. A page fault is several steps, `fork`, `exec`,
  `exit` and `munmap` one: they touch shared state once per page, and the steps for
  different pages commute. The page of a `SharedAnonymousPage` and the map `f_shared_pages` of
  a file have no lock: a process `Enter`s the operation on one and leaves it with the step that
  does it, and a second process that comes to the same object meanwhile sets `raced`.
- **`Vfs`** - the tree of nodes and tasks that walk or change it. `stack[t]` is the nest of
  `get_file` calls of a walk, one component per step; creating a node (make, insert in the
  directory, set `f_parent`) and mounting (parent, erase, rename, insert) are separate
  steps because nothing locks the tree.
- **`PathResolution`** - the meaning of a path as text substitution: a link is replaced by
  its destination. It is a `RECURSIVE` definition, which is why it is apart from `Vfs`.
- **`Pager`** - tables as functions from entries to frames. `mapStructures` takes a work page
  (test, then set), points it at the table of the next level, and descends; `kalloc` and
  `free` do so under `kernel_locker`. `expected` is what was last mapped.
- **`Heap`** - `malloc` and `free` are one step each because they hold `heap_lock`;
  `realloc` is an allocation and, in a step of its own, the release of the old block. Sizes
  and addresses are numbers of units, with the headers and the alignment in them.
- **`PipeStream`** - `buffer[head++ % size]` is three steps: head, byte, wrap. A byte is its
  position in the stream, so that order is `received[k] = k`.
- **`Terminal`** - `receive` with all flag combinations that lead to different steps, the ring
  buffer, echo and output processing, and the port's FIFO; the interrupt is one step.
- **`Ext2`** - a process is in a call (`op`, `stage`) and walks from the inode through direct,
  indirect and doubly indirect blocks; every block it has to wait for is a step, in which
  another process may see the block before its data. A byte is a pair of block and offset.
- **`Disk`** - the slot is chosen and filled under `drive->lock`; the read and the write of
  `command_issue` are two steps, the controller completes slots in between.
- **`HashMap`, `LinkedList`, `RangeList`, `Counted`** - the containers with all their
  operations and, as history, what they should hold: a set of pairs, a sequence, a set of
  values, the handles. `LinkedList`, `RangeList`, `Heap` and `Modprobe` use recursive
  operators for the code's loops.
- **`CpuStart`** - `init_acpi`, `parse_madt` record by record, the routing of lines, and
  `init_cpu` with every other core as a process. With an address override the page mapped as
  the local APIC is another one: `bsp_apic_id` is whatever is found there, and no interrupt
  sent reaches a core. The APIC's delivery is external: it may
  lose the first start-up interrupt of each core.
- **`InterruptFrames`** - the frames on each thread's kernel stack and each core's `rsp0`
  through system calls, page faults, `execve` and task switches, of user and kernel threads and
  the idle tasks. A task switch is two steps: `Schedule` hands the thread over under
  `queue_lock`, `TaskSwitch` leaves its stack (`mov rsp, rax`); in between another core can take
  the thread. `trampled` records that it used the stack. **`InterruptHandlers`** - the list of
  handlers of a vector: registration walks and links in steps, an interrupt walks too.
- **`ModuleManager`** - `load_module` from the number to the two tables, for two processes;
  an insertion in a map is a walk and a link, so one of two insertions can be lost.
- **`Modprobe`** - `strmatch`, aliases, `probe` and the ordering of dependencies, which may be
  aliases and may not be found, as operators, compared with the
  meaning of a wildcard and with the dependency relation. **`Discovery`** - the scan of the
  bus, mdev's loop, the probing of ports and the partitions of each disk; `add_dev` refuses a
  name that devfs has.
- **`Boot`**, **`Streams`**, **`Library`**, **`KernelMemory`** - components side by side that share
  no state, their assumptions, and those of their properties that are both checked and proved:
  `CpuStart`, `InterruptFrames`, `InterruptHandlers` and `ModuleManager`; `StreamTable`, `PipeStream` and `Terminal`;
  `EventManager`, `ThreadQueue` and `Counted`; `PhysicalMemory` and `Pager`.
- **`MC...`** - the instances (`RecursiveMutex`, `TaskScheduler` and `AddressSpace` need no module for theirs,
  only the `MC....cfg`); **`...Proofs`** - the theorems.

`MCLibrary`, `MCStreams`, `MCKernelMemory` and `MCBoot` put several components into one run, on top
of `Library`, `Streams`, `KernelMemory` and `Boot`. The components do not interact
there: `part`, chosen in the initial state, says which one
moves, and the variables of the others stay as they are. The components that do interact
are composed in their own modules: `RecursiveMutex` with `Semaphore`, `TaskScheduler` with
the run queue and the watcher lists, `AddressSpace` with the pages of files and anonymous
mappings, `Vfs` with `PathResolution`, `Discovery` with the drivers.

Abstractions, by module:

- `AddressSpace`: a mapping is one page; a page's contents are one value; anonymous memory
  is writable; `palloc` returns any free page and is not called when there is none; the
  Pager does what it is asked (a stale TLB entry is not modelled); a process that reaches
  the copy of a private file page is lost (section 6).
- `PhysicalMemory`: the first 4 GB; what a search behind the end of the bitmap reads is left
  out.
- `StreamTable`: what streams do is opaque; `dup` onto the same descriptor is left out.
- `EventManager`: arguments of events are opaque; that the scheduler's locks are held by a
  thread that spins in `erase()` is in `TaskScheduler`.
- `Pager`: three levels for four; the TLB, permission bits and the release of tables by the
  destructor are left out. After two pagers took one work page (`raced`) the behaviour ends:
  what they then write is anything.
- `Heap`: the lock is modelled by steps; contents of blocks are left out.
- `PipeStream`, `Terminal`: one reader and one writer; values of characters only as far as
  the line discipline tells them apart. The serial driver's own entries always answer
  `ENODEV` (section 6), so `Terminal` models the interface of `TermiosHelper`.
- `Ext2`: one file, one directory and one file system; a sector is a byte; a block already
  cached is followed at once, which changes nothing another process sees. `Word` stands for
  2^32 bytes, the volume is larger. `get_files` returns the nodes it copied and those it made;
  that it may miss one another process adds meanwhile is not part of `FileDataExact`, which
  compares the directory's nodes. The driver never writes. `Disk`: a sector is one unit of memory, and its content is its number.
- `CpuStart`: registers and descriptor tables are left out; the model takes it that 10 ms
  are enough for a core that has answered to leave the boot stack, as `cpu.cpp` does. What
  `enable_lapic` overwrites on the page that an override wrongly selects is left out.
- `InterruptFrames`: registers are left out; a stack is as deep as its frames, and functions
  that run on it use its end.
- `InterruptHandlers`: one vector, and each registrar registers and unregisters once.
- `ModuleManager`: relocation arithmetic is left out; linking is the search for symbols.
- `Discovery`: checksums are right or wrong; mdev runs once.
- `TaskScheduler`: registers, stacks and FPU state are left out.
- `Vfs`: one operation of a node's hash map is atomic; each filesystem is mounted once, as
  `init` does (`userspace/programs/init/main/src/main.cpp:41`); filesystems from modules,
  which create nodes while they are looked up, are left out; arguments that are used late
  in a call (the name of a new link, the kind of a new node) are chosen where they are
  first used.

## 3. Runs

| Run | Instance | What it shows |
|---|---|---|
| `library` | see below | `Capacity`: at most two threads are inside a semaphore of two permits. `EventsHandled`: events are processed once, in the order of their ids, `wait` is registered before its event is processed, and rest is reported only after the queue was seen empty. `ContainersExact`: map, lists, ranges and run queue hold what their operations promise. `CountsExact`: counted storage is freed once, with its last handle. `ImplementsRunQueue`, for two cores, until a thread is unlinked through the wrong node. `WaitingEnds`: the event loop comes to rest unless a client spins in `erase()`, and a free permit is taken although losers keep undoing each other's subtractions. |
| `recursive_mutex` | 3 threads, nesting 2 | `MutualExclusion`; `NoSelfDeadlock`: a nested `lock()` never waits for its own thread; `LockNotLost`: when somebody waits, the lock is held or on its way; `SomeoneLocks`. |
| `scheduler` | 4 threads, 1 core, erase may spin | `ThreadsAccounted`: a thread is queued exactly when runnable, once, who is woken was asleep (the assertion in `wakeup`), and a sleeper is on the list of who will wake it. `ThreadsGoOn`: queued threads run again and a sleep reaches its task switch, unless the core is lost: it spins with interrupts off in `erase()`, or for a `heap_lock` whose holder it has preempted. |
| `scheduler_smp` | 3 threads, 2 cores, erase may spin | `LockHoldersRun`: who holds the queue lock or a watcher semaphore is on a core. |
| `scheduler_watch` | 3 threads, 1 core | Expected violation of `WatchersInformed` (section 6). |
| `streams` | see below | `DescriptorsSound`: reference counts equal the descriptors, a stream is deleted once and after its last one, `f_next_fd` hides no free descriptor. `BytesInOrder`, `ReadReturns` of pipes. `LinesInOrder`, `OutputConserved` of terminals. `FileDataExact`: reads, seeks, maps and lookups of two processes. `ReadCorrect`: two readers of a disk. |
| `address_space` | 2 processes, 1 address, 3 pages, all kinds of mappings | `ObjectsExact`: object counts are exact. `PagesSound`: mapping counts cover the mappings, and a page table reaches only pages of its own process. Both up to a collision on a shared object. |
| `address_space_cow` | 3 processes, private memory | `ImplementsPrivateMemory`. |
| `vfs` | 2 tasks, 5 nodes and 2 to be made, links 2 deep | `TreeConsistent`: entries and parents agree, what is mounted stays. `WalksCorrect`: an undisturbed walk finds what the path means, and every step of a walk brings it nearer to its end. |
| `kernel_memory` | see below | `NoFreeBelowHint`, `NoPageLost`, `ImplementsAllocator` of the page allocator. `PallocReturns`: a call that waits for the lock or searches returns, or some call finds no block of its length and runs off the bitmap. `PagingExact`: addresses translate to what was mapped last, and work pages have one user and come back. `HeapExact`: blocks are disjoint and the counts of used bytes and pages are exact. `FailsOnlyWhenFull`. |
| `boot` | see below | `CoresExact`: dense ids, one core at a time on the boot stack, lines routed. `BootCompletes`. `FramesSafe`: no frame is pushed over another, until a core uses a stack that another has not left. `HandlersCalled`. `DependenciesFirst`: modprobe loads exactly the modules asked for and what they need, after what they need, and none when something is not found; `WildcardExact`. `DependenciesInitialised`. `DrivesExact`: every disk and partition has a minor and a range of its own and the node `add_dev` did not refuse. |
| `module_dependencies` | 2 processes, 3 modules | Expected violation of `DependencyNumbers` (section 6). |

### Why the bounds are enough

- Locks: four threads for two permits give two losers that undo each other's subtraction
  while a release happens; three threads nested twice give a holder, one that hands over
  to a waiter and one that tries or comes in meanwhile. The proofs remove both bounds.
- Run queue: four threads give a list with a first, two inner and a last node, and two cores
  threads of either core and new ones in it, so that every unlinking case occurs.
- Scheduler: four threads let a watcher list hold two sleepers while the run queue is not
  empty. `MaxWatchers` bounds a list that stale entries make longer; it is as large as the
  number of threads on one core, and 1 on two cores, where the property is about locks
  only.
- Events: of two ordinary events one may overtake the other at the lock, arrive while the
  loop decides that the queue is empty, or be raised by a handler of the other.
- Containers: five keys in one bucket, growing by two, make chains, two rehashes up and the
  wrap of `f_size` (`Word` is 16); five entries of two values give a sort with equal ones;
  ends up to 6 let a new range join three; three handles copy, move and self-assign.
- Physical memory: seven pages with reserved ones and requests of one and two give holes
  shorter than, as long as and longer than a request, searches that find nothing, blocks at the end of memory, and an init section that is freed below
  the hint. Pager: two pagers, one with a user page, two kernel pages and work pages for
  both (6) so that only the race, never exhaustion, makes them collide. Heap: three pages
  and requests that leave gaps, fill a page and need a second one.
- Descriptors: two descriptors and two storages per behaviour give dup over an open
  descriptor and two processes that drop the last references at once.
- Pipe: three slots and five bytes make both heads wrap with the buffer full and empty.
  Terminal: a ring of three and up to three characters reach the full test, the erased
  line and every branch of the settings given.
- Files: the file has direct, indirect and doubly indirect blocks and ends inside one; one
  process reads and seeks twice while the other maps, lists or looks up, and one disk read
  may fail. Disk: two slots, buffers over two pages that are adjacent, swapped or apart, a
  partition that a request exceeds, a scatter table that one request fills.
- Address space: three processes on one copy-on-write page are the smallest case in which
  one of two simultaneous faults finds a count that the other changes; the wider run has
  two processes and every kind of mapping.
- Start-up: the machines give three cores, ids with gaps and the boot core in the middle,
  cores listed twice, disabled or absent, overrides before and after their I/O APIC, a
  machine without tables, two with an address override. Frames: three threads, one of them
  the kernel's, on two cores, so that one waits and can come back on the other core; one fault
  inside a call. Handlers: two registrars and two
  interrupts. modprobe: every order of every dependency list of four modules, by name or by alias, with up
  to three requests; every pattern and text of up to four characters. Devices: two
  controllers with three ports in every combination of the kinds of disk, and a devfs that has
  one of the names already.
- VFS: two new nodes give a directory and a node in it, a link to a link, or two nodes of
  one name; two filesystems race for one location, nest, or replace the root. `MaxDepth`
  is 2 instead of 128.

### Fairness and deadlock

- `Semaphore`, `RecursiveMutex`: weak fairness of each thread inside a call (a thread in a
  call is runnable, and `ThreadsGoOn` is what the scheduler gives it), and of the
  release that ends every critical section (a `Locker` scope ends); none for the decision
  to lock. `WaitingEnds` and `SomeoneLocks` promise progress of the system, not
  of each thread: the code has no queue, so a thread may starve.
- `TaskScheduler`: the APIC timer fires again (weak fairness of `Tick`), and a core
  executes the code it is at (weak fairness of its steps). The liveness properties are
  stated for one core that is not lost (`CoreIsLost`): it has interrupts off and spins in
  `erase()`, or for the heap lock of a thread that cannot run.
- `PhysicalMemory`: a thread that spins for `pmm_lock` tries again and the one that holds it
  runs on (weak fairness of each of their steps). `PallocReturns` promises that the lock comes
  back and that one of the callers gets it; a particular caller may starve.
- `EventManager`: weak fairness of the loop and of clients inside a call; `erase()` may spin.
- `PipeStream`: weak fairness of both threads inside a call; none for calling or closing.
- `CpuStart`: weak fairness of the boot core and of cores that have been started; nothing
  makes the APIC deliver, except that it loses at most one start-up interrupt per core,
  which is what sending two is for.
- All others: safety only, no fairness. That a walk in `Vfs` ends is a variant that every
  step decreases, together with the fact that the walk always has a next step; it needs no
  fairness.
- Deadlock is not checked where the system really may stop: in `address_space*` and `vfs`
  all processes may have exited or halted; in the scheduler's runs a core may spin for ever in
  `erase()` or for `heap_lock`; in
  `streams`, `kernel_memory` and `boot` the behaviours end at a bound, at a finished boot or
  at a `raced`, `lost`, `trampled`, `reissued` or `stuck` state. `MCLibrary` lets every part that is not a
  thread or loop stutter, and so checks deadlock of the semaphore and the event manager.

## 4. Proofs

`tlapm` checks the theorems for every value of the constants, from the named `ASSUME`s of
the component's module, which the runs evaluate.

- **`RecursiveMutexProofs`** (finite threads, any nesting bound): `TypeCorrect`,
  `MutualExclusionHolds`, `OwnerAssertHolds`, `HandOverAssertHolds`, `NoSelfDeadlockHolds`,
  `LockIsNeverLost`. The lock is a token: with one thread, or as the permit of the inner
  semaphore, or nowhere when the mutex is free. `f_counter` is the number of claims, one
  per open or beginning `lock()`; claims are written as a set of pairs so that the counter
  is a cardinality. There are claims exactly while the token is out: this is what lets the
  first claim take the lock without the semaphore, and is the reason mutual exclusion alone
  is not inductive.
- **`PhysicalMemoryProofs`** (any number of pages, any memory map, any threads and request
  sizes): `TypeCorrect`, `HintIsSound`, `PagesAreAccounted`, `NoPageIsLost`,
  `SearchStaysInBitmap`, `RefinesAllocator`. The strengthening is about the search in
  progress: it has left no free block of its length behind and the pages it counted are free,
  because only the holder of `pmm_lock` changes the bitmap.
  From it follows that the block marked is the lowest one, which is the abstract step, and that
  a search reaches the end of the bitmap only when there is no block (`SearchInBitmap`).
  For page tables (finitely many pagers; any user pages above the kernel's, any work pages,
  frames and lengths): `PagingIsExact`. Every table has one place in the tree of its pager or of
  the kernel, and a frame is in one place (`TreeFits`); so a table that is made fills an empty
  place and moves none (`GrownTree`), and an entry that is written changes the translation of
  its page only, in all pagers or in one (`WrittenTree`). A walk knows by its program counter
  which of its work pages show the table of their level (`WalkFits`); nobody else's step can
  change that, because a work page has one user. `kernel_locker` is not needed for this: looking
  at an entry and filling it are one step here and under the lock in the code.
- **`TaskSchedulerProofs`**: `HoldersRun`, for any cores and threads, and `ThreadsAreAccounted`,
  for any threads on one core. That a lock's holder stays on a core follows from where it is in
  its code and from what its core may do there: the queue lock belongs to the core that is
  switching, or to a thread in one of four places, and a watcher semaphore to a thread whose
  core has interrupts off (`LockInv`). The account of threads (`AccountInv`) says where
  a thread is: current, queued, picked, asleep on a list of watchers or dead. It says the same of the moments in
  which the code has a thread in its hands only, and so shows that the queue has no thread
  twice. On two cores it is false (section 6).
- **`StreamProofs`** (finitely many processes; a buffer of more than one byte, since a ring of one
  cell is full and empty at once): `DescriptorsAreSound`, `PipeKeepsOrder`. For descriptors the
  count of a storage is the number of places that refer to it: descriptors, the calls that are
  opening, copying or dropping it (`TableInv`); a storage whose count is zero has exactly one
  call that will delete it. For pipes each head is the number of bytes that went through, modulo
  the size, and while nobody has raced the cells between the heads hold the bytes in between
  (`PipeInv`). For terminals (buffers of at least one character): `LinesKeepOrder`,
  `OutputIsConserved`. The three heads of the input buffer are the numbers of characters read,
  finished and typed, modulo its size; up to an overrun they are in this order and less than
  the buffer apart, and what lies between is in its cells (`LineFits`). One character of input is up to three
  writes and an echo, so the invariant is shown for `write_input`, the end of a line, the backspace and the
  write callback separately, and then for `character_received` (`TtyInv`).
- **`BootProofs`** (at least one core, which is no thread; dependencies are modules there are; the
  MADT holds records of the kinds `parse_madt` knows, address overrides included):
  `FramesAreSafe`, `FramesOnOneCore`, `HandlersAreCalled`, `DependenciesAreInitialised`,
  `CoresAreExact`. A core whose thread is in user mode has
  `rsp0` at that thread's empty stack. To keep that, `FramesInv` says that a thread is current
  on one core at most (`OneCoreEach`) and that a stack which no core has arrived on has a frame
  to be resumed from (`Resumable`). With one core nobody can come to a stack in between, so `trampled` stays
  false. The list of handlers has a numbering along
  `next`, by which a walk is behind what it has called and before what it will call (`ListInv`).
  A module in the tables or under way has its own number, and what `init()` returned for stays
  initialised (`LoadingInv`). At every record of the MADT `core_map` numbers the usable cores
  listed before it, and a line has the vector of the last override before it that found its
  I/O APIC (`MapFits`, `LinesFit`). Only the core that `init_cpu` is starting can be in the
  starter's code, and it gets there when none is leaving the stack (`CoresFit`).
- **`LibraryProofs`** (any clients and events; `event_processed_handler` is not registered, as
  in the code; finitely many handles and threads, the null pointer is no thread):
  `EventsAreHandled`, `CountsAreExact`, `RefinesRunQueue`, `RefinesOnOneCore`. Events finished, in hand and queued
  are one sequence whose k-th element has id k; a push extends it, everything else moves a
  border (`EventInv`). For counted handles the number of holders changes with the one or two
  handles an operation writes; pages are known to the handles of one counter only, so that
  dropping a handle leaves exactly the pages the others know (`CountedInv`). For the run queue
  the invariant names the sequence that `first`, `f_next` and `last` spell (`IsList`); the
  code's walk sees it, by the least place where they would differ, and each call changes it as
  `RunQueue` says, as long as the code after the loop has only unlinked fronts (`severed` is
  false). On one core (`RefinesOnOneCore`) that is always so: a thread that is not new prefers
  that core, so the front is taken or the loop has found the predecessor. Of `Semaphore`, for a finite set of threads: `TypeCorrect`,
  `PermitsAreConserved`, `CapacityHolds`, `ReleaseNeverAsserts`. The counter, the permits held
  and the subtractions to be undone add up; `NoOverdraft` (without the pending undos the
  counter is not negative) is needed to bound the holders.
- **`VfsProofs`** (any tasks, nodes, names and paths; any tree of the initrd; devfs and sysfs,
  the two filesystems that exist only as nodes, and at most those): `TreeStaysConsistent`,
  `WalkAlwaysDescends`. Entries and parents agree because a new node has one creator and no
  parent until that sets it, and because a mount takes its location out of the directory the
  location is in. That needs to know where a mount can look: `..` and entries leave a
  filesystem only through a mounted root (`FsStays`), a root hangs where one can get without it
  (`MountedWithin`), so the walk for a mount never comes into the filesystem being mounted
  (`MountWalks`, over `Reach`). A name that a mount took out of a directory of the initrd is
  filled by a mounted root or by nobody (`MountsReplace`), since modules create nodes in devfs
  and sysfs only. A third such filesystem, mounted at `/` over the second while the first is being
  mounted in that, would leave the second free to be mounted below the first; the code has two
  (`devicefs.hpp:22`, `systemfs.hpp:30`). `WalkAlwaysDescends` is the
  action part of `WalkProgress`: levels that wait stand at a link, levels below the first
  resolve a link at their end, so what is returned to a level is less than what it had
  (`LevelsFit`).
- **`AddressSpaceProofs`** (finite sets of processes, addresses, offsets and anonymous objects, any
  pages, all kinds of mappings): `ObjectCountsAreExact`, `PagesAreSound`,
  `RefinesPrivateMemory`. The counts are compared
  with numbers of places, so the lemmas at the start say how a count changes when one place
  changes, or those of one process. `PagesInv` adds what a fault in progress works on by its
  program counter, the shapes of entries, and that the page table follows the memory map except
  between the copy of a page and the deletion of the old object. All three are about behaviours
  in which no two processes have met inside an unlocked operation (`raced`); processes that
  wait to enter one may be any number. The refinement adds
  `PrivateInv`: who maps the page of a private mapping has a private mapping too and cannot
  write, the page's flag follows the page table (fork looks at the flag), the page is not one
  the file or an anonymous object has or will be given, and a fault that found a count of one
  stays the only mapping until it writes in place.

The assumptions are evaluated by the runs `library`, `vfs`, `recursive_mutex`, `scheduler`,
`scheduler_smp`, `streams`, `address_space`, `address_space_cow`, `kernel_memory` and `boot`, which also check the
properties the theorems state; the theorems are about the specifications of the component
modules, `Spec` or (in `Counted`) `Init` and `[][Next]_countedVars`.

Not proved, only model-checked:

- all liveness properties (`WaitingEnds`, `SomeoneLocks`, `ThreadsGoOn`, `PallocReturns`,
  `ReadReturns`, `BootCompletes`) and the part of `WalksCorrect` that says a walk can move
  (that its moves descend is proved), because the prover has no rules for fairness and `ENABLED`;
- what compares with a recursive definition (`LookupCorrect` in `WalksCorrect`, `WildcardExact`,
  `DependenciesFirst`, `ContainersExact`, `HeapExact`, `FailsOnlyWhenFull`);
- `ReadCorrect`, `FileDataExact` and `DrivesExact`, whose models follow the code's loops with
  recursive operators and folds.

## 5. What is not modelled

- Futexes (`tasking/futex.cpp`): nothing calls them. `push_front` of the run queue likewise.
- printf: third-party code. dmesg, formatting, stack traces, UEvents: strings and output.
- File, directory and log streams: they forward to the filesystems and keep no state that
  `Ext2`, `Vfs` and `StreamTable` do not have.
- The TLB: `unmap()` does not flush it and kernel mappings are global
  (`memory/virtual.cpp:374`), so with a TLB every reuse of a kernel address may reach the old
  page; `Pager` is about the tables in memory.
- Memory above 4 GB: the index of the bitmap is masked with `0x1FFFFFFF`
  (`memory/physical.cpp:33`) and leaves the bitmap there.
- Descriptor tables, APIC and AHCI registers beyond those named, FPU state, ELF relocation
  arithmetic, CRC: hardware programming and data layout.
- The initrd archive, filesystems passed on to modules, and system calls that only read.
- Vector, queue, string, optional, function and unique pointer: thin layers over memory.
- init, the shell and the C library port; the kernel's self-tests, which were read as
  statements of what the tested code should do.
- `die()` makes its thread `DEAD` before it unlocks `f_lock` (`tasking/process.cpp:47`), so
  that a task switch in between leaves the process locked; the locks of processes are not
  part of the models.

`components` in `PROJECT.json` lists every part with its status and reason.

## 6. Disagreements met while modelling

Two are runs of their own:

- `scheduler_watch`: `Thread::get_state` (`tasking/thread.cpp:110`) reads the state of the
  thread it watches and then goes to sleep on its watchers. If the thread dies in between,
  nobody wakes the watcher, although `thread.cpp:119` says "we first need to make sure that
  all watchers have been informed of the state change".

- `module_dependencies`: `module.cpp:177` assigns the answer of `find_module()`, a
  `ValueOrError<u16_t>`, to a number; the conversion goes through `operator bool`, so
  `f_dependencies` holds 0 or 1, although `modules/module.hpp:34` says "List of major numbers
  of dependency modules".

The others are in the models as the code has them; each explains a restriction of a run or
a property that is weaker than one might expect. Where the code's fault makes anything
possible, a history variable (`raced`, `overrun`, `wrapped`, `reissued`, `lax`, `damaged`, `backwards`,
`uncounted`, `misused`, `severed`, `lost`, `trampled`) records that it has happened, and the property speaks of the
behaviours up to it.

- `thread_queue.hpp:141` unlinks the chosen thread through the last node visited, not its
  predecessor. On one core the chosen one is always the front in the cases that reach this
  line. With two cores a thread that never ran may be chosen behind threads of the other core:
  the threads after it are lost, or, when it is the last one, it stays in the list and may be
  run twice (`severed`).
- `thread_queue.hpp:86`: `erase()` walks with `++t`, see `EraseMiss` above; a core that does
  not come out of it holds `queue_lock` with interrupts off. `raise_wait()` can end there too.
- `sleep_queue.cpp:17-21` turns interrupts off so that a sleeper "won't end up in a deadlock
  situation", but `push_back` then allocates, and `pop_front` in `wakeup` frees, under
  `heap_lock` (`liballoc_plugs.cpp:12`), which other code holds with interrupts on: when its
  holder was preempted the core spins for ever (`CoreIsLost`).
- `scheduler.cpp:60-68`: `schedule()` puts the thread into the run queue and unlocks it while
  `interrupt_handle` still runs on that thread's kernel stack, until `interrupts.s:118`. A
  second core that takes the thread meanwhile runs on the same stack (`trampled`).
- `sleep_queue.cpp:29`: with two cores a sleeper can be resumed on another core before it
  has left its own. `scheduler.cpp:45`: a task switch that fails to get the queue lock
  returns to its thread even if that has just gone to sleep, which then registers twice.
  The sleeping properties are therefore stated for one core.
- `event_manager.cpp:17`: `event_processed_handler` is never registered, so `raise_wait()`
  does not return (and `:148` would compare the wrong id); no property says it returns.
  `:45`: `EVENT_QUEUE_EMPTY` can be fired with an event in the queue.
- `init.cpp:209`: the console stream is wrapped three times with separate counts; closing
  one of the descriptors deletes it for the others. The run has one such wrapper.
- `process.cpp:376`: a private mapping of a file page that the file shares but nobody maps
  at the moment is writable in place (the comment in `:377` says copy-on-write); `:408`
  copies from address 0 (`!0xFFF` for `~0xFFF`); `:427` erases the wrong key; `:362` clears
  a shared anonymous page in each process that faults on it; `:89`: `exit` and `exec` leave
  the mapping counts of pages too high, so the pages are never freed - which is why
  `RefsCoverMappings`, a part of `PagesSound`, is an inequality.
- `anonpage.cpp:36`, `ppage.cpp:34-46`: after `fork` two processes share a
  `SharedAnonymousPage` and each holds only its own `f_lock`; both may find `f_page` null, and
  one may copy it while the other assigns it, which destroys the page before it counts the new
  one. `process.cpp:427` erases from `f_shared_pages` while another process may insert (the
  comment in `:426` suspects "concurrency issues"). The models go up to that point (`raced`).
- `physical.cpp:132`: the search of `palloc` has no end test; without a free block of the
  length it leaves the bitmap (`lost`).
- `vnodefs.cpp:58`, `:71`: a node is visible before its `f_parent` is set; a walk in between
  resolves a new link from `/` and takes `..` of a new directory as the directory itself
  (the exception in `TreeConsistent`). `vnode.cpp:30`: between erase and insert the
  location of a mount does not exist. `vnode.cpp:25`: `add_child` ignores that the name
  exists, so `symlinkat` of an existing name succeeds without effect, and of two concurrent
  `mkdir`s of one name both succeed. `vnode.cpp:29` dereferences the parent of a location
  without one (`mount` at `/.` halts the core). `vfs.cpp:161` looks at `lastSeparator[1]`
  before it tests for null: `symlinkat` relative to a descriptor with a plain name faults
  (that input is left out of `Symlinkat`).
- `initrdfs.cpp:57`: a directory that the archive does not list is created but not entered,
  so the file goes into its parent. The initial tree of `Vfs` is any tree.
- `memory/virtual.cpp:157`: work pages are tested and taken without a lock (`raced`). `:377`
  compares a page number with an address, so the hint for kernel pages is never lowered and
  pages freed below it are not used again; the structures of the current address are never remembered, so
  every access maps them again. `liballoc_plugs.cpp:83`, `:96`: the plugs copy the active
  pager, whose destructor frees memory under the heap's lock: a full heap never returns
  (`stuck`) instead of giving null.
- `pipestream.cpp:55`, `:78`: a head is moved before the byte is taken or stored, and is out of
  range for a moment (`raced`). A writer that waits for room when the reader closes spins
  for ever (the closed flag is read before the loop only), so no property says that a write
  returns.
- `termios.cpp:230`, `fifo.hpp:25`: the full tests do not wrap (`overrun`, `wrapped`); a backspace
  at the start of the buffer takes the head below it. `pc_serial/devfs.cpp:10` shadows
  `working_ports` with a variable that stays 0, so every entry of the driver returns
  `ENODEV`.
- `ahci/structures.hpp:41`: `drives` is static in a header, so `devfs.cpp` has an empty map of
  its own and finds no drive; `Disk` models both answers. `ata.cpp:88`: the register is read
  and written back (`reissued`). `drive.cpp:16`: a missing table is followed (`faulted`).
  `drive.cpp:126`: when `add_dev` refuses a name `drive_count` stays, so one taken name leaves
  all later disks without a node.
- `ext2/cache.cpp:51`: a block is in the cache before it is read, and stays there when the
  read fails; calls that met one are excluded from `FileDataExact`. `rw.cpp:107`: the block
  size is used as a shift count, so a seek may keep the buffer of another block (`lax`).
  `mount_info.hpp:28`: `get_lba` multiplies in 32 bits, so blocks behind the first 4 GiB are
  read from near the beginning; `FileDataExact` speaks of files in front (`Addressable`).
- `unordered_map.hpp:229`: `operator[]` does not count its entries (`uncounted`), and a later
  rehash may divide by zero; `:115`, `:135`: copies take over the size and no entry.
  `list.hpp:154`, `:260`: moving from or sorting an empty list breaks it (`damaged`).
  `list.hpp:113-122`, `:139-148`: a copy of a list holds its entries in reverse (`backwards`).
  `kbuffer.cpp:60`: a buffer that is resized or cleared while shared, assigned to itself, or
  used after a move loses pages or frees those of others (`misused`).
- `cpu.cpp:90`: the override of the LAPIC's address is read at the wrong offset. Another page is
  then mapped as the LAPIC, `bsp_apic_id` is read from it, so core 0 need not be the boot core
  although `:99` says "BSP is always guaranteed to be core 0", and no start-up interrupt is
  sent: `BootCompletes` excludes such machines. `:432`: `send_task_switch_irq` looks for a linear
  id in the map from APIC ids (it is not modelled; it has no state). `:138`: an
  override before its I/O APIC is dropped (`LinesRouted` speaks of the later ones).
  `interrupts.cpp:282`: two changes of a list of handlers at once may lose one (`raced`).

## 7. Plan

Done: locks, run queue, scheduler, physical memory, pager, heap, events, descriptors, pipes,
terminals, ext2, disks, process memory, path resolution and mounts, containers, start-up,
interrupts, modules and device discovery; proofs of the locks, the page allocator, page tables,
the scheduler, the run queue's list, descriptors, pipes and terminals, kernel stacks, handler
lists, the start of the cores, module loading, events, counted handles, the counts of pages,
private memory and the tree of files.

Next, in this order:

1. `ReadCorrect` of `Disk`, `DrivesExact` of `Discovery` and `FileDataExact` of `Ext2` as
   theorems, with their loops as recursive functions.
2. `Pager` with a TLB, composed with `AddressSpace` in place of the assumption that it does
   its job.
3. Module filesystems, whose nodes are created by lookups, in `Vfs`.

Modules to be proved about contain no `RECURSIVE` operator; recursive references stay in
modules of their own, as `PathResolution` does.
