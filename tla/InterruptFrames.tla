-------------------------- MODULE InterruptFrames --------------------------
(***************************************************************************)
(* The kernel stacks under interrupt_handle (interrupts.cpp).  A frame is  *)
(* pushed by every interrupt: from user mode at the address the core's TSS *)
(* names (tsses[core].rsp0), in kernel mode where the stack is.  System    *)
(* calls and page faults run with interrupts on, so a thread may be        *)
(* switched out inside one and come back on another core; the way out      *)
(* writes rsp0 of the core it is on then.                                  *)
(*                                                                         *)
(* A task switch is two steps: schedule() saves the thread's frame, hands  *)
(* the thread to the run queue and unlocks it while interrupt_handle is    *)
(* still on the thread's stack, which the core leaves only when handle_int *)
(* loads the stack pointer.  Another core may take the thread in between.  *)
(***************************************************************************)
EXTENDS Integers, Sequences

CONSTANTS
    Cores, Threads,
    KernelThreads,  \* threads made with isKernel
    Nested          \* frames a page fault may find below it

VARIABLES
    current_thread,  \* of every core's Scheduler; the core itself stands for idle
    stack,           \* whose kernel stack the core is on
    kernel,          \* threads whose own code is in the kernel, and the idle tasks
    frames,          \* the frames on every kernel stack, oldest first
    rsp0,            \* where the core will push a frame from user mode
    smashed,         \* a frame was pushed over something else
    trampled         \* history: a core used a stack another core had not left

frameVars == <<current_thread, stack, kernel, frames, rsp0, smashed, trampled>>

Owners == Threads \union Cores
Frame(kind, c) == [kind |-> kind, core |-> c]

\* every core idles; a thread has the frame its constructor builds, at the top
\* of a kernel thread's stack too
Init ==
    /\ current_thread = [c \in Cores |-> c] /\ stack = current_thread
    /\ kernel = KernelThreads \union Cores
    /\ frames = [t \in Owners |-> IF t \in Cores THEN <<>>
                                  ELSE <<Frame("switch", CHOOSE c \in Cores : TRUE)>>]
    /\ rsp0 = [c \in Cores |-> <<c, 0>>]
    /\ smashed = FALSE /\ trampled = FALSE

\* schedule() has chosen, interrupt_handle has not returned
Switching(c) == current_thread[c] # stack[c]
InUser(c) == ~Switching(c) /\ stack[c] \notin kernel /\ frames[stack[c]] = <<>>
Top(c) == frames[stack[c]][Len(frames[stack[c]])]
Occupied(c, t) == \E d \in Cores \ {c} : stack[d] = t

\* the processor and handle_int (interrupts.s) write a frame
Write(c) ==
    /\ ~Switching(c)
    /\ smashed' = (smashed \/ (InUser(c) /\ rsp0[c] # <<stack[c], 0>>))
    /\ trampled' = (trampled \/ Occupied(c, stack[c]))

Push(c, kind) ==
    /\ Write(c)
    /\ frames' = [frames EXCEPT ![stack[c]] = Append(@, Frame(kind, c))]

\* int 0x8F, of a kernel thread too (init.cpp)
Syscall(c) ==
    /\ stack[c] \in Threads /\ frames[stack[c]] = <<>>
    /\ Push(c, "syscall") /\ UNCHANGED <<current_thread, stack, kernel, rsp0>>

\* interrupt 0x0E, of the thread's own code or out of a system call
PageFault(c) ==
    /\ stack[c] \in Threads
    /\ frames[stack[c]] # <<>> => Top(c).kind = "syscall" /\ Len(frames[stack[c]]) <= Nested
    /\ Push(c, "fault") /\ UNCHANGED <<current_thread, stack, kernel, rsp0>>

\* Variant: the core is the one the frame was pushed on
MutReturn(c) ==
    LET t == stack[c]
        rest == Len(frames[t]) - 1
    IN /\ ~Switching(c) /\ frames[t] # <<>>
       /\ frames' = [frames EXCEPT ![t] = SubSeq(@, 1, rest)]
       /\ rsp0' = [rsp0 EXCEPT ![Top(c).core] = <<t, rest>>]
       /\ UNCHANGED <<current_thread, stack, kernel, smashed, trampled>>

\* set_kernel_stack(current_core(), state + sizeof(CPUState))
Return(c) ==
    LET t == stack[c]
        rest == Len(frames[t]) - 1
    IN /\ ~Switching(c) /\ frames[t] # <<>>
       /\ frames' = [frames EXCEPT ![t] = SubSeq(@, 1, rest)]
       /\ rsp0' = [rsp0 EXCEPT ![c] = <<t, rest>>]
       /\ UNCHANGED <<current_thread, stack, kernel, smashed, trampled>>

\* execve: make_ks builds the frame of a user program at the top of the stack,
\* and post_syscall returns to that one
Execve(c) ==
    LET t == stack[c]
    IN /\ ~Switching(c) /\ frames[t] # <<>> /\ Top(c).kind = "syscall"
       /\ frames' = [frames EXCEPT ![t] = <<>>]
       /\ kernel' = kernel \ {t}
       /\ rsp0' = [rsp0 EXCEPT ![c] = <<t, 0>>]
       /\ UNCHANGED <<current_thread, stack, smashed, trampled>>

\* a device interrupt, the lazy FPU load or a task switch to the same thread (also
\* because queue_lock was taken): in and out with interrupts off
Handle(c) ==
    /\ Write(c)
    /\ rsp0' = [rsp0 EXCEPT ![c] = <<stack[c], Len(frames[stack[c]])>>]
    /\ UNCHANGED <<current_thread, stack, kernel, frames>>

\* interrupt 0xFE: under queue_lock the frame of the thread that stops is saved, the
\* thread queued and another one taken, or the core's idle task
Schedule(c, u) ==
    /\ u # stack[c] /\ (u = c \/ \A d \in Cores : current_thread[d] # u)
    /\ Push(c, "switch")
    /\ current_thread' = [current_thread EXCEPT ![c] = u]
    /\ UNCHANGED <<stack, kernel, rsp0>>

\* set_kernel_stack, mov rsp, rax and the way out: the core is on the stack of the
\* thread that goes on, and uses it at once if that is inside the kernel
TaskSwitch(c) ==
    LET u == current_thread[c]
        rest == Len(frames[u]) - 1
    IN /\ Switching(c)
       /\ stack' = [stack EXCEPT ![c] = u]
       /\ frames' = [frames EXCEPT ![u] = SubSeq(@, 1, rest)]
       /\ rsp0' = [rsp0 EXCEPT ![c] = <<u, rest>>]
       /\ trampled' = (trampled \/ ((u \in kernel \/ rest > 0) /\ Occupied(c, u)))
       /\ UNCHANGED <<current_thread, kernel, smashed>>

\* what two cores have written on one stack at once is not known
Next == ~trampled /\ \E c \in Cores :
    \/ Syscall(c) \/ PageFault(c) \/ Return(c) \/ Execve(c) \/ Handle(c)
    \/ TaskSwitch(c)
    \/ \E u \in Threads \union {c} : Schedule(c, u)

Spec == Init /\ [][Next]_frameVars

-----------------------------------------------------------------------------
\* Whatever the nesting of system calls, faults and task switches, and on
\* whichever core a thread comes back, as long as no core has used a stack that
\* another had not left yet: a frame from user mode is pushed at the empty stack
\* of the thread that runs, never over the frames of another thread or of its own
\* (interrupt_handle, set_kernel_stack); and two cores are on one stack only while
\* one of them is on its way out of the task switch that handed the thread over.
FramesSafe ==
    ~trampled =>
        /\ ~smashed
        /\ \A c \in Cores : InUser(c) => rsp0[c] = <<stack[c], 0>>
        /\ \A c, d \in Cores :
              c # d /\ stack[c] = stack[d] => Switching(c) \/ Switching(d)
=============================================================================
