----------------------------- MODULE BootProofs ------------------------------
(***************************************************************************)
(* What start-up, the interrupt machinery and the module loader keep, for  *)
(* every number of cores, threads, handlers, modules and processes: the    *)
(* kernel stacks of interrupt_handle (InterruptFrames), the handler lists  *)
(* (InterruptHandlers), the order of module initialisation (ModuleManager) *)
(* and the numbering and start of the cores (CpuStart).                    *)
(***************************************************************************)
EXTENDS Boot, FiniteSetTheorems, SequenceTheorems, TLAPS

-----------------------------------------------------------------------------
(* Kernel stacks.  A core whose thread is in user mode has rsp0 at that    *)
(* thread's empty stack: every way out of the kernel writes the rsp0 of    *)
(* the core it is on, and only that core can bring its thread back to user *)
(* mode.  No thread is current on two cores, and a stack that no core has  *)
(* arrived on has a frame to be resumed from.                              *)

Pushed == [kind : {"syscall", "fault", "switch"}, core : Cores]

FrameTypes ==
    /\ current_thread \in [Cores -> Stacks!Owners] /\ stack \in [Cores -> Stacks!Owners]
    /\ frames \in [Stacks!Owners -> Seq(Pushed)]
    /\ rsp0 \in [Cores -> Stacks!Owners \X Nat]

\* A core runs a thread or its own idle task, and no two cores the same one.
OneCoreEach ==
    /\ \A c \in Cores : current_thread[c] \in Threads \cup {c}
    /\ \A c, d \in Cores : current_thread[c] = current_thread[d] => c = d

Resumable ==
    \A t \in Stacks!Owners :
        (\A c \in Cores : stack[c] = t => Stacks!Switching(c)) => frames[t] # <<>>

UserEntry == \A c \in Cores : Stacks!InUser(c) => rsp0[c] = <<stack[c], 0>>

FramesInv == FrameTypes /\ OneCoreEach /\ Resumable /\ UserEntry /\ smashed = FALSE

LEMMA InitFrames == ASSUME BootAssumption PROVE Stacks!Init => FramesInv
<1> SUFFICES ASSUME Stacks!Init PROVE FramesInv
  OBVIOUS
<1>1. /\ current_thread = [c \in Cores |-> c] /\ stack = [c \in Cores |-> c] /\ smashed = FALSE
      /\ rsp0 = [c \in Cores |-> <<c, 0>>] /\ kernel = KernelThreads \cup Cores
  BY DEF Stacks!Init
<1>2. PICK x \in Cores : frames = [t \in Stacks!Owners |->
          IF t \in Cores THEN <<>> ELSE <<[kind |-> "switch", core |-> x]>>]
  BY DEF Stacks!Init, Stacks!Frame, BootAssumption
<1>3. <<[kind |-> "switch", core |-> x]>> \in Seq(Pushed) /\ <<>> \in Seq(Pushed)
  BY DEF Pushed
<1>4. FrameTypes
  BY <1>1, <1>2, <1>3 DEF FrameTypes, Stacks!Owners
<1>5. OneCoreEach
  BY <1>1 DEF OneCoreEach
<1>6. Resumable
  BY <1>1, <1>2 DEF Resumable, Stacks!Switching
<1>7. UserEntry
  BY <1>1 DEF UserEntry, Stacks!InUser
<1>8. QED
  BY <1>1, <1>4, <1>5, <1>6, <1>7 DEF FramesInv

\* What is left of a stack when its newest frame is popped.
LEMMA Popped ==
    ASSUME NEW q \in Seq(Pushed), q # <<>>
    PROVE  /\ Len(q) - 1 \in Nat /\ SubSeq(q, 1, Len(q) - 1) \in Seq(Pushed)
           /\ Len(SubSeq(q, 1, Len(q) - 1)) = Len(q) - 1
<1>1. Len(q) \in Nat /\ Len(q) # 0
  BY EmptySeq, LenProperties
<1>2. Len(q) - 1 \in Nat /\ Len(q) - 1 <= Len(q)
  BY <1>1
<1> DEFINE n == Len(q) - 1
<1>3. \A i \in 1..n : q[i] \in Pushed
  BY <1>1, <1>2
<1>4. n \in Nat
  BY <1>2
<1> HIDE DEF n
<1>5. /\ SubSeq(q, 1, n) \in Seq(Pushed)
      /\ Len(SubSeq(q, 1, n)) = IF 1 <= n THEN n - 1 + 1 ELSE 0
  BY <1>3, <1>4, SubSeqProperties
<1>6. Len(SubSeq(q, 1, n)) = n
  BY <1>4, <1>5
<1>7. QED
  BY <1>4, <1>5, <1>6 DEF n

\* A core that has arrived on a stack is the only such core.
LEMMA OneArrived ==
    ASSUME FramesInv, NEW c \in Cores, NEW d \in Cores, stack[c] = stack[d],
           ~Stacks!Switching(c), ~Stacks!Switching(d)
    PROVE  c = d
  BY DEF FramesInv, OneCoreEach, Stacks!Switching

\* A core writes a frame: at the place rsp0 says, if it comes from user mode.
LEMMA WriteFits ==
    ASSUME FramesInv, NEW c \in Cores, Stacks!Write(c)
    PROVE  /\ smashed' = FALSE /\ ~Stacks!Switching(c) /\ current_thread[c] = stack[c]
           /\ stack[c] \in Stacks!Owners /\ frames[stack[c]] \in Seq(Pushed)
  BY DEF FramesInv, FrameTypes, UserEntry, Stacks!Write, Stacks!Switching

\* A frame is pushed on the stack of the thread a core runs, which then may hand the
\* thread over (task switch) or not.
LEMMA StepPush ==
    ASSUME BootAssumption, FramesInv, NEW c \in Cores, NEW kind \in {"syscall", "fault", "switch"},
           Stacks!Push(c, kind), UNCHANGED <<stack, kernel, rsp0>>,
           NEW u \in Threads \cup {c}, current_thread' = [current_thread EXCEPT ![c] = u],
           u = stack[c] \/ u = c \/ \A d \in Cores : current_thread[d] # u
    PROVE  FramesInv'
<1> DEFINE t == stack[c]
           e == [kind |-> kind, core |-> c]
           s == Append(frames[t], e)
<1>1. /\ smashed' = FALSE /\ ~Stacks!Switching(c) /\ current_thread[c] = t
      /\ t \in Stacks!Owners /\ frames[t] \in Seq(Pushed) /\ e \in Pushed
  BY WriteFits DEF Stacks!Push, Pushed
<1>2. frames' = [frames EXCEPT ![t] = s]
  BY DEF Stacks!Push, Stacks!Frame
<1>3. s \in Seq(Pushed) /\ s # <<>>
  BY <1>1, AppendProperties
<1> HIDE DEF e, s
<1>4. frames' \in [Stacks!Owners -> Seq(Pushed)]
      /\ \A v \in Stacks!Owners : frames'[v] = IF v = t THEN s ELSE frames[v]
  BY <1>1, <1>2, <1>3 DEF FramesInv, FrameTypes
<1>5. /\ current_thread' \in [Cores -> Stacks!Owners]
      /\ \A d \in Cores : current_thread'[d] = IF d = c THEN u ELSE current_thread[d]
  BY DEF FramesInv, FrameTypes, Stacks!Owners
<1>6. FrameTypes'
  BY <1>4, <1>5 DEF FramesInv, FrameTypes, Stacks!Owners
<1>7. OneCoreEach'
  <2>1. \A d \in Cores : current_thread'[d] \in Threads \cup {d}
    BY <1>5 DEF FramesInv, OneCoreEach
  <2>2. ASSUME NEW d \in Cores, d # c PROVE current_thread[d] # u
    <3>1. CASE u = t
      BY <3>1, <2>2, <1>1 DEF FramesInv, OneCoreEach
    <3>2. CASE u = c
      BY <3>2, <2>2 DEF FramesInv, OneCoreEach, BootAssumption, FrameAssumption
    <3>3. CASE \A q \in Cores : current_thread[q] # u
      BY <3>3, <2>2
    <3>4. QED
      BY <3>1, <3>2, <3>3
  <2>3. \A a, b \in Cores : current_thread'[a] = current_thread'[b] => a = b
    BY <1>5, <2>2 DEF FramesInv, OneCoreEach
  <2>4. QED
    BY <2>1, <2>3 DEF OneCoreEach
<1>8. Resumable'
  <2> SUFFICES ASSUME NEW v \in Stacks!Owners, v # t,
                      \A d \in Cores : stack[d] = v => Stacks!Switching(d)'
               PROVE  frames'[v] # <<>>
    BY <1>3, <1>4 DEF Resumable, Stacks!Owners
  <2>1. \A d \in Cores : stack[d] = v => Stacks!Switching(d)
    BY <1>5 DEF Stacks!Switching
  <2>2. QED
    BY <2>1, <1>4 DEF FramesInv, Resumable
<1>9. UserEntry'
  <2> SUFFICES ASSUME NEW d \in Cores, Stacks!InUser(d)' PROVE rsp0[d] = <<stack[d], 0>>
    BY DEF UserEntry
  <2>1. stack[d] \in Stacks!Owners /\ frames'[stack[d]] = <<>> /\ stack[d] \notin kernel
        /\ current_thread'[d] = stack[d]
    BY DEF FramesInv, FrameTypes, Stacks!InUser, Stacks!Switching
  <2>2. stack[d] # t
    BY <2>1, <1>3, <1>4
  <2>3. d # c /\ current_thread[d] = stack[d] /\ frames[stack[d]] = <<>>
    BY <2>1, <2>2, <1>4, <1>5
  <2>4. QED
    BY <2>1, <2>3 DEF FramesInv, UserEntry, Stacks!InUser, Stacks!Switching
<1>10. QED
  BY <1>1, <1>6, <1>7, <1>8, <1>9 DEF FramesInv

\* A core pops frames of the stack it is on, down to the n oldest.
LEMMA StepPop ==
    ASSUME FramesInv, NEW c \in Cores, ~Stacks!Switching(c), NEW s \in Seq(Pushed),
           frames' = [frames EXCEPT ![stack[c]] = s],
           rsp0' = [rsp0 EXCEPT ![c] = <<stack[c], Len(s)>>],
           UNCHANGED <<current_thread, stack, smashed>>,
           \A t \in Stacks!Owners : t # stack[c] => (t \in kernel' <=> t \in kernel)
    PROVE  FramesInv'
<1> DEFINE t == stack[c]
           n == Len(s)
<1>1. t \in Stacks!Owners /\ n \in Nat /\ (s = <<>> => n = 0)
  BY DEF FramesInv, FrameTypes
<1> HIDE DEF n
<1>2. frames' \in [Stacks!Owners -> Seq(Pushed)]
      /\ \A v \in Stacks!Owners : frames'[v] = IF v = t THEN s ELSE frames[v]
  BY <1>1 DEF FramesInv, FrameTypes
<1>3. rsp0' \in [Cores -> Stacks!Owners \X Nat]
      /\ \A d \in Cores : rsp0'[d] = IF d = c THEN <<t, n>> ELSE rsp0[d]
  BY <1>1 DEF FramesInv, FrameTypes, n
<1>4. FrameTypes' /\ OneCoreEach'
  BY <1>2, <1>3 DEF FramesInv, FrameTypes, OneCoreEach, Stacks!Owners
<1>5. Resumable'
  <2> SUFFICES ASSUME NEW v \in Stacks!Owners,
                      \A d \in Cores : stack[d] = v => Stacks!Switching(d)
               PROVE  frames'[v] # <<>>
    BY DEF Resumable, Stacks!Owners, Stacks!Switching
  <2>1. v # t
    OBVIOUS
  <2>2. QED
    BY <2>1, <1>2 DEF FramesInv, Resumable
<1>6. UserEntry'
  <2> SUFFICES ASSUME NEW d \in Cores, Stacks!InUser(d)' PROVE rsp0'[d] = <<stack[d], 0>>
    BY DEF UserEntry
  <2>0. stack[d] \in Stacks!Owners /\ frames'[stack[d]] = <<>> /\ stack[d] \notin kernel'
        /\ ~Stacks!Switching(d)
    BY DEF FramesInv, FrameTypes, Stacks!InUser, Stacks!Switching
  <2>1. CASE d = c
    BY <2>0, <2>1, <1>1, <1>2, <1>3
  <2>2. CASE d # c
    <3>1. stack[d] # t
      BY <2>0, <2>2, OneArrived
    <3>2. Stacks!InUser(d)
      BY <3>1, <2>0, <1>2 DEF Stacks!InUser
    <3>3. QED
      BY <3>2, <2>2, <1>3 DEF FramesInv, UserEntry
  <2>3. QED
    BY <2>1, <2>2
<1>7. QED
  BY <1>4, <1>5, <1>6 DEF FramesInv

LEMMA StepReturn ==
    ASSUME FramesInv, NEW c \in Cores, Stacks!Return(c) \/ Stacks!Execve(c) PROVE FramesInv'
<1> DEFINE q == frames[stack[c]]
<1>1. q \in Seq(Pushed) /\ q # <<>> /\ ~Stacks!Switching(c) /\ UNCHANGED <<current_thread, stack, smashed>>
  BY DEF FramesInv, FrameTypes, Stacks!Return, Stacks!Execve
<1>2. CASE Stacks!Return(c)
  <2> DEFINE s == SubSeq(q, 1, Len(q) - 1)
  <2>1. s \in Seq(Pushed) /\ Len(s) = Len(q) - 1
    BY <1>1, Popped
  <2>2. /\ frames' = [frames EXCEPT ![stack[c]] = s] /\ kernel' = kernel
        /\ rsp0' = [rsp0 EXCEPT ![c] = <<stack[c], Len(s)>>]
    BY <1>2, <2>1 DEF Stacks!Return
  <2> HIDE DEF s, q
  <2>3. QED
    BY <1>1, <2>1, <2>2, StepPop
<1>3. CASE Stacks!Execve(c)
  <2>1. /\ frames' = [frames EXCEPT ![stack[c]] = <<>>] /\ kernel' = kernel \ {stack[c]}
        /\ rsp0' = [rsp0 EXCEPT ![c] = <<stack[c], Len(<<>>)>>]
    BY <1>3 DEF Stacks!Execve
  <2>2. <<>> \in Seq(Pushed)
    OBVIOUS
  <2>3. \A t \in Stacks!Owners : t # stack[c] => (t \in kernel' <=> t \in kernel)
    BY <2>1
  <2> HIDE DEF q
  <2>4. QED
    BY <1>1, <2>1, <2>2, <2>3, StepPop
<1>4. QED
  BY <1>2, <1>3

LEMMA StepHandle == ASSUME FramesInv, NEW c \in Cores, Stacks!Handle(c) PROVE FramesInv'
<1>1. /\ smashed' = FALSE /\ ~Stacks!Switching(c) /\ frames[stack[c]] \in Seq(Pushed)
      /\ stack[c] \in Stacks!Owners
  BY WriteFits DEF Stacks!Handle
<1>2. /\ rsp0' = [rsp0 EXCEPT ![c] = <<stack[c], Len(frames[stack[c]])>>]
      /\ UNCHANGED <<current_thread, stack, kernel, frames>>
  BY DEF Stacks!Handle
<1>3. frames' = [frames EXCEPT ![stack[c]] = frames[stack[c]]]
  BY <1>1, <1>2 DEF FramesInv, FrameTypes
<1>4. smashed' = smashed
  BY <1>1 DEF FramesInv
<1>5. QED
  BY <1>1, <1>2, <1>3, <1>4, StepPop

\* The core arrives on the stack of the thread it took and pops the frame saved there.
LEMMA StepTaskSwitch ==
    ASSUME FramesInv, NEW c \in Cores, Stacks!TaskSwitch(c) PROVE FramesInv'
<1> DEFINE u == current_thread[c]
           n == Len(frames[u]) - 1
           s == SubSeq(frames[u], 1, n)
<1>1. /\ Stacks!Switching(c) /\ u \in Stacks!Owners /\ frames[u] \in Seq(Pushed)
      /\ stack' = [stack EXCEPT ![c] = u] /\ frames' = [frames EXCEPT ![u] = s]
      /\ rsp0' = [rsp0 EXCEPT ![c] = <<u, n>>]
      /\ UNCHANGED <<current_thread, kernel, smashed>>
  BY DEF FramesInv, FrameTypes, Stacks!TaskSwitch
<1>2. \A d \in Cores : stack[d] = u => Stacks!Switching(d)
  <2> SUFFICES ASSUME NEW d \in Cores, stack[d] = u, ~Stacks!Switching(d) PROVE FALSE
    OBVIOUS
  <2>1. current_thread[d] = current_thread[c]
    BY DEF Stacks!Switching
  <2>2. d = c
    BY <2>1 DEF FramesInv, OneCoreEach
  <2>3. QED
    BY <2>2, <1>1
<1>3. frames[u] # <<>>
  BY <1>1, <1>2 DEF FramesInv, Resumable
<1>4. n \in Nat /\ s \in Seq(Pushed) /\ Len(s) = n
  BY <1>1, <1>3, Popped
<1>5. s = <<>> => n = 0
  BY <1>4
<1> HIDE DEF n, s
<1>6. frames' \in [Stacks!Owners -> Seq(Pushed)]
      /\ \A v \in Stacks!Owners : frames'[v] = IF v = u THEN s ELSE frames[v]
  BY <1>1, <1>4 DEF FramesInv, FrameTypes
<1>7. rsp0' \in [Cores -> Stacks!Owners \X Nat]
      /\ \A d \in Cores : rsp0'[d] = IF d = c THEN <<u, n>> ELSE rsp0[d]
  BY <1>1, <1>4 DEF FramesInv, FrameTypes
<1>8. stack' \in [Cores -> Stacks!Owners]
      /\ \A d \in Cores : stack'[d] = IF d = c THEN u ELSE stack[d]
  BY <1>1 DEF FramesInv, FrameTypes
<1>9. FrameTypes' /\ OneCoreEach'
  BY <1>1, <1>6, <1>7, <1>8 DEF FramesInv, FrameTypes, OneCoreEach, Stacks!Owners
<1>10. ~Stacks!Switching(c)' /\ \A d \in Cores : d # c => (Stacks!Switching(d)' <=> Stacks!Switching(d))
  BY <1>1, <1>8 DEF Stacks!Switching
<1>11. Resumable'
  <2> SUFFICES ASSUME NEW v \in Stacks!Owners,
                      \A d \in Cores : stack'[d] = v => Stacks!Switching(d)'
               PROVE  frames'[v] # <<>>
    BY DEF Resumable, Stacks!Owners
  <2>1. v # u
    BY <1>8, <1>10
  <2>2. \A d \in Cores : stack[d] = v => Stacks!Switching(d)
    BY <1>1, <1>8, <1>10
  <2>3. QED
    BY <2>1, <2>2, <1>6 DEF FramesInv, Resumable
<1>12. UserEntry'
  <2> SUFFICES ASSUME NEW d \in Cores, Stacks!InUser(d)' PROVE rsp0'[d] = <<stack'[d], 0>>
    BY DEF UserEntry
  <2>1. stack'[d] \in Stacks!Owners /\ frames'[stack'[d]] = <<>> /\ stack'[d] \notin kernel
        /\ ~Stacks!Switching(d)'
    BY <1>1, <1>8 DEF Stacks!InUser
  <2>2. CASE d = c
    BY <2>1, <2>2, <1>5, <1>6, <1>7, <1>8
  <2>3. CASE d # c
    <3>1. stack'[d] = stack[d] /\ ~Stacks!Switching(d)
      BY <2>1, <2>3, <1>8, <1>10
    <3>2. stack[d] # u
      BY <3>1, <1>2
    <3>3. Stacks!InUser(d)
      BY <3>1, <3>2, <2>1, <1>6 DEF Stacks!InUser
    <3>4. QED
      BY <3>1, <3>3, <2>3, <1>7 DEF FramesInv, UserEntry
  <2>4. QED
    BY <2>2, <2>3
<1>13. QED
  BY <1>1, <1>9, <1>11, <1>12 DEF FramesInv

LEMMA FramesStep ==
    ASSUME BootAssumption, FramesInv, [Stacks!Next]_(Stacks!frameVars) PROVE FramesInv'
<1>1. ASSUME NEW c \in Cores, Stacks!Syscall(c) \/ Stacks!PageFault(c) PROVE FramesInv'
  <2>1. /\ Stacks!Push(c, "syscall") \/ Stacks!Push(c, "fault")
        /\ stack[c] \in Threads
        /\ UNCHANGED <<current_thread, stack, kernel, rsp0>>
    BY <1>1 DEF Stacks!Syscall, Stacks!PageFault
  <2>2. ~Stacks!Switching(c)
    BY <2>1 DEF Stacks!Push, Stacks!Write
  <2>3. stack[c] \in Threads \cup {c}
    BY <2>2 DEF FramesInv, OneCoreEach, Stacks!Switching
  <2>4. current_thread' = [current_thread EXCEPT ![c] = stack[c]]
    BY <2>1, <2>2 DEF FramesInv, FrameTypes, Stacks!Switching
  <2>5. QED
    BY <2>1, <2>3, <2>4, StepPush
<1>2. ASSUME NEW c \in Cores, Stacks!Return(c) \/ Stacks!Execve(c) \/ Stacks!Handle(c) PROVE FramesInv'
  BY <1>2, StepReturn, StepHandle
<1>3. ASSUME NEW c \in Cores, Stacks!TaskSwitch(c) PROVE FramesInv'
  BY <1>3, StepTaskSwitch
<1>4. ASSUME NEW c \in Cores, NEW u \in Threads \cup {c}, Stacks!Schedule(c, u) PROVE FramesInv'
  <2>1. /\ Stacks!Push(c, "switch") /\ UNCHANGED <<stack, kernel, rsp0>>
        /\ current_thread' = [current_thread EXCEPT ![c] = u]
        /\ u = c \/ \A d \in Cores : current_thread[d] # u
    BY <1>4 DEF Stacks!Schedule
  <2>2. QED
    BY <2>1, StepPush
<1>5. CASE UNCHANGED Stacks!frameVars
  BY <1>5 DEF Stacks!frameVars, FramesInv, FrameTypes, OneCoreEach, Resumable, UserEntry,
              Stacks!Switching, Stacks!InUser, Stacks!Owners
<1>6. QED
  BY <1>1, <1>2, <1>3, <1>4, <1>5 DEF Stacks!Next

\* For any number of cores and threads, any nesting of system calls, faults and task
\* switches, and whichever core a thread comes back on, until a core uses a stack another
\* has not left: a frame from user mode is pushed at the empty stack of the thread that
\* runs, and only a core inside a task switch shares its stack (interrupt_handle).
THEOREM FramesAreSafe == Stacks!Spec => []FramesSafe
<1> USE BootAssumption
<1>1. FramesInv /\ [Stacks!Next]_(Stacks!frameVars) => FramesInv'
  BY FramesStep
<1>2. FramesInv => FramesSafe
  <2> SUFFICES ASSUME FramesInv PROVE FramesSafe
    OBVIOUS
  <2>1. \A c, d \in Cores : c # d /\ stack[c] = stack[d] => Stacks!Switching(c) \/ Stacks!Switching(d)
    BY OneArrived
  <2>2. QED
    BY <2>1 DEF FramesInv, UserEntry, FramesSafe, Stacks!FramesSafe
<1>3. QED
  BY <1>1, <1>2, InitFrames, PTL DEF Stacks!Spec

\* On one core no stack is used before the core has left it: there is nobody else.
THEOREM FramesOnOneCore ==
    (\E c : Cores = {c}) /\ Stacks!Spec => [](FramesSafe /\ ~trampled)
<1> DEFINE OneCore == \E c : Cores = {c}
<1>1. Stacks!Init => ~trampled
  BY DEF Stacks!Init
<1>2. OneCore /\ ~trampled /\ [Stacks!Next]_(Stacks!frameVars) => ~trampled'
  <2> SUFFICES ASSUME NEW c, Cores = {c}, ~trampled, [Stacks!Next]_(Stacks!frameVars)
               PROVE  ~trampled'
    OBVIOUS
  <2>1. \A d \in Cores : \A t : ~Stacks!Occupied(d, t)
    BY DEF Stacks!Occupied
  <2>2. CASE UNCHANGED Stacks!frameVars
    BY <2>2 DEF Stacks!frameVars
  <2>3. CASE Stacks!Next
    BY <2>1, <2>3 DEF Stacks!Next, Stacks!Syscall, Stacks!PageFault, Stacks!Return, Stacks!Execve,
       Stacks!Handle, Stacks!Schedule, Stacks!TaskSwitch, Stacks!Push, Stacks!Write
  <2>4. QED
    BY <2>2, <2>3
<1>3. OneCore => OneCore'
  OBVIOUS
<1> HIDE DEF OneCore
<1>4. OneCore /\ Stacks!Spec => [](FramesSafe /\ ~trampled)
  BY <1>1, <1>2, <1>3, FramesAreSafe, PTL DEF Stacks!Spec
<1>5. QED
  BY <1>4 DEF OneCore

-----------------------------------------------------------------------------
(* Modules.  A dependency's number is 1 only if the cache named it when    *)
(* the header was parsed, and the cache names initialised modules, also    *)
(* when an insertion brings back an older cache; number 0 is never in the  *)
(* map, so init() fails on every other dependency.                         *)

Names == DOMAIN Deps

Places == {"idle", "load", "parse", "link", "init", "cache", "cacheLink", "map", "mapLink",
           "faulted"}

LoadingShape ==
    /\ f_next_major \in 1..(MaxMajor + 1)
    /\ f_module_map \subseteq Nat \ {0}
    /\ module \in [1..MaxMajor -> [name : Names \cup {<<>>}, dependencies : Seq(Nat)]]
    /\ todo \in [Procs -> Seq(Names)]
    /\ loader \in [Procs -> [pc : Places, major : Nat, cache : SUBSET (Names \X Nat),
                             map : SUBSET (Nat \ {0})]]
    /\ initialised \subseteq Names
    /\ f_module_cache \subseteq Names \X Nat

\* Every load has a Module object of its own.
OwnModule ==
    /\ \A p \in Procs : loader[p].pc # "idle" =>
          /\ loader[p].major \in 1..MaxMajor /\ loader[p].major < f_next_major
          /\ module[loader[p].major].name \in Names
    /\ \A p, q \in Procs : p # q /\ loader[p].pc # "idle" /\ loader[q].pc # "idle" =>
          loader[p].major # loader[q].major

\* An entry of the cache names an initialised module.
Sound(c) ==
    /\ c[2] \in 1..MaxMajor /\ c[2] < f_next_major
    /\ module[c[2]].name = c[1] /\ c[1] \in initialised

CachesSound ==
    /\ \A c \in f_module_cache : Sound(c)
    /\ \A p \in Procs : \A c \in loader[p].cache : Sound(c)

\* Number 1 stands for a dependency that has been initialised.
NumbersSound ==
    \A p \in Procs : loader[p].pc \in {"link", "init"} =>
        LET m == module[loader[p].major]
        IN  /\ DOMAIN m.dependencies = DOMAIN Deps[m.name]
            /\ \A i \in DOMAIN Deps[m.name] :
                  m.dependencies[i] = 0 \/ Deps[m.name][i] \in initialised

InitReturned ==
    \A p \in Procs : loader[p].pc \in {"cache", "cacheLink"} =>
        module[loader[p].major].name \in initialised

DependenciesClosed ==
    \A name \in initialised : \A i \in DOMAIN Deps[name] : Deps[name][i] \in initialised

LoadingInv ==
    /\ LoadingShape /\ OwnModule /\ CachesSound /\ NumbersSound /\ InitReturned
    /\ DependenciesClosed

LEMMA InitLoading ==
    ASSUME ModuleAssumption, NEW lists \in SUBSET Seq(Names)
    PROVE  Loading!Init(lists) => LoadingInv
<1> SUFFICES ASSUME Loading!Init(lists) PROVE LoadingInv
  OBVIOUS
<1>1. /\ f_next_major = 1 /\ f_module_cache = {} /\ f_module_map = {} /\ initialised = {}
      /\ module = [n \in 1..MaxMajor |-> [name |-> <<>>, dependencies |-> <<>>]]
      /\ todo \in [Procs -> lists]
      /\ loader = [p \in Procs |-> [pc |-> "idle", major |-> 0, cache |-> {}, map |-> {}]]
  BY DEF Loading!Init, Loading!Resting
<1>2. LoadingShape
  <2>1. <<>> \in Seq(Nat) /\ f_next_major \in 1..(MaxMajor + 1)
    BY <1>1 DEF ModuleAssumption
  <2>2. QED
    BY <1>1, <2>1 DEF LoadingShape, Places
<1>3. \A p \in Procs : loader[p].pc = "idle" /\ loader[p].cache = {}
  BY <1>1
<1>4. QED
  BY <1>1, <1>2, <1>3 DEF LoadingInv, OwnModule, CachesSound, NumbersSound, InitReturned,
        DependenciesClosed

\* Nobody gets a new list of dependencies.
LEMMA SameNumbers ==
    ASSUME NumbersSound, UNCHANGED initialised,
           \A q \in Procs : loader'[q].pc \in {"link", "init"} =>
              /\ loader[q].pc \in {"link", "init"} /\ loader'[q].major = loader[q].major
              /\ module'[loader[q].major] = module[loader[q].major]
    PROVE  NumbersSound'
BY Zenon DEF NumbersSound

\* A step of p that only moves it on, or ends its load.
LEMMA StepLoader ==
    ASSUME LoadingInv, NEW p \in Procs, NEW x \in Places,
           loader[p].pc # "idle",
           x \in {"link", "init"} => loader[p].pc \in {"link", "init"},
           x \in {"cache", "cacheLink"} => loader[p].pc \in {"cache", "cacheLink"},
           \/ loader' = [loader EXCEPT ![p].pc = x]
           \/ Loading!Return(p),
           UNCHANGED <<f_next_major, f_module_cache, f_module_map, module, todo, initialised>>
    PROVE  LoadingInv'
<1>1. LoadingShape'
  <2> DEFINE Loaders == [pc : Places, major : Nat, cache : SUBSET (Names \X Nat),
                         map : SUBSET (Nat \ {0})]
  <2>1. loader \in [Procs -> Loaders]
    BY DEF LoadingInv, LoadingShape
  <2>2. [pc |-> "idle", major |-> 0, cache |-> {}, map |-> {}] \in Loaders
    BY DEF Places
  <2>3. CASE Loading!Return(p)
    <3>1. loader' = [loader EXCEPT ![p] = [pc |-> "idle", major |-> 0, cache |-> {}, map |-> {}]]
      BY <2>3 DEF Loading!Return, Loading!Resting
    <3> HIDE DEF Loaders
    <3>2. loader' \in [Procs -> Loaders]
      BY <2>1, <2>2, <3>1
    <3>3. QED
      BY <3>2 DEF LoadingInv, LoadingShape, Loaders
  <2>4. CASE loader' = [loader EXCEPT ![p].pc = x]
    <3>1. loader' \in [Procs -> Loaders]
      BY <2>1, <2>4
    <3>2. QED
      BY <3>1 DEF LoadingInv, LoadingShape
  <2>5. QED
    BY <2>3, <2>4
<1>2. /\ \A q \in Procs \ {p} : loader'[q] = loader[q]
      /\ loader'[p].pc = "idle" \/ (loader'[p].pc = x /\ loader'[p].major = loader[p].major)
      /\ loader'[p].cache \subseteq loader[p].cache
  BY DEF LoadingInv, LoadingShape, Loading!Return, Loading!Resting
<1>3. OwnModule'
  BY <1>2 DEF LoadingInv, OwnModule
<1>4. CachesSound'
  BY <1>2 DEF LoadingInv, CachesSound, Sound
<1>5. NumbersSound'
  BY <1>2 DEF LoadingInv, NumbersSound
<1>6. InitReturned'
  BY <1>2 DEF LoadingInv, InitReturned
<1>7. QED
  BY <1>1, <1>3, <1>4, <1>5, <1>6 DEF LoadingInv, DependenciesClosed

LEMMA StepNew ==
    ASSUME ModuleAssumption, LoadingInv, NEW p \in Procs, Loading!New(p) PROVE LoadingInv'
<1> DEFINE n == f_next_major
           name == Head(todo[p])
           l == [pc |-> "load", major |-> n, cache |-> {}, map |-> {}]
<1>1. /\ loader[p].pc = "idle" /\ todo[p] # <<>> /\ n <= MaxMajor
      /\ loader' = [loader EXCEPT ![p] = l]
      /\ module' = [module EXCEPT ![n].name = name]
      /\ todo' = [todo EXCEPT ![p] = Tail(@)]
      /\ f_next_major' = n + 1
      /\ UNCHANGED <<f_module_cache, f_module_map, initialised>>
  BY DEF Loading!New, Loading!At
<1>2. n \in 1..MaxMajor /\ n \in Nat /\ MaxMajor \in Nat
  BY <1>1 DEF LoadingInv, LoadingShape, ModuleAssumption
<1>3. todo[p] \in Seq(Names) /\ name \in Names /\ Tail(todo[p]) \in Seq(Names)
  BY <1>1, HeadTailProperties DEF LoadingInv, LoadingShape
<1> HIDE DEF name
<1>4. /\ \A q \in Procs \ {p} : loader'[q] = loader[q]
      /\ loader'[p] = l
  BY <1>1 DEF LoadingInv, LoadingShape
<1>5. /\ \A k \in 1..MaxMajor : k # n => module'[k] = module[k]
      /\ module'[n].name = name
  BY <1>1, <1>2 DEF LoadingInv, LoadingShape
<1>6. LoadingShape'
  <2>1. module' \in [1..MaxMajor -> [name : Names \cup {<<>>}, dependencies : Seq(Nat)]]
    BY <1>1, <1>2, <1>3 DEF LoadingInv, LoadingShape
  <2>2. l \in [pc : Places, major : Nat, cache : SUBSET (Names \X Nat),
               map : SUBSET (Nat \ {0})]
    BY <1>2 DEF Places
  <2>3. loader' \in [Procs -> [pc : Places, major : Nat, cache : SUBSET (Names \X Nat),
                               map : SUBSET (Nat \ {0})]]
    <3> HIDE DEF l
    <3>1. QED
      BY <1>1, <2>2 DEF LoadingInv, LoadingShape
  <2>4. n + 1 \in 1..(MaxMajor + 1)
    BY <1>2
  <2>5. todo' \in [Procs -> Seq(Names)]
    BY <1>1, <1>3 DEF LoadingInv, LoadingShape
  <2>6. QED
    BY <1>1, <2>1, <2>3, <2>4, <2>5 DEF LoadingInv, LoadingShape
<1>7. \A q \in Procs \ {p} : loader[q].pc # "idle" =>
          /\ loader[q].major \in 1..MaxMajor /\ loader[q].major < n /\ loader[q].major # n
          /\ module'[loader[q].major] = module[loader[q].major]
  BY <1>2, <1>5 DEF LoadingInv, OwnModule
<1>8. OwnModule'
  <2>1. \A q \in Procs \ {p} : loader'[q].pc # "idle" =>
          /\ loader'[q].major \in 1..MaxMajor /\ loader'[q].major < n + 1
          /\ module'[loader'[q].major].name \in Names
    BY <1>2, <1>4, <1>7 DEF LoadingInv, OwnModule
  <2>2. loader'[p].major \in 1..MaxMajor /\ loader'[p].major < n + 1 /\ loader'[p].major = n
        /\ module'[loader'[p].major].name \in Names
    BY <1>2, <1>3, <1>4, <1>5
  <2>3. \A q \in Procs \ {p} : loader'[q].pc # "idle" => loader'[q].major # n
    BY <1>4, <1>7
  <2>4. QED
    BY <1>1, <1>4, <2>1, <2>2, <2>3 DEF LoadingInv, OwnModule
<1>9. ASSUME NEW c, Sound(c) PROVE Sound(c)'
  BY <1>1, <1>2, <1>5, <1>9 DEF Sound
<1>10. CachesSound'
  BY <1>1, <1>4, <1>9 DEF LoadingInv, CachesSound
<1>11. NumbersSound'
  <2>1. \A q \in Procs : loader'[q].pc \in {"link", "init"} =>
          /\ loader[q].pc \in {"link", "init"} /\ loader'[q].major = loader[q].major
          /\ module'[loader[q].major] = module[loader[q].major]
    BY <1>1, <1>4, <1>7
  <2>2. QED
    BY <1>1, <2>1, SameNumbers DEF LoadingInv
<1>12. InitReturned'
  BY <1>1, <1>4, <1>7 DEF LoadingInv, InitReturned
<1>13. QED
  BY <1>1, <1>6, <1>8, <1>10, <1>11, <1>12 DEF LoadingInv, DependenciesClosed

LEMMA StepParseHeader ==
    ASSUME ModuleAssumption, LoadingInv, NEW p \in Procs, Loading!ParseHeader(p) PROVE LoadingInv'
<1> DEFINE n == loader[p].major
           name == module[n].name
           numbers == [i \in DOMAIN Deps[name] |-> Loading!FindModule(Deps[name][i])]
<1>1. /\ loader[p].pc = "parse"
      /\ module' = [module EXCEPT ![n].dependencies = numbers]
      /\ loader' = [loader EXCEPT ![p].pc = "link"]
      /\ UNCHANGED <<f_next_major, f_module_cache, f_module_map, todo, initialised>>
  BY DEF Loading!ParseHeader, Loading!At, Loading!Goto, Loading!Major
<1>2. n \in 1..MaxMajor /\ name \in Names
  BY <1>1 DEF LoadingInv, OwnModule
<1>3. Deps[name] \in Seq(Names) /\ DOMAIN Deps[name] = 1..Len(Deps[name])
      /\ Len(Deps[name]) \in Nat
  BY <1>2, LenProperties DEF ModuleAssumption, Names
<1>4. \A d : /\ Loading!FindModule(d) \in {0, 1}
             /\ Loading!FindModule(d) = 1 => d \in initialised
  BY DEF Loading!FindModule, LoadingInv, CachesSound, Sound
<1>5. /\ DOMAIN numbers = DOMAIN Deps[name]
      /\ \A i \in DOMAIN Deps[name] : numbers[i] = 0 \/ Deps[name][i] \in initialised
  BY <1>4
<1>6. numbers \in Seq(Nat)
  <2>1. numbers \in [1..Len(Deps[name]) -> Nat]
    BY <1>3, <1>4
  <2> HIDE DEF numbers
  <2>2. QED
    BY <1>3, <2>1, SeqDef
<1> HIDE DEF numbers
<1>7. /\ \A k \in 1..MaxMajor : module'[k].name = module[k].name
      /\ \A k \in 1..MaxMajor : k # n => module'[k] = module[k]
      /\ module'[n].dependencies = numbers
  BY <1>1, <1>2 DEF LoadingInv, LoadingShape
<1>8. /\ \A q \in Procs \ {p} : loader'[q] = loader[q]
      /\ loader'[p].pc = "link" /\ loader'[p].major = n
      /\ loader'[p].cache = loader[p].cache
  BY <1>1 DEF LoadingInv, LoadingShape
<1>9. LoadingShape'
  <2>1. module' \in [1..MaxMajor -> [name : Names \cup {<<>>}, dependencies : Seq(Nat)]]
    BY <1>1, <1>2, <1>6 DEF LoadingInv, LoadingShape
  <2>2. loader' \in [Procs -> [pc : Places, major : Nat, cache : SUBSET (Names \X Nat),
                               map : SUBSET (Nat \ {0})]]
    BY <1>1 DEF LoadingInv, LoadingShape, Places
  <2>3. QED
    BY <1>1, <2>1, <2>2 DEF LoadingInv, LoadingShape
<1>10. OwnModule'
  BY <1>1, <1>2, <1>7, <1>8 DEF LoadingInv, OwnModule
<1>11. ASSUME NEW c, Sound(c) PROVE Sound(c)'
  BY <1>1, <1>7, <1>11 DEF Sound
<1>12. CachesSound'
  BY <1>1, <1>8, <1>11 DEF LoadingInv, CachesSound
<1>13. \A q \in Procs \ {p} : loader[q].pc # "idle" =>
          loader[q].major \in 1..MaxMajor /\ module'[loader[q].major] = module[loader[q].major]
  BY <1>1, <1>7 DEF LoadingInv, OwnModule
<1>14. NumbersSound'
  <2> SUFFICES ASSUME NEW q \in Procs, loader'[q].pc \in {"link", "init"}
               PROVE  LET m == module'[loader'[q].major]
                      IN  /\ DOMAIN m.dependencies = DOMAIN Deps[m.name]
                          /\ \A i \in DOMAIN Deps[m.name] :
                                m.dependencies[i] = 0 \/ Deps[m.name][i] \in initialised
    BY <1>1 DEF NumbersSound
  <2>1. CASE q = p
    BY <1>2, <1>5, <1>7, <1>8, <2>1
  <2>2. CASE q # p
    BY <1>8, <1>13, <2>2 DEF LoadingInv, NumbersSound
  <2>3. QED
    BY <2>1, <2>2
<1>15. InitReturned'
  BY <1>1, <1>8, <1>13 DEF LoadingInv, InitReturned
<1>16. QED
  BY <1>1, <1>9, <1>10, <1>12, <1>14, <1>15 DEF LoadingInv, DependenciesClosed

LEMMA StepInitModule ==
    ASSUME ModuleAssumption, LoadingInv, NEW p \in Procs, Loading!InitModule(p) PROVE LoadingInv'
<1> DEFINE n == loader[p].major
           m == module[n]
<1>1. /\ loader[p].pc = "init"
      /\ UNCHANGED <<f_next_major, f_module_cache, f_module_map, module, todo>>
  BY DEF Loading!InitModule, Loading!At
<1>2. CASE Loading!Return(p) /\ UNCHANGED initialised
  BY <1>1, <1>2, StepLoader DEF Places
<1>3. CASE /\ Loading!ToSet(m.dependencies) \subseteq f_module_map
           /\ loader' = [loader EXCEPT ![p].pc = "cache"]
           /\ initialised' = initialised \cup {m.name}
  <2>1. n \in 1..MaxMajor /\ m.name \in Names /\ 0 \notin f_module_map
    BY <1>1 DEF LoadingInv, OwnModule, LoadingShape
  <2>2. DOMAIN m.dependencies = DOMAIN Deps[m.name]
        /\ \A i \in DOMAIN Deps[m.name] : m.dependencies[i] = 0 \/ Deps[m.name][i] \in initialised
    BY <1>1 DEF LoadingInv, NumbersSound
  <2>3. \A i \in DOMAIN m.dependencies : m.dependencies[i] \in f_module_map
    BY <1>3 DEF Loading!ToSet
  <2>4. \A i \in DOMAIN Deps[m.name] : Deps[m.name][i] \in initialised
    BY <2>1, <2>2, <2>3
  <2>5. /\ \A q \in Procs \ {p} : loader'[q] = loader[q]
        /\ loader'[p].pc = "cache" /\ loader'[p].major = n /\ loader'[p].cache = loader[p].cache
    BY <1>3 DEF LoadingInv, LoadingShape
  <2> HIDE DEF m
  <2>6. LoadingShape'
    BY <1>1, <1>3, <2>1 DEF LoadingInv, LoadingShape, Places
  <2>7. OwnModule'
    BY <1>1, <2>5 DEF LoadingInv, OwnModule
  <2>8. CachesSound'
    BY <1>1, <1>3, <2>5 DEF LoadingInv, CachesSound, Sound
  <2>9. NumbersSound'
    BY <1>1, <1>3, <2>5 DEF LoadingInv, NumbersSound
  <2>10. InitReturned'
    BY <1>1, <1>3, <2>5 DEF LoadingInv, InitReturned, m
  <2>11. DependenciesClosed'
    BY <1>3, <2>4 DEF LoadingInv, DependenciesClosed
  <2>12. QED
    BY <2>6, <2>7, <2>8, <2>9, <2>10, <2>11 DEF LoadingInv
<1>4. QED
  BY <1>2, <1>3 DEF Loading!InitModule, Loading!Goto, Loading!Major

\* The first half of an insertion: p remembers the chain it walked.
LEMMA StepWalk == ASSUME LoadingInv, NEW p \in Procs, Loading!Walk(p) PROVE LoadingInv'
<1>1. /\ UNCHANGED <<f_next_major, f_module_cache, f_module_map, module, todo, initialised>>
      /\ \/ /\ loader[p].pc = "cache"
            /\ loader' = [loader EXCEPT ![p].cache = f_module_cache, ![p].pc = "cacheLink"]
         \/ /\ loader[p].pc = "map"
            /\ loader' = [loader EXCEPT ![p].map = f_module_map, ![p].pc = "mapLink"]
  BY DEF Loading!Walk, Loading!At
<1>2. /\ \A q \in Procs \ {p} : loader'[q] = loader[q]
      /\ loader'[p].major = loader[p].major /\ loader[p].pc # "idle"
      /\ (loader'[p].pc = "cacheLink" /\ loader[p].pc = "cache") \/ loader'[p].pc = "mapLink"
      /\ loader'[p].cache \in {f_module_cache, loader[p].cache}
  BY <1>1 DEF LoadingInv, LoadingShape
<1>3. LoadingShape'
  <2> DEFINE Loaders == [pc : Places, major : Nat, cache : SUBSET (Names \X Nat),
                         map : SUBSET (Nat \ {0})]
  <2>1. /\ loader \in [Procs -> Loaders] /\ f_module_cache \in SUBSET (Names \X Nat)
        /\ f_module_map \in SUBSET (Nat \ {0}) /\ "cacheLink" \in Places /\ "mapLink" \in Places
    BY DEF LoadingInv, LoadingShape, Places
  <2>2. ASSUME loader' = [loader EXCEPT ![p].cache = f_module_cache, ![p].pc = "cacheLink"]
        PROVE  loader' \in [Procs -> Loaders]
    BY <2>1, <2>2
  <2>3. ASSUME loader' = [loader EXCEPT ![p].map = f_module_map, ![p].pc = "mapLink"]
        PROVE  loader' \in [Procs -> Loaders]
    BY <2>1, <2>3
  <2>4. loader' \in [Procs -> Loaders]
    BY <1>1, <2>2, <2>3
  <2>5. QED
    BY <1>1, <2>4 DEF LoadingInv, LoadingShape
<1>4. OwnModule'
  BY <1>1, <1>2 DEF LoadingInv, OwnModule
<1>5. CachesSound'
  BY <1>1, <1>2 DEF LoadingInv, CachesSound, Sound
<1>6. NumbersSound'
  BY <1>1, <1>2, SameNumbers DEF LoadingInv
<1>7. InitReturned'
  BY <1>1, <1>2 DEF LoadingInv, InitReturned
<1>8. QED
  BY <1>1, <1>3, <1>4, <1>5, <1>6, <1>7 DEF LoadingInv, DependenciesClosed

LEMMA StepLinkCache == ASSUME LoadingInv, NEW p \in Procs, Loading!LinkCache(p) PROVE LoadingInv'
<1> DEFINE n == loader[p].major
           entry == <<module[n].name, n>>
<1>1. /\ loader[p].pc = "cacheLink"
      /\ f_module_cache' \in {f_module_cache, f_module_cache \cup {entry},
                               loader[p].cache \cup {entry}}
      /\ loader' = [loader EXCEPT ![p].pc = "map"]
      /\ UNCHANGED <<f_next_major, f_module_map, module, todo, initialised>>
  BY DEF Loading!LinkCache, Loading!At, Loading!Goto, Loading!Major
<1>2. entry \in Names \X Nat /\ Sound(entry)
  BY <1>1 DEF LoadingInv, OwnModule, InitReturned, LoadingShape, Sound
<1> HIDE DEF entry
<1>3. /\ \A q \in Procs \ {p} : loader'[q] = loader[q]
      /\ loader'[p].pc = "map" /\ loader'[p].major = n /\ loader'[p].cache = loader[p].cache
  BY <1>1 DEF LoadingInv, LoadingShape
<1>4. LoadingShape'
  <2>1. f_module_cache' \subseteq Names \X Nat
    BY <1>1, <1>2 DEF LoadingInv, LoadingShape
  <2>2. QED
    BY <1>1, <2>1 DEF LoadingInv, LoadingShape, Places
<1>5. OwnModule'
  BY <1>1, <1>3 DEF LoadingInv, OwnModule
<1>6. CachesSound'
  <2>1. \A c \in f_module_cache' : Sound(c)
    BY <1>1, <1>2 DEF LoadingInv, CachesSound
  <2>2. QED
    BY <1>1, <1>3, <2>1 DEF LoadingInv, CachesSound, Sound
<1>7. NumbersSound'
  BY <1>1, <1>3, SameNumbers DEF LoadingInv
<1>8. InitReturned'
  BY <1>1, <1>3 DEF LoadingInv, InitReturned
<1>9. QED
  BY <1>1, <1>4, <1>5, <1>6, <1>7, <1>8 DEF LoadingInv, DependenciesClosed

LEMMA StepLinkMap == ASSUME LoadingInv, NEW p \in Procs, Loading!LinkMap(p) PROVE LoadingInv'
<1> DEFINE n == loader[p].major
<1>1. /\ loader[p].pc = "mapLink"
      /\ f_module_map' \in {f_module_map \cup {n}, loader[p].map \cup {n}}
      /\ loader' = [loader EXCEPT ![p] = [pc |-> "idle", major |-> 0, cache |-> {}, map |-> {}]]
      /\ UNCHANGED <<f_next_major, f_module_cache, module, todo, initialised>>
  BY DEF Loading!LinkMap, Loading!At, Loading!Return, Loading!Major, Loading!Resting
<1>2. n \in Nat \ {0}
  BY <1>1 DEF LoadingInv, OwnModule
<1>3. /\ \A q \in Procs \ {p} : loader'[q] = loader[q]
      /\ loader'[p].pc = "idle" /\ loader'[p].cache = {}
  BY <1>1 DEF LoadingInv, LoadingShape
<1>4. LoadingShape'
  <2>1. f_module_map' \subseteq Nat \ {0}
    BY <1>1, <1>2 DEF LoadingInv, LoadingShape
  <2>2. loader' \in [Procs -> [pc : Places, major : Nat, cache : SUBSET (Names \X Nat),
                               map : SUBSET (Nat \ {0})]]
    <3> DEFINE Loaders == [pc : Places, major : Nat, cache : SUBSET (Names \X Nat),
                           map : SUBSET (Nat \ {0})]
               rest == [pc |-> "idle", major |-> 0, cache |-> {}, map |-> {}]
    <3>1. rest \in Loaders
      BY DEF Places
    <3>2. loader \in [Procs -> Loaders] /\ loader' = [loader EXCEPT ![p] = rest]
      BY <1>1 DEF LoadingInv, LoadingShape
    <3> HIDE DEF Loaders, rest
    <3>3. loader' \in [Procs -> Loaders]
      BY <3>1, <3>2
    <3>4. QED
      BY <3>3 DEF Loaders
  <2>3. QED
    BY <1>1, <2>1, <2>2 DEF LoadingInv, LoadingShape
<1>5. OwnModule'
  BY <1>1, <1>3 DEF LoadingInv, OwnModule
<1>6. CachesSound'
  BY <1>1, <1>3 DEF LoadingInv, CachesSound, Sound
<1>7. NumbersSound'
  BY <1>1, <1>3, SameNumbers DEF LoadingInv
<1>8. InitReturned'
  BY <1>1, <1>3 DEF LoadingInv, InitReturned
<1>9. QED
  BY <1>1, <1>4, <1>5, <1>6, <1>7, <1>8 DEF LoadingInv, DependenciesClosed

\* Load() and link() only move a load on or end it.
LEMMA StepLoad ==
    ASSUME LoadingInv, NEW p \in Procs, Loading!Load(p) \/ Loading!Link(p) PROVE LoadingInv'
<1>1. UNCHANGED <<f_next_major, f_module_cache, f_module_map, module, todo, initialised>>
  BY DEF Loading!Load, Loading!Link
<1>2. CASE Loading!Return(p) /\ loader[p].pc \in {"load", "link"}
  BY <1>1, <1>2, StepLoader DEF Places
<1>3. CASE loader' = [loader EXCEPT ![p].pc = "parse"] /\ loader[p].pc = "load"
  BY <1>1, <1>3, StepLoader DEF Places
<1>4. CASE loader' = [loader EXCEPT ![p].pc = "init"] /\ loader[p].pc = "link"
  BY <1>1, <1>4, StepLoader DEF Places
<1>5. CASE loader' = [loader EXCEPT ![p].pc = "faulted"] /\ loader[p].pc = "link"
  BY <1>1, <1>5, StepLoader DEF Places
<1>6. QED
  BY <1>2, <1>3, <1>4, <1>5 DEF Loading!Load, Loading!Link, Loading!Goto, Loading!At

\* A module is initialised only after every module its header names, and the cache names
\* initialised modules under their own numbers, however the loads of any number of modprobe
\* processes interleave, fail, fault or lose each other's entries (ModuleManager::load_module,
\* Module::preinit).
THEOREM DependenciesAreInitialised ==
    ASSUME NEW lists \in SUBSET Seq(Names)
    PROVE  Loading!Spec(lists) => []DependenciesInitialised
<1> USE BootAssumption
<1>1. LoadingInv /\ [Loading!Next]_(Loading!moduleVars) => LoadingInv'
  <2> SUFFICES ASSUME LoadingInv, [Loading!Next]_(Loading!moduleVars) PROVE LoadingInv'
    OBVIOUS
  <2>1. ASSUME NEW p \in Procs, Loading!New(p) PROVE LoadingInv'
    BY <2>1, StepNew
  <2>2. ASSUME NEW p \in Procs, Loading!Load(p) \/ Loading!Link(p) PROVE LoadingInv'
    BY <2>2, StepLoad
  <2>3. ASSUME NEW p \in Procs, Loading!ParseHeader(p) PROVE LoadingInv'
    BY <2>3, StepParseHeader
  <2>4. ASSUME NEW p \in Procs, Loading!InitModule(p) PROVE LoadingInv'
    BY <2>4, StepInitModule
  <2>5. ASSUME NEW p \in Procs, Loading!Walk(p) PROVE LoadingInv'
    BY <2>5, StepWalk
  <2>6. ASSUME NEW p \in Procs, Loading!LinkCache(p) PROVE LoadingInv'
    BY <2>6, StepLinkCache
  <2>7. ASSUME NEW p \in Procs, Loading!LinkMap(p) PROVE LoadingInv'
    BY <2>7, StepLinkMap
  <2>8. CASE UNCHANGED Loading!moduleVars
    BY <2>8 DEF Loading!moduleVars, LoadingInv, LoadingShape, OwnModule, CachesSound, Sound,
        NumbersSound, InitReturned, DependenciesClosed
  <2>9. QED
    BY <2>1, <2>2, <2>3, <2>4, <2>5, <2>6, <2>7, <2>8 DEF Loading!Next
<1>2. LoadingInv => DependenciesInitialised
  BY DEF DependenciesInitialised, LoadingInv, DependenciesClosed, CachesSound, Sound, Loading!DependenciesInitialised,
        Loading!ToSet
<1>3. QED
  BY <1>1, <1>2, InitLoading, PTL DEF Loading!Spec

-----------------------------------------------------------------------------
(* Handler lists.  As long as no two changes overlap there is a rank, the  *)
(* order of registration, along which every next pointer climbs, and no    *)
(* pointer of a listed entry climbs past another listed one.  The loop is  *)
(* at one of a set of entries that it cannot leave, some of which may have *)
(* been taken out under it; their pointers climb past no stable handler.   *)

Clock == List!Clock
Null == List!Null
Handlers == List!Handlers

Linked(x) == x = Clock \/ (x \in Registrars /\ reg[x].pc \in {"in", "remove"})
Entered(x) == x = Clock \/ (x \in Registrars /\ reg[x].pc \in {"in", "remove", "gone"})

ListShape ==
    /\ head = Clock
    /\ next \in [Handlers -> Handlers \cup {Null}]
    /\ reg \in [Registrars -> [pc : {"out", "append", "in", "remove", "gone"},
                               at : Handlers \cup {Null}, prev : Handlers \cup {Null}]]
    /\ called \in [Handlers -> {0, 1}]
    /\ stable \subseteq Handlers
    /\ \A t, u \in Registrars :
          reg[t].pc \in {"append", "remove"} /\ reg[u].pc \in {"append", "remove"} => t = u

\* Ranks below n, one for each entry that has been listed, the clock's the lowest.
Ranked(r, n) ==
    /\ r[Clock] = 0 /\ 0 < n
    /\ \A x \in Handlers : Entered(x) => r[x] < n
    /\ \A x, y \in Handlers : Entered(x) /\ Entered(y) /\ r[x] = r[y] => x = y

Climbs(x, h, r) == next[x] # Null /\ r[next[x]] <= r[h]

Chained(r) ==
    \A x \in Handlers : Linked(x) =>
        /\ next[x] # Null => Linked(next[x]) /\ r[x] < r[next[x]]
        /\ \A h \in Handlers : Linked(h) /\ r[x] < r[h] => Climbs(x, h, r)

\* What a registrar in the middle of a change has found.
Sought(r) ==
    \A t \in Registrars :
        /\ reg[t].pc = "append" => Linked(reg[t].at) /\ next[t] = Null
        /\ reg[t].pc = "remove" =>
              /\ Linked(reg[t].at) /\ r[reg[t].at] <= r[t]
              /\ reg[t].prev = Null => reg[t].at = Clock
              /\ reg[t].prev # Null => Linked(reg[t].prev) /\ next[reg[t].prev] = reg[t].at

\* The loop stays in W.
Walked(r, W) ==
    /\ at \in W \cup {Null}
    /\ \A x \in W :
        /\ Entered(x) /\ next[x] \in W \cup {Null}
        /\ next[x] # Null => r[x] < r[next[x]]
        /\ \A h \in stable : r[x] < r[h] => Climbs(x, h, r)

\* The loop has called what is behind it and will call the stable handlers ahead.
Counted(r) ==
    /\ \A h \in stable : h = Clock \/ (h \in Registrars /\ reg[h].pc = "in")
    /\ \A h \in stable : called[h] = 0 => at # Null /\ r[at] <= r[h]
    /\ \A h \in Handlers : called[h] = 1 => Entered(h) /\ (at # Null => r[h] < r[at])

Clocked ==
    /\ interrupts \in Nat /\ uptime \in Nat /\ current_time \in Nat /\ time_ms \in Nat
    /\ time_ms < MsPerSecond
    /\ interrupts > 0 => Clock \in stable
    /\ uptime = (current_time * MsPerSecond) + time_ms
    /\ uptime + (IF at # Null /\ called[Clock] = 0 THEN 1 ELSE 0) = interrupts

ListGood(r, n, W) ==
    Ranked(r, n) /\ Chained(r) /\ Sought(r) /\ Walked(r, W) /\ Counted(r)

ListInv ==
    raced \/ /\ ListShape /\ Clocked
             /\ \E r \in [Handlers -> Nat], n \in Nat, W \in SUBSET Handlers : ListGood(r, n, W)

\* The invariant with its witnesses.
ListAt(r, n, W) ==
    /\ ListShape /\ Clocked /\ ListGood(r, n, W)
    /\ r \in [Handlers -> Nat] /\ n \in Nat /\ W \in SUBSET Handlers

LEMMA HandlerFacts ==
    ASSUME HandlerAssumption
    PROVE  /\ Handlers = Registrars \cup {Clock} /\ Clock \in Handlers /\ Null \notin Handlers
           /\ Clock \notin Registrars /\ Clock # Null
BY DEF HandlerAssumption, Handlers, Clock, Null, List!Handlers, List!Clock, List!Null

LEMMA InitList == ASSUME HandlerAssumption PROVE List!Init => ListInv
<1> SUFFICES ASSUME List!Init PROVE ListInv
  OBVIOUS
<1>1. /\ head = Clock /\ next = [h \in Handlers |-> Null]
      /\ reg = [t \in Registrars |-> [pc |-> "out", at |-> Null, prev |-> Null]]
      /\ at = Null /\ called = [h \in Handlers |-> 0] /\ stable = {}
      /\ interrupts = 0 /\ time_ms = 0 /\ current_time = 0 /\ uptime = 0
  BY DEF List!Init, Handlers, Clock, Null
<1>2. ListShape
  BY <1>1, HandlerFacts DEF ListShape
<1>3. Clocked
  <2>1. MsPerSecond \in Nat /\ 0 < MsPerSecond
    BY DEF HandlerAssumption
  <2>2. QED
    BY <1>1, <2>1 DEF Clocked
<1> DEFINE r == [h \in Handlers |-> 0]
<1>4. \A x \in Handlers : (Linked(x) <=> x = Clock) /\ (Entered(x) <=> x = Clock)
  BY <1>1 DEF Linked, Entered
<1>5. Ranked(r, 1) /\ Chained(r)
  BY <1>1, <1>4, HandlerFacts DEF Ranked, Chained
<1>6. Sought(r) /\ Walked(r, {}) /\ Counted(r)
  BY <1>1, HandlerFacts DEF Sought, Walked, Counted
<1>7. r \in [Handlers -> Nat]
  OBVIOUS
<1> HIDE DEF r
<1>8. QED
  BY <1>2, <1>3, <1>5, <1>6, <1>7 DEF ListInv, ListGood

\* A step that changes no pointer of an entry that has been listed.
LEMMA SameList ==
    ASSUME HandlerAssumption, NEW r, NEW n, NEW W, ListAt(r, n, W), ListShape', Sought(r)',
           UNCHANGED <<at, called, interrupts, time_ms, current_time, uptime>>,
           \A x \in Handlers : (Linked(x)' <=> Linked(x)) /\ (Entered(x)' <=> Entered(x)),
           \A x \in Handlers : Entered(x) => next'[x] = next[x],
           stable' \subseteq stable, Clock \in stable => Clock \in stable',
           \A h \in stable' : h = Clock \/ (h \in Registrars /\ reg'[h].pc = "in")
    PROVE  ListAt(r, n, W)'
<1>1. /\ r \in [Handlers -> Nat] /\ n \in Nat /\ W \in SUBSET Handlers
      /\ Ranked(r, n) /\ Chained(r) /\ Walked(r, W) /\ Counted(r) /\ ListShape /\ Clocked
  BY DEF ListAt, ListGood
<1>2. \A x \in Handlers : Linked(x) => Entered(x)
  BY DEF Linked, Entered
<1>3. Ranked(r, n)'
  BY <1>1 DEF Ranked
<1>4. Chained(r)'
  <2>1. ASSUME NEW x \in Handlers, Linked(x)'
        PROVE  Linked(x) /\ next'[x] = next[x] /\ next[x] \in Handlers \cup {Null}
    BY <1>1, <1>2, <2>1 DEF ListShape
  <2>2. ASSUME NEW x \in Handlers, Linked(x)', next'[x] # Null
        PROVE  Linked(next[x])' /\ r[x] < r[next'[x]]
    BY <1>1, <2>1, <2>2 DEF Chained
  <2>3. ASSUME NEW x \in Handlers, Linked(x)', NEW h \in Handlers, Linked(h)', r[x] < r[h]
        PROVE  Climbs(x, h, r)'
    BY <1>1, <2>1, <2>3 DEF Chained, Climbs
  <2>4. QED
    BY <2>2, <2>3 DEF Chained
<1>5. Walked(r, W)'
  BY <1>1 DEF Walked, Climbs
<1>6. Counted(r)'
  BY <1>1 DEF Counted
<1>7. Clocked'
  BY <1>1 DEF Clocked
<1>8. QED
  BY <1>1, <1>3, <1>4, <1>5, <1>6, <1>7 DEF ListAt, ListGood

LEMMA StepRegister ==
    ASSUME HandlerAssumption, NEW r, NEW n, NEW W, ListAt(r, n, W), ~raced',
           NEW t \in Registrars, List!Register(t)
    PROVE  ListAt(r, n, W)'
<1> DEFINE g == [pc |-> "append", at |-> Clock, prev |-> Null]
<1>1. ListShape
  BY DEF ListAt
<1>2. /\ reg[t].pc = "out" /\ reg' = [reg EXCEPT ![t] = g]
      /\ next' = [next EXCEPT ![t] = Null]
      /\ UNCHANGED <<head, at, called, stable, interrupts, time_ms, current_time, uptime>>
      /\ \A u \in Registrars \ {t} : reg[u].pc \in {"out", "in", "gone"}
  BY <1>1 DEF List!Register, List!Begin, List!Busy, ListShape, Null
<1>3. /\ \A u \in Registrars : reg'[u] = IF u = t THEN g ELSE reg[u]
      /\ \A x \in Handlers : next'[x] = IF x = t THEN Null ELSE next[x]
  BY <1>1, <1>2, HandlerFacts DEF ListShape
<1>4. g \in [pc : {"out", "append", "in", "remove", "gone"},
             at : Handlers \cup {Null}, prev : Handlers \cup {Null}]
      /\ g.pc = "append" /\ g.at = Clock
  BY HandlerFacts
<1> HIDE DEF g
<1>5. ListShape'
  <2>1. reg' \in [Registrars -> [pc : {"out", "append", "in", "remove", "gone"},
                                 at : Handlers \cup {Null}, prev : Handlers \cup {Null}]]
    BY <1>1, <1>2, <1>4 DEF ListShape
  <2>2. next' \in [Handlers -> Handlers \cup {Null}]
    BY <1>1, <1>2 DEF ListShape
  <2>3. QED
    BY <1>1, <1>2, <1>3, <2>1, <2>2 DEF ListShape
<1>6. \A x : (Linked(x)' <=> Linked(x)) /\ (Entered(x)' <=> Entered(x))
  BY <1>2, <1>3, <1>4 DEF Linked, Entered
<1>7. \A x \in Handlers : Entered(x) => next'[x] = next[x]
  BY <1>2, <1>3, HandlerFacts DEF Entered
<1>8. Sought(r)'
  <2> SUFFICES ASSUME NEW u \in Registrars, reg'[u].pc \in {"append", "remove"}
               PROVE  u = t /\ reg'[u].pc = "append" /\ Linked(reg[u].at)' /\ next'[u] = Null
    BY DEF Sought
  <2>1. u = t
    BY <1>2, <1>3
  <2>2. QED
    BY <1>3, <1>4, <1>6, <2>1, HandlerFacts DEF Linked
<1>9. \A h \in stable : h = Clock \/ (h \in Registrars /\ reg'[h].pc = "in")
  BY <1>2, <1>3 DEF ListAt, ListGood, Counted
<1>10. QED
  BY <1>2, <1>5, <1>6, <1>7, <1>8, <1>9, SameList

LEMMA StepUnregister ==
    ASSUME HandlerAssumption, NEW r, NEW n, NEW W, ListAt(r, n, W), ~raced',
           NEW t \in Registrars, List!Unregister(t)
    PROVE  ListAt(r, n, W)'
<1> DEFINE g == [pc |-> "remove", at |-> Clock, prev |-> Null]
<1>1. ListShape /\ r \in [Handlers -> Nat] /\ Ranked(r, n)
  BY DEF ListAt, ListGood
<1>2. /\ reg[t].pc = "in" /\ reg' = [reg EXCEPT ![t] = g] /\ stable' = stable \ {t}
      /\ UNCHANGED <<head, next, at, called, interrupts, time_ms, current_time, uptime>>
      /\ \A u \in Registrars \ {t} : reg[u].pc \in {"out", "in", "gone"}
  BY <1>1 DEF List!Unregister, List!Begin, List!Busy, ListShape, Null
<1>3. \A u \in Registrars : reg'[u] = IF u = t THEN g ELSE reg[u]
  BY <1>1, <1>2 DEF ListShape
<1>4. g \in [pc : {"out", "append", "in", "remove", "gone"},
             at : Handlers \cup {Null}, prev : Handlers \cup {Null}]
      /\ g.pc = "remove" /\ g.at = Clock /\ g.prev = Null
  BY HandlerFacts
<1> HIDE DEF g
<1>5. ListShape'
  <2>1. reg' \in [Registrars -> [pc : {"out", "append", "in", "remove", "gone"},
                                 at : Handlers \cup {Null}, prev : Handlers \cup {Null}]]
    BY <1>1, <1>2, <1>4 DEF ListShape
  <2>2. QED
    BY <1>1, <1>2, <1>3, <2>1 DEF ListShape
<1>6. \A x : (Linked(x)' <=> Linked(x)) /\ (Entered(x)' <=> Entered(x))
  BY <1>2, <1>3, <1>4 DEF Linked, Entered
<1>7. Sought(r)'
  <2> SUFFICES ASSUME NEW u \in Registrars, reg'[u].pc \in {"append", "remove"}
               PROVE  /\ u = t /\ reg'[u].pc = "remove" /\ Linked(reg[u].at)'
                      /\ r[reg'[u].at] <= r[u] /\ reg'[u].prev = Null /\ reg'[u].at = Clock
    BY DEF Sought
  <2>1. u = t
    BY <1>2, <1>3
  <2>2. r[Clock] <= r[t]
    BY <1>1, HandlerFacts DEF Ranked
  <2>3. QED
    BY <1>3, <1>4, <1>6, <2>1, <2>2, HandlerFacts DEF Linked
<1>8. \A h \in stable' : h = Clock \/ (h \in Registrars /\ reg'[h].pc = "in")
  BY <1>2, <1>3 DEF ListAt, ListGood, Counted
<1>9. Clock \in stable => Clock \in stable'
  BY <1>2, HandlerFacts
<1>10. QED
  BY <1>2, <1>5, <1>6, <1>7, <1>8, <1>9, SameList

\* One step along the list, of a registration or of a removal.
LEMMA StepSeek ==
    ASSUME HandlerAssumption, NEW r, NEW n, NEW W, ListAt(r, n, W),
           NEW t \in Registrars, List!ToEnd(t) \/ List!Search(t)
    PROVE  ListAt(r, n, W)'
<1> DEFINE a == reg[t].at
<1>1. /\ ListShape /\ r \in [Handlers -> Nat] /\ Ranked(r, n) /\ Chained(r) /\ Sought(r)
  BY DEF ListAt, ListGood
<1>2. /\ reg[t].pc \in {"append", "remove"} /\ a \in Handlers /\ Linked(a)
      /\ reg[t].pc = "append" => next[a] # Null
      /\ reg[t].pc = "remove" => a # t /\ r[a] <= r[t]
      /\ UNCHANGED <<head, next, at, called, stable, interrupts, time_ms, current_time, uptime>>
  <2>1. CASE List!ToEnd(t)
    BY <1>1, <2>1, HandlerFacts DEF List!ToEnd, Sought, Linked, Null
  <2>2. CASE List!Search(t)
    BY <1>1, <2>2, HandlerFacts DEF List!Search, Sought, Linked
  <2>3. QED
    BY <2>1, <2>2
<1>3. /\ \A u \in Registrars \ {t} : reg'[u] = reg[u]
      /\ reg'[t].pc = reg[t].pc /\ reg'[t].at = next[a]
      /\ reg[t].pc = "remove" => reg'[t].prev = a
      /\ reg' \in [Registrars -> [pc : {"out", "append", "in", "remove", "gone"},
                                  at : Handlers \cup {Null}, prev : Handlers \cup {Null}]]
  <2>1. next[a] \in Handlers \cup {Null}
    BY <1>1, <1>2 DEF ListShape
  <2>2. CASE List!ToEnd(t)
    <3>1. reg[t].pc = "append" /\ reg' = [reg EXCEPT ![t].at = next[a]]
      BY <2>2 DEF List!ToEnd
    <3>2. QED
      BY <1>1, <2>1, <3>1 DEF ListShape
  <2>3. CASE List!Search(t)
    <3>1. reg' = [reg EXCEPT ![t].at = next[a], ![t].prev = a]
      BY <2>3 DEF List!Search
    <3>2. QED
      BY <1>1, <1>2, <2>1, <3>1 DEF ListShape
  <2>4. QED
    BY <2>2, <2>3
<1>4. ListShape'
  BY <1>1, <1>2, <1>3 DEF ListShape
<1>5. \A x : (Linked(x)' <=> Linked(x)) /\ (Entered(x)' <=> Entered(x))
  BY <1>2, <1>3 DEF Linked, Entered
<1>6. reg[t].pc = "remove" => Climbs(a, t, r)
  <2> SUFFICES ASSUME reg[t].pc = "remove" PROVE Climbs(a, t, r)
    OBVIOUS
  <2>1. t \in Handlers /\ Linked(t)
    BY HandlerFacts DEF Linked
  <2>2. r[a] # r[t]
    BY <1>1, <1>2, <2>1 DEF Ranked, Linked, Entered
  <2>3. r[a] < r[t]
    BY <1>1, <1>2, <2>1, <2>2
  <2>4. QED
    BY <1>1, <1>2, <2>1, <2>3 DEF Chained
<1>7. next[a] # Null /\ Linked(next[a])
  BY <1>1, <1>2, <1>6 DEF Chained, Climbs
<1>8. Sought(r)'
  <2> SUFFICES ASSUME NEW u \in Registrars
               PROVE  /\ reg'[u].pc = "append" => Linked(reg[u].at)' /\ next'[u] = Null
                      /\ reg'[u].pc = "remove" =>
                            /\ Linked(reg[u].at)' /\ r[reg'[u].at] <= r[u]
                            /\ reg'[u].prev = Null => reg'[u].at = Clock
                            /\ reg'[u].prev # Null =>
                                  Linked(reg[u].prev)' /\ next'[reg'[u].prev] = reg'[u].at
    BY DEF Sought
  <2>1. CASE u # t
    <3>1. reg[u].pc \notin {"append", "remove"}
      BY <1>1, <1>2, <2>1 DEF ListShape
    <3>2. QED
      BY <1>3, <2>1, <3>1
  <2>2. CASE u = t /\ reg[t].pc = "append"
    BY <1>1, <1>2, <1>3, <1>5, <1>7, <2>2 DEF Sought
  <2>3. CASE u = t /\ reg[t].pc = "remove"
    <3>1. a # Null /\ r[next[a]] <= r[t]
      BY <1>2, <1>6, <2>3, HandlerFacts DEF Climbs
    <3>2. QED
      BY <1>2, <1>3, <1>5, <1>7, <2>3, <3>1
  <2>4. QED
    BY <1>2, <2>1, <2>2, <2>3
<1>9. \A h \in stable : h = Clock \/ (h \in Registrars /\ reg'[h].pc = "in")
  BY <1>2, <1>3 DEF ListAt, ListGood, Counted
<1>10. QED
  BY <1>2, <1>4, <1>5, <1>8, <1>9, SameList

\* A new entry at the end gets the highest rank; the loop will come to it if it can still
\* come to the end.
LEMMA StepLinkEntry ==
    ASSUME HandlerAssumption, NEW r, NEW n, NEW W, ListAt(r, n, W),
           NEW t \in Registrars, List!Link(t)
    PROVE  \E V \in SUBSET Handlers : ListAt([r EXCEPT ![t] = n], n + 1, V)'
<1> DEFINE a == reg[t].at
           q == [r EXCEPT ![t] = n]
<1>1. /\ ListShape /\ r \in [Handlers -> Nat] /\ n \in Nat /\ W \in SUBSET Handlers
      /\ Ranked(r, n) /\ Chained(r) /\ Sought(r) /\ Walked(r, W) /\ Counted(r) /\ Clocked
  BY DEF ListAt, ListGood
<1>2. /\ reg[t].pc = "append" /\ Linked(a) /\ a \in Handlers /\ a # Null /\ next[t] = Null
      /\ t \in Handlers /\ a # t /\ t # Clock /\ t # Null
  BY <1>1, HandlerFacts DEF List!Link, Sought, Linked
<1>0. PICK V \in SUBSET Handlers : V = IF a \in W THEN W \cup {t} ELSE W
  BY <1>1, <1>2
<1>3. /\ next[a] = Null /\ next' = [next EXCEPT ![a] = t]
      /\ reg' = [reg EXCEPT ![t].pc = "in"]
      /\ UNCHANGED <<head, at, called, stable, interrupts, time_ms, current_time, uptime>>
  BY <1>2 DEF List!Link, Null
<1>4. /\ \A u \in Registrars \ {t} : reg'[u] = reg[u] /\ reg[u].pc \notin {"append", "remove"}
      /\ reg'[t].pc = "in"
      /\ \A x \in Handlers : next'[x] = IF x = a THEN t ELSE next[x]
  BY <1>1, <1>2, <1>3 DEF ListShape
<1>5. ListShape'
  <2>1. reg' \in [Registrars -> [pc : {"out", "append", "in", "remove", "gone"},
                                 at : Handlers \cup {Null}, prev : Handlers \cup {Null}]]
    BY <1>1, <1>3 DEF ListShape
  <2>2. next' \in [Handlers -> Handlers \cup {Null}]
    BY <1>1, <1>2, <1>3 DEF ListShape
  <2>3. QED
    BY <1>1, <1>3, <1>4, <2>1, <2>2 DEF ListShape
<1>6. /\ ~Entered(t) /\ ~Linked(t)
      /\ \A x : (Linked(x)' <=> Linked(x) \/ x = t) /\ (Entered(x)' <=> Entered(x) \/ x = t)
      /\ \A x : Linked(x) => Entered(x)
  BY <1>2, <1>3, <1>4 DEF Linked, Entered
<1>7. /\ q \in [Handlers -> Nat] /\ q[t] = n
      /\ \A x \in Handlers : Entered(x) => q[x] = r[x] /\ q[x] < n /\ x # t
  BY <1>1, <1>2, <1>6 DEF Ranked
<1> HIDE DEF q
<1>8. Ranked(q, n + 1)'
  <2>1. q[Clock] = 0
    BY <1>1, <1>7, HandlerFacts DEF Ranked, Entered
  <2>2. \A x \in Handlers : Entered(x)' => q[x] < n + 1
    BY <1>1, <1>6, <1>7
  <2>3. \A x, y \in Handlers : Entered(x)' /\ Entered(y)' /\ q[x] = q[y] => x = y
    BY <1>1, <1>6, <1>7 DEF Ranked
  <2>4. QED
    BY <1>1, <2>1, <2>2, <2>3 DEF Ranked
<1>9. \A x \in Handlers : Linked(x) /\ x # a => r[x] < r[a] /\ next[x] # Null /\ next[x] \in Handlers
  <2> SUFFICES ASSUME NEW x \in Handlers, Linked(x), x # a
               PROVE  r[x] < r[a] /\ next[x] # Null /\ next[x] \in Handlers
    OBVIOUS
  <2>1. r[x] # r[a]
    BY <1>1, <1>2, <1>6 DEF Ranked
  <2>2. ~(r[a] < r[x])
    BY <1>1, <1>2, <1>3 DEF Chained, Climbs
  <2>3. r[x] < r[a]
    BY <1>1, <1>2, <2>1, <2>2
  <2>4. QED
    BY <1>1, <1>2, <2>3 DEF Chained, Climbs, ListShape
<1>10. Chained(q)'
  <2>1. ASSUME NEW x \in Handlers, Linked(x)', next'[x] # Null
        PROVE  Linked(next[x])' /\ q[x] < q[next'[x]]
    <3>1. CASE x = t
      BY <1>2, <1>4, <2>1, <3>1
    <3>2. CASE x = a
      BY <1>2, <1>4, <1>6, <1>7, <3>2
    <3>3. CASE x # t /\ x # a
      <4>1. Linked(x) /\ next'[x] = next[x] /\ next[x] \in Handlers /\ next[x] # Null
        BY <1>4, <1>6, <1>9, <2>1, <3>3
      <4>2. Linked(next[x]) /\ r[x] < r[next[x]]
        BY <1>1, <4>1 DEF Chained
      <4>3. QED
        BY <1>6, <1>7, <4>1, <4>2
    <3>4. QED
      BY <3>1, <3>2, <3>3
  <2>2. ASSUME NEW x \in Handlers, Linked(x)', NEW h \in Handlers, Linked(h)', q[x] < q[h]
        PROVE  next'[x] # Null /\ q[next'[x]] <= q[h]
    <3>0. x # t
      <4>1. ASSUME x = t PROVE FALSE
        <5>1. q[x] = n /\ q[h] < n + 1 /\ q[h] \in Nat
          BY <1>1, <1>6, <1>7, <2>2, <4>1
        <5>2. QED
          BY <1>1, <2>2, <5>1
      <4>2. QED
        BY <4>1
    <3>1. CASE x = a
      <4>1. h = t
        BY <1>6, <1>7, <1>9, <2>2, <3>1, <1>1, <1>2
      <4>2. QED
        BY <1>1, <1>2, <1>4, <1>7, <3>1, <4>1
    <3>2. CASE x # a
      <4>1. Linked(x) /\ next'[x] = next[x] /\ next[x] \in Handlers /\ next[x] # Null
        BY <1>4, <1>6, <1>9, <2>2, <3>0, <3>2
      <4>2. Linked(next[x]) /\ q[next[x]] = r[next[x]] /\ q[next[x]] < n
        BY <1>1, <1>6, <1>7, <4>1 DEF Chained
      <4>3. CASE h = t
        BY <1>1, <1>7, <4>1, <4>2, <4>3
      <4>4. CASE h # t
        <5>1. Linked(h) /\ r[x] < r[h] /\ q[h] = r[h]
          BY <1>6, <1>7, <2>2, <4>1, <4>4
        <5>2. r[next[x]] <= r[h]
          BY <1>1, <4>1, <5>1 DEF Chained, Climbs
        <5>3. QED
          BY <4>1, <4>2, <5>1, <5>2
      <4>5. QED
        BY <4>3, <4>4
    <3>3. QED
      BY <3>1, <3>2
  <2>3. QED
    BY <2>1, <2>2 DEF Chained, Climbs
<1>11. Sought(q)'
  BY <1>3, <1>4 DEF Sought
<1>12. stable \subseteq Handlers /\ t \notin stable /\ \A h \in stable : Entered(h)
  BY <1>1, <1>2 DEF Counted, Entered, ListShape
<1>13. at # Null => at \in Handlers /\ Entered(at)
  BY <1>1 DEF Walked
<1>14. Walked(q, V)'
  <2>1. at' \in V \cup {Null}
    BY <1>0, <1>1, <1>3 DEF Walked
  <2>2. ASSUME NEW x \in V
        PROVE  /\ Entered(x)' /\ next'[x] \in V \cup {Null}
               /\ next'[x] # Null => q[x] < q[next'[x]]
               /\ \A h \in stable' : q[x] < q[h] => next'[x] # Null /\ q[next'[x]] <= q[h]
    <3>1. CASE x = t
      <4>1. next'[x] = Null /\ Entered(x)'
        BY <1>2, <1>4, <1>6, <3>1
      <4>2. \A h \in stable : ~(q[x] < q[h])
        BY <1>1, <1>7, <1>12, <3>1
      <4>3. QED
        BY <1>3, <4>1, <4>2
    <3>2. CASE x # t /\ x = a
      <4>1. x \in W /\ t \in V /\ Entered(x) /\ next'[x] = t
        BY <1>0, <1>2, <1>4, <1>6, <3>2
      <4>2. \A h \in stable : ~(r[x] < r[h])
        BY <1>1, <1>3, <3>2, <4>1 DEF Walked, Climbs
      <4>3. \A h \in stable : ~(q[x] < q[h])
        BY <1>7, <1>12, <4>1, <4>2, <1>1
      <4>4. QED
        BY <1>1, <1>2, <1>3, <1>6, <1>7, <4>1, <4>3
    <3>3. CASE x # t /\ x # a
      <4>1. x \in W /\ x \in Handlers /\ Entered(x) /\ next'[x] = next[x]
            /\ next[x] \in W \cup {Null}
        BY <1>0, <1>1, <1>4, <3>3 DEF Walked
      <4>2. next[x] # Null => next[x] \in Handlers /\ Entered(next[x]) /\ r[x] < r[next[x]]
        BY <1>1, <4>1 DEF Walked
      <4>3. \A h \in stable : r[x] < r[h] => next[x] # Null /\ r[next[x]] <= r[h]
        BY <1>1, <4>1 DEF Walked, Climbs
      <4>4. next[x] # Null => q[x] = r[x] /\ q[next[x]] = r[next[x]]
        BY <1>7, <4>1, <4>2
      <4>5. \A h \in stable : q[h] = r[h]
        BY <1>7, <1>12
      <4>6. q[x] = r[x] /\ W \subseteq V
        BY <1>0, <1>7, <4>1
      <4>7. QED
        BY <1>3, <1>6, <4>1, <4>2, <4>3, <4>4, <4>5, <4>6
    <3>4. QED
      BY <3>1, <3>2, <3>3
  <2>3. QED
    BY <2>1, <2>2 DEF Walked, Climbs
<1>15. Counted(q)'
  <2>1. \A h \in stable : h = Clock \/ (h \in Registrars /\ reg'[h].pc = "in")
    BY <1>1, <1>4, <1>12 DEF Counted
  <2>2. \A h \in stable : called[h] = 0 => at # Null /\ q[at] <= q[h]
    BY <1>1, <1>7, <1>12, <1>13 DEF Counted
  <2>3. \A h \in Handlers : called[h] = 1 => Entered(h)' /\ (at # Null => q[h] < q[at])
    BY <1>1, <1>6, <1>7, <1>13 DEF Counted
  <2>4. QED
    BY <1>3, <2>1, <2>2, <2>3 DEF Counted
<1>16. Clocked'
  BY <1>1, <1>3 DEF Clocked
<1>17. n + 1 \in Nat
  BY <1>1
<1>18. ListAt(q, n + 1, V)'
  BY <1>5, <1>7, <1>8, <1>10, <1>11, <1>14, <1>15, <1>16, <1>17 DEF ListAt, ListGood
<1>19. QED
  BY <1>18 DEF q

\* The entry's predecessor is led past it; the entry itself still leads on.
LEMMA StepUnlink ==
    ASSUME HandlerAssumption, NEW r, NEW n, NEW W, ListAt(r, n, W),
           NEW t \in Registrars, List!Unlink(t)
    PROVE  ListAt(r, n, W)'
<1> DEFINE p == reg[t].prev
<1>1. /\ ListShape /\ r \in [Handlers -> Nat] /\ n \in Nat /\ W \in SUBSET Handlers
      /\ Ranked(r, n) /\ Chained(r) /\ Sought(r) /\ Walked(r, W) /\ Counted(r) /\ Clocked
  BY DEF ListAt, ListGood
<1>2. /\ reg[t].pc = "remove" /\ reg[t].at \in {t, Null}
      /\ UNCHANGED <<at, called, stable, interrupts, time_ms, current_time, uptime>>
      /\ reg' = [reg EXCEPT ![t].pc = "gone"]
  BY DEF List!Unlink, Null
<1>3. /\ t \in Handlers /\ t # Clock /\ t # Null /\ Linked(t)
      /\ reg[t].at = t /\ p # Null /\ p \in Handlers /\ Linked(p) /\ next[p] = t
  <2>1. t \in Handlers /\ t # Clock /\ t # Null /\ Linked(t)
    BY <1>2, HandlerFacts DEF Linked
  <2>2. reg[t].at = t
    BY <1>1, <1>2, HandlerFacts DEF Sought, Linked
  <2>3. p # Null /\ Linked(p) /\ next[p] = t
    BY <1>1, <1>2, <2>1, <2>2 DEF Sought
  <2>4. QED
    BY <2>1, <2>2, <2>3, HandlerFacts DEF Linked
<1>4. next' = [next EXCEPT ![p] = next[t]] /\ UNCHANGED head
  BY <1>3 DEF List!Unlink, Null
<1>5. /\ \A u \in Registrars \ {t} : reg'[u] = reg[u] /\ reg[u].pc \notin {"append", "remove"}
      /\ reg'[t].pc = "gone"
      /\ \A x \in Handlers : next'[x] = IF x = p THEN next[t] ELSE next[x]
  BY <1>1, <1>2, <1>3, <1>4 DEF ListShape
<1>6. /\ \A x : Linked(x)' <=> Linked(x) /\ x # t
      /\ \A x : (Entered(x)' <=> Entered(x)) /\ (Linked(x) => Entered(x))
  BY <1>2, <1>3, <1>5 DEF Linked, Entered
<1>7. ListShape'
  <2>1. reg' \in [Registrars -> [pc : {"out", "append", "in", "remove", "gone"},
                                 at : Handlers \cup {Null}, prev : Handlers \cup {Null}]]
    BY <1>1, <1>2 DEF ListShape
  <2>2. next' \in [Handlers -> Handlers \cup {Null}]
    BY <1>1, <1>3, <1>4 DEF ListShape
  <2>3. QED
    BY <1>1, <1>2, <1>4, <1>5, <2>1, <2>2 DEF ListShape
<1>8. Ranked(r, n)'
  BY <1>1, <1>6 DEF Ranked
<1>9. r[p] < r[t] /\ (next[t] # Null => next[t] \in Handlers /\ Linked(next[t]) /\ r[t] < r[next[t]])
  BY <1>1, <1>3 DEF Chained, ListShape
<1>10. \A x \in Handlers : Linked(x) /\ next[x] = t => x = p
  <2> SUFFICES ASSUME NEW x \in Handlers, Linked(x), next[x] = t, x # p PROVE FALSE
    OBVIOUS
  <2>1. r[x] # r[p] /\ r[x] < r[t]
    BY <1>1, <1>3, <1>6 DEF Ranked, Chained
  <2>2. r[x] \in Nat /\ r[p] \in Nat /\ r[t] \in Nat
    BY <1>1, <1>3
  <2>3. CASE r[x] < r[p]
    <3>1. r[t] <= r[p]
      BY <1>1, <1>3, <2>3 DEF Chained, Climbs
    <3>2. QED
      BY <1>9, <2>2, <3>1
  <2>4. CASE r[p] < r[x]
    <3>1. r[t] <= r[x]
      BY <1>1, <1>3, <2>4 DEF Chained, Climbs
    <3>2. QED
      BY <2>1, <2>2, <3>1
  <2>5. QED
    BY <2>1, <2>2, <2>3, <2>4
<1>11. Chained(r)'
  <2>1. ASSUME NEW x \in Handlers, Linked(x)', next'[x] # Null
        PROVE  Linked(next[x])' /\ r[x] < r[next'[x]]
    <3>1. CASE x = p
      <4>1. next'[x] = next[t] /\ next[t] # Null
        BY <1>5, <2>1, <3>1
      <4>2. next[t] # t /\ r[p] < r[next[t]]
        BY <1>1, <1>3, <1>9, <4>1
      <4>3. QED
        BY <1>6, <1>9, <3>1, <4>1, <4>2
    <3>2. CASE x # p
      <4>1. Linked(x) /\ next'[x] = next[x] /\ next[x] # t
        BY <1>5, <1>6, <1>10, <2>1, <3>2
      <4>2. QED
        BY <1>1, <1>6, <2>1, <4>1 DEF Chained
    <3>3. QED
      BY <3>1, <3>2
  <2>2. ASSUME NEW x \in Handlers, Linked(x)', NEW h \in Handlers, Linked(h)', r[x] < r[h]
        PROVE  next'[x] # Null /\ r[next'[x]] <= r[h]
    <3>1. Linked(x) /\ Linked(h) /\ h # t
      BY <1>6, <2>2
    <3>2. next[x] # Null /\ r[next[x]] <= r[h]
      BY <1>1, <2>2, <3>1 DEF Chained, Climbs
    <3>3. CASE x = p
      <4>1. r[t] < r[h]
        <5>1. r[t] <= r[h] /\ r[t] # r[h]
          BY <1>1, <1>3, <1>6, <3>1, <3>2, <3>3 DEF Ranked
        <5>2. QED
          BY <1>1, <1>3, <5>1
      <4>2. next[t] # Null /\ r[next[t]] <= r[h]
        BY <1>1, <1>3, <3>1, <4>1 DEF Chained, Climbs
      <4>3. QED
        BY <1>5, <3>3, <4>2
    <3>4. CASE x # p
      BY <1>5, <3>2, <3>4
    <3>5. QED
      BY <3>3, <3>4
  <2>3. QED
    BY <2>1, <2>2 DEF Chained, Climbs
<1>12. Sought(r)'
  BY <1>5 DEF Sought
<1>13. t \notin stable /\ \A h \in stable : h \in Handlers /\ Entered(h)
  BY <1>1, <1>2, <1>3 DEF Counted, Entered, ListShape
<1>14. Walked(r, W)'
  <2> SUFFICES ASSUME NEW x \in W
               PROVE  /\ Entered(x)' /\ next'[x] \in W \cup {Null}
                      /\ next'[x] # Null => r[x] < r[next'[x]]
                      /\ \A h \in stable : r[x] < r[h] => next'[x] # Null /\ r[next'[x]] <= r[h]
    BY <1>1, <1>2 DEF Walked, Climbs
  <2>1. /\ Entered(x) /\ next[x] \in W \cup {Null} /\ (next[x] # Null => r[x] < r[next[x]])
        /\ \A h \in stable : r[x] < r[h] => next[x] # Null /\ r[next[x]] <= r[h]
    BY <1>1 DEF Walked, Climbs
  <2>2. CASE x # p
    BY <1>1, <1>5, <1>6, <2>1, <2>2
  <2>3. CASE x = p
    <3>1. next'[x] = next[t] /\ t \in W /\ next[t] \in W \cup {Null}
      BY <1>1, <1>3, <1>5, <2>1, <2>3 DEF Walked
    <3>2. next[t] # Null => r[x] < r[next[t]]
      BY <1>1, <1>3, <1>9, <2>3
    <3>3. ASSUME NEW h \in stable, r[x] < r[h] PROVE next[t] # Null /\ r[next[t]] <= r[h]
      <4>1. r[t] <= r[h] /\ r[t] # r[h]
        BY <1>1, <1>3, <1>6, <1>13, <2>1, <2>3, <3>3 DEF Ranked
      <4>2. r[t] < r[h]
        BY <1>1, <1>3, <1>13, <4>1
      <4>3. QED
        BY <1>1, <3>1, <4>2 DEF Walked, Climbs
    <3>4. QED
      BY <1>6, <2>1, <3>1, <3>2, <3>3
  <2>4. QED
    BY <2>2, <2>3
<1>15. Counted(r)'
  <2>1. \A h \in stable : h = Clock \/ (h \in Registrars /\ reg'[h].pc = "in")
    BY <1>1, <1>5, <1>13 DEF Counted
  <2>2. QED
    BY <1>1, <1>2, <1>6, <2>1 DEF Counted
<1>16. Clocked'
  BY <1>1, <1>2 DEF Clocked
<1>17. QED
  BY <1>1, <1>7, <1>8, <1>11, <1>12, <1>14, <1>15, <1>16 DEF ListAt, ListGood

\* The loop starts at the clock's entry; it can come to every entry that is listed.
LEMMA StepInterrupt ==
    ASSUME HandlerAssumption, NEW r, NEW n, NEW W, ListAt(r, n, W), List!Interrupt
    PROVE  \E V \in SUBSET Handlers : ListAt(r, n, V)'
<1>1. /\ ListShape /\ r \in [Handlers -> Nat] /\ n \in Nat
      /\ Ranked(r, n) /\ Chained(r) /\ Sought(r) /\ Counted(r) /\ Clocked
  BY DEF ListAt, ListGood
<1>2. /\ at = Null /\ interrupts' = interrupts + 1 /\ at' = Clock
      /\ called' = [h \in Handlers |-> 0]
      /\ stable' = {Clock} \cup {t \in Registrars : reg[t].pc = "in"}
      /\ UNCHANGED <<head, next, reg, raced, time_ms, current_time, uptime>>
  BY <1>1 DEF List!Interrupt, ListShape, Null, Clock, Handlers
<1>3. PICK V \in SUBSET Handlers : V = {x \in Handlers : Linked(x)}
  OBVIOUS
<1>4. /\ \A x : (Linked(x)' <=> Linked(x)) /\ (Entered(x)' <=> Entered(x))
      /\ \A x : Linked(x) => Entered(x)
  BY <1>2 DEF Linked, Entered
<1>5. ListShape'
  BY <1>1, <1>2, HandlerFacts DEF ListShape
<1>6. Ranked(r, n)'
  BY <1>1, <1>4 DEF Ranked
<1>7. Chained(r)'
  BY <1>1, <1>2 DEF Chained, Linked, Climbs
<1>8. Sought(r)'
  BY <1>1, <1>2 DEF Sought, Linked
<1>9. \A h \in stable' : h \in Handlers /\ Linked(h)
  BY <1>2, HandlerFacts DEF Linked
<1>10. Walked(r, V)'
  <2>1. at' \in V
    BY <1>2, <1>3, HandlerFacts DEF Linked
  <2>2. ASSUME NEW x \in V
        PROVE  /\ Entered(x)' /\ next[x] \in V \cup {Null}
               /\ next[x] # Null => r[x] < r[next[x]]
               /\ \A h \in stable' : r[x] < r[h] => next[x] # Null /\ r[next[x]] <= r[h]
    <3>1. x \in Handlers /\ Linked(x) /\ next[x] \in Handlers \cup {Null}
      BY <1>1, <1>3 DEF ListShape
    <3>2. QED
      BY <1>1, <1>3, <1>4, <1>9, <3>1 DEF Chained, Climbs
  <2>3. QED
    BY <1>2, <2>1, <2>2 DEF Walked, Climbs
<1>11. Counted(r)'
  <2>1. \A h \in stable' : h = Clock \/ (h \in Registrars /\ reg'[h].pc = "in")
    BY <1>2
  <2>2. \A h \in stable' : at' # Null /\ r[at'] <= r[h]
    BY <1>1, <1>2, <1>9, HandlerFacts DEF Ranked
  <2>3. \A h \in Handlers : called'[h] # 1
    BY <1>2
  <2>4. QED
    BY <2>1, <2>2, <2>3 DEF Counted
<1>12. Clocked'
  <2>1. uptime = interrupts
    BY <1>1, <1>2 DEF Clocked
  <2>2. called'[Clock] = 0 /\ at' # Null /\ Clock \in stable'
    BY <1>2, HandlerFacts
  <2>3. QED
    BY <1>1, <1>2, <2>1, <2>2 DEF Clocked
<1>13. QED
  BY <1>1, <1>5, <1>6, <1>7, <1>8, <1>10, <1>11, <1>12 DEF ListAt, ListGood

\* time_interrupt counts milliseconds and carries into the seconds.
LEMMA StepTick ==
    ASSUME HandlerAssumption, at = Clock, List!Tick,
           uptime \in Nat, current_time \in Nat, time_ms \in Nat, time_ms < MsPerSecond,
           uptime = (current_time * MsPerSecond) + time_ms
    PROVE  /\ uptime' = uptime + 1 /\ current_time' \in Nat /\ time_ms' \in Nat
           /\ time_ms' < MsPerSecond
           /\ uptime' = (current_time' * MsPerSecond) + time_ms'
<1>1. /\ uptime' = uptime + 1 /\ time_ms' = (time_ms + 1) % MsPerSecond
      /\ current_time' = current_time + (IF time_ms + 1 = MsPerSecond THEN 1 ELSE 0)
  BY DEF List!Tick, Clock
<1>2. MsPerSecond \in Nat /\ MsPerSecond > 0
  BY DEF HandlerAssumption
<1>3. CASE time_ms + 1 = MsPerSecond
  <2>1. time_ms' = 0 /\ current_time' = current_time + 1
    BY <1>1, <1>2, <1>3
  <2>2. (current_time + 1) * MsPerSecond = (current_time * MsPerSecond) + MsPerSecond
    BY <1>2
  <2>3. current_time * MsPerSecond \in Nat
    BY <1>2
  <2>4. QED
    BY <1>1, <1>2, <1>3, <2>1, <2>2, <2>3
<1>4. CASE time_ms + 1 # MsPerSecond
  <2>1. time_ms' = time_ms + 1 /\ current_time' = current_time
    BY <1>1, <1>2, <1>4
  <2>2. current_time * MsPerSecond \in Nat
    BY <1>2
  <2>3. QED
    BY <1>1, <1>2, <1>4, <2>1, <2>2
<1>5. QED
  BY <1>3, <1>4

LEMMA StepCall ==
    ASSUME HandlerAssumption, NEW r, NEW n, NEW W, ListAt(r, n, W), List!Call
    PROVE  ListAt(r, n, W)'
<1>1. /\ ListShape /\ r \in [Handlers -> Nat] /\ n \in Nat /\ W \in SUBSET Handlers
      /\ Ranked(r, n) /\ Chained(r) /\ Sought(r) /\ Walked(r, W) /\ Counted(r) /\ Clocked
  BY DEF ListAt, ListGood
<1>2. /\ at # Null /\ called' = [called EXCEPT ![at] = @ + 1] /\ at' = next[at] /\ List!Tick
      /\ UNCHANGED <<head, next, reg, stable, raced, interrupts>>
  BY DEF List!Call, Null
<1>3. /\ at \in W /\ at \in Handlers /\ Entered(at) /\ next[at] \in W \cup {Null}
      /\ next[at] # Null => r[at] < r[next[at]]
      /\ \A h \in stable : r[at] < r[h] => next[at] # Null /\ r[next[at]] <= r[h]
  BY <1>1, <1>2 DEF Walked, Climbs
<1>4. called[at] = 0
  BY <1>1, <1>2, <1>3 DEF Counted, ListShape
<1>5. called' \in [Handlers -> {0, 1}]
      /\ \A h \in Handlers : called'[h] = IF h = at THEN 1 ELSE called[h]
  BY <1>1, <1>2, <1>3, <1>4 DEF ListShape
<1>6. /\ \A x : (Linked(x)' <=> Linked(x)) /\ (Entered(x)' <=> Entered(x))
  BY <1>2 DEF Linked, Entered
<1>7. ListShape'
  BY <1>1, <1>2, <1>5 DEF ListShape
<1>8. Ranked(r, n)' /\ Chained(r)' /\ Sought(r)'
  BY <1>1, <1>2 DEF Ranked, Chained, Sought, Linked, Entered, Climbs
<1>9. Walked(r, W)'
  BY <1>1, <1>2, <1>3, <1>6 DEF Walked, Climbs
<1>10. \A h \in stable : h \in Handlers /\ Entered(h)
  BY <1>1 DEF Counted, Entered, ListShape
<1>11. Counted(r)'
  <2>1. ASSUME NEW h \in stable, called'[h] = 0 PROVE next[at] # Null /\ r[next[at]] <= r[h]
    <3>1. h # at /\ called[h] = 0
      BY <1>5, <1>10, <2>1
    <3>2. r[at] <= r[h] /\ r[at] # r[h]
      BY <1>1, <1>3, <1>10, <3>1 DEF Counted, Ranked
    <3>3. r[at] < r[h]
      BY <1>1, <1>3, <1>10, <3>2
    <3>4. QED
      BY <1>3, <3>3
  <2>2. ASSUME NEW h \in Handlers, called'[h] = 1
        PROVE  Entered(h)' /\ (next[at] # Null => r[h] < r[next[at]])
    <3>1. CASE h = at
      BY <1>3, <1>6, <3>1
    <3>2. CASE h # at
      <4>1. Entered(h) /\ r[h] < r[at]
        BY <1>1, <1>2, <1>5, <2>2, <3>2 DEF Counted
      <4>2. next[at] # Null => next[at] \in Handlers
        BY <1>1, <1>3
      <4>3. QED
        BY <1>1, <1>3, <1>6, <4>1, <4>2
    <3>3. QED
      BY <3>1, <3>2
  <2>3. QED
    BY <1>1, <1>2, <2>1, <2>2 DEF Counted
<1>12. Clocked'
  <2>1. /\ interrupts \in Nat /\ uptime \in Nat /\ current_time \in Nat /\ time_ms \in Nat
        /\ time_ms < MsPerSecond /\ (interrupts > 0 => Clock \in stable)
        /\ uptime = (current_time * MsPerSecond) + time_ms
        /\ uptime + (IF called[Clock] = 0 THEN 1 ELSE 0) = interrupts
    BY <1>1, <1>2 DEF Clocked
  <2>2. CASE at = Clock
    <3>1. /\ uptime' = uptime + 1 /\ current_time' \in Nat /\ time_ms' \in Nat
          /\ time_ms' < MsPerSecond /\ uptime' = (current_time' * MsPerSecond) + time_ms'
      BY <1>2, <2>1, <2>2, StepTick
    <3>2. called[Clock] = 0 /\ called'[Clock] = 1
      BY <1>4, <1>5, <2>2, HandlerFacts
    <3>3. QED
      BY <1>2, <2>1, <3>1, <3>2 DEF Clocked
  <2>3. CASE at # Clock
    <3>1. UNCHANGED <<uptime, time_ms, current_time>>
      BY <1>2, <2>3 DEF List!Tick, Clock
    <3>2. called'[Clock] = called[Clock]
      BY <1>5, <2>3, HandlerFacts
    <3>3. called[Clock] = 1
      <4>1. called[Clock] \in {0, 1}
        BY <1>1, HandlerFacts DEF ListShape
      <4>2. ASSUME called[Clock] = 0 PROVE FALSE
        <5>1. interrupts > 0
          BY <2>1, <4>2
        <5>2. Clock \in stable
          BY <2>1, <5>1
        <5>3. r[at] <= 0 /\ r[Clock] = 0 /\ r[at] \in Nat
          BY <1>1, <1>3, <4>2, <5>2 DEF Counted, Ranked
        <5>4. Entered(Clock) /\ r[at] = r[Clock]
          BY <5>3 DEF Entered
        <5>5. QED
          BY <1>1, <1>3, <2>3, <5>4, HandlerFacts DEF Ranked
      <4>3. QED
        BY <4>1, <4>2
    <3>4. QED
      BY <1>2, <2>1, <3>1, <3>2, <3>3 DEF Clocked
  <2>4. QED
    BY <2>2, <2>3
<1>13. QED
  BY <1>1, <1>7, <1>8, <1>9, <1>11, <1>12 DEF ListAt, ListGood

LEMMA StepList == ASSUME HandlerAssumption PROVE ListInv /\ [List!Next]_(List!listVars) => ListInv'
<1> SUFFICES ASSUME ListInv, [List!Next]_(List!listVars), ~raced' PROVE ListInv'
  BY DEF ListInv
<1>1. ~raced
  <2>1. ASSUME NEW t \in Registrars, List!Change(t) PROVE ~raced
    <3>1. CASE List!Register(t) \/ List!Unregister(t)
      BY <3>1, Zenon DEF List!Register, List!Unregister, List!Begin
    <3>2. CASE List!ToEnd(t) \/ List!Search(t) \/ List!Link(t) \/ List!Unlink(t)
      BY <3>2, Zenon DEF List!ToEnd, List!Search, List!Link, List!Unlink
    <3>3. QED
      BY <2>1, <3>1, <3>2 DEF List!Change
  <2>2. CASE List!Interrupt \/ List!Call \/ UNCHANGED List!listVars
    BY <2>2, Zenon DEF List!Interrupt, List!Call, List!listVars
  <2>3. QED
    BY <2>1, <2>2 DEF List!Next
<1>2. PICK r \in [Handlers -> Nat], n \in Nat, W \in SUBSET Handlers : ListAt(r, n, W)
  BY <1>1 DEF ListInv, ListAt
<1>3. ASSUME NEW q \in [Handlers -> Nat], NEW m \in Nat, NEW V \in SUBSET Handlers,
             ListAt(q, m, V)'
      PROVE  ListInv'
  BY <1>3 DEF ListAt, ListInv
<1>4. ASSUME NEW t \in Registrars, List!Change(t) PROVE ListInv'
  <2>1. CASE List!Link(t)
    <3>1. PICK V \in SUBSET Handlers : ListAt([r EXCEPT ![t] = n], n + 1, V)'
      BY <1>2, <2>1, StepLinkEntry
    <3>2. [r EXCEPT ![t] = n] \in [Handlers -> Nat] /\ n + 1 \in Nat
      BY <3>1 DEF ListAt
    <3>3. QED
      BY <1>3, <3>1, <3>2
  <2>2. CASE List!Register(t) \/ List!Unregister(t)
    BY <1>2, <1>3, <2>2, StepRegister, StepUnregister
  <2>3. CASE List!ToEnd(t) \/ List!Search(t) \/ List!Unlink(t)
    BY <1>2, <1>3, <2>3, StepSeek, StepUnlink
  <2>4. QED
    BY <1>4, <2>1, <2>2, <2>3 DEF List!Change
<1>5. CASE List!Interrupt
  <2>1. PICK V \in SUBSET Handlers : ListAt(r, n, V)'
    BY <1>2, <1>5, StepInterrupt
  <2>2. QED
    BY <1>3, <2>1
<1>6. CASE List!Call
  BY <1>2, <1>3, <1>6, StepCall
<1>7. CASE UNCHANGED List!listVars
  <2>1. /\ UNCHANGED <<head, next, reg, at, called, stable>>
        /\ UNCHANGED <<interrupts, time_ms, current_time, uptime>>
    BY <1>7 DEF List!listVars
  <2>2. ListShape' /\ Clocked'
    BY <1>2, <2>1 DEF ListAt, ListShape, Clocked
  <2>3. ListGood(r, n, W)'
    BY <1>2, <2>1 DEF ListAt, ListGood, Ranked, Chained, Sought, Walked, Counted, Linked, Entered,
        Climbs
  <2>4. QED
    BY <2>2, <2>3 DEF ListInv
<1>8. QED
  BY <1>4, <1>5, <1>6, <1>7 DEF List!Next

\* Unless two changes of a list overlap, an interrupt calls every handler that was
\* registered before it and stays registered exactly once and no handler twice, whatever
\* is registered and unregistered under the loop, and the clock counts every interrupt:
\* for any number of handlers and interrupts (interrupts.cpp:260, time.cpp).
THEOREM HandlersAreCalled == List!Spec => []HandlersCalled
<1> USE BootAssumption
<1>1. ListInv => HandlersCalled
  <2> SUFFICES ASSUME ListInv, ~raced
               PROVE  /\ at = Null /\ interrupts > 0 => \A h \in stable : called[h] = 1
                      /\ \A h \in Handlers : called[h] <= 1
                      /\ uptime = (current_time * MsPerSecond) + time_ms
                      /\ uptime + (IF at # Null /\ called[Clock] = 0 THEN 1 ELSE 0) = interrupts
    BY DEF HandlersCalled, List!HandlersCalled, Null, Clock, Handlers
  <2>1. PICK r \in [Handlers -> Nat] : ListShape /\ Clocked /\ Counted(r)
    BY DEF ListInv, ListGood
  <2>2. \A h \in Handlers : called[h] \in {0, 1}
    BY <2>1 DEF ListShape
  <2>3. at = Null => \A h \in stable : called[h] = 1
    BY <2>1, <2>2 DEF Counted, ListShape
  <2>4. QED
    BY <2>1, <2>2, <2>3 DEF Clocked
<1>2. QED
  BY <1>1, InitList, StepList, PTL DEF List!Spec

-----------------------------------------------------------------------------
(* The start of the cores.  The map of cores numbers, at every record of   *)
(* the MADT, the usable cores listed before it; a line is routed by the    *)
(* last override before it whose I/O APIC was known then.  Only the core   *)
(* that init_cpu is starting can be in the starter's code, and it gets     *)
(* there when nobody is leaving the boot stack.                            *)

\* The records rs before the i-th: the cores they list as usable, whether an I/O APIC
\* among them has line g, and the overrides of line g that found one.
Listed(rs, i) ==
    {rs[k].id : k \in {k \in 1..Len(rs) : k < i /\ rs[k].type = "lapic" /\ rs[k].flags \in 1..3}}
Wired(rs, i, g) == \E k \in 1..Len(rs) : k < i /\ rs[k].type = "ioapic" /\ Cpu!Covers(rs[k], g)
Overrides(rs, i, g) ==
    {k \in 1..Len(rs) : k < i /\ rs[k].type = "override" /\ rs[k].gsi = g /\ Wired(rs, k, g)}

\* Whether an I/O APIC that is known has line g.
HasLine(g) == \E k \in 1..Len(ioApics) : Cpu!Covers(ioApics[k], g)

Others == Cpu!Lapics \ {machine.bsp}
Steps == {"off", "waiting", "starter", "starting", "leaving", "idle"}

CpuShape ==
    /\ machine \in Machines /\ index \in Nat \ {0}
    /\ phase \in {"acpi", "panic", "madt", "records", "cores", "done"}
    /\ phase \in {"acpi", "madt"} => index = 1 /\ ioApics = <<>> /\ routed = <<>>
    /\ phase \in {"cores", "done"} => index > Len(machine.records)
    /\ ioApics \in Seq([base : Nat, entries : Nat])
    /\ ap \in [Others -> Steps]

\* The linear ids of the cores that are listed so far.
MapFits ==
    phase \in {"records", "cores", "done"} =>
        /\ DOMAIN core_map = Listed(machine.records, index) \cup {bsp_apic_id}
        /\ IsFiniteSet(DOMAIN core_map)
        /\ {core_map[x] : x \in DOMAIN core_map} = 0..(Cardinality(DOMAIN core_map) - 1)
        /\ \A x \in DOMAIN core_map : core_map[x] = 0 <=> x = bsp_apic_id
        /\ ~Cpu!Overridden => bsp_apic_id = machine.bsp

\* The lines that are routed so far.
LinesFit ==
    /\ phase = "records" =>
        /\ \A g \in Nat : HasLine(g) <=> Wired(machine.records, index, g)
        /\ \A g \in Nat : g \in DOMAIN routed <=> Overrides(machine.records, index, g) # {}
        /\ \A g \in Nat : \A k \in Overrides(machine.records, index, g) :
              (\A j \in Overrides(machine.records, index, g) : j <= k) =>
                  routed[g] = machine.records[k].irq + 32
    /\ phase \in {"cores", "done"} => Cpu!LinesRouted

\* Where the cores are, and which of them init_cpu has dealt with.
CoresFit ==
    /\ phase \notin {"cores", "done"} => started = {}
    /\ phase = "done" => started = DOMAIN core_map
    /\ \/ starting = Cpu!NoCore
       \/ phase = "cores" /\ starting \in [id : Nat, sipis : 0..2] /\ starting.id \notin started
    /\ \A i \in Others : ap[i] \in {"starter", "starting"} => starting # Cpu!NoCore /\ i = starting.id
    /\ \A i, j \in Cpu!OnBootStack : i = j
    /\ \A i \in started : i = bsp_apic_id \/ (i \in Others /\ Cpu!IsIdle(i))

CpuInv == CpuShape /\ MapFits /\ LinesFit /\ CoresFit

\* The two names of one operator.
LEMMA CpuCardinality == ASSUME NEW S PROVE Cpu!Cardinality(S) = Cardinality(S)
  BY Zenon DEF Cpu!Cardinality, Cardinality

\* Records of the MADT have the fields of their type.
LEMMA RecordFacts ==
    ASSUME CpuAssumption, CpuShape
    PROVE  /\ machine.records \in Seq(MadtRecords) /\ Len(machine.records) \in Nat
           /\ \A k \in 1..Len(machine.records) :
                 LET r == machine.records[k] IN
                 /\ r \in MadtRecords
                 /\ r.type = "lapic" => r.id \in Nat /\ r.flags \in 0..3
                 /\ r.type = "ioapic" => r.base \in Nat /\ r.entries \in Nat
                 /\ r.type = "override" => r.irq \in Nat /\ r.gsi \in Nat
<1>1. machine.records \in Seq(MadtRecords)
  BY DEF CpuAssumption, CpuShape
<1>2. ASSUME NEW r \in MadtRecords
      PROVE  /\ r.type = "lapic" => r.id \in Nat /\ r.flags \in 0..3
             /\ r.type = "ioapic" => r.base \in Nat /\ r.entries \in Nat
             /\ r.type = "override" => r.irq \in Nat /\ r.gsi \in Nat
  BY DEF MadtRecords
<1>3. \A k \in 1..Len(machine.records) : machine.records[k] \in MadtRecords
  BY <1>1
<1>4. QED
  BY <1>1, <1>2, <1>3

\* The other cores have the ids of records.
LEMMA OtherFacts ==
    ASSUME CpuAssumption, CpuShape
    PROVE  /\ Cpu!Lapics \subseteq Nat /\ Others \subseteq Nat /\ DOMAIN ap = Others
           /\ \A i : Listed(machine.records, i) \subseteq Cpu!Lapics
<1> DEFINE rs == machine.records
<1>0. rs \in Seq(MadtRecords) /\ DOMAIN rs = 1..Len(rs)
  BY RecordFacts
<1>1. \A k \in 1..Len(rs) : rs[k].type = "lapic" => rs[k].id \in Nat
  BY RecordFacts
<1> HIDE DEF rs
<1>2. Cpu!Lapics = {rs[k].id : k \in {k \in 1..Len(rs) : rs[k].type = "lapic"}}
  BY <1>0 DEF Cpu!Lapics, Cpu!ToSet, rs
<1>3. Cpu!Lapics \subseteq Nat
  BY <1>1, <1>2
<1>4. \A i : Listed(rs, i) \subseteq Cpu!Lapics
  BY <1>2 DEF Listed
<1>5. DOMAIN ap = Others
  BY DEF CpuShape
<1>6. QED
  BY <1>3, <1>4, <1>5 DEF Others, rs

\* At the end the listed cores are the enabled ones.
LEMMA ListedAll ==
    ASSUME CpuAssumption, CpuShape, index > Len(machine.records)
    PROVE  Listed(machine.records, index) = Cpu!Enabled
<1> DEFINE rs == machine.records
<1>0. rs \in Seq(MadtRecords) /\ DOMAIN rs = 1..Len(rs) /\ Len(rs) \in Nat /\ index \in Nat
  BY RecordFacts DEF CpuShape
<1>1. \A k \in 1..Len(rs) : rs[k].type = "lapic" => rs[k].flags \in 0..3
  BY RecordFacts
<1> HIDE DEF rs
<1>2. Cpu!Enabled = {rs[k].id : k \in {k \in 1..Len(rs) : rs[k].type = "lapic" /\ rs[k].flags > 0}}
  BY <1>0 DEF Cpu!Enabled, Cpu!ToSet, rs
<1>3. \A k \in 1..Len(rs) : rs[k].type = "lapic" => (rs[k].flags > 0 <=> rs[k].flags \in 1..3)
  BY <1>1
<1>4. \A k \in 1..Len(rs) : k < index
  BY <1>0 DEF rs
<1>5. QED
  BY <1>2, <1>3, <1>4 DEF Listed, rs

\* One core on the boot stack at most.
LEMMA BootStackAlone ==
    ASSUME CoresFit PROVE Cpu!Cardinality(Cpu!OnBootStack) <= 1
<1>1. CASE Cpu!OnBootStack = {}
  BY <1>1, FS_EmptySet, CpuCardinality
<1>2. CASE Cpu!OnBootStack # {}
  <2>1. PICK x : x \in Cpu!OnBootStack
    BY <1>2
  <2>2. Cpu!OnBootStack = {x}
    BY <2>1 DEF CoresFit
  <2>3. Cardinality({x}) = 1
    BY FS_Singleton
  <2>4. QED
    BY <2>2, <2>3, CpuCardinality
<1>3. QED
  BY <1>1, <1>2

\* The steps that start the cores leave the map and the lines as they are.
LEMMA TablesStay ==
    ASSUME CpuInv, UNCHANGED <<machine, bsp_apic_id, index, core_map, ioApics, routed>>,
           phase' = phase \/ (phase = "cores" /\ phase' = "done")
    PROVE  /\ MapFits' /\ LinesFit' /\ Others' = Others
           /\ ap' \in [Others -> Steps] => CpuShape'
<1>1. phase' \in {"records", "cores", "done"} <=> phase \in {"records", "cores", "done"}
  BY DEF CpuInv, CpuShape
<1>2. phase' \in {"cores", "done"} <=> phase \in {"cores", "done"}
  BY DEF CpuInv, CpuShape
<1>3. (phase' = "records" <=> phase = "records") /\ (phase' \in {"acpi", "madt"} <=> phase \in {"acpi", "madt"})
      /\ phase' \in {"acpi", "panic", "madt", "records", "cores", "done"}
  BY DEF CpuInv, CpuShape
<1>4. MapFits'
  BY <1>1 DEF CpuInv, MapFits, Cpu!Overridden
<1>5. Cpu!LinesRouted => Cpu!LinesRouted'
  BY <1>2 DEF Cpu!LinesRouted
<1>6. LinesFit'
  BY <1>2, <1>3, <1>5 DEF CpuInv, LinesFit, HasLine
<1>7. Others' = Others
  BY DEF Others, Cpu!Lapics
<1>8. ASSUME ap' \in [Others -> Steps] PROVE CpuShape'
  BY <1>2, <1>3, <1>7, <1>8 DEF CpuInv, CpuShape
<1>9. QED
  BY <1>4, <1>6, <1>7, <1>8

\* One core moves.
LEMMA ApMoves ==
    ASSUME CpuInv, NEW c \in Others, NEW v \in Steps, ap' = [ap EXCEPT ![c] = v]
    PROVE  /\ ap' \in [Others -> Steps] /\ ap'[c] = v /\ DOMAIN ap = Others
           /\ \A i \in Others \ {c} : ap'[i] = ap[i]
  BY DEF CpuInv, CpuShape

\* init_cpu takes the next core of the map.
LEMMA StartCoreInv ==
    ASSUME CpuAssumption, CpuInv, NEW c \in DOMAIN core_map, Cpu!StartCore(c) PROVE CpuInv'
<1>0. /\ phase = "cores" /\ starting = Cpu!NoCore /\ c \notin started
      /\ UNCHANGED <<machine, phase, bsp_apic_id, index, core_map, ioApics, routed>>
  BY DEF Cpu!StartCore
<1>1. MapFits' /\ LinesFit' /\ Others' = Others /\ (ap' \in [Others -> Steps] => CpuShape')
  BY <1>0, TablesStay
<1>2. ap \in [Others -> Steps] /\ DOMAIN ap = Others /\ Others \subseteq Nat
  BY OtherFacts DEF CpuInv, CpuShape
<1>3. \A x \in DOMAIN core_map : core_map[x] = 0 <=> x = bsp_apic_id
  BY <1>0 DEF CpuInv, MapFits
<1>4. CASE core_map[c] = 0
  <2>1. c = bsp_apic_id /\ started' = started \cup {c} /\ starting' = starting /\ ap' = ap
    BY <1>3, <1>4 DEF Cpu!StartCore
  <2>2. CoresFit'
    BY <2>1, <1>0, <1>1, <1>2 DEF CpuInv, CoresFit, Cpu!OnBootStack, Cpu!IsIdle, Cpu!NoCore
  <2>3. QED
    BY <2>1, <2>2, <1>1, <1>2 DEF CpuInv
<1>5. CASE core_map[c] # 0
  <2>1. /\ starting' = [id |-> c, sipis |-> 0] /\ started' = started
        /\ ap' = ap \/ (c \in DOMAIN ap /\ ap' = [ap EXCEPT ![c] = "waiting"])
    BY <1>5 DEF Cpu!StartCore, Cpu!Reaches
  <2>2. c \in Nat
    <3>1. c # bsp_apic_id
      BY <1>3, <1>5
    <3>2. c \in Listed(machine.records, index)
      BY <1>0, <3>1 DEF CpuInv, MapFits
    <3>3. QED
      BY <3>2, OtherFacts DEF CpuInv
  <2>3. ap' \in [Others -> Steps] /\ \A i \in Others : ap'[i] = ap[i] \/ (i = c /\ ap'[i] = "waiting")
    BY <2>1, <1>2 DEF Steps
  <2>4. starting' \in [id : Nat, sipis : 0..2] /\ starting'.id = c /\ starting' # Cpu!NoCore
    BY <2>1, <2>2, <1>2 DEF Cpu!NoCore
  <2>5. ASSUME NEW i \in Others PROVE ap'[i] \notin {"starter", "starting"}
    BY <2>3, <1>0 DEF CpuInv, CoresFit
  <2>6. DOMAIN ap' = Others
    BY <2>3
  <2>7. Cpu!OnBootStack' \subseteq Cpu!OnBootStack
    BY <2>3, <2>6, <1>2 DEF Cpu!OnBootStack
  <2>8. \A i \in started : i = bsp_apic_id \/ (i \in Others /\ ap'[i] \in {"leaving", "idle"})
    BY <2>3, <1>0 DEF CpuInv, CoresFit, Cpu!IsIdle
  <2>9. CoresFit'
    <3>1. \A i, j \in Cpu!OnBootStack' : i = j
      BY <2>7 DEF CpuInv, CoresFit
    <3>2. QED
      BY <3>1, <2>1, <2>4, <2>5, <2>6, <2>8, <1>0, <1>1 DEF CoresFit, Cpu!IsIdle
  <2>10. QED
    BY <2>3, <2>9, <1>1 DEF CpuInv
<1>6. QED
  BY <1>4, <1>5

\* A start-up interrupt brings a waiting core onto the boot stack, which is free then.
LEMMA SendSipiInv == ASSUME CpuAssumption, CpuInv, Cpu!SendSipi PROVE CpuInv'
<1> DEFINE c == starting.id
<1>0. /\ starting # Cpu!NoCore /\ starting.sipis < 2 /\ Cpu!Settled
      /\ starting' = [starting EXCEPT !.sipis = @ + 1]
      /\ ap' = ap \/ (c \in DOMAIN ap /\ ap[c] = "waiting" /\ ap' = [ap EXCEPT ![c] = "starter"])
      /\ UNCHANGED <<machine, phase, bsp_apic_id, index, core_map, ioApics, routed, started>>
  BY DEF Cpu!SendSipi, Cpu!Reaches
<1>1. MapFits' /\ LinesFit' /\ Others' = Others /\ (ap' \in [Others -> Steps] => CpuShape')
  BY <1>0, TablesStay
<1>2. ap \in [Others -> Steps] /\ DOMAIN ap = Others /\ Others \subseteq Nat
  BY OtherFacts DEF CpuInv, CpuShape
<1>3. phase = "cores" /\ starting \in [id : Nat, sipis : 0..2] /\ c \notin started
  BY <1>0 DEF CpuInv, CoresFit
<1>4. starting' \in [id : Nat, sipis : 0..2] /\ starting'.id = c /\ starting' # Cpu!NoCore
  BY <1>0, <1>2, <1>3 DEF Cpu!NoCore
<1> HIDE DEF c
<1>5. CASE ap' = ap
  <2>1. Cpu!OnBootStack' = Cpu!OnBootStack
    BY <1>5 DEF Cpu!OnBootStack
  <2>2. CoresFit'
    BY <2>1, <1>5, <1>0, <1>1, <1>3, <1>4 DEF CpuInv, CoresFit, Cpu!IsIdle, c
  <2>3. QED
    BY <2>2, <1>5, <1>1, <1>2 DEF CpuInv
<1>6. CASE ap' # ap
  <2>1. c \in Others /\ ap[c] = "waiting" /\ ap' = [ap EXCEPT ![c] = "starter"]
    BY <1>0, <1>2, <1>6 DEF c
  <2>2. ap' \in [Others -> Steps] /\ ap'[c] = "starter" /\ \A i \in Others \ {c} : ap'[i] = ap[i]
    BY <2>1, ApMoves DEF Steps
  <2>3. \A i \in Others : ap[i] \notin {"starter", "starting", "leaving"}
    <3>1. \A i \in Others : ap[i] # "leaving"
      BY <1>0, <1>2 DEF Cpu!Settled
    <3>2. \A i \in Others : ap[i] \in {"starter", "starting"} => i = c
      BY DEF CpuInv, CoresFit, c
    <3>3. QED
      BY <3>1, <3>2, <2>1
  <2>4. DOMAIN ap' = Others
    BY <2>2
  <2>5. \A i \in Cpu!OnBootStack' : i = c
    BY <2>2, <2>3, <2>4 DEF Cpu!OnBootStack
  <2>6. \A i \in started : i = bsp_apic_id \/ (i \in Others /\ ap'[i] \in {"leaving", "idle"})
    BY <2>2, <1>3 DEF CpuInv, CoresFit, Cpu!IsIdle
  <2>7. \A i \in Others : ap'[i] \in {"starter", "starting"} => i = c
    BY <2>2, <2>3
  <2>8. CoresFit'
    BY <2>4, <2>5, <2>6, <2>7, <1>0, <1>1, <1>3, <1>4 DEF CoresFit, Cpu!IsIdle
  <2>9. QED
    BY <2>2, <2>8, <1>1 DEF CpuInv
<1>7. QED
  BY <1>5, <1>6

\* init_cpu is done with a core that called itself idle.
LEMMA CoreIsUpInv == ASSUME CpuAssumption, CpuInv, Cpu!CoreIsUp PROVE CpuInv'
<1>0. /\ starting # Cpu!NoCore /\ Cpu!IsIdle(starting.id) /\ started' = started \cup {starting.id}
      /\ starting' = Cpu!NoCore /\ ap' = ap
      /\ UNCHANGED <<machine, phase, bsp_apic_id, index, core_map, ioApics, routed>>
  BY DEF Cpu!CoreIsUp
<1>1. MapFits' /\ LinesFit' /\ Others' = Others /\ (ap' \in [Others -> Steps] => CpuShape')
  BY <1>0, TablesStay
<1>2. phase = "cores" /\ starting.id \in Others /\ DOMAIN ap = Others
  BY <1>0 DEF CpuInv, CpuShape, CoresFit, Cpu!IsIdle
<1>3. ASSUME NEW i \in Others PROVE ap[i] \notin {"starter", "starting"}
  BY <1>0 DEF CpuInv, CoresFit, Cpu!IsIdle
<1>4. Cpu!OnBootStack' = Cpu!OnBootStack
  BY <1>0 DEF Cpu!OnBootStack
<1>5. \A i \in started' : i = bsp_apic_id \/ (i \in Others /\ ap[i] \in {"leaving", "idle"})
  BY <1>0, <1>2 DEF CpuInv, CoresFit, Cpu!IsIdle
<1>6. CoresFit'
  BY <1>0, <1>1, <1>2, <1>3, <1>4, <1>5 DEF CpuInv, CoresFit, Cpu!IsIdle
<1>7. QED
  BY <1>0, <1>1, <1>6 DEF CpuInv, CpuShape

\* The steps of a core: it answers, switches to its idle thread and leaves the stack.
LEMMA CoreInv ==
    ASSUME CpuAssumption, CpuInv, NEW c \in DOMAIN ap, Cpu!Core(c) PROVE CpuInv'
<1>0. UNCHANGED <<machine, phase, bsp_apic_id, index, core_map, ioApics, routed, starting, started>>
  BY DEF Cpu!Core, Cpu!Answer, Cpu!FirstSwitch, Cpu!LeaveStack
<1>1. \E v \in Steps : /\ ap' = [ap EXCEPT ![c] = v]
                       /\ \/ ap[c] = "starter" /\ v = "starting"
                          \/ ap[c] = "starting" /\ v = "leaving"
                          \/ ap[c] = "leaving" /\ v = "idle"
  BY DEF Cpu!Core, Cpu!Answer, Cpu!FirstSwitch, Cpu!LeaveStack, Steps
<1>2. PICK v \in Steps : /\ ap' = [ap EXCEPT ![c] = v]
                         /\ \/ ap[c] = "starter" /\ v = "starting"
                            \/ ap[c] = "starting" /\ v = "leaving"
                            \/ ap[c] = "leaving" /\ v = "idle"
  BY <1>1
<1>3. MapFits' /\ LinesFit' /\ Others' = Others /\ (ap' \in [Others -> Steps] => CpuShape')
  BY <1>0, TablesStay
<1>4. c \in Others /\ DOMAIN ap = Others
  BY OtherFacts DEF CpuInv
<1>5. /\ ap' \in [Others -> Steps] /\ ap'[c] = v /\ DOMAIN ap' = Others
      /\ \A i \in Others \ {c} : ap'[i] = ap[i]
  BY <1>2, <1>4, ApMoves
<1>6. Cpu!OnBootStack' \subseteq Cpu!OnBootStack
  BY <1>2, <1>4, <1>5 DEF Cpu!OnBootStack
<1>7. \A i \in Others : ap'[i] \in {"starter", "starting"} => ap[i] \in {"starter", "starting"}
  BY <1>2, <1>5
<1>8. \A i \in Others : ap[i] \in {"leaving", "idle"} => ap'[i] \in {"leaving", "idle"}
  BY <1>2, <1>5
<1>9. CoresFit'
  <2>1. \A i, j \in Cpu!OnBootStack' : i = j
    BY <1>6 DEF CpuInv, CoresFit
  <2>2. \A i \in started : i = bsp_apic_id \/ (i \in Others /\ ap'[i] \in {"leaving", "idle"})
    BY <1>8 DEF CpuInv, CoresFit, Cpu!IsIdle
  <2>3. QED
    BY <2>1, <2>2, <1>0, <1>3, <1>5, <1>7 DEF CpuInv, CoresFit, Cpu!IsIdle
<1>10. QED
  BY <1>3, <1>5, <1>9 DEF CpuInv

\* init_time comes when init_cpu is done with all cores.
LEMMA InitTimeInv == ASSUME CpuAssumption, CpuInv, Cpu!InitTime PROVE CpuInv'
<1>0. /\ phase = "cores" /\ starting = Cpu!NoCore /\ phase' = "done" /\ started = DOMAIN core_map
      /\ UNCHANGED <<machine, bsp_apic_id, index, core_map, ioApics, routed, starting, started, ap>>
  BY DEF Cpu!InitTime
<1>1. MapFits' /\ LinesFit' /\ Others' = Others /\ (ap' \in [Others -> Steps] => CpuShape')
  BY <1>0, TablesStay
<1>2. Cpu!OnBootStack' = Cpu!OnBootStack
  BY <1>0 DEF Cpu!OnBootStack
<1>3. CoresFit'
  BY <1>0, <1>1, <1>2 DEF CpuInv, CoresFit, Cpu!IsIdle
<1>4. QED
  BY <1>0, <1>1, <1>3 DEF CpuInv, CpuShape

\* Before the cores are started the records are parsed, while no core runs.
LEMMA CoresWait ==
    ASSUME CpuInv, phase \notin {"cores", "done"}, UNCHANGED <<machine, starting, started, ap>>,
           phase' \in {"panic", "madt", "records", "cores"}
    PROVE  CoresFit' /\ ap' \in [Others' -> Steps]
<1>1. Others' = Others /\ starting = Cpu!NoCore /\ started = {}
  BY DEF CpuInv, CoresFit, Others, Cpu!Lapics
<1>2. Cpu!OnBootStack' = Cpu!OnBootStack
  BY DEF Cpu!OnBootStack
<1>3. CoresFit'
  BY <1>1, <1>2 DEF CpuInv, CoresFit, Cpu!IsIdle
<1>4. QED
  BY <1>1, <1>3 DEF CpuInv, CpuShape

\* init_acpi only finds the tables.
LEMMA InitAcpiInv == ASSUME CpuAssumption, CpuInv, Cpu!InitAcpi PROVE CpuInv'
<1>0. /\ phase = "acpi" /\ phase' \in {"madt", "panic"}
      /\ UNCHANGED <<machine, bsp_apic_id, index, core_map, ioApics, routed, starting, started, ap>>
  BY DEF Cpu!InitAcpi
<1>1. CoresFit' /\ ap' \in [Others' -> Steps]
  BY <1>0, CoresWait
<1>2. MapFits' /\ LinesFit'
  BY <1>0 DEF MapFits, LinesFit
<1>3. CpuShape'
  BY <1>0, <1>1 DEF CpuInv, CpuShape
<1>4. QED
  BY <1>1, <1>2, <1>3 DEF CpuInv

\* The boot core gets the first number; no record has been parsed.
LEMMA MapLapicInv == ASSUME CpuAssumption, CpuInv, Cpu!MapLapic PROVE CpuInv'
<1> DEFINE b == bsp_apic_id'
<1>0. /\ phase = "madt" /\ phase' = "records" /\ core_map' = Cpu!Put(<<>>, b, 0)
      /\ ~Cpu!Overridden => b = machine.bsp
      /\ UNCHANGED <<machine, index, ioApics, routed, starting, started, ap>>
  BY DEF Cpu!MapLapic
<1>1. CoresFit' /\ ap' \in [Others' -> Steps]
  BY <1>0, CoresWait
<1>2. index = 1 /\ ioApics = <<>> /\ routed = <<>>
  BY <1>0 DEF CpuInv, CpuShape
<1>3. DOMAIN core_map' = {b} /\ core_map'[b] = 0
  <2>1. DOMAIN <<>> = {}
    OBVIOUS
  <2>2. core_map' = [x \in {b} |-> IF x = b THEN 0 ELSE <<>>[x]]
    BY <1>0, <2>1 DEF Cpu!Put
  <2>3. QED
    BY <2>2
<1>4. Listed(machine.records, 1) = {}
  BY DEF Listed
<1>5. MapFits'
  <2>1. IsFiniteSet({b}) /\ Cardinality({b}) = 1
    BY FS_Singleton
  <2>2. {core_map'[x] : x \in {b}} = 0..(1 - 1)
    BY <1>3
  <2>3. QED
    BY <2>1, <2>2, <1>0, <1>2, <1>3, <1>4 DEF MapFits, Cpu!Overridden
<1>6. LinesFit'
  <2>1. \A g : ~Wired(machine.records, 1, g) /\ Overrides(machine.records, 1, g) = {}
    BY DEF Wired, Overrides
  <2>2. Len(<<>>) = 0 /\ DOMAIN <<>> = {}
    OBVIOUS
  <2>3. QED
    BY <2>1, <2>2, <1>0, <1>2 DEF LinesFit, HasLine
<1>7. CpuShape'
  BY <1>0, <1>1 DEF CpuInv, CpuShape
<1>8. QED
  BY <1>1, <1>5, <1>6, <1>7 DEF CpuInv

\* What the i-th record adds.
LEMMA NextRecord ==
    ASSUME NEW rs, Len(rs) \in Nat, NEW i \in 1..Len(rs), NEW g
    PROVE  /\ Listed(rs, i + 1) = IF rs[i].type = "lapic" /\ rs[i].flags \in 1..3
                                  THEN Listed(rs, i) \cup {rs[i].id} ELSE Listed(rs, i)
           /\ Wired(rs, i + 1, g) <=> Wired(rs, i, g) \/ (rs[i].type = "ioapic" /\ Cpu!Covers(rs[i], g))
           /\ Overrides(rs, i + 1, g) = IF rs[i].type = "override" /\ rs[i].gsi = g /\ Wired(rs, i, g)
                                        THEN Overrides(rs, i, g) \cup {i} ELSE Overrides(rs, i, g)
<1>1. \A k \in 1..Len(rs) : k < i + 1 <=> k < i \/ k = i
  OBVIOUS
<1>2. Listed(rs, i + 1) = IF rs[i].type = "lapic" /\ rs[i].flags \in 1..3
                          THEN Listed(rs, i) \cup {rs[i].id} ELSE Listed(rs, i)
  BY <1>1 DEF Listed
<1>3. Wired(rs, i + 1, g) <=> Wired(rs, i, g) \/ (rs[i].type = "ioapic" /\ Cpu!Covers(rs[i], g))
  BY <1>1 DEF Wired
<1>4. Overrides(rs, i + 1, g) = IF rs[i].type = "override" /\ rs[i].gsi = g /\ Wired(rs, i, g)
                                THEN Overrides(rs, i, g) \cup {i} ELSE Overrides(rs, i, g)
  BY <1>1 DEF Overrides
<1>5. QED
  BY <1>2, <1>3, <1>4

\* A core that is listed gets the next number, once.
LEMMA AddCoreMap ==
    ASSUME CpuAssumption, CpuInv, phase = "records", NEW c,
           core_map' = Cpu!Put(core_map, c, Cpu!Cardinality(DOMAIN core_map))
    PROVE  /\ DOMAIN core_map' = DOMAIN core_map \cup {c}
           /\ IsFiniteSet(DOMAIN core_map')
           /\ {core_map'[x] : x \in DOMAIN core_map'} = 0..(Cardinality(DOMAIN core_map') - 1)
           /\ \A x \in DOMAIN core_map' : core_map'[x] = 0 <=> x = bsp_apic_id
<1> DEFINE D == DOMAIN core_map
           n == Cardinality(D)
<1>0. /\ IsFiniteSet(D) /\ bsp_apic_id \in D
      /\ {core_map[x] : x \in D} = 0..(n - 1)
      /\ \A x \in D : core_map[x] = 0 <=> x = bsp_apic_id
  BY DEF CpuInv, MapFits
<1>1. n \in Nat /\ n # 0
  BY <1>0, FS_CardinalityType, FS_EmptySet
<1>2. CASE c \in D
  <2>1. core_map' = core_map
    BY <1>2 DEF Cpu!Put
  <2>2. QED
    BY <2>1, <1>0, <1>2
<1>3. CASE c \notin D
  <2>1. core_map' = [x \in D \cup {c} |-> IF x = c THEN n ELSE core_map[x]]
    BY <1>3, CpuCardinality DEF Cpu!Put
  <2> HIDE DEF D, n
  <2>2. DOMAIN core_map' = D \cup {c} /\ core_map'[c] = n /\ \A x \in D : core_map'[x] = core_map[x]
    BY <2>1, <1>3
  <2>3. IsFiniteSet(D \cup {c}) /\ Cardinality(D \cup {c}) = n + 1
    BY <1>0, <1>3, FS_AddElement DEF n
  <2>4. {core_map'[x] : x \in D \cup {c}} = {core_map[x] : x \in D} \cup {n}
    BY <2>2
  <2>5. (0..(n - 1)) \cup {n} = 0..((n + 1) - 1)
    BY <1>1
  <2>6. \A x \in D \cup {c} : core_map'[x] = 0 <=> x = bsp_apic_id
    BY <2>2, <1>0, <1>1, <1>3
  <2>7. QED
    BY <2>2, <2>3, <2>4, <2>5, <2>6, <1>0 DEF D
<1>4. QED
  BY <1>2, <1>3

\* add_ioapic_intentry looks for an I/O APIC that has the line.
LEMMA RouteKnown ==
    ASSUME CpuInv, NEW g
    PROVE  (\E a \in Cpu!ToSet(ioApics) : Cpu!Covers(a, g)) <=>
           HasLine(g)
<1>1. DOMAIN ioApics = 1..Len(ioApics)
  BY DEF CpuInv, CpuShape
<1>2. QED
  BY <1>1 DEF Cpu!ToSet, HasLine

\* Without one it writes nothing.
LEMMA RouteSkips ==
    ASSUME CpuInv, NEW routes, NEW vector, NEW g,
           ~HasLine(g)
    PROVE  Cpu!Route(routes, vector, g) = routes
<1>1. ~\E a \in Cpu!ToSet(ioApics) : Cpu!Covers(a, g)
  BY RouteKnown
<1>2. QED
  BY <1>1 DEF Cpu!Route

\* One record of the MADT.
LEMMA ParseRecordInv == ASSUME CpuAssumption, CpuInv, Cpu!ParseRecord PROVE CpuInv'
<1> DEFINE rs == machine.records
           r == machine.records[index]
<1>0. /\ phase = "records" /\ index <= Len(rs) /\ index' = index + 1
      /\ core_map' = IF r.type = "lapic" /\ r.flags \in 1..3 THEN Cpu!AddCore(r) ELSE core_map
      /\ ioApics' = IF r.type = "ioapic" THEN Cpu!AddIoapic(r) ELSE ioApics
      /\ routed' = IF r.type = "override" THEN Cpu!Route(routed, r.irq + 32, r.gsi) ELSE routed
      /\ UNCHANGED <<machine, phase, bsp_apic_id, starting, started, ap>>
  BY DEF Cpu!ParseRecord
<1>1. CoresFit' /\ ap' \in [Others' -> Steps]
  BY <1>0, CoresWait
<1>2. /\ index \in Nat \ {0} /\ Len(rs) \in Nat /\ index \in 1..Len(rs)
      /\ ioApics \in Seq([base : Nat, entries : Nat])
  <2>1. index \in Nat \ {0} /\ ioApics \in Seq([base : Nat, entries : Nat])
    BY DEF CpuInv, CpuShape
  <2>2. Len(rs) \in Nat
    BY RecordFacts DEF CpuInv
  <2>3. QED
    BY <2>1, <2>2, <1>0
<1>3. /\ r.type = "lapic" => r.id \in Nat /\ r.flags \in 0..3
      /\ r.type = "ioapic" => r.base \in Nat /\ r.entries \in Nat
      /\ r.type = "override" => r.irq \in Nat /\ r.gsi \in Nat
  BY <1>2, RecordFacts DEF CpuInv
<1>4. \A g : /\ Listed(rs, index + 1) = IF r.type = "lapic" /\ r.flags \in 1..3
                                  THEN Listed(rs, index) \cup {r.id} ELSE Listed(rs, index)
             /\ Wired(rs, index + 1, g) <=> Wired(rs, index, g) \/ (r.type = "ioapic" /\ Cpu!Covers(r, g))
             /\ Overrides(rs, index + 1, g) =
                    IF r.type = "override" /\ r.gsi = g /\ Wired(rs, index, g)
                    THEN Overrides(rs, index, g) \cup {index} ELSE Overrides(rs, index, g)
  BY <1>2, NextRecord
<1> HIDE DEF rs, r
<1>5. MapFits'
  <2>0. DOMAIN core_map = Listed(rs, index) \cup {bsp_apic_id}
    BY <1>0 DEF CpuInv, MapFits, rs
  <2>1. CASE r.type = "lapic" /\ r.flags \in 1..3
    <3>1. core_map' = Cpu!Put(core_map, r.id, Cpu!Cardinality(DOMAIN core_map))
      BY <1>0, <2>1 DEF Cpu!AddCore
    <3>2. /\ DOMAIN core_map' = DOMAIN core_map \cup {r.id}
          /\ IsFiniteSet(DOMAIN core_map')
          /\ {core_map'[x] : x \in DOMAIN core_map'} = 0..(Cardinality(DOMAIN core_map') - 1)
          /\ \A x \in DOMAIN core_map' : core_map'[x] = 0 <=> x = bsp_apic_id
      BY <1>0, <3>1, AddCoreMap
    <3>3. DOMAIN core_map' = Listed(rs, index + 1) \cup {bsp_apic_id}
      BY <3>2, <2>0, <2>1, <1>4
    <3>4. QED
      BY <3>2, <3>3, <1>0 DEF CpuInv, MapFits, Cpu!Overridden, rs
  <2>2. CASE ~(r.type = "lapic" /\ r.flags \in 1..3)
    BY <2>2, <1>0, <1>4 DEF CpuInv, MapFits, Cpu!Overridden, rs
  <2>3. QED
    BY <2>1, <2>2
<1>6. ioApics' \in Seq([base : Nat, entries : Nat])
  <2>1. CASE r.type = "ioapic"
    <3> DEFINE a == [base |-> r.base, entries |-> r.entries]
               S == [base : Nat, entries : Nat]
    <3>1. ioApics' = Append(ioApics, a)
      BY <2>1, <1>0 DEF Cpu!AddIoapic
    <3>2. a \in S /\ ioApics \in Seq(S)
      BY <2>1, <1>2, <1>3
    <3> HIDE DEF a, S
    <3>3. ioApics' \in Seq(S)
      BY <3>1, <3>2, AppendProperties
    <3>4. QED
      BY <3>3 DEF S
  <2>2. CASE r.type # "ioapic"
    BY <2>2, <1>0, <1>2
  <2>3. QED
    BY <2>1, <2>2
<1>7. ASSUME NEW g \in Nat
      PROVE  (\E k \in 1..Len(ioApics') : Cpu!Covers(ioApics'[k], g)) <=> Wired(rs, index + 1, g)
  <2>0. HasLine(g) <=> Wired(rs, index, g)
    BY <1>0 DEF CpuInv, LinesFit, rs
  <2>1. CASE r.type = "ioapic"
    <3> DEFINE a == [base |-> r.base, entries |-> r.entries]
    <3>1. ioApics' = Append(ioApics, a)
      BY <2>1, <1>0 DEF Cpu!AddIoapic
    <3>2. Cpu!Covers(a, g) <=> Cpu!Covers(r, g)
      BY DEF Cpu!Covers
    <3> HIDE DEF a
    <3>3. /\ Len(ioApics') = Len(ioApics) + 1 /\ Len(ioApics) \in Nat /\ ioApics'[Len(ioApics) + 1] = a
          /\ \A k \in 1..Len(ioApics) : ioApics'[k] = ioApics[k]
      BY <1>2, <3>1
    <3>4. \A k : k \in 1..Len(ioApics') <=> k \in 1..Len(ioApics) \/ k = Len(ioApics) + 1
      BY <3>3
    <3>5. (\E k \in 1..Len(ioApics') : Cpu!Covers(ioApics'[k], g)) <=>
          HasLine(g) \/ Cpu!Covers(a, g)
      BY <3>3, <3>4 DEF HasLine
    <3>6. QED
      BY <3>2, <3>5, <2>0, <2>1, <1>4 DEF HasLine
  <2>2. CASE r.type # "ioapic"
    BY <2>0, <2>2, <1>0, <1>4 DEF HasLine
  <2>3. QED
    BY <2>1, <2>2
<1>8. /\ \A g \in Nat : g \in DOMAIN routed <=> Overrides(rs, index, g) # {}
      /\ \A g \in Nat : \A k \in Overrides(rs, index, g) :
            (\A j \in Overrides(rs, index, g) : j <= k) => routed[g] = rs[k].irq + 32
      /\ \A g \in Nat : HasLine(g) <=> Wired(rs, index, g)
  BY <1>0 DEF CpuInv, LinesFit, rs
<1>9. CASE r.type = "override" /\ Wired(rs, index, r.gsi)
  <2>1. /\ DOMAIN routed' = DOMAIN routed \cup {r.gsi} /\ routed'[r.gsi] = r.irq + 32
        /\ \A h \in DOMAIN routed \ {r.gsi} : routed'[h] = routed[h]
    <3>1. routed' = Cpu!Route(routed, r.irq + 32, r.gsi)
      BY <1>0, <1>9
    <3>2. HasLine(r.gsi)
      BY <1>3, <1>8, <1>9
    <3>3. routed' = [h \in DOMAIN routed \cup {r.gsi} |->
                       IF h = r.gsi THEN r.irq + 32 ELSE routed[h]]
      <4>1. \E a \in Cpu!ToSet(ioApics) : Cpu!Covers(a, r.gsi)
        BY <3>2, RouteKnown
      <4>2. QED
        BY <4>1, <3>1 DEF Cpu!Route
    <3>4. QED
      BY <3>3
  <2>2. ASSUME NEW g \in Nat PROVE g \in DOMAIN routed' <=> Overrides(rs, index + 1, g) # {}
    BY <2>1, <1>4, <1>8, <1>9
  <2>3. ASSUME NEW g \in Nat, NEW k \in Overrides(rs, index + 1, g),
               \A j \in Overrides(rs, index + 1, g) : j <= k
        PROVE  routed'[g] = rs[k].irq + 32
    <3>1. CASE g = r.gsi
      <4>1. Overrides(rs, index + 1, g) = Overrides(rs, index, g) \cup {index}
        BY <3>1, <1>4, <1>9
      <4>2. \A j \in Overrides(rs, index, g) : j \in Nat /\ j < index
        BY <1>2 DEF Overrides
      <4>3. index <= k
        BY <2>3, <4>1
      <4>4. k = index
        BY <4>1, <4>2, <4>3, <1>2
      <4>5. QED
        BY <4>4, <2>1, <3>1 DEF r, rs
    <3>2. CASE g # r.gsi
      <4>1. Overrides(rs, index + 1, g) = Overrides(rs, index, g)
        BY <3>2, <1>4
      <4>2. g \in DOMAIN routed /\ routed[g] = rs[k].irq + 32
        BY <4>1, <2>3, <1>8
      <4>3. QED
        BY <4>2, <3>2, <2>1
    <3>3. QED
      BY <3>1, <3>2
  <2>4. QED
    BY <2>2, <2>3, <1>0, <1>1, <1>5, <1>6, <1>7 DEF CpuInv, CpuShape, LinesFit, HasLine, rs
<1>10. CASE ~(r.type = "override" /\ Wired(rs, index, r.gsi))
  <2>1. routed' = routed
    <3>1. CASE r.type = "override"
      <4>1. ~HasLine(r.gsi)
        BY <3>1, <1>3, <1>8, <1>10
      <4>2. QED
        BY <4>1, <3>1, <1>0, RouteSkips
    <3>2. CASE r.type # "override"
      BY <3>2, <1>0
    <3>3. QED
      BY <3>1, <3>2
  <2>2. \A g \in Nat : Overrides(rs, index + 1, g) = Overrides(rs, index, g)
    BY <1>4, <1>10
  <2>3. /\ \A g \in Nat : g \in DOMAIN routed' <=> Overrides(rs, index + 1, g) # {}
        /\ \A g \in Nat : \A k \in Overrides(rs, index + 1, g) :
            (\A j \in Overrides(rs, index + 1, g) : j <= k) => routed'[g] = rs[k].irq + 32
    BY <2>1, <2>2, <1>8
  <2>4. QED
    BY <2>3, <1>0, <1>1, <1>5, <1>6, <1>7 DEF CpuInv, CpuShape, LinesFit, HasLine, rs
<1>11. QED
  BY <1>9, <1>10

\* The legacy lines are routed last, where no override took them.
LEMMA LegacyFacts ==
    ASSUME CpuInv, NEW routes, NEW vector, NEW g
    PROVE  /\ \A h \in DOMAIN routes : /\ h \in DOMAIN Cpu!Legacy(routes, vector, g)
                                       /\ Cpu!Legacy(routes, vector, g)[h] = routes[h]
           /\ \A h \in DOMAIN Cpu!Legacy(routes, vector, g) : h = g \/ h \in DOMAIN routes
           /\ g \notin DOMAIN routes /\ HasLine(g) =>
                 Cpu!Legacy(routes, vector, g)[g] = vector
<1>1. CASE g \in DOMAIN routes
  BY <1>1 DEF Cpu!Legacy
<1>2. CASE g \notin DOMAIN routes
  <2>1. Cpu!Legacy(routes, vector, g) = Cpu!Route(routes, vector, g)
    BY <1>2 DEF Cpu!Legacy
  <2>2. CASE HasLine(g)
    <3>1. Cpu!Route(routes, vector, g) =
             [h \in DOMAIN routes \cup {g} |-> IF h = g THEN vector ELSE routes[h]]
      <4>1. \E a \in Cpu!ToSet(ioApics) : Cpu!Covers(a, g)
        BY <2>2, RouteKnown
      <4>2. QED
        BY <4>1 DEF Cpu!Route
    <3>2. QED
      BY <1>2, <2>1, <3>1
  <2>3. CASE ~HasLine(g)
    <3>1. Cpu!Route(routes, vector, g) = routes
      BY <2>3, RouteSkips
    <3>2. QED
      BY <1>2, <2>1, <2>3, <3>1
  <2>4. QED
    BY <2>2, <2>3
<1>3. QED
  BY <1>1, <1>2

\* The lines at the end of the records.
LEMMA RecordsDoneInv == ASSUME CpuAssumption, CpuInv, Cpu!RecordsDone PROVE CpuInv'
<1> DEFINE rs == machine.records
           mid == Cpu!Legacy(routed, 33, 1)
<1>0. /\ phase = "records" /\ index > Len(rs) /\ phase' = "cores" /\ routed' = Cpu!Legacy(mid, 36, 4)
      /\ UNCHANGED <<machine, bsp_apic_id, index, core_map, ioApics, starting, started, ap>>
  BY DEF Cpu!RecordsDone
<1>1. CoresFit' /\ ap' \in [Others' -> Steps]
  BY <1>0, CoresWait
<1>2. MapFits' /\ CpuShape'
  BY <1>0, <1>1 DEF CpuInv, MapFits, CpuShape, Cpu!Overridden
<1>3. /\ \A h \in DOMAIN routed : h \in DOMAIN mid /\ mid[h] = routed[h]
      /\ \A h \in DOMAIN mid : h = 1 \/ h \in DOMAIN routed
  BY LegacyFacts
<1>4. /\ \A h \in DOMAIN mid : routed'[h] = mid[h]
      /\ 4 \notin DOMAIN mid /\ HasLine(4) => routed'[4] = 36
  BY <1>0, LegacyFacts
<1> HIDE DEF rs, mid
<1>5. /\ \A h \in DOMAIN routed : routed'[h] = routed[h]
      /\ 4 \notin DOMAIN routed /\ HasLine(4) => routed'[4] = 36
  BY <1>3, <1>4
<1>6. /\ \A g \in Nat : g \in DOMAIN routed <=> Overrides(rs, index, g) # {}
      /\ \A g \in Nat : \A k \in Overrides(rs, index, g) :
            (\A j \in Overrides(rs, index, g) : j <= k) => routed[g] = rs[k].irq + 32
  BY <1>0 DEF CpuInv, LinesFit, rs
<1>7. /\ Len(rs) \in Nat /\ index \in Nat /\ \A k \in 1..Len(rs) : k < index
      /\ \A k \in 1..Len(rs) : rs[k].type = "override" => rs[k].gsi \in Nat
  <2>1. Len(rs) \in Nat /\ index \in Nat
    BY RecordFacts DEF CpuInv, CpuShape, rs
  <2>2. \A k \in 1..Len(rs) : rs[k].type = "override" => rs[k].gsi \in Nat
    BY RecordFacts DEF CpuInv, rs
  <2>3. QED
    BY <2>1, <2>2, <1>0
<1> DEFINE Known(i) == \E j \in 1..(i - 1) : rs[j].type = "ioapic" /\ Cpu!Covers(rs[j], rs[i].gsi)
           Over(g) == {i \in 1..Len(rs) : rs[i].type = "override" /\ rs[i].gsi = g /\ Known(i)}
<1>8. ASSUME NEW i \in 1..Len(rs) PROVE Known(i) <=> Wired(rs, i, rs[i].gsi)
  <2>1. \A j : j \in 1..(i - 1) <=> j \in 1..Len(rs) /\ j < i
    BY <1>7
  <2>2. QED
    BY <2>1 DEF Wired
<1>9. ASSUME NEW g PROVE Over(g) = Overrides(rs, index, g)
  BY <1>7, <1>8 DEF Overrides
<1> HIDE DEF Known, Over
<1>10. ASSUME NEW i \in 1..Len(rs), rs[i].type = "override", Known(i), \A j \in Over(rs[i].gsi) : j <= i
       PROVE  routed'[rs[i].gsi] = rs[i].irq + 32
  <2>1. i \in Over(rs[i].gsi) /\ rs[i].gsi \in Nat
    BY <1>7, <1>10 DEF Over
  <2>2. i \in Overrides(rs, index, rs[i].gsi) /\ \A j \in Overrides(rs, index, rs[i].gsi) : j <= i
    BY <2>1, <1>9, <1>10
  <2>3. rs[i].gsi \in DOMAIN routed /\ routed[rs[i].gsi] = rs[i].irq + 32
    BY <2>1, <2>2, <1>6
  <2>4. QED
    BY <2>3, <1>5
<1>11. ASSUME Over(4) = {}, \E a \in Cpu!ToSet(ioApics) : Cpu!Covers(a, 4)
       PROVE  routed'[4] = 36
  <2>1. 4 \notin DOMAIN routed
    BY <1>6, <1>9, <1>11
  <2>2. DOMAIN ioApics = 1..Len(ioApics)
    BY DEF CpuInv, CpuShape
  <2>3. HasLine(4)
    BY <2>2, <1>11 DEF Cpu!ToSet, HasLine
  <2>4. QED
    BY <2>1, <2>3, <1>5
<1>12. Cpu!LinesRouted'
  BY <1>0, <1>10, <1>11 DEF Cpu!LinesRouted, Known, Over, rs
<1>13. LinesFit'
  BY <1>0, <1>12 DEF LinesFit
<1>14. QED
  BY <1>1, <1>2, <1>13 DEF CpuInv

\* The state before the kernel looks for the tables.
LEMMA CpuStartInv == ASSUME CpuAssumption, Cpu!Init PROVE CpuInv
<1>1. /\ machine \in Machines /\ phase = "acpi" /\ index = 1 /\ ioApics = <<>> /\ routed = <<>>
      /\ starting = Cpu!NoCore /\ started = {} /\ ap = [i \in Others |-> "off"]
  BY DEF Cpu!Init, Others
<1>2. <<>> \in Seq([base : Nat, entries : Nat])
  OBVIOUS
<1>3. ap \in [Others -> Steps]
  BY <1>1 DEF Steps
<1>4. CpuShape
  BY <1>1, <1>2, <1>3 DEF CpuShape
<1>5. MapFits /\ LinesFit
  BY <1>1 DEF MapFits, LinesFit
<1>6. Cpu!OnBootStack = {}
  BY <1>1 DEF Cpu!OnBootStack
<1>7. CoresFit
  BY <1>1, <1>6 DEF CoresFit
<1>8. QED
  BY <1>4, <1>5, <1>7 DEF CpuInv

\* The invariant implies the property.
LEMMA CpuInvExact == ASSUME CpuAssumption, CpuInv PROVE CoresExact
<1>1. Cpu!Cardinality(Cpu!OnBootStack) <= 1
  BY BootStackAlone DEF CpuInv
<1>2. ASSUME phase \in {"cores", "done"}
      PROVE  /\ DOMAIN core_map = Cpu!Enabled \union {bsp_apic_id}
             /\ {core_map[i] : i \in DOMAIN core_map} = 0..(Cpu!Cardinality(DOMAIN core_map) - 1)
             /\ ~Cpu!Overridden => machine.bsp \in DOMAIN core_map /\ core_map[machine.bsp] = 0
  <2>1. Listed(machine.records, index) = Cpu!Enabled
    BY <1>2, ListedAll DEF CpuInv, CpuShape
  <2>2. /\ DOMAIN core_map = Listed(machine.records, index) \cup {bsp_apic_id}
        /\ {core_map[x] : x \in DOMAIN core_map} = 0..(Cardinality(DOMAIN core_map) - 1)
        /\ \A x \in DOMAIN core_map : core_map[x] = 0 <=> x = bsp_apic_id
        /\ ~Cpu!Overridden => bsp_apic_id = machine.bsp
    BY <1>2 DEF CpuInv, MapFits
  <2>3. QED
    BY <2>1, <2>2, CpuCardinality
<1>3. ASSUME phase = "done" PROVE \A i \in DOMAIN core_map : core_map[i] = 0 \/ Cpu!IsIdle(i)
  BY <1>3 DEF CpuInv, MapFits, CoresFit
<1>4. Cpu!CoresExact
  BY <1>1, <1>2, <1>3 DEF Cpu!CoresExact
<1>5. Cpu!LinesRouted
  <2>1. CASE phase \in {"cores", "done"}
    BY <2>1 DEF CpuInv, LinesFit
  <2>2. CASE phase \notin {"cores", "done"}
    BY <2>2 DEF Cpu!LinesRouted
  <2>3. QED
    BY <2>1, <2>2
<1>6. QED
  BY <1>4, <1>5 DEF CoresExact

\* Steps that change nothing.
LEMMA CpuStutter == ASSUME CpuInv, UNCHANGED Cpu!cpuVars PROVE CpuInv'
<1>1. UNCHANGED <<machine, phase, bsp_apic_id, index, core_map, ioApics, routed, starting, started, ap>>
  BY DEF Cpu!cpuVars
<1>2. Others' = Others /\ Cpu!OnBootStack' = Cpu!OnBootStack
  BY <1>1 DEF Others, Cpu!Lapics, Cpu!OnBootStack
<1>3. CpuShape' /\ MapFits'
  BY <1>1, <1>2 DEF CpuInv, CpuShape, MapFits, Cpu!Overridden
<1>4. Cpu!LinesRouted' <=> Cpu!LinesRouted
  BY <1>1 DEF Cpu!LinesRouted
<1>5. LinesFit'
  BY <1>1, <1>4 DEF CpuInv, LinesFit, HasLine
<1>6. CoresFit'
  BY <1>1, <1>2 DEF CpuInv, CoresFit, Cpu!IsIdle
<1>7. QED
  BY <1>3, <1>5, <1>6 DEF CpuInv

\* Whatever tables the firmware hands over, with the records of the MADT in any order and
\* cores listed any number of times: the usable cores get the linear ids 0 to n - 1, and the
\* boot core 0 unless an address override was misread, no two cores are on the boot stack at once although start-up
\* interrupts may be lost, and every override behind the record of its I/O APIC is routed.
THEOREM CoresAreExact == Cpu!Spec => []CoresExact
<1>0. CpuAssumption
  BY BootAssumption
<1>1. Cpu!Init => CpuInv
  BY <1>0, CpuStartInv
<1>2. CpuInv /\ [Cpu!Next]_Cpu!cpuVars => CpuInv'
  <2>1. ASSUME CpuInv, Cpu!Boot PROVE CpuInv'
    BY <1>0, <2>1, InitAcpiInv, MapLapicInv, ParseRecordInv, RecordsDoneInv, SendSipiInv,
       CoreIsUpInv, InitTimeInv, StartCoreInv DEF Cpu!Boot
  <2>2. ASSUME CpuInv, NEW id \in DOMAIN ap, Cpu!Core(id) PROVE CpuInv'
    BY <1>0, <2>2, CoreInv
  <2>3. QED
    BY <2>1, <2>2, CpuStutter DEF Cpu!Next
<1>3. CpuInv => CoresExact
  BY <1>0, CpuInvExact
<1>4. QED
  BY <1>1, <1>2, <1>3, PTL DEF Cpu!Spec

=============================================================================
