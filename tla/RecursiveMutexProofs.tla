------------------------- MODULE RecursiveMutexProofs -------------------------
(***************************************************************************)
(* Mutual exclusion of RecursiveMutex for every finite set of threads and   *)
(* every nesting depth.                                                     *)
(*                                                                          *)
(* The lock is a token: it is in the hands of one thread (Holding), or it   *)
(* is a permit of the semaphore (Permit), or the mutex is free.  f_counter  *)
(* counts claims, one per lock() call not yet undone.  The invariant ties   *)
(* the two together: there are claims exactly while the token is out, so    *)
(* the first claim takes a free lock and the last one may drop it without   *)
(* a hand-over.                                                             *)
(***************************************************************************)
EXTENDS RecursiveMutex, FiniteSetTheorems, TLAPS

\* The claims of each thread: its open lock() calls, the one it is making once
\* that is counted, and the one it is undoing until that is counted.
Claim == [t \in Threads |->
    depth[t] + (IF pc[t] \in {"owned?", "acquire", "own", "nest", "disown", "sub"}
                THEN 1 ELSE 0)]

\* Claims as a set, so that f_counter is its cardinality.
Tokens(c) == {p \in Threads \X (1..MaxDepth) : p[2] <= c[p[1]]}

Permit == f_current + Cardinality(f_semaphore!Undoing)

WaitingFor(t) == depth[t] = 0 /\ pc[t] \in {"owned?", "acquire"}

Shape ==
    /\ f_counter \in Int
    /\ f_recursion \in 0..MaxDepth
    /\ f_owner \in Threads \cup {NoOwner}
    /\ f_current \in Int
    /\ at \in [Threads -> f_semaphore!Locations]
    /\ pc \in [Threads -> Pcs]
    /\ r \in [Threads -> 0..MaxDepth]
    /\ depth \in [Threads -> 0..MaxDepth]

\* What each location of a thread says about its depth and its semaphore state.
Local(t) ==
    /\ pc[t] \in {"add", "owned?", "acquire", "own", "nest", "disown", "sub",
                  "tryadd", "trycas"} => depth[t] < MaxDepth
    /\ pc[t] \in {"acquire", "trycas", "release"} => depth[t] = 0
    /\ pc[t] \in {"unnest", "tryadd"} => depth[t] > 0
    /\ pc[t] \in {"disown", "sub"} => r[t] = depth[t]
    /\ at[t] = "undo" => pc[t] = "acquire"

Counted == f_counter = Cardinality(Tokens(Claim))

OneHolder == \A s, t \in Threads : Holding(s) /\ Holding(t) => s = t

OwnerKnown ==
    \A t \in Threads :
        f_owner = t <=> depth[t] > 0 \/ pc[t] \in {"nest", "disown"}

RecursionKnown ==
    /\ \A t \in Threads : Holding(t) => f_recursion = depth[t]
    /\ (\A t \in Threads : ~Holding(t)) => f_recursion = 0

\* The permit is the token: never two of them, never one beside a holder, and
\* never without a thread to take it.
PermitInv ==
    /\ Permit \in {0, 1}
    /\ Permit = 1 => \A t \in Threads : ~Holding(t)
    /\ Permit = 1 \/ (\E t \in Threads : pc[t] = "release")
         => \E t \in Threads : WaitingFor(t)

TokenOut ==
    (\E t \in Threads : WaitingFor(t)) =>
        Permit = 1 \/ \E t \in Threads : Holding(t)

IInv ==
    /\ Shape
    /\ \A t \in Threads : Local(t)
    /\ Counted
    /\ OneHolder
    /\ OwnerKnown
    /\ RecursionKnown
    /\ PermitInv
    /\ TokenOut

-----------------------------------------------------------------------------
(* Counting claims *)

Counts == [Threads -> 0..MaxDepth]

LEMMA TokensFinite ==
    ASSUME NEW c \in Counts
    PROVE  IsFiniteSet(Tokens(c)) /\ Cardinality(Tokens(c)) \in Nat
<1>1. IsFiniteSet(1..MaxDepth)
  BY FS_Interval, MutexAssumption
<1>2. IsFiniteSet(Threads \X (1..MaxDepth))
  BY <1>1, FS_Product, MutexAssumption
<1>3. Tokens(c) \in SUBSET (Threads \X (1..MaxDepth))
  BY DEF Tokens
<1>4. QED
  BY <1>2, <1>3, FS_Subset, FS_CardinalityType

\* One more claim is one more token.
LEMMA TokensAdd ==
    ASSUME NEW c \in Counts, NEW d \in Counts, NEW t \in Threads,
           d[t] = c[t] + 1, \A s \in Threads : s # t => d[s] = c[s]
    PROVE  Cardinality(Tokens(d)) = Cardinality(Tokens(c)) + 1
<1>1. Tokens(d) = Tokens(c) \cup {<<t, d[t]>>}
  BY MutexAssumption DEF Tokens, Counts
<1>2. <<t, d[t]>> \notin Tokens(c)
  BY MutexAssumption DEF Tokens, Counts
<1>3. QED
  BY <1>1, <1>2, TokensFinite, FS_AddElement

\* No tokens means no claims.
LEMMA TokensZero ==
    ASSUME NEW c \in Counts
    PROVE  Cardinality(Tokens(c)) = 0 <=> \A t \in Threads : c[t] = 0
<1>1. Cardinality(Tokens(c)) = 0 <=> Tokens(c) = {}
  BY TokensFinite, FS_EmptySet
<1>2. ASSUME NEW t \in Threads, c[t] # 0 PROVE <<t, 1>> \in Tokens(c)
  BY <1>2, MutexAssumption DEF Tokens, Counts
<1>3. ASSUME \A t \in Threads : c[t] = 0 PROVE Tokens(c) = {}
  BY <1>3, MutexAssumption DEF Tokens, Counts
<1>4. QED
  BY <1>1, <1>2, <1>3

LEMMA ClaimType == IInv => Claim \in Counts
  BY MutexAssumption DEF IInv, Shape, Local, Claim, Counts

\* The mutex is free exactly when f_counter is 0.
LEMMA FreeIsZero ==
    ASSUME IInv
    PROVE  /\ f_counter \in Nat
           /\ f_counter = 0 =>
                /\ Permit = 0
                /\ \A t \in Threads : ~Holding(t) /\ ~WaitingFor(t)
           /\ \A t \in Threads : depth[t] > 0 => f_counter > 0
<1>1. Claim \in Counts
  BY ClaimType
<1>2. f_counter \in Nat
  BY <1>1, TokensFinite DEF IInv, Counted
<1>3. ASSUME f_counter = 0 PROVE \A t \in Threads : Claim[t] = 0
  BY <1>1, <1>3, TokensZero DEF IInv, Counted
<1>4. ASSUME NEW t \in Threads, Claim[t] = 0
      PROVE  /\ depth[t] = 0
             /\ pc[t] \notin {"owned?", "acquire", "own", "nest", "disown", "sub"}
  BY <1>4 DEF Claim, IInv, Shape
<1>5. f_counter = 0 => \A t \in Threads : ~WaitingFor(t)
  BY <1>3, <1>4 DEF WaitingFor
<1>6. f_counter = 0 => Permit = 0 /\ \A t \in Threads : pc[t] # "release"
  BY <1>5 DEF IInv, PermitInv
<1>7. f_counter = 0 => \A t \in Threads : ~Holding(t)
  BY <1>3, <1>4, <1>6 DEF Holding, IInv, Shape
<1>8. \A t \in Threads : depth[t] > 0 => f_counter > 0
  BY <1>2, <1>3, <1>4
<1>9. QED
  BY <1>2, <1>5, <1>6, <1>7, <1>8

-----------------------------------------------------------------------------
(* The invariant holds initially *)

LEMMA InitIInv == Init => IInv
<1> SUFFICES ASSUME Init PROVE IInv
  OBVIOUS
<1>1. Shape /\ \A t \in Threads : Local(t)
  BY MutexAssumption DEF Init, f_semaphore!Init, f_semaphore!Locations, Pcs, Shape, Local
<1>2. Claim \in Counts /\ \A t \in Threads : Claim[t] = 0
  BY MutexAssumption DEF Init, Claim, Counts
<1>3. Counted
  BY <1>2, TokensZero DEF Counted, Init
<1>4. \A t \in Threads : ~Holding(t) /\ ~WaitingFor(t) /\ pc[t] # "release"
  BY DEF Init, Holding, WaitingFor
<1>5. Permit = 0
  <2>1. f_semaphore!Undoing = {}
    BY DEF Init, f_semaphore!Init, f_semaphore!Undoing
  <2>2. QED
    BY <2>1, FS_EmptySet DEF Permit, Init, f_semaphore!Init
<1>6. OwnerKnown
  BY MutexAssumption DEF Init, OwnerKnown
<1>7. QED
  BY <1>1, <1>3, <1>4, <1>5, <1>6
     DEF IInv, OneHolder, RecursionKnown, PermitInv, TokenOut, Init

-----------------------------------------------------------------------------
(* The invariant is preserved *)

\* A step that leaves the semaphore alone leaves the permit where it is.
LEMMA SemQuiet == ASSUME UNCHANGED semVars PROVE Permit' = Permit
  BY DEF semVars, Permit, f_semaphore!Undoing

LEMMA UndoingFinite ==
    IsFiniteSet(f_semaphore!Undoing) /\ Cardinality(f_semaphore!Undoing) \in Nat
<1>1. f_semaphore!Undoing \in SUBSET Threads
  BY DEF f_semaphore!Undoing
<1>2. QED
  BY <1>1, FS_Subset, FS_CardinalityType, MutexAssumption

\* A step that counts one more claim of t keeps f_counter exact.
LEMMA OneMoreClaim ==
    ASSUME IInv, NEW t \in Threads, Claim' \in Counts, f_counter' = f_counter + 1,
           Claim'[t] = Claim[t] + 1, \A s \in Threads : s # t => Claim'[s] = Claim[s]
    PROVE  Counted'
  BY ClaimType, TokensAdd DEF IInv, Counted

\* Entering lock() changes nothing that the invariant speaks of.
LEMMA CallLockStep == ASSUME IInv, NEW t \in Threads, CallLock(t) PROVE IInv'
<1> USE MutexAssumption DEF CallLock, Goto
<1>1. Shape' /\ \A s \in Threads : Local(s)'
  BY DEF IInv, Shape, Local, Pcs, semVars
<1>2. Claim' = Claim
  BY DEF IInv, Shape, Local, Claim
<1>3. Permit' = Permit
  BY SemQuiet
<1>4. \A s \in Threads : (Holding(s)' <=> Holding(s)) /\ (WaitingFor(s)' <=> WaitingFor(s))
  BY DEF IInv, Shape, Local, Holding, WaitingFor
<1>5. QED
  BY <1>1, <1>2, <1>3, <1>4
     DEF IInv, Counted, OneHolder, OwnerKnown, RecursionKnown, PermitInv, TokenOut, Shape, Holding, Local

\* Entering unlock() changes nothing that the invariant speaks of.
LEMMA CallUnlockStep == ASSUME IInv, NEW t \in Threads, CallUnlock(t) PROVE IInv'
<1> USE MutexAssumption DEF CallUnlock, Goto
<1>1. Shape' /\ \A s \in Threads : Local(s)'
  BY DEF IInv, Shape, Local, Pcs, semVars
<1>2. Claim' = Claim
  BY DEF IInv, Shape, Local, Claim
<1>3. Permit' = Permit
  BY SemQuiet
<1>4. \A s \in Threads : (Holding(s)' <=> Holding(s)) /\ (WaitingFor(s)' <=> WaitingFor(s))
  BY DEF IInv, Shape, Local, Holding, WaitingFor
<1>5. QED
  BY <1>1, <1>2, <1>3, <1>4
     DEF IInv, Counted, OneHolder, OwnerKnown, RecursionKnown, PermitInv, TokenOut, Shape, Holding, Local

\* try_lock() reads f_owner, which is t exactly when t holds the lock.
LEMMA CallTryLockStep == ASSUME IInv, NEW t \in Threads, CallTryLock(t) PROVE IInv'
<1> USE MutexAssumption DEF CallTryLock, Goto
<1>1. Shape' /\ \A s \in Threads : Local(s)'
  BY DEF IInv, Shape, Local, Pcs, semVars, OwnerKnown
<1>2. Claim' = Claim
  BY DEF IInv, Shape, Local, Claim
<1>3. Permit' = Permit
  BY SemQuiet
<1>4. \A s \in Threads : (Holding(s)' <=> Holding(s)) /\ (WaitingFor(s)' <=> WaitingFor(s))
  BY DEF IInv, Shape, Local, Holding, WaitingFor
<1>5. QED
  BY <1>1, <1>2, <1>3, <1>4
     DEF IInv, Counted, OneHolder, OwnerKnown, RecursionKnown, PermitInv, TokenOut, Shape, Holding, Local

\* Only the holder writes f_owner, so no other thread finds its own tid there.
LEMMA SetOwnerStep == ASSUME IInv, NEW t \in Threads, SetOwner(t) PROVE IInv'
<1> USE MutexAssumption DEF SetOwner, Goto
<1>1. Shape' /\ \A s \in Threads : Local(s)'
  BY DEF IInv, Shape, Local, Pcs, semVars
<1>2. Claim' = Claim
  BY DEF IInv, Shape, Local, Claim
<1>3. Permit' = Permit
  BY SemQuiet
<1>4. \A s \in Threads : (Holding(s)' <=> Holding(s)) /\ (WaitingFor(s)' <=> WaitingFor(s))
  BY DEF IInv, Shape, Local, Holding, WaitingFor
<1>5. QED
  BY <1>1, <1>2, <1>3, <1>4
     DEF IInv, Counted, OneHolder, OwnerKnown, RecursionKnown, PermitInv, TokenOut, Shape, Holding, Local

\* The holder deepens its nesting; its claim turns into an open call.
LEMMA NestStep == ASSUME IInv, NEW t \in Threads, Nest(t) PROVE IInv'
<1> USE MutexAssumption DEF Nest, Goto
<1>1. Shape' /\ \A s \in Threads : Local(s)'
  BY DEF IInv, Shape, Local, Pcs, semVars, RecursionKnown, Holding
<1>2. Claim' = Claim
  BY DEF IInv, Shape, Local, Claim
<1>3. Permit' = Permit
  BY SemQuiet
<1>4. \A s \in Threads : (Holding(s)' <=> Holding(s)) /\ (WaitingFor(s)' <=> WaitingFor(s))
  BY DEF IInv, Shape, Local, Holding, WaitingFor
<1>5. QED
  BY <1>1, <1>2, <1>3, <1>4
     DEF IInv, Counted, OneHolder, OwnerKnown, RecursionKnown, PermitInv, TokenOut, Shape, Holding, Local

\* The holder starts undoing a call; the open call turns into a claim.
LEMMA UnnestStep == ASSUME IInv, NEW t \in Threads, Unnest(t) PROVE IInv'
<1> USE MutexAssumption DEF Unnest, Goto
<1>1. Shape' /\ \A s \in Threads : Local(s)'
  BY DEF IInv, Shape, Local, Pcs, semVars, RecursionKnown, Holding
<1>2. Claim' = Claim
  BY DEF IInv, Shape, Local, Claim
<1>3. Permit' = Permit
  BY SemQuiet
<1>4. \A s \in Threads : (Holding(s)' <=> Holding(s)) /\ (WaitingFor(s)' <=> WaitingFor(s))
  BY DEF IInv, Shape, Local, Holding, WaitingFor
<1>5. QED
  BY <1>1, <1>2, <1>3, <1>4
     DEF IInv, Counted, OneHolder, OwnerKnown, RecursionKnown, PermitInv, TokenOut, Shape, Holding, Local

\* f_owner is cleared exactly when the last level is undone.
LEMMA DisownStep == ASSUME IInv, NEW t \in Threads, Disown(t) PROVE IInv'
<1> USE MutexAssumption DEF Disown, Goto
<1>1. Shape' /\ \A s \in Threads : Local(s)'
  BY DEF IInv, Shape, Local, Pcs, semVars
<1>2. Claim' = Claim
  BY DEF IInv, Shape, Local, Claim
<1>3. Permit' = Permit
  BY SemQuiet
<1>4. \A s \in Threads : (Holding(s)' <=> Holding(s)) /\ (WaitingFor(s)' <=> WaitingFor(s))
  BY DEF IInv, Shape, Local, Holding, WaitingFor
<1>5. QED
  BY <1>1, <1>2, <1>3, <1>4
     DEF IInv, Counted, OneHolder, OwnerKnown, RecursionKnown, PermitInv, TokenOut, Shape, Holding, Local

\* A nested call finds itself the owner and goes on; any other thread queues.
LEMMA CheckOwnerStep == ASSUME IInv, NEW t \in Threads, CheckOwner(t) PROVE IInv'
<1> USE MutexAssumption DEF CheckOwner, Goto, f_semaphore!Call
<1>1. f_owner = t <=> depth[t] > 0
  BY DEF IInv, OwnerKnown
<1>2. Shape' /\ \A s \in Threads : Local(s)'
  BY <1>1 DEF IInv, Shape, Local, Pcs, semVars, f_semaphore!Locations
<1>3. Claim' = Claim
  BY DEF IInv, Shape, Claim
<1>4. f_semaphore!Undoing' = f_semaphore!Undoing
  BY DEF IInv, Shape, Local, semVars, f_semaphore!Undoing
<1>5. Permit' = Permit
  BY <1>4 DEF Permit, semVars
<1>6. \A s \in Threads : (Holding(s)' <=> Holding(s)) /\ (WaitingFor(s)' <=> WaitingFor(s))
  BY <1>1 DEF IInv, Shape, Holding, WaitingFor
<1>7. QED
  BY <1>1, <1>2, <1>3, <1>5, <1>6
     DEF IInv, Counted, OneHolder, OwnerKnown, RecursionKnown, PermitInv, TokenOut, Shape

\* Spinning moves a failed decrement back, which is the same permit.
LEMMA SpinStep == ASSUME IInv, NEW t \in Threads, Spin(t) PROVE IInv'
<1> USE MutexAssumption DEF Spin
<1>1. Shape' /\ \A s \in Threads : Local(s)'
  BY DEF IInv, Shape, Local, f_semaphore!Locations, f_semaphore!Load, f_semaphore!Undo
<1>2. Claim' = Claim
  BY DEF Claim
<1>3. Permit' = Permit
  <2>1. CASE f_semaphore!Load(t)
    <3>1. f_semaphore!Undoing' = f_semaphore!Undoing
      BY <2>1 DEF f_semaphore!Load, f_semaphore!Undoing, IInv, Shape
    <3>2. QED
      BY <2>1, <3>1 DEF Permit, f_semaphore!Load
  <2>2. CASE f_semaphore!Undo(t)
    <3>1. f_semaphore!Undoing' = f_semaphore!Undoing \ {t} /\ t \in f_semaphore!Undoing
      BY <2>2 DEF f_semaphore!Undo, f_semaphore!Undoing, IInv, Shape
    <3>2. Cardinality(f_semaphore!Undoing') = Cardinality(f_semaphore!Undoing) - 1
      BY <3>1, UndoingFinite, FS_RemoveElement
    <3>3. QED
      BY <2>2, <3>2, UndoingFinite DEF Permit, f_semaphore!Undo, IInv, Shape
  <2>3. QED
    BY <2>1, <2>2
<1>4. \A s \in Threads : (Holding(s)' <=> Holding(s)) /\ (WaitingFor(s)' <=> WaitingFor(s))
  BY DEF Holding, WaitingFor
<1>5. QED
  BY <1>1, <1>2, <1>3, <1>4
     DEF IInv, Counted, OneHolder, OwnerKnown, RecursionKnown, PermitInv, TokenOut, Shape

\* A positive f_current is the permit: the thread that takes it is alone.
LEMMA AcquireStep == ASSUME IInv, NEW t \in Threads, Acquire(t) PROVE IInv'
<1> USE MutexAssumption DEF Acquire, Goto, f_semaphore!Sub
<1>1. Shape' /\ \A s \in Threads : Local(s)'
  BY DEF IInv, Shape, Local, Pcs, f_semaphore!Locations
<1>2. Claim' = Claim
  BY DEF IInv, Shape, Claim
<1>3. CASE f_current > 0
  <2>1. f_semaphore!Undoing' = f_semaphore!Undoing
    BY <1>3 DEF f_semaphore!Undoing, IInv, Shape
  <2>2. Permit = 1 /\ Permit' = 0
    BY <1>3, <2>1, UndoingFinite DEF Permit, IInv, PermitInv, Shape
  <2>3. \A s \in Threads : ~Holding(s)
    BY <2>2 DEF IInv, PermitInv
  <2>4. \A s \in Threads : Holding(s)' <=> s = t
    BY <1>3, <2>3 DEF Holding, IInv, Shape
  <2>5. \A s \in Threads : pc'[s] # "release"
    BY <1>3, <2>3 DEF Holding, IInv, Shape
  <2>6. QED
    BY <1>1, <1>2, <1>3, <2>2, <2>3, <2>4, <2>5
       DEF IInv, Counted, OneHolder, OwnerKnown, RecursionKnown, PermitInv, TokenOut,
           Shape, Local
<1>4. CASE ~(f_current > 0)
  <2>1. f_semaphore!Undoing' = f_semaphore!Undoing \cup {t} /\ t \notin f_semaphore!Undoing
    BY <1>4 DEF f_semaphore!Undoing, IInv, Shape
  <2>2. Cardinality(f_semaphore!Undoing') = Cardinality(f_semaphore!Undoing) + 1
    BY <2>1, UndoingFinite, FS_AddElement
  <2>3. Permit' = Permit
    BY <2>2, UndoingFinite DEF Permit, IInv, Shape
  <2>4. \A s \in Threads :
            (Holding(s)' <=> Holding(s)) /\ (WaitingFor(s)' <=> WaitingFor(s))
    BY <1>4 DEF Holding, WaitingFor, IInv, Shape
  <2>5. QED
    BY <1>1, <1>2, <1>4, <2>3, <2>4
       DEF IInv, Counted, OneHolder, OwnerKnown, RecursionKnown, PermitInv, TokenOut, Shape
<1>5. QED
  BY <1>3, <1>4

\* The first claim takes the free lock; any later one waits or nests.
LEMMA AddCounterStep == ASSUME IInv, NEW t \in Threads, AddCounter(t) PROVE IInv'
<1> USE MutexAssumption DEF AddCounter, Goto
<1>1. Shape' /\ \A s \in Threads : Local(s)'
  BY FreeIsZero DEF IInv, Shape, Local, Pcs, semVars
<1>2. Counted'
  BY OneMoreClaim DEF IInv, Shape, Local, Claim, Counts
<1>3. Permit' = Permit
  BY SemQuiet
<1>4. CASE f_counter > 0
  <2>1. \A s \in Threads : Holding(s)' <=> Holding(s)
    BY <1>4 DEF IInv, Shape, Holding
  <2>2. \A s \in Threads : WaitingFor(s) => WaitingFor(s)'
    BY <1>4 DEF IInv, Shape, WaitingFor
  <2>3. Permit = 1 \/ \E s \in Threads : Holding(s)
    <3>1. PICK s \in Threads : Claim[s] # 0
      BY <1>4, ClaimType, TokensZero DEF IInv, Counted
    <3>2. Holding(s) \/ WaitingFor(s)
      BY <3>1 DEF Claim, Holding, WaitingFor, IInv, Shape, Pcs
    <3>3. QED
      BY <3>2 DEF IInv, TokenOut
  <2>4. QED
    BY <1>1, <1>2, <1>3, <1>4, <2>1, <2>2, <2>3
       DEF IInv, OneHolder, OwnerKnown, RecursionKnown, PermitInv, TokenOut, Shape
<1>5. CASE ~(f_counter > 0)
  <2>1. Permit = 0 /\ \A s \in Threads : ~Holding(s) /\ ~WaitingFor(s)
    BY <1>5, FreeIsZero
  <2>2. \A s \in Threads : (Holding(s)' <=> s = t) /\ ~WaitingFor(s)'
    BY <1>5, <2>1 DEF IInv, Shape, Holding, WaitingFor
  <2>3. \A s \in Threads : pc'[s] # "release"
    BY <1>5, <2>1 DEF IInv, Shape, Holding
  <2>4. f_recursion = 0 /\ depth[t] = 0
    BY <2>1 DEF IInv, Shape, RecursionKnown, Holding
  <2>5. OwnerKnown'
    BY <1>5 DEF IInv, Shape, OwnerKnown
  <2>6. QED
    BY <1>1, <1>2, <1>3, <1>5, <2>1, <2>2, <2>3, <2>4, <2>5
       DEF IInv, OneHolder, RecursionKnown, PermitInv, TokenOut, Shape
<1>6. QED
  BY <1>4, <1>5

\* A nested try_lock() adds a claim of the holder.
LEMMA TryAddStep == ASSUME IInv, NEW t \in Threads, TryAdd(t) PROVE IInv'
<1> USE MutexAssumption DEF TryAdd, Goto
<1>1. Shape' /\ \A s \in Threads : Local(s)'
  BY DEF IInv, Shape, Local, Pcs, semVars
<1>2. Counted'
  BY OneMoreClaim DEF IInv, Shape, Local, Claim, Counts
<1>3. Permit' = Permit
  BY SemQuiet
<1>4. \A s \in Threads : (Holding(s)' <=> Holding(s)) /\ (WaitingFor(s)' <=> WaitingFor(s))
  BY DEF IInv, Shape, Local, Holding, WaitingFor
<1>5. QED
  BY <1>1, <1>2, <1>3, <1>4
     DEF IInv, OneHolder, OwnerKnown, RecursionKnown, PermitInv, TokenOut, Shape, Local

\* The compare and exchange succeeds only on a free lock.
LEMMA TryCasStep == ASSUME IInv, NEW t \in Threads, TryCas(t) PROVE IInv'
<1> USE MutexAssumption DEF TryCas, Goto
<1>1. Shape' /\ \A s \in Threads : Local(s)'
  BY DEF IInv, Shape, Local, Pcs, semVars
<1>2. Permit' = Permit
  BY SemQuiet
<1>3. CASE f_counter = 0
  <2>1. Counted'
    BY <1>3, OneMoreClaim DEF IInv, Shape, Local, Claim, Counts
  <2>2. Permit = 0 /\ \A s \in Threads : ~Holding(s) /\ ~WaitingFor(s)
    BY <1>3, FreeIsZero
  <2>3. \A s \in Threads : (Holding(s)' <=> s = t) /\ ~WaitingFor(s)'
    BY <1>3, <2>2 DEF IInv, Shape, Holding, WaitingFor
  <2>4. \A s \in Threads : pc'[s] # "release"
    BY <1>3, <2>2 DEF IInv, Shape, Holding
  <2>5. f_recursion = 0 /\ depth[t] = 0
    BY <2>2 DEF IInv, Shape, RecursionKnown, Holding
  <2>6. OwnerKnown'
    BY <1>3 DEF IInv, Shape, OwnerKnown
  <2>7. QED
    BY <1>1, <1>2, <1>3, <2>1, <2>2, <2>3, <2>4, <2>5, <2>6
       DEF IInv, OneHolder, RecursionKnown, PermitInv, TokenOut, Shape
<1>4. CASE f_counter # 0
  <2>1. Claim' = Claim
    BY <1>4 DEF IInv, Shape, Claim
  <2>2. \A s \in Threads :
            (Holding(s)' <=> Holding(s)) /\ (WaitingFor(s)' <=> WaitingFor(s))
    BY <1>4 DEF IInv, Shape, Holding, WaitingFor
  <2>3. QED
    BY <1>1, <1>2, <1>4, <2>1, <2>2
       DEF IInv, Counted, OneHolder, OwnerKnown, RecursionKnown, PermitInv, TokenOut, Shape
<1>5. QED
  BY <1>3, <1>4

\* The last claim drops the lock; otherwise some thread waits for the hand-over.
LEMMA SubCounterStep == ASSUME IInv, NEW t \in Threads, SubCounter(t) PROVE IInv'
<1> USE MutexAssumption DEF SubCounter, Goto
<1>1. Shape' /\ \A s \in Threads : Local(s)'
  BY DEF IInv, Shape, Local, Pcs, semVars
<1>2. Claim \in Counts /\ Claim' \in Counts
  BY ClaimType DEF IInv, Shape, Local, Claim, Counts
<1>3. Claim[t] = Claim'[t] + 1 /\ \A s \in Threads : s # t => Claim[s] = Claim'[s]
  BY DEF IInv, Shape, Claim
<1>4. Counted' /\ f_counter' \in Nat
  BY <1>2, <1>3, TokensAdd, TokensFinite DEF IInv, Counted, Shape
<1>5. Permit' = Permit /\ Permit = 0
  BY SemQuiet DEF IInv, PermitInv, Holding
<1>6. Holding(t) /\ \A s \in Threads : s # t => ~Holding(s) /\ ~Holding(s)'
  BY DEF IInv, Shape, OneHolder, Holding
<1>7. \A s \in Threads : WaitingFor(s)' <=> WaitingFor(s)
  BY DEF IInv, Shape, WaitingFor
<1>8. OwnerKnown'
  BY DEF IInv, Shape, OwnerKnown
<1>9. CASE r[t] # 0
  <2>1. Holding(t)' /\ \A s \in Threads : pc'[s] # "release"
    BY <1>6, <1>9 DEF IInv, Shape, Local, Holding
  <2>2. QED
    BY <1>1, <1>4, <1>5, <1>6, <1>7, <1>8, <2>1
       DEF IInv, OneHolder, RecursionKnown, PermitInv, TokenOut, Shape
<1>10. CASE r[t] = 0 /\ f_counter > 1
  <2>1. Holding(t)' /\ pc'[t] = "release" /\ depth[t] = 0
    BY <1>10 DEF IInv, Shape, Local, Holding
  <2>2. PICK s \in Threads : Claim'[s] # 0
    BY <1>2, <1>4, <1>10, TokensZero DEF Counted, IInv, Shape
  <2>3. WaitingFor(s)'
    BY <1>6, <2>1, <2>2, <1>1 DEF Claim, WaitingFor, Holding, Shape
  <2>4. QED
    BY <1>1, <1>4, <1>5, <1>6, <1>8, <2>1, <2>3
       DEF IInv, OneHolder, RecursionKnown, PermitInv, TokenOut, Shape
<1>11. CASE r[t] = 0 /\ ~(f_counter > 1)
  <2>1. \A s \in Threads : Claim'[s] = 0
    BY <1>2, <1>4, <1>11, TokensZero DEF Counted, IInv, Shape
  <2>2. \A s \in Threads : ~WaitingFor(s)'
    BY <1>1, <2>1 DEF Claim, WaitingFor, Shape
  <2>3. pc'[t] = "rest" /\ depth[t] = 0 /\ ~Holding(t)'
    BY <1>11 DEF IInv, Shape, Local, Holding
  <2>4. \A s \in Threads : pc'[s] # "release"
    BY <1>6, <2>3 DEF IInv, Shape, Holding
  <2>5. f_recursion = 0
    BY <1>6, <2>3 DEF IInv, RecursionKnown
  <2>6. QED
    BY <1>1, <1>4, <1>5, <1>6, <1>8, <2>2, <2>3, <2>4, <2>5
       DEF IInv, OneHolder, RecursionKnown, PermitInv, TokenOut, Shape
<1>12. QED
  BY <1>9, <1>10, <1>11

\* The holder turns the token into a permit for the thread that waits.
LEMMA HandOverStep == ASSUME IInv, NEW t \in Threads, HandOver(t) PROVE IInv'
<1> USE MutexAssumption DEF HandOver, Goto, f_semaphore!Release
<1>1. Shape' /\ \A s \in Threads : Local(s)'
  BY DEF IInv, Shape, Local, Pcs, f_semaphore!Locations
<1>2. Claim' = Claim
  BY DEF IInv, Shape, Claim
<1>3. f_semaphore!Undoing' = f_semaphore!Undoing
  BY DEF f_semaphore!Undoing, IInv, Shape, Local
<1>4. Permit = 0 /\ Permit' = 1
  BY <1>3, UndoingFinite DEF Permit, IInv, PermitInv, Holding, Shape
<1>5. Holding(t) /\ \A s \in Threads : ~Holding(s)'
  BY DEF IInv, Shape, Local, OneHolder, Holding
<1>6. \A s \in Threads : WaitingFor(s)' <=> WaitingFor(s)
  BY DEF IInv, Shape, WaitingFor
<1>7. \E s \in Threads : WaitingFor(s)
  BY DEF IInv, PermitInv
<1>8. f_recursion = 0
  BY <1>5 DEF IInv, RecursionKnown, Local
<1>9. QED
  BY <1>1, <1>2, <1>4, <1>5, <1>6, <1>7, <1>8
     DEF IInv, Counted, OneHolder, OwnerKnown, RecursionKnown, PermitInv, TokenOut, Shape

LEMMA StepIInv == IInv /\ [Next]_vars => IInv'
<1> SUFFICES ASSUME IInv, [Next]_vars PROVE IInv'
  OBVIOUS
<1>1. CASE UNCHANGED vars
  <2>1. Claim' = Claim /\ Permit' = Permit
    BY <1>1 DEF vars, Claim, Permit, f_semaphore!Undoing
  <2>2. QED
    BY <1>1, <2>1
       DEF vars, IInv, Shape, Local, Counted, OneHolder, Holding, OwnerKnown,
           RecursionKnown, PermitInv, TokenOut, WaitingFor
<1>2. QED
  BY <1>1, CallLockStep, CallUnlockStep, CallTryLockStep, SetOwnerStep, NestStep,
     UnnestStep, DisownStep, CheckOwnerStep, SpinStep, AcquireStep, AddCounterStep,
     TryAddStep, TryCasStep, SubCounterStep, HandOverStep
     DEF Next, Step

LEMMA IInvAlways == Spec => []IInv
<1>1. QED
  BY InitIInv, StepIInv, PTL DEF Spec

-----------------------------------------------------------------------------
(* What the invariant gives *)

\* The fields and locals keep their types; the recursion count never passes the
\* callers' nesting bound and never wraps below zero.
THEOREM TypeCorrect == Spec => []TypeOK
<1>1. IInv => TypeOK
  BY DEF IInv, Shape, TypeOK
<1>2. QED
  BY <1>1, IInvAlways, PTL

\* Two threads are never both inside the region the mutex protects.
THEOREM MutualExclusionHolds == Spec => []MutualExclusion
<1>1. IInv => MutualExclusion
  BY DEF IInv, OneHolder, Holding, MutualExclusion
<1>2. QED
  BY <1>1, IInvAlways, PTL

\* unlock()'s ownership assertion never fails.
THEOREM OwnerAssertHolds == Spec => []OwnerAssert
<1>1. IInv => OwnerAssert
  BY DEF IInv, Local, OwnerKnown, OwnerAssert
<1>2. QED
  BY <1>1, IInvAlways, PTL

\* The semaphore's release assertion never fails when unlock() hands over.
THEOREM HandOverAssertHolds == Spec => []HandOverAssert
<1>1. IInv => HandOverAssert
  BY UndoingFinite DEF IInv, PermitInv, Permit, Holding, HandOverAssert, Shape
<1>2. QED
  BY <1>1, IInvAlways, PTL

\* A nested lock() never waits for its own thread.
THEOREM NoSelfDeadlockHolds == Spec => []NoSelfDeadlock
<1>1. IInv => NoSelfDeadlock
  BY DEF IInv, Local, NoSelfDeadlock
<1>2. QED
  BY <1>1, IInvAlways, PTL

\* While a thread waits, the lock is held or its permit is in the semaphore.
THEOREM LockIsNeverLost == Spec => []LockNotLost
<1>1. IInv => LockNotLost
  BY DEF IInv, TokenOut, WaitingFor, Local, Permit, LockNotLost
<1>2. QED
  BY <1>1, IInvAlways, PTL

=============================================================================
