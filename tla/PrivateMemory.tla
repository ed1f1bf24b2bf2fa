---------------------------- MODULE PrivateMemory ------------------------------
(***************************************************************************)
(* What private anonymous memory promises to processes: every process has  *)
(* an array of pages of its own.  A page that is mapped reads as zero until *)
(* it is written, a write is seen by the writer alone, and fork gives the  *)
(* child the parent's contents of that moment.  AddressSpace.tla shows that *)
(* lazy allocation, copy-on-write and the reference counts of physical     *)
(* pages implement this.                                                   *)
(***************************************************************************)
CONSTANTS Procs, Addrs, Vals, Zero, Unmapped

VARIABLE memory     \* [Procs -> [Addrs -> contents or Unmapped]]

AbsInit == memory = [p \in Procs |-> [a \in Addrs |-> Unmapped]]

Map(p, a) ==
    /\ memory[p][a] = Unmapped
    /\ memory' = [memory EXCEPT ![p][a] = Zero]

Unmap(p, a) == memory' = [memory EXCEPT ![p][a] = Unmapped]

Store(p, a, v) ==
    /\ memory[p][a] # Unmapped
    /\ memory' = [memory EXCEPT ![p][a] = v]

CopyTo(p, q) ==
    /\ \A a \in Addrs : memory[q][a] = Unmapped
    /\ memory' = [memory EXCEPT ![q] = memory[p]]

\* exec and exit: all pages are new or gone.
Renew(p) ==
    \E new \in [Addrs -> {Zero, Unmapped}] : memory' = [memory EXCEPT ![p] = new]

AbsNext ==
    \E p \in Procs :
        \/ \E a \in Addrs : Map(p, a) \/ Unmap(p, a) \/ \E v \in Vals : Store(p, a, v)
        \/ \E q \in Procs : CopyTo(p, q)
        \/ Renew(p)

AbsSpec == AbsInit /\ [][AbsNext]_memory

=============================================================================
