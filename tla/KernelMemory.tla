----------------------------- MODULE KernelMemory -----------------------------
(***************************************************************************)
(* Physical pages (PhysicalMemory) and, beside them, page tables (Pager):  *)
(* the parts of the kernel's memory that are checked for small instances   *)
(* (MCKernelMemory) and proved for all (PhysicalMemoryProofs).             *)
(***************************************************************************)
EXTENDS PhysicalMemory

CONSTANTS Pagers, Users, UserPages, KernelPages, WorkPages, Frames, MaxLength, MaxCalls

VARIABLES mem, root, control, workPages, tables, kallocHint, klock, call, expected, calls, raced

\* User addresses are not kernel addresses; any number of work pages, tables and frames.
ASSUME PagingAssumption ==
    /\ IsFiniteSet(Pagers)
    /\ KernelPages \in Nat /\ WorkPages \in Nat /\ MaxLength \in Nat /\ Frames \subseteq Nat
    /\ UserPages \subseteq {page \in Nat : page >= KernelPages}

Paging == INSTANCE Pager WITH hint <- kallocHint

\* Every address translates to what was last mapped there, a work page has one user and
\* none is lost, as long as no two pagers were given the same work page
\* (virtual.cpp:157, 262).
PagingExact == Paging!TablesExact /\ Paging!WorkPagesExclusive

=============================================================================
