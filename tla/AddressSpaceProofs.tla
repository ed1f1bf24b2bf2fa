-------------------------- MODULE AddressSpaceProofs ---------------------------
(***************************************************************************)
(* Proofs about AddressSpace, for any finite sets of processes, addresses, *)
(* file offsets and SharedAnonymousPages, any pages and all kinds of       *)
(* mappings: f_obj_ref_count is the number of PhysicalPage objects,        *)
(* f_ref_count covers the mappings, a process reaches only pages that are  *)
(* allocated and its own, and its private memory is private.  Both counts  *)
(* are compared with the number of places that have the page, so the       *)
(* proofs follow how the places change.                                    *)
(***************************************************************************)
EXTENDS AddressSpace, FiniteSetTheorems, TLAPS

-----------------------------------------------------------------------------
(* Counting.  The counts of a page are numbers of places that have it: of   *)
(* entries, locals of faults, and the pages of the file and of anonymous    *)
(* objects.  A step changes one place, or, in fork, exec, exit and munmap,  *)
(* those of one process.                                                    *)

\* What the number of places with x gains when one of them goes from u to v.
Delta(u, v, x) == (IF v = x THEN 1 ELSE 0) - (IF u = x THEN 1 ELSE 0)

\* One place changes: the count of x changes by what that place does.
LEMMA CountExcept ==
    ASSUME NEW D, IsFiniteSet(D), NEW f, DOMAIN f = D, NEW d \in D, NEW g,
           DOMAIN g = D, \A z \in D \ {d} : g[z] = f[z], NEW x
    PROVE  Count(f, x) \in Nat /\ Count(g, x) = Count(f, x) + Delta(f[d], g[d], x)
<1> DEFINE F == {z \in D : f[z] = x}
           G == {z \in D : g[z] = x}
<1>1. IsFiniteSet(F) /\ IsFiniteSet(G)
  BY FS_Subset
<1>2. Cardinality(F) \in Nat /\ Cardinality(G) \in Nat
  BY <1>1, FS_CardinalityType
<1>3. ASSUME f[d] # x, g[d] = x PROVE Cardinality(G) = Cardinality(F) + 1
  <2>1. G = F \cup {d} /\ d \notin F
    BY <1>3
  <2>2. QED
    BY <1>1, <2>1, FS_AddElement
<1>4. ASSUME f[d] = x, g[d] # x PROVE Cardinality(G) = Cardinality(F) - 1
  <2>1. G = F \ {d} /\ d \in F
    BY <1>4
  <2>2. QED
    BY <1>1, <2>1, FS_RemoveElement
<1>5. ASSUME f[d] = x <=> g[d] = x PROVE G = F
  BY <1>5
<1>6. Count(f, x) = Cardinality(F) /\ Count(g, x) = Cardinality(G)
  BY DEF Count
<1> HIDE DEF F, G
<1>7. QED
  BY <1>2, <1>3, <1>4, <1>5, <1>6 DEF Delta

\* Counts are numbers, and not zero when some place has x.
LEMMA CountNat ==
    ASSUME NEW D, IsFiniteSet(D), NEW f, DOMAIN f = D, NEW x
    PROVE  /\ Count(f, x) \in Nat
           /\ \A d \in D : f[d] = x => Count(f, x) > 0
<1> DEFINE F == {z \in D : f[z] = x}
<1>1. IsFiniteSet(F)
  BY FS_Subset
<1>2. Cardinality(F) \in Nat /\ (F # {} => Cardinality(F) # 0)
  BY <1>1, FS_CardinalityType, FS_EmptySet
<1>3. QED
  BY <1>2 DEF Count

\* Several places at a time: those of S get x, or lose it.
LEMMA CountJoin ==
    ASSUME NEW D, IsFiniteSet(D), NEW f, NEW g, DOMAIN f = D, DOMAIN g = D, NEW x, NEW S,
           {z \in D : g[z] = x} = {z \in D : f[z] = x} \cup S, S \cap {z \in D : f[z] = x} = {}
    PROVE  IsFiniteSet(S) /\ Cardinality(S) \in Nat /\ Count(g, x) = Count(f, x) + Cardinality(S)
<1> DEFINE F == {z \in D : f[z] = x}
           G == {z \in D : g[z] = x}
<1>1. IsFiniteSet(F) /\ IsFiniteSet(G)
  BY FS_Subset
<1>2. S \subseteq G
  OBVIOUS
<1>3. IsFiniteSet(S)
  BY <1>1, <1>2, FS_Subset
<1>4. /\ Cardinality(F \cup S) = Cardinality(F) + Cardinality(S) - Cardinality(F \cap S)
  BY <1>1, <1>3, FS_Union
<1>5. F \cap S = {} /\ Cardinality({}) = 0
  BY FS_EmptySet
<1>6. Cardinality(S) \in Nat /\ Cardinality(F) \in Nat
  BY <1>1, <1>3, FS_CardinalityType
<1>7. Count(f, x) = Cardinality(F) /\ Count(g, x) = Cardinality(G) /\ G = F \cup S
  BY DEF Count
<1>8. Cardinality(F \cap S) = 0 /\ Cardinality(G) = Cardinality(F \cup S)
  BY <1>5, <1>7, Zenon
<1> HIDE DEF F, G
<1>9. QED
  BY <1>3, <1>4, <1>6, <1>7, <1>8

\* The places of one process are as many as its addresses.
LEMMA CountRow ==
    ASSUME NEW p \in Procs, NEW B \in SUBSET Addrs
    PROVE  IsFiniteSet(B) /\ Cardinality(B) \in Nat /\ Cardinality({p} \X B) = Cardinality(B)
<1>1. IsFiniteSet(B)
  BY AddressSpaceAssumption, FS_Subset
<1>2. IsFiniteSet({p}) /\ Cardinality({p}) = 1 /\ Cardinality(B) \in Nat
  BY <1>1, FS_Singleton, FS_CardinalityType
<1>3. Cardinality({p} \X B) = Cardinality({p}) * Cardinality(B)
  BY <1>1, <1>2, FS_Product
<1>4. QED
  BY <1>1, <1>2, <1>3

\* No place has x.
LEMMA CountNone ==
    ASSUME NEW f, NEW x, \A d \in DOMAIN f : f[d] # x PROVE Count(f, x) = 0
<1>1. {z \in DOMAIN f : f[z] = x} = {}
  OBVIOUS
<1>2. QED
  BY <1>1, FS_EmptySet DEF Count


-----------------------------------------------------------------------------
(* The invariant.  ObjectsExact and RefsCoverMappings speak of places, so    *)
(* it adds what a process in the fault handler works on, and that its page   *)
(* table follows its memory map.                                             *)

\* What an entry of a memory map can be; a process that was not forked has none.
EntryOK(p, a) ==
    LET e == memorymap[p][a] IN
    /\ e.page # None <=> e.type \in Resident
    /\ e.type = "ANONYMOUS" /\ e.shared => e.source \in Anons
    /\ e.type = "FILE" => e.source \in Offs
    /\ status[p] = "unborn" => e = NoEntry

\* What a process works on, by where it is in the fault handler.
FaultOK(p) ==
    /\ pc[p] # "user" => status[p] = "live"
    /\ pc[p] \in {"user", "halted"} => fault[p] = Idle
    /\ pc[p] \notin {"user", "halted"} => fault[p].addr \in Addrs
    /\ pc[p] \in {"store", "unref", "delete", "insert", "check", "file", "lost"} =>
        fault[p].page # None
    /\ pc[p] \in {"copy", "take", "steal", "own"} => fault[p].page = None
    /\ pc[p] \in {"store", "map"} => EntryOf(p).type = "ANONYMOUS" /\ EntryOf(p).shared
    /\ pc[p] = "map" => anonPage[EntryOf(p).source] # None
    /\ pc[p] \in {"copy", "unref", "delete", "take"} => EntryOf(p).type = "MEMORY"
    /\ pc[p] \in {"insert", "check", "file"} => EntryOf(p).type = "FILE"
    /\ pc[p] \in {"steal", "own", "lost"} => EntryOf(p).type = "FILE_MEMORY"

\* Between Copy and Delete the page table is ahead of the memory map.
TableOK(p, a) ==
    pte[p][a].page = IF pc[p] \in {"unref", "delete"} /\ fault[p].addr = a
                     THEN fault[p].page ELSE memorymap[p][a].page

EntryShape == \A p \in Procs, a \in Addrs : EntryOK(p, a)
FaultShape == \A p \in Procs : FaultOK(p)
TableShape == \A p \in Procs, a \in Addrs : TableOK(p, a)

PagesInv ==
    /\ MemoryTypes /\ EntryShape /\ FaultShape /\ TableShape /\ ObjectsExact /\ RefsCoverMappings

\* The places are finitely many, so that they can be counted.
LEMMA Finite == IsFiniteSet(Procs) /\ IsFiniteSet(Procs \X Addrs)
BY AddressSpaceAssumption, FS_Product

\* Initially no page is held.
LEMMA InitPagesInv == Init => PagesInv
<1> SUFFICES ASSUME Init PROVE PagesInv
  OBVIOUS
<1>1. MemoryTypes
  BY AddressSpaceAssumption
     DEF Init, MemoryTypes, NoEntry, Entry, NoPte, Idle, Labels, Resident, Entries,
         Translations, Locals
<1>2. EntryShape
  BY AddressSpaceAssumption DEF Init, EntryShape, EntryOK, NoEntry, Entry, Resident
<1>3. FaultShape
  BY AddressSpaceAssumption DEF Init, FaultShape, FaultOK, EntryOf, Idle
<1>4. TableShape
  BY DEF Init, TableShape, TableOK, NoEntry, Entry, NoPte
<1>5. ASSUME NEW x \in Pages PROVE Objects(x) = 0
  <2>1. x # None
    BY AddressSpaceAssumption
  <2>2. Count(EntryPage, x) = 0
    BY <2>1, CountNone DEF Init, EntryPage, NoEntry, Entry
  <2>3. Count(LocalPage, x) = 0
    BY <2>1, CountNone DEF Init, LocalPage, Idle
  <2>4. Count(sharedPages, x) = 0 /\ Count(anonPage, x) = 0
    BY <2>1, CountNone DEF Init
  <2>5. QED
    BY <2>2, <2>3, <2>4 DEF Objects
<1>6. ObjectsExact
  BY <1>5 DEF Init, ObjectsExact
<1>7. RefsCoverMappings
  BY DEF Init, RefsCoverMappings
<1>8. QED
  BY <1>1, <1>2, <1>3, <1>4, <1>6, <1>7 DEF PagesInv

\* A step of process p that works on address a alone changes at most one place of each kind.
LEMMA LocalStep ==
    ASSUME NEW p \in Procs, NEW a \in Addrs, NEW x,
           \A r \in Procs, b \in Addrs :
               r # p \/ b # a => memorymap'[r][b].page = memorymap[r][b].page,
           \A r \in Procs \ {p} : pc'[r] = pc[r] /\ fault'[r] = fault[r],
           pc[p] = "delete" => fault[p].addr = a, pc'[p] = "delete" => fault'[p].addr = a
    PROVE  /\ Count(EntryPage, x) \in Nat /\ Count(LocalPage, x) \in Nat
           /\ Count(MappedPage, x) \in Nat /\ Count(CopyPage, x) \in Nat
           /\ Count(EntryPage, x)' = Count(EntryPage, x)
                + Delta(memorymap[p][a].page, memorymap'[p][a].page, x)
           /\ Count(LocalPage, x)' = Count(LocalPage, x) + Delta(LocalPage[p], LocalPage'[p], x)
           /\ Count(MappedPage, x)' = Count(MappedPage, x)
                + Delta(MappedPage[<<p, a>>], MappedPage'[<<p, a>>], x)
           /\ Count(CopyPage, x)' = Count(CopyPage, x) + Delta(CopyPage[p], CopyPage'[p], x)
<1> DEFINE d == <<p, a>>
           D == Procs \X Addrs
<1>1. d \in D /\ EntryPage[d] = memorymap[p][a].page /\ EntryPage'[d] = memorymap'[p][a].page
  BY DEF EntryPage
<1>2. DOMAIN EntryPage = D /\ DOMAIN EntryPage' = D /\ DOMAIN MappedPage = D /\ DOMAIN MappedPage' = D
  BY DEF EntryPage, MappedPage
<1>3. \A z \in D : z # d => z[1] \in Procs /\ z[2] \in Addrs /\ (z[1] # p \/ z[2] # a)
  OBVIOUS
<1>4. \A z \in D \ {d} : EntryPage'[z] = EntryPage[z]
  BY <1>3 DEF EntryPage
<1>5. \A z \in D \ {d} : MappedPage'[z] = MappedPage[z]
  BY <1>3, <1>4 DEF MappedPage
<1>6. /\ DOMAIN LocalPage = Procs /\ DOMAIN LocalPage' = Procs
      /\ DOMAIN CopyPage = Procs /\ DOMAIN CopyPage' = Procs
      /\ \A r \in Procs \ {p} : LocalPage'[r] = LocalPage[r] /\ CopyPage'[r] = CopyPage[r]
  BY DEF LocalPage, CopyPage
<1> HIDE DEF d, D
<1>7. IsFiniteSet(D)
  BY Finite DEF D
<1>8. /\ Count(EntryPage, x) \in Nat
      /\ Count(EntryPage', x) = Count(EntryPage, x) + Delta(EntryPage[d], EntryPage'[d], x)
  BY <1>1, <1>2, <1>4, <1>7, CountExcept
<1>9. /\ Count(MappedPage, x) \in Nat
      /\ Count(MappedPage', x) = Count(MappedPage, x) + Delta(MappedPage[d], MappedPage'[d], x)
  BY <1>1, <1>2, <1>5, <1>7, CountExcept
<1>10. /\ Count(LocalPage, x) \in Nat
       /\ Count(LocalPage', x) = Count(LocalPage, x) + Delta(LocalPage[p], LocalPage'[p], x)
  BY <1>6, Finite, CountExcept
<1>11. /\ Count(CopyPage, x) \in Nat
       /\ Count(CopyPage', x) = Count(CopyPage, x) + Delta(CopyPage[p], CopyPage'[p], x)
  BY <1>6, Finite, CountExcept
<1>12. QED
  BY <1>1, <1>8, <1>9, <1>10, <1>11 DEF d

\* A page that nobody has an object of is in no place.
LEMMA Unheld ==
    ASSUME PagesInv, NEW x \in Pages, objs[x] = 0 \/ x \notin used
    PROVE  /\ objs[x] = 0 /\ Mappings(x) = 0
           /\ \A p \in Procs, a \in Addrs : memorymap[p][a].page # x
           /\ \A p \in Procs : fault[p].page = x => pc[p] = "map"
           /\ \A o \in Offs : sharedPages[o] # x
           /\ \A n \in Anons : anonPage[n] # x
<1>1. x # None /\ objs[x] = 0 /\ Objects(x) = 0
  BY AddressSpaceAssumption DEF PagesInv, MemoryTypes, ObjectsExact
<1>2. DOMAIN EntryPage = Procs \X Addrs /\ DOMAIN LocalPage = Procs /\ DOMAIN sharedPages = Offs
      /\ DOMAIN anonPage = Anons /\ IsFiniteSet(Offs) /\ IsFiniteSet(Anons)
  BY AddressSpaceAssumption DEF EntryPage, LocalPage, PagesInv, MemoryTypes
<1>3. Count(EntryPage, x) \in Nat /\ \A d \in Procs \X Addrs : EntryPage[d] = x => Count(EntryPage, x) > 0
  BY <1>2, Finite, CountNat
<1>4. Count(LocalPage, x) \in Nat /\ \A d \in Procs : LocalPage[d] = x => Count(LocalPage, x) > 0
  BY <1>2, Finite, CountNat
<1>5. Count(sharedPages, x) \in Nat /\ \A d \in Offs : sharedPages[d] = x => Count(sharedPages, x) > 0
  BY <1>2, CountNat
<1>6. Count(anonPage, x) \in Nat /\ \A d \in Anons : anonPage[d] = x => Count(anonPage, x) > 0
  BY <1>2, CountNat
<1>7. Count(EntryPage, x) = 0 /\ Count(LocalPage, x) = 0 /\ Count(sharedPages, x) = 0
      /\ Count(anonPage, x) = 0
  BY <1>1, <1>3, <1>4, <1>5, <1>6 DEF Objects
<1>8. \A d \in Procs \X Addrs : EntryPage[d] # x
  BY <1>3, <1>7
<1>9. \A p \in Procs, a \in Addrs : memorymap[p][a].page # x
  <2>1. TAKE p \in Procs, a \in Addrs
  <2>2. <<p, a>> \in Procs \X Addrs /\ EntryPage[<<p, a>>] = memorymap[p][a].page
    BY DEF EntryPage
  <2>3. QED
    BY <1>8, <2>2
<1>10. \A p \in Procs : fault[p].page = x => pc[p] = "map"
  BY <1>4, <1>7 DEF LocalPage
<1>11. \A d \in DOMAIN MappedPage : MappedPage[d] # x
  BY <1>1, <1>8 DEF MappedPage
<1>12. \A d \in DOMAIN CopyPage : CopyPage[d] # x
  BY <1>1, <1>10 DEF CopyPage
<1>13. Mappings(x) = 0
  BY <1>11, <1>12, CountNone DEF Mappings
<1>14. QED
  BY <1>1, <1>5, <1>6, <1>7, <1>9, <1>10, <1>13

\* The counts of the file and of the anonymous objects are numbers.
LEMMA CountTypes ==
    ASSUME MemoryTypes, NEW x
    PROVE  Count(sharedPages, x) \in Nat /\ Count(anonPage, x) \in Nat
<1>1. DOMAIN sharedPages = Offs /\ DOMAIN anonPage = Anons /\ IsFiniteSet(Offs) /\ IsFiniteSet(Anons)
  BY AddressSpaceAssumption DEF MemoryTypes
<1>2. QED
  BY <1>1, CountNat

\* What a step of process p at address a leaves alone.
Others(p, a) ==
    /\ \A r \in Procs, b \in Addrs : r # p \/ b # a =>
        memorymap'[r][b] = memorymap[r][b] /\ pte'[r][b] = pte[r][b]
    /\ \A r \in Procs \ {p} : pc'[r] = pc[r] /\ fault'[r] = fault[r]
    /\ status' = status
    /\ pc[p] \in {"unref", "delete"} => fault[p].addr = a
    /\ pc'[p] \in {"unref", "delete"} => fault'[p].addr = a
    /\ \A r \in Procs \ {p} : pc[r] = "map" => anonPage'[EntryOf(r).source] # None

\* What each count of page x gains in a step of process p at address a.
ObjectsGain(p, a, x) ==
    Delta(memorymap[p][a].page, memorymap'[p][a].page, x)
    + Delta(LocalPage[p], LocalPage'[p], x)
    + (Count(sharedPages, x)' - Count(sharedPages, x))
    + (Count(anonPage, x)' - Count(anonPage, x))
MappingsGain(p, a, x) ==
    Delta(MappedPage[<<p, a>>], MappedPage'[<<p, a>>], x) + Delta(CopyPage[p], CopyPage'[p], x)

CountsOK(p, a, x) ==
    /\ objs'[x] = objs[x] + ObjectsGain(p, a, x)
    /\ objs'[x] > 0 => x \in used'
    /\ objs'[x] > 0 => ref'[x] >= (IF objs[x] > 0 THEN ref[x] ELSE 0) + MappingsGain(p, a, x)

\* The counts stay right if each count of a page changes by what the place of the step does.
LEMMA CountsStep ==
    ASSUME PagesInv, MemoryTypes', NEW p \in Procs, NEW a \in Addrs,
           Others(p, a), \A x \in Pages : CountsOK(p, a, x)
    PROVE  ObjectsExact' /\ RefsCoverMappings'
<1> SUFFICES ASSUME NEW x \in Pages
             PROVE  /\ objs'[x] = Objects(x)' /\ (objs'[x] > 0 => x \in used')
                    /\ objs'[x] > 0 => ref'[x] >= Mappings(x)'
  BY DEF ObjectsExact, RefsCoverMappings
<1> DEFINE de == Delta(memorymap[p][a].page, memorymap'[p][a].page, x)
           dl == Delta(LocalPage[p], LocalPage'[p], x)
           dm == Delta(MappedPage[<<p, a>>], MappedPage'[<<p, a>>], x)
           dc == Delta(CopyPage[p], CopyPage'[p], x)
<1>1. /\ Count(EntryPage, x) \in Nat /\ Count(LocalPage, x) \in Nat
      /\ Count(MappedPage, x) \in Nat /\ Count(CopyPage, x) \in Nat
      /\ Count(EntryPage, x)' = Count(EntryPage, x) + de
      /\ Count(LocalPage, x)' = Count(LocalPage, x) + dl
      /\ Count(MappedPage, x)' = Count(MappedPage, x) + dm
      /\ Count(CopyPage, x)' = Count(CopyPage, x) + dc
  BY LocalStep DEF Others
<1>2. /\ Count(sharedPages, x) \in Nat /\ Count(anonPage, x) \in Nat
      /\ Count(sharedPages, x)' \in Nat /\ Count(anonPage, x)' \in Nat
  <2>1. Count(sharedPages, x) \in Nat /\ Count(anonPage, x) \in Nat
    BY CountTypes DEF PagesInv
  <2>2. /\ DOMAIN sharedPages' = Offs /\ DOMAIN anonPage' = Anons
        /\ IsFiniteSet(Offs) /\ IsFiniteSet(Anons)
    BY AddressSpaceAssumption DEF MemoryTypes
  <2>3. QED
    BY <2>1, <2>2, CountNat
<1>3. /\ objs'[x] = objs[x] + de + dl + (Count(sharedPages, x)' - Count(sharedPages, x))
                      + (Count(anonPage, x)' - Count(anonPage, x))
      /\ objs'[x] > 0 => ref'[x] >= (IF objs[x] > 0 THEN ref[x] ELSE 0) + dm + dc
      /\ objs'[x] > 0 => x \in used'
  <2>1. CountsOK(p, a, x)
    OBVIOUS
  <2>2. de \in Int /\ dl \in Int /\ dm \in Int /\ dc \in Int /\ objs[x] \in Nat /\ ref[x] \in Nat
    BY DEF Delta, PagesInv, MemoryTypes
  <2>3. ObjectsGain(p, a, x) = de + dl + (Count(sharedPages, x)' - Count(sharedPages, x))
                                 + (Count(anonPage, x)' - Count(anonPage, x))
    BY DEF ObjectsGain
  <2>4. MappingsGain(p, a, x) = dm + dc
    BY DEF MappingsGain
  <2> HIDE DEF de, dl, dm, dc
  <2>5. QED
    BY <1>2, <2>1, <2>2, <2>3, <2>4 DEF CountsOK
<1>4. de \in Int /\ dl \in Int /\ dm \in Int /\ dc \in Int
  BY DEF Delta
<1>5. /\ objs[x] \in Nat /\ objs[x] = Objects(x) /\ ref[x] \in Nat /\ ref'[x] \in Nat
      /\ objs[x] > 0 => ref[x] >= Mappings(x)
  BY DEF PagesInv, MemoryTypes, ObjectsExact, RefsCoverMappings
<1>6. objs[x] = 0 => Mappings(x) = 0
  BY Unheld
<1> HIDE DEF de, dl, dm, dc
<1>7. objs'[x] = Objects(x)'
  BY <1>1, <1>2, <1>3, <1>4, <1>5 DEF Objects
<1>8. objs'[x] > 0 => ref'[x] >= Mappings(x)'
  BY <1>1, <1>3, <1>4, <1>5, <1>6 DEF Mappings
<1>9. QED
  BY <1>3, <1>7, <1>8

\* A step at one address keeps the shapes everywhere if it keeps them there.
LEMMA ShapeStep ==
    ASSUME PagesInv, NEW p \in Procs, NEW a \in Addrs, Others(p, a),
           EntryOK(p, a)', FaultOK(p)', TableOK(p, a)', status[p] = "live"
    PROVE  EntryShape' /\ FaultShape' /\ TableShape'
<1>1. ASSUME NEW r \in Procs, NEW b \in Addrs PROVE EntryOK(r, b)'
  <2>1. CASE r # p \/ b # a
    BY <2>1 DEF PagesInv, EntryShape, EntryOK, Others
  <2>2. QED
    BY <2>1
<1>2. ASSUME NEW r \in Procs PROVE FaultOK(r)'
  <2>1. CASE r # p
    <3>1. FaultOK(r) /\ pc'[r] = pc[r] /\ fault'[r] = fault[r] /\ status' = status
      BY <2>1 DEF PagesInv, FaultShape, Others
    <3>2. fault[r].addr \in Addrs => EntryOf(r)' = EntryOf(r)
      BY <2>1, <3>1 DEF Others, EntryOf
    <3>3. pc[r] = "map" => anonPage'[EntryOf(r).source] # None
      BY <2>1 DEF Others
    <3>4. QED
      BY <3>1, <3>2, <3>3 DEF FaultOK
  <2>2. QED
    BY <2>1
<1>3. ASSUME NEW r \in Procs, NEW b \in Addrs PROVE TableOK(r, b)'
  <2>1. CASE r # p \/ b # a
    BY <2>1 DEF PagesInv, TableShape, TableOK, Others
  <2>2. QED
    BY <2>1
<1>4. QED
  BY <1>1, <1>2, <1>3 DEF EntryShape, FaultShape, TableShape

\* The two together: what a step of one process at one address has to show.
LEMMA ProcessStep ==
    ASSUME PagesInv, MemoryTypes', NEW p \in Procs, NEW a \in Addrs, Others(p, a), status[p] = "live",
           EntryOK(p, a)', FaultOK(p)', TableOK(p, a)', \A x \in Pages : CountsOK(p, a, x)
    PROVE  PagesInv'
<1>1. EntryShape' /\ FaultShape' /\ TableShape'
  BY ShapeStep
<1>2. ObjectsExact' /\ RefsCoverMappings'
  BY CountsStep
<1>3. QED
  BY <1>1, <1>2 DEF PagesInv

\* The places of process p at address a, read off their definitions.
LEMMA Places ==
    ASSUME NEW p \in Procs, NEW a \in Addrs
    PROVE  /\ LocalPage[p] = IF pc[p] = "map" THEN None ELSE fault[p].page
           /\ LocalPage'[p] = IF pc'[p] = "map" THEN None ELSE fault'[p].page
           /\ CopyPage[p] = IF pc[p] \in {"unref", "delete"} THEN fault[p].page ELSE None
           /\ CopyPage'[p] = IF pc'[p] \in {"unref", "delete"} THEN fault'[p].page ELSE None
           /\ MappedPage[<<p, a>>] = IF pc[p] = "delete" /\ fault[p].addr = a THEN None
                                     ELSE memorymap[p][a].page
           /\ MappedPage'[<<p, a>>] = IF pc'[p] = "delete" /\ fault'[p].addr = a THEN None
                                      ELSE memorymap'[p][a].page
BY DEF LocalPage, CopyPage, MappedPage, EntryPage

\* The gain of a step that leaves the pages of the file and of anonymous objects.
LEMMA GainOfPlaces ==
    ASSUME MemoryTypes, NEW p \in Procs, NEW a \in Addrs, NEW x, UNCHANGED <<sharedPages, anonPage>>
    PROVE  ObjectsGain(p, a, x) = Delta(memorymap[p][a].page, memorymap'[p][a].page, x)
                                    + Delta(LocalPage[p], LocalPage'[p], x)
<1>1. Count(sharedPages, x) \in Nat /\ Count(anonPage, x) \in Nat
  BY CountTypes
<1>2. Count(sharedPages, x)' = Count(sharedPages, x) /\ Count(anonPage, x)' = Count(anonPage, x)
  OBVIOUS
<1>3. QED
  BY <1>1, <1>2 DEF ObjectsGain, Delta

\* A step that moves no page.
LEMMA QuietCounts ==
    ASSUME PagesInv, NEW p \in Procs, NEW a \in Addrs, UNCHANGED <<used, ref, objs, sharedPages, anonPage>>,
           memorymap'[p][a].page = memorymap[p][a].page,
           LocalPage'[p] = LocalPage[p], CopyPage'[p] = CopyPage[p],
           MappedPage'[<<p, a>>] = MappedPage[<<p, a>>]
    PROVE  \A x \in Pages : CountsOK(p, a, x)
<1>1. TAKE x \in Pages
<1>2. ObjectsGain(p, a, x) = 0 /\ MappingsGain(p, a, x) = 0
  BY GainOfPlaces DEF MappingsGain, Delta, PagesInv
<1>3. objs[x] \in Nat /\ ref[x] \in Nat /\ (objs[x] > 0 => x \in used)
  BY DEF PagesInv, MemoryTypes, ObjectsExact
<1>4. QED
  BY <1>2, <1>3 DEF CountsOK

\* A new page of which the fault handler of p has the only object.
LEMMA NewPageFacts ==
    ASSUME PagesInv, NEW x \in Pages, NEW r \in Nat, NEW k \in Nat, NewPage(x, r, k)
    PROVE  /\ used' \subseteq Pages /\ ref' \in [Pages -> Nat] /\ objs' \in [Pages -> Nat]
           /\ writable' \in [Pages -> BOOLEAN] /\ cow' \in [Pages -> BOOLEAN]
           /\ x \in used' /\ used \subseteq used' /\ x # None
           /\ objs[x] = 0 /\ objs'[x] = k /\ ref'[x] = r
           /\ \A y \in Pages \ {x} : objs'[y] = objs[y] /\ ref'[y] = ref[y]
BY Unheld, AddressSpaceAssumption DEF NewPage, PagesInv, MemoryTypes

\* A page in the entry, the local, the file or the object is allocated and counted.
LEMMA Held ==
    ASSUME PagesInv, NEW x \in Pages,
           \/ \E p \in Procs, a \in Addrs : memorymap[p][a].page = x
           \/ \E p \in Procs : fault[p].page = x /\ pc[p] # "map"
           \/ \E o \in Offs : sharedPages[o] = x
           \/ \E n \in Anons : anonPage[n] = x
    PROVE  objs[x] \in Nat /\ objs[x] > 0 /\ x \in used /\ x # None
<1>1. objs[x] \in Nat /\ x # None
  BY AddressSpaceAssumption DEF PagesInv, MemoryTypes
<1>2. objs[x] # 0 /\ x \in used
  BY Unheld
<1>3. QED
  BY <1>1, <1>2

\* What is known of process p and its entry at a, and of the page fault it is in.
LEMMA ProcessFacts ==
    ASSUME PagesInv, NEW p \in Procs, NEW a \in Addrs
    PROVE  /\ MemoryTypes /\ FaultOK(p) /\ EntryOK(p, a) /\ TableOK(p, a)
           /\ memorymap[p][a] \in Entries /\ memorymap[p][a].page \in Pages \cup {None}
           /\ memorymap[p][a].writable \in BOOLEAN /\ memorymap[p][a].shared \in BOOLEAN
           /\ memorymap[p][a].source \in Anons \cup Offs \cup {None}
           /\ pte[p][a] \in Translations
           /\ fault[p] \in Locals /\ fault[p].page \in Pages \cup {None} /\ fault[p].cow \in BOOLEAN
<1>1. MemoryTypes /\ FaultOK(p) /\ EntryOK(p, a) /\ TableOK(p, a)
  BY DEF PagesInv, FaultShape, EntryShape, TableShape
<1>2. memorymap[p][a] \in Entries /\ pte[p][a] \in Translations /\ fault[p] \in Locals
  BY <1>1 DEF MemoryTypes
<1>3. QED
  BY <1>1, <1>2 DEF Entries, Locals

\* A fault that is being resolved has an address, and its process is alive.
LEMMA FaultAddress ==
    ASSUME PagesInv, NEW p \in Procs, pc[p] \notin {"user", "halted"}
    PROVE  fault[p].addr \in Addrs /\ status[p] = "live"
BY DEF PagesInv, FaultShape, FaultOK

\* A process that is not in the fault handler has no locals of it.
LEMMA ReadyFacts ==
    ASSUME PagesInv, NEW p \in Procs, Ready(p)
    PROVE  status[p] = "live" /\ pc[p] = "user" /\ fault[p] = Idle
BY DEF PagesInv, FaultShape, FaultOK, Ready

\* Process p, at address a, gets entry e and translation t, goes to l and has the locals f.
Moves(p, a, e, t, l, f) ==
    /\ pc[p] = "user" \/ fault[p].addr = a
    /\ status[p] = "live" /\ status' = status
    /\ e \in Entries /\ t \in Translations /\ l \in Labels /\ f \in Locals
    /\ memorymap' = [memorymap EXCEPT ![p][a] = e]
    /\ pte' = [pte EXCEPT ![p][a] = t]
    /\ pc' = [pc EXCEPT ![p] = l]
    /\ fault' = [fault EXCEPT ![p] = f]

\* What the shape of the entry, the translation and the locals must be.
Fits(a, e, t, l, f) ==
    /\ e.page # None <=> e.type \in Resident
    /\ e.type = "ANONYMOUS" /\ e.shared => e.source \in Anons
    /\ e.type = "FILE" => e.source \in Offs
    /\ t.page = IF l \in {"unref", "delete"} THEN f.page ELSE e.page
    /\ l \in {"user", "halted"} => f = Idle
    /\ l \notin {"user", "halted"} => f.addr = a
    /\ l \in {"store", "unref", "delete", "insert", "check", "file", "lost"} => f.page # None
    /\ l \in {"copy", "take", "steal", "own"} => f.page = None
    /\ l \in {"store", "map"} => e.type = "ANONYMOUS" /\ e.shared
    /\ l = "map" => anonPage'[e.source] # None
    /\ l \in {"copy", "unref", "delete", "take"} => e.type = "MEMORY"
    /\ l \in {"insert", "check", "file"} => e.type = "FILE"
    /\ l \in {"steal", "own", "lost"} => e.type = "FILE_MEMORY"

\* The part of MemoryTypes about pages.
HeapOK ==
    /\ used \subseteq Pages
    /\ ref \in [Pages -> Nat] /\ objs \in [Pages -> Nat]
    /\ writable \in [Pages -> BOOLEAN] /\ cow \in [Pages -> BOOLEAN]
    /\ content \in [Pages -> Vals]
    /\ sharedPages \in [Offs -> Pages \cup {None}]
    /\ anonPage \in [Anons -> Pages \cup {None}]

\* The places before and after such a step.
LEMMA MovedPlaces ==
    ASSUME MemoryTypes, NEW p \in Procs, NEW a \in Addrs, NEW e, NEW t, NEW l, NEW f,
           Moves(p, a, e, t, l, f)
    PROVE  /\ memorymap'[p][a] = e /\ pte'[p][a] = t /\ pc'[p] = l /\ fault'[p] = f
           /\ LocalPage[p] = IF pc[p] = "map" THEN None ELSE fault[p].page
           /\ LocalPage'[p] = IF l = "map" THEN None ELSE f.page
           /\ CopyPage[p] = IF pc[p] \in {"unref", "delete"} THEN fault[p].page ELSE None
           /\ CopyPage'[p] = IF l \in {"unref", "delete"} THEN f.page ELSE None
           /\ MappedPage[<<p, a>>] = IF pc[p] = "delete" THEN None ELSE memorymap[p][a].page
           /\ f.addr = a => MappedPage'[<<p, a>>] = IF l = "delete" THEN None ELSE e.page
           /\ l = "user" => MappedPage'[<<p, a>>] = e.page
<1>1. memorymap'[p][a] = e /\ pte'[p][a] = t /\ pc'[p] = l /\ fault'[p] = f
  BY DEF Moves, MemoryTypes
<1>2. pc[p] = "delete" => fault[p].addr = a
  BY DEF Moves
<1>3. QED
  BY <1>1, <1>2, Places

\* Such a step keeps the invariant if its entry, translation and locals fit and it counts right.
LEMMA MovedStep ==
    ASSUME PagesInv, NEW p \in Procs, NEW a \in Addrs, NEW e, NEW t, NEW l, NEW f,
           Moves(p, a, e, t, l, f), HeapOK', Fits(a, e, t, l, f),
           \A r \in Procs \ {p} : pc[r] = "map" => anonPage'[EntryOf(r).source] # None,
           \A x \in Pages : CountsOK(p, a, x)
    PROVE  PagesInv'
<1>1. MemoryTypes
  BY DEF PagesInv
<1>2. memorymap'[p][a] = e /\ pte'[p][a] = t /\ pc'[p] = l /\ fault'[p] = f
  BY <1>1 DEF Moves, MemoryTypes
<1>3. MemoryTypes'
  BY <1>1 DEF MemoryTypes, HeapOK, Moves
<1>4. Others(p, a)
  BY <1>1, <1>2 DEF MemoryTypes, Others, Moves, Fits
<1>5. EntryOK(p, a)' /\ TableOK(p, a)'
  BY <1>2 DEF EntryOK, TableOK, Moves, Fits
<1>6. FaultOK(p)'
  BY <1>2 DEF FaultOK, EntryOf, Moves, Fits
<1>7. status[p] = "live"
  BY DEF Moves
<1>8. QED
  BY <1>3, <1>4, <1>5, <1>6, <1>7, ProcessStep

\* What other processes in the fault handler rely on, in a step that leaves the objects.
LEMMA AnonsStay ==
    ASSUME PagesInv, NEW p \in Procs, anonPage' = anonPage
    PROVE  \A r \in Procs \ {p} : pc[r] = "map" => anonPage'[EntryOf(r).source] # None
BY DEF PagesInv, FaultShape, FaultOK

\* What mmap and exec make has no page yet, and a source of its kind.
LEMMA NewEntryFacts ==
    ASSUME NEW kind \in Kinds, NEW e \in NewEntry(kind)
    PROVE  /\ e \in Entries /\ e.page = None /\ e.type \in {"EMPTY", "ANONYMOUS", "FILE"}
           /\ e.type = "ANONYMOUS" /\ e.shared => e.source \in Anons
           /\ e.type = "FILE" => e.source \in Offs
<1>1. kind \in {"empty", "private", "shared", "data", "text", "file"}
  BY AddressSpaceAssumption
<1>2. CASE kind = "empty"
  <2>1. e = Entry("EMPTY", FALSE, FALSE, None)
    BY <1>2, Zenon DEF NewEntry
  <2>2. QED
    BY <2>1, AddressSpaceAssumption DEF Entry, Entries, Resident
<1>3. CASE kind = "private"
  <2>1. e = Entry("ANONYMOUS", FALSE, TRUE, None)
    BY <1>3, Zenon DEF NewEntry
  <2>2. QED
    BY <2>1, AddressSpaceAssumption DEF Entry, Entries, Resident
<1>4. CASE kind = "shared"
  <2>1. PICK n \in Anons : e = Entry("ANONYMOUS", TRUE, TRUE, n)
    BY <1>4, Zenon DEF NewEntry
  <2>2. QED
    BY <2>1, AddressSpaceAssumption DEF Entry, Entries, Resident
<1>5. CASE kind = "data"
  <2>1. PICK o \in Offs : e = Entry("FILE", FALSE, TRUE, o)
    BY <1>5, Zenon DEF NewEntry
  <2>2. QED
    BY <2>1, AddressSpaceAssumption DEF Entry, Entries, Resident
<1>6. CASE kind = "text"
  <2>1. PICK o \in Offs : e = Entry("FILE", TRUE, FALSE, o)
    BY <1>6, Zenon DEF NewEntry
  <2>2. QED
    BY <2>1, AddressSpaceAssumption DEF Entry, Entries, Resident
<1>7. CASE kind = "file"
  <2>1. PICK o \in Offs : e = Entry("FILE", TRUE, TRUE, o)
    BY <1>7, Zenon DEF NewEntry
  <2>2. QED
    BY <2>1, AddressSpaceAssumption DEF Entry, Entries, Resident
<1>8. QED
  BY <1>1, <1>2, <1>3, <1>4, <1>5, <1>6, <1>7

\* ~PhysicalPage frees no page that still has an object.
LEMMA DestroyFacts ==
    ASSUME PagesInv, NEW no \in [Pages -> Nat], NEW nr, Destroy(no, nr),
           \A x \in Pages : no[x] <= objs[x]
    PROVE  /\ objs' = no /\ ref' = nr /\ used' \subseteq Pages
           /\ \A x \in Pages : objs'[x] > 0 => x \in used'
BY DEF Destroy, PagesInv, MemoryTypes, ObjectsExact

\* The gain when one offset of f_shared_pages changes.
LEMMA SharedGain ==
    ASSUME MemoryTypes, NEW o \in Offs, NEW v, sharedPages' = [sharedPages EXCEPT ![o] = v], NEW x
    PROVE  Count(sharedPages, x)' = Count(sharedPages, x) + Delta(sharedPages[o], v, x)
<1> DEFINE f == sharedPages
           g == sharedPages'
<1>1. /\ DOMAIN sharedPages = Offs /\ DOMAIN sharedPages' = Offs /\ sharedPages'[o] = v
      /\ \A z \in Offs \ {o} : sharedPages'[z] = sharedPages[z]
  BY DEF MemoryTypes
<1>2. IsFiniteSet(Offs)
  BY AddressSpaceAssumption
<1>3. DOMAIN f = Offs /\ DOMAIN g = Offs /\ \A z \in Offs \ {o} : g[z] = f[z]
  BY <1>1
<1> HIDE DEF f, g
<1>4. Count(f, x) \in Nat /\ Count(g, x) = Count(f, x) + Delta(f[o], g[o], x)
  BY <1>2, <1>3, CountExcept
<1>5. QED
  BY <1>1, <1>4 DEF f, g

\* The gain when f_page of one SharedAnonymousPage changes.
LEMMA AnonGain ==
    ASSUME MemoryTypes, NEW n \in Anons, NEW v, anonPage' = [anonPage EXCEPT ![n] = v], NEW x
    PROVE  Count(anonPage, x)' = Count(anonPage, x) + Delta(anonPage[n], v, x)
<1> DEFINE f == anonPage
           g == anonPage'
<1>1. /\ DOMAIN anonPage = Anons /\ DOMAIN anonPage' = Anons /\ anonPage'[n] = v
      /\ \A z \in Anons \ {n} : anonPage'[z] = anonPage[z]
  BY DEF MemoryTypes
<1>2. IsFiniteSet(Anons)
  BY AddressSpaceAssumption
<1>3. DOMAIN f = Anons /\ DOMAIN g = Anons /\ \A z \in Anons \ {n} : g[z] = f[z]
  BY <1>1
<1> HIDE DEF f, g
<1>4. Count(f, x) \in Nat /\ Count(g, x) = Count(f, x) + Delta(f[n], g[n], x)
  BY <1>2, <1>3, CountExcept
<1>5. QED
  BY <1>1, <1>4 DEF f, g

\* A mapping is counted, so that unref() does not go below zero.
LEMMA MappingCounted ==
    ASSUME PagesInv, NEW p \in Procs, NEW a \in Addrs, NEW x \in Pages,
           memorymap[p][a].page = x, MappedPage[<<p, a>>] = x
    PROVE  ref[x] \in Nat /\ ref[x] >= 1
<1>1. objs[x] > 0 /\ ref[x] \in Nat
  BY Held DEF PagesInv, MemoryTypes
<1>2. ref[x] >= Mappings(x)
  BY <1>1 DEF PagesInv, RefsCoverMappings
<1>3. DOMAIN MappedPage = Procs \X Addrs /\ <<p, a>> \in Procs \X Addrs /\ DOMAIN CopyPage = Procs
  BY DEF MappedPage, CopyPage
<1>4. Count(MappedPage, x) \in Nat /\ Count(MappedPage, x) > 0
  BY <1>3, Finite, CountNat
<1>5. Count(CopyPage, x) \in Nat
  BY <1>3, Finite, CountNat
<1>6. QED
  BY <1>1, <1>2, <1>4, <1>5 DEF Mappings

\* A process about to map a SharedAnonymousPage: its entry keeps the object alive.
LEMMA MapFacts ==
    ASSUME PagesInv, NEW r \in Procs, pc[r] = "map"
    PROVE  /\ EntryOf(r).source \in Anons /\ anonPage[EntryOf(r).source] # None
           /\ fault[r].addr \in Addrs /\ EntryOf(r).type = "ANONYMOUS"
<1>1. /\ FaultOK(r) /\ fault[r].addr \in Addrs
  BY FaultAddress DEF PagesInv, FaultShape
<1>2. EntryOK(r, fault[r].addr)
  BY <1>1 DEF PagesInv, EntryShape
<1>3. QED
  BY <1>1, <1>2 DEF FaultOK, EntryOK, EntryOf

-----------------------------------------------------------------------------
(* The steps of a page fault, one lemma per action: each gives the entry, the *)
(* translation, the label and the locals it leaves, and what it counts.       *)

LEMMA StepBadAccess == ASSUME PagesInv, NEW p \in Procs, NEW a \in Addrs, BadAccess(p, a) PROVE PagesInv'
<1>1. status[p] = "live" /\ pc[p] = "user" /\ fault[p] = Idle
  BY ReadyFacts DEF BadAccess
<1>2. fault[p].addr \notin Addrs
  BY <1>1, AddressSpaceAssumption DEF Idle
<1>3. /\ MemoryTypes /\ FaultOK(p) /\ EntryOK(p, a) /\ TableOK(p, a)
      /\ memorymap[p][a] \in Entries /\ memorymap[p][a].page \in Pages \cup {None}
      /\ memorymap[p][a].writable \in BOOLEAN /\ memorymap[p][a].shared \in BOOLEAN
      /\ memorymap[p][a].source \in Anons \cup Offs \cup {None}
      /\ pte[p][a] \in Translations
      /\ fault[p] \in Locals /\ fault[p].page \in Pages \cup {None} /\ fault[p].cow \in BOOLEAN
  BY ProcessFacts
<1>5. MemoryTypes'
  BY <1>1, <1>2, <1>3, AddressSpaceAssumption
     DEF MemoryTypes, BadAccess, heap, Goto, Keep, Return, Idle, Labels, Locals, Translations, EntryOf, FaultOK
<1>6. Others(p, a)
  BY <1>1, <1>2, <1>3 DEF MemoryTypes, Others, BadAccess, heap, Ready, Goto, Keep, Return, PagesInv, FaultShape, FaultOK
<1>7. EntryOK(p, a)' /\ TableOK(p, a)'
  BY <1>1, <1>2, <1>3 DEF MemoryTypes, EntryOK, TableOK, BadAccess, heap, Ready, Goto, Keep, Return, EntryOf, FaultOK
<1>8. FaultOK(p)'
  BY <1>1, <1>2, <1>3 DEF MemoryTypes, FaultOK, EntryOK, BadAccess, heap, Ready, Goto, Keep, Return, EntryOf, Idle, Resident
<1>9. \A x \in Pages : CountsOK(p, a, x)
  <2>1. /\ memorymap'[p][a].page = memorymap[p][a].page
        /\ LocalPage'[p] = LocalPage[p] /\ CopyPage'[p] = CopyPage[p]
        /\ MappedPage'[<<p, a>>] = MappedPage[<<p, a>>]
    BY <1>1, <1>2, <1>3, Places DEF MemoryTypes, FaultOK, BadAccess, Ready, Goto, Keep, Return, EntryOf, Idle, heap
  <2>2. QED
    BY <2>1, QuietCounts DEF BadAccess, heap
<1>10. QED
  BY <1>1, <1>3, <1>5, <1>6, <1>7, <1>8, <1>9, ProcessStep

LEMMA StepWrite == ASSUME PagesInv, NEW p \in Procs, NEW a \in Addrs, NEW v \in Vals, Write(p, a, v) PROVE PagesInv'
<1>1. status[p] = "live" /\ pc[p] = "user" /\ fault[p] = Idle
  BY ReadyFacts DEF Write
<1>2. fault[p].addr \notin Addrs
  BY <1>1, AddressSpaceAssumption DEF Idle
<1>3. /\ MemoryTypes /\ FaultOK(p) /\ EntryOK(p, a) /\ TableOK(p, a)
      /\ memorymap[p][a] \in Entries /\ memorymap[p][a].page \in Pages \cup {None}
      /\ memorymap[p][a].writable \in BOOLEAN /\ memorymap[p][a].shared \in BOOLEAN
      /\ memorymap[p][a].source \in Anons \cup Offs \cup {None}
      /\ pte[p][a] \in Translations
      /\ fault[p] \in Locals /\ fault[p].page \in Pages \cup {None} /\ fault[p].cow \in BOOLEAN
  BY ProcessFacts
<1>5. MemoryTypes'
  BY <1>1, <1>2, <1>3, AddressSpaceAssumption
     DEF MemoryTypes, Write, heap, Goto, Keep, Return, Idle, Labels, Locals, Translations, EntryOf, FaultOK
<1>6. Others(p, a)
  BY <1>1, <1>2, <1>3 DEF MemoryTypes, Others, Write, heap, Ready, Goto, Keep, Return, PagesInv, FaultShape, FaultOK
<1>7. EntryOK(p, a)' /\ TableOK(p, a)'
  BY <1>1, <1>2, <1>3 DEF MemoryTypes, EntryOK, TableOK, Write, heap, Ready, Goto, Keep, Return, EntryOf, FaultOK
<1>8. FaultOK(p)'
  BY <1>1, <1>2, <1>3 DEF MemoryTypes, FaultOK, EntryOK, Write, heap, Ready, Goto, Keep, Return, EntryOf, Idle, Resident
<1>9. \A x \in Pages : CountsOK(p, a, x)
  <2>1. /\ memorymap'[p][a].page = memorymap[p][a].page
        /\ LocalPage'[p] = LocalPage[p] /\ CopyPage'[p] = CopyPage[p]
        /\ MappedPage'[<<p, a>>] = MappedPage[<<p, a>>]
    BY <1>1, <1>2, <1>3, Places DEF MemoryTypes, FaultOK, Write, Ready, Goto, Keep, Return, EntryOf, Idle, heap
  <2>2. QED
    BY <2>1, QuietCounts DEF Write, heap
<1>10. QED
  BY <1>1, <1>3, <1>5, <1>6, <1>7, <1>8, <1>9, ProcessStep

LEMMA StepFaultCow == ASSUME PagesInv, NEW p \in Procs, NEW a \in Addrs, FaultCow(p, a) PROVE PagesInv'
<1>1. status[p] = "live" /\ pc[p] = "user" /\ fault[p] = Idle
  BY ReadyFacts DEF FaultCow
<1>2. fault[p].addr \notin Addrs
  BY <1>1, AddressSpaceAssumption DEF Idle
<1>3. /\ MemoryTypes /\ FaultOK(p) /\ EntryOK(p, a) /\ TableOK(p, a)
      /\ memorymap[p][a] \in Entries /\ memorymap[p][a].page \in Pages \cup {None}
      /\ memorymap[p][a].writable \in BOOLEAN /\ memorymap[p][a].shared \in BOOLEAN
      /\ memorymap[p][a].source \in Anons \cup Offs \cup {None}
      /\ pte[p][a] \in Translations
      /\ fault[p] \in Locals /\ fault[p].page \in Pages \cup {None} /\ fault[p].cow \in BOOLEAN
  BY ProcessFacts
<1>5. MemoryTypes'
  BY <1>1, <1>2, <1>3, AddressSpaceAssumption
     DEF MemoryTypes, FaultCow, heap, Goto, Keep, Return, Idle, Labels, Locals, Translations, EntryOf, FaultOK
<1>6. Others(p, a)
  BY <1>1, <1>2, <1>3 DEF MemoryTypes, Others, FaultCow, heap, Ready, Goto, Keep, Return, PagesInv, FaultShape, FaultOK
<1>7. EntryOK(p, a)' /\ TableOK(p, a)'
  BY <1>1, <1>2, <1>3 DEF MemoryTypes, EntryOK, TableOK, FaultCow, heap, Ready, Goto, Keep, Return, EntryOf, FaultOK
<1>8. FaultOK(p)'
  BY <1>1, <1>2, <1>3 DEF MemoryTypes, FaultOK, EntryOK, FaultCow, heap, Ready, Goto, Keep, Return, EntryOf, Idle, Resident
<1>9. \A x \in Pages : CountsOK(p, a, x)
  <2>1. /\ memorymap'[p][a].page = memorymap[p][a].page
        /\ LocalPage'[p] = LocalPage[p] /\ CopyPage'[p] = CopyPage[p]
        /\ MappedPage'[<<p, a>>] = MappedPage[<<p, a>>]
    BY <1>1, <1>2, <1>3, Places DEF MemoryTypes, FaultOK, FaultCow, Ready, Goto, Keep, Return, EntryOf, Idle, heap
  <2>2. QED
    BY <2>1, QuietCounts DEF FaultCow, heap
<1>10. QED
  BY <1>1, <1>3, <1>5, <1>6, <1>7, <1>8, <1>9, ProcessStep

LEMMA StepCheckFile == ASSUME PagesInv, NEW p \in Procs, CheckFile(p) PROVE PagesInv'
<1>1. fault[p].addr \in Addrs /\ status[p] = "live"
  BY FaultAddress DEF CheckFile
<1>2. PICK a \in Addrs : fault[p].addr = a
  BY <1>1
<1>3. /\ MemoryTypes /\ FaultOK(p) /\ EntryOK(p, a) /\ TableOK(p, a)
      /\ memorymap[p][a] \in Entries /\ memorymap[p][a].page \in Pages \cup {None}
      /\ memorymap[p][a].writable \in BOOLEAN /\ memorymap[p][a].shared \in BOOLEAN
      /\ memorymap[p][a].source \in Anons \cup Offs \cup {None}
      /\ pte[p][a] \in Translations
      /\ fault[p] \in Locals /\ fault[p].page \in Pages \cup {None} /\ fault[p].cow \in BOOLEAN
  BY ProcessFacts
<1>5. MemoryTypes'
  BY <1>1, <1>2, <1>3, AddressSpaceAssumption
     DEF MemoryTypes, CheckFile, heap, Goto, Keep, Return, Idle, Labels, Locals, Translations, EntryOf, FaultOK
<1>6. Others(p, a)
  BY <1>1, <1>2, <1>3 DEF MemoryTypes, Others, CheckFile, heap, Ready, Goto, Keep, Return, PagesInv, FaultShape, FaultOK
<1>7. EntryOK(p, a)' /\ TableOK(p, a)'
  BY <1>1, <1>2, <1>3 DEF MemoryTypes, EntryOK, TableOK, CheckFile, heap, Ready, Goto, Keep, Return, EntryOf, FaultOK
<1>8. FaultOK(p)'
  BY <1>1, <1>2, <1>3 DEF MemoryTypes, FaultOK, EntryOK, CheckFile, heap, Ready, Goto, Keep, Return, EntryOf, Idle, Resident
<1>9. \A x \in Pages : CountsOK(p, a, x)
  <2>1. /\ memorymap'[p][a].page = memorymap[p][a].page
        /\ LocalPage'[p] = LocalPage[p] /\ CopyPage'[p] = CopyPage[p]
        /\ MappedPage'[<<p, a>>] = MappedPage[<<p, a>>]
    BY <1>1, <1>2, <1>3, Places DEF MemoryTypes, FaultOK, CheckFile, Ready, Goto, Keep, Return, EntryOf, Idle, heap
  <2>2. QED
    BY <2>1, QuietCounts DEF CheckFile, heap
<1>10. QED
  BY <1>1, <1>3, <1>5, <1>6, <1>7, <1>8, <1>9, ProcessStep

\* A fault that allocates a page keeps its only object in a local variable.
LEMMA NewLocal ==
    ASSUME PagesInv, NEW p \in Procs, NEW a \in Addrs, NEW x \in Pages, NEW l, Ready(p),
           NewPage(x, 0, 1), Keep(p, a, x, FALSE), Goto(p, l), content' \in [Pages -> Vals],
           UNCHANGED <<status, memorymap, pte, sharedPages, anonPage>>,
           \/ l = "store" /\ memorymap[p][a].type = "ANONYMOUS" /\ memorymap[p][a].shared
           \/ l \in {"insert", "check"} /\ memorymap[p][a].type = "FILE"
           \/ l = "lost" /\ memorymap[p][a].type = "FILE_MEMORY"
    PROVE  PagesInv'
<1> DEFINE m == memorymap[p][a]
           t == pte[p][a]
           f == [addr |-> a, page |-> x, cow |-> FALSE]
<1>1. status[p] = "live" /\ pc[p] = "user" /\ fault[p] = Idle
  BY ReadyFacts
<1>2. fault[p].addr \notin Addrs
  BY <1>1, AddressSpaceAssumption DEF Idle
<1>3. /\ MemoryTypes /\ FaultOK(p) /\ EntryOK(p, a) /\ TableOK(p, a)
      /\ memorymap[p][a] \in Entries /\ memorymap[p][a].page \in Pages \cup {None}
      /\ memorymap[p][a].writable \in BOOLEAN /\ memorymap[p][a].shared \in BOOLEAN
      /\ memorymap[p][a].source \in Anons \cup Offs \cup {None}
      /\ pte[p][a] \in Translations
      /\ fault[p] \in Locals /\ fault[p].page \in Pages \cup {None} /\ fault[p].cow \in BOOLEAN
  BY ProcessFacts
<1>4a. /\ used' \subseteq Pages /\ ref' \in [Pages -> Nat] /\ objs' \in [Pages -> Nat]
       /\ writable' \in [Pages -> BOOLEAN] /\ cow' \in [Pages -> BOOLEAN]
       /\ x \in used' /\ used \subseteq used' /\ x # None
       /\ objs[x] = 0 /\ objs'[x] = 1 /\ ref'[x] = 0
       /\ \A y \in Pages \ {x} : objs'[y] = objs[y] /\ ref'[y] = ref[y]
  BY NewPageFacts
<1>4b. f \in Locals /\ f.page = x /\ f.addr = a /\ Idle.page = None
  BY DEF Locals, Idle
<1>4d. fault' = [fault EXCEPT ![p] = f] /\ pc' = [pc EXCEPT ![p] = l] /\ l \in Labels
  BY DEF Keep, Goto, Labels
<1>4e. t.page = m.page
  BY <1>1, <1>3 DEF TableOK
<1> HIDE DEF f
<1>4. Moves(p, a, m, t, l, f)
  BY <1>1, <1>3, <1>4b, <1>4d DEF Moves, MemoryTypes
<1>5. HeapOK'
  BY <1>3, <1>4a DEF MemoryTypes, HeapOK
<1>6. Fits(a, m, t, l, f)
  BY <1>1, <1>3, <1>4a, <1>4b, <1>4e DEF Fits, EntryOK
<1>7. \A r \in Procs \ {p} : pc[r] = "map" => anonPage'[EntryOf(r).source] # None
  BY AnonsStay
<1>8. \A y \in Pages : CountsOK(p, a, y)
  <2>1. TAKE y \in Pages
  <2>2. /\ memorymap'[p][a].page = m.page /\ LocalPage'[p] = x /\ LocalPage[p] = None
        /\ CopyPage'[p] = None /\ CopyPage[p] = None
        /\ MappedPage'[<<p, a>>] = m.page /\ MappedPage[<<p, a>>] = m.page
    BY <1>1, <1>3, <1>4, <1>4b, MovedPlaces
  <2>3. y # None /\ objs[y] \in Nat /\ ref[y] \in Nat /\ (objs[y] > 0 => y \in used)
    BY AddressSpaceAssumption DEF PagesInv, MemoryTypes, ObjectsExact
  <2>4. ObjectsGain(p, a, y) = IF y = x THEN 1 ELSE 0
    BY <1>3, <2>2, <2>3, GainOfPlaces DEF Delta
  <2>5. MappingsGain(p, a, y) = 0
    BY <2>2, <2>3 DEF Delta, MappingsGain
  <2>6. QED
    BY <1>4a, <2>3, <2>4, <2>5 DEF CountsOK
<1>9. QED
  BY <1>4, <1>5, <1>6, <1>7, <1>8, MovedStep

\* A fault that finds what it needs, and has no page in its locals.
LEMMA NoLocal ==
    ASSUME PagesInv, NEW p \in Procs, NEW a \in Addrs, NEW l, Ready(p),
           Keep(p, a, None, FALSE), Goto(p, l),
           UNCHANGED <<status, memorymap, pte, heap, content, sharedPages, anonPage>>,
           \/ /\ l = "map" /\ memorymap[p][a].type = "ANONYMOUS" /\ memorymap[p][a].shared
              /\ anonPage[memorymap[p][a].source] # None
           \/ l = "steal" /\ memorymap[p][a].type = "FILE_MEMORY"
    PROVE  PagesInv'
<1> DEFINE m == memorymap[p][a]
           t == pte[p][a]
           f == [addr |-> a, page |-> None, cow |-> FALSE]
<1>1. status[p] = "live" /\ pc[p] = "user" /\ fault[p] = Idle
  BY ReadyFacts
<1>2. fault[p].addr \notin Addrs
  BY <1>1, AddressSpaceAssumption DEF Idle
<1>3. /\ MemoryTypes /\ FaultOK(p) /\ EntryOK(p, a) /\ TableOK(p, a)
      /\ memorymap[p][a] \in Entries /\ memorymap[p][a].page \in Pages \cup {None}
      /\ memorymap[p][a].writable \in BOOLEAN /\ memorymap[p][a].shared \in BOOLEAN
      /\ memorymap[p][a].source \in Anons \cup Offs \cup {None}
      /\ pte[p][a] \in Translations
      /\ fault[p] \in Locals /\ fault[p].page \in Pages \cup {None} /\ fault[p].cow \in BOOLEAN
  BY ProcessFacts
<1>4b. f \in Locals /\ f.page = None /\ f.addr = a /\ Idle.page = None
  BY DEF Locals, Idle
<1>4d. fault' = [fault EXCEPT ![p] = f] /\ pc' = [pc EXCEPT ![p] = l] /\ l \in Labels
  BY DEF Keep, Goto, Labels
<1>4e. t.page = m.page
  BY <1>1, <1>3 DEF TableOK
<1> HIDE DEF f
<1>4. Moves(p, a, m, t, l, f)
  BY <1>1, <1>3, <1>4b, <1>4d DEF Moves, MemoryTypes
<1>5. HeapOK'
  BY <1>3 DEF MemoryTypes, HeapOK, heap
<1>6. Fits(a, m, t, l, f)
  BY <1>1, <1>3, <1>4b, <1>4e DEF Fits, EntryOK
<1>7. \A r \in Procs \ {p} : pc[r] = "map" => anonPage'[EntryOf(r).source] # None
  BY AnonsStay
<1>8. \A x \in Pages : CountsOK(p, a, x)
  <2>1. /\ memorymap'[p][a].page = m.page
        /\ LocalPage'[p] = LocalPage[p] /\ CopyPage'[p] = CopyPage[p]
        /\ MappedPage'[<<p, a>>] = MappedPage[<<p, a>>]
    BY <1>1, <1>3, <1>4, <1>4b, MovedPlaces
  <2>2. QED
    BY <2>1, QuietCounts DEF heap
<1>9. QED
  BY <1>4, <1>5, <1>6, <1>7, <1>8, MovedStep

LEMMA StepMmap == ASSUME PagesInv, NEW p \in Procs, NEW a \in Addrs, NEW kind \in Kinds, Mmap(p, a, kind) PROVE PagesInv'
<1>1. status[p] = "live" /\ pc[p] = "user" /\ fault[p] = Idle
  BY ReadyFacts DEF Mmap
<1>2. fault[p].addr \notin Addrs
  BY <1>1, AddressSpaceAssumption DEF Idle
<1>3. /\ MemoryTypes /\ FaultOK(p) /\ EntryOK(p, a) /\ TableOK(p, a)
      /\ memorymap[p][a] \in Entries /\ memorymap[p][a].page \in Pages \cup {None}
      /\ memorymap[p][a].writable \in BOOLEAN /\ memorymap[p][a].shared \in BOOLEAN
      /\ memorymap[p][a].source \in Anons \cup Offs \cup {None}
      /\ pte[p][a] \in Translations
      /\ fault[p] \in Locals /\ fault[p].page \in Pages \cup {None} /\ fault[p].cow \in BOOLEAN
  BY ProcessFacts
<1> DEFINE m == memorymap[p][a]
           t == pte[p][a]
<1>4a. PICK e \in NewEntry(kind) : memorymap' = [memorymap EXCEPT ![p][a] = e]
  BY DEF Mmap
<1>4b. /\ e \in Entries /\ e.page = None /\ e.type \in {"EMPTY", "ANONYMOUS", "FILE"}
       /\ e.type = "ANONYMOUS" /\ e.shared => e.source \in Anons
       /\ e.type = "FILE" => e.source \in Offs
  BY NewEntryFacts
<1>4c. m.page = None /\ t.page = None
  BY <1>1, <1>3 DEF Mmap, NoEntry, Entry, TableOK
<1>4. Moves(p, a, e, t, "user", Idle)
  BY <1>1, <1>3, <1>4a, <1>4b DEF Moves, Mmap, MemoryTypes, Labels
<1>5. HeapOK'
  BY <1>3 DEF MemoryTypes, HeapOK, Mmap, heap
<1>6. Fits(a, e, t, "user", Idle)
  BY <1>4b, <1>4c DEF Fits, Resident
<1>7. \A r \in Procs \ {p} : pc[r] = "map" => anonPage'[EntryOf(r).source] # None
  BY AnonsStay DEF Mmap
<1>8. \A x \in Pages : CountsOK(p, a, x)
  <2>1. /\ memorymap'[p][a].page = m.page
        /\ LocalPage'[p] = LocalPage[p] /\ CopyPage'[p] = CopyPage[p]
        /\ MappedPage'[<<p, a>>] = MappedPage[<<p, a>>]
    BY <1>1, <1>3, <1>4, <1>4b, <1>4c, MovedPlaces
  <2>2. QED
    BY <2>1, QuietCounts DEF Mmap, heap
<1>9. QED
  BY <1>4, <1>5, <1>6, <1>7, <1>8, MovedStep

LEMMA StepTake == ASSUME PagesInv, NEW p \in Procs, Take(p) PROVE PagesInv'
<1>1. fault[p].addr \in Addrs /\ status[p] = "live"
  BY FaultAddress DEF Take
<1>2. PICK a \in Addrs : fault[p].addr = a
  BY <1>1
<1>3. /\ MemoryTypes /\ FaultOK(p) /\ EntryOK(p, a) /\ TableOK(p, a)
      /\ memorymap[p][a] \in Entries /\ memorymap[p][a].page \in Pages \cup {None}
      /\ memorymap[p][a].writable \in BOOLEAN /\ memorymap[p][a].shared \in BOOLEAN
      /\ memorymap[p][a].source \in Anons \cup Offs \cup {None}
      /\ pte[p][a] \in Translations
      /\ fault[p] \in Locals /\ fault[p].page \in Pages \cup {None} /\ fault[p].cow \in BOOLEAN
  BY ProcessFacts
<1> DEFINE m == memorymap[p][a]
           t == [page |-> m.page, writable |-> TRUE]
<1>4a. pc[p] = "take" /\ m.page \in Pages /\ m.page # None /\ fault[p].page = None
  BY <1>2, <1>3 DEF Take, EntryOf, FaultOK, EntryOK, Resident
<1>4b. t \in Translations /\ t.page = m.page /\ Idle \in Locals /\ Idle.page = None
  BY <1>4a DEF Translations, Locals, Idle
<1>4. Moves(p, a, m, t, "user", Idle)
  BY <1>1, <1>2, <1>3, <1>4b DEF Moves, Take, EntryOf, Goto, Return, MemoryTypes, Labels
<1>5. HeapOK'
  BY <1>3 DEF MemoryTypes, HeapOK, Take
<1>6. Fits(a, m, t, "user", Idle)
  BY <1>3, <1>4b DEF Fits, EntryOK
<1>7. \A r \in Procs \ {p} : pc[r] = "map" => anonPage'[EntryOf(r).source] # None
  BY AnonsStay DEF Take
<1>8. \A x \in Pages : CountsOK(p, a, x)
  <2>1. /\ memorymap'[p][a].page = m.page
        /\ LocalPage'[p] = LocalPage[p] /\ CopyPage'[p] = CopyPage[p]
        /\ MappedPage'[<<p, a>>] = MappedPage[<<p, a>>]
    BY <1>3, <1>4, <1>4a, <1>4b, MovedPlaces
  <2>2. QED
    BY <2>1, QuietCounts DEF Take
<1>9. QED
  BY <1>4, <1>5, <1>6, <1>7, <1>8, MovedStep

LEMMA StepOwn == ASSUME PagesInv, NEW p \in Procs, Own(p) PROVE PagesInv'
<1>1. fault[p].addr \in Addrs /\ status[p] = "live"
  BY FaultAddress DEF Own
<1>2. PICK a \in Addrs : fault[p].addr = a
  BY <1>1
<1>3. /\ MemoryTypes /\ FaultOK(p) /\ EntryOK(p, a) /\ TableOK(p, a)
      /\ memorymap[p][a] \in Entries /\ memorymap[p][a].page \in Pages \cup {None}
      /\ memorymap[p][a].writable \in BOOLEAN /\ memorymap[p][a].shared \in BOOLEAN
      /\ memorymap[p][a].source \in Anons \cup Offs \cup {None}
      /\ pte[p][a] \in Translations
      /\ fault[p] \in Locals /\ fault[p].page \in Pages \cup {None} /\ fault[p].cow \in BOOLEAN
  BY ProcessFacts
<1> DEFINE m == memorymap[p][a]
           e == [m EXCEPT !.writable = TRUE, !.cow = FALSE]
           t == [pte[p][a] EXCEPT !.writable = TRUE]
<1>4a. pc[p] = "own" /\ fault[p].page = None /\ m.type = "FILE_MEMORY"
  BY <1>2, <1>3 DEF Own, EntryOf, FaultOK
<1>4b. /\ e \in Entries /\ t \in Translations /\ e.page = m.page /\ e.type = m.type
       /\ t.page = pte[p][a].page /\ Idle \in Locals /\ Idle.page = None
  BY <1>3 DEF Entries, Translations, Locals, Idle
<1> HIDE DEF e, t
<1>4. Moves(p, a, e, t, "user", Idle)
  BY <1>1, <1>2, <1>3, <1>4b DEF Moves, Own, e, t, Goto, Return, MemoryTypes, Labels
<1>5. HeapOK'
  BY <1>3 DEF MemoryTypes, HeapOK, Own, heap
<1>6. Fits(a, e, t, "user", Idle)
  BY <1>3, <1>4a, <1>4b DEF Fits, EntryOK, TableOK
<1>7. \A r \in Procs \ {p} : pc[r] = "map" => anonPage'[EntryOf(r).source] # None
  BY AnonsStay DEF Own
<1>8. \A x \in Pages : CountsOK(p, a, x)
  <2>1. /\ memorymap'[p][a].page = m.page
        /\ LocalPage'[p] = LocalPage[p] /\ CopyPage'[p] = CopyPage[p]
        /\ MappedPage'[<<p, a>>] = MappedPage[<<p, a>>]
    BY <1>3, <1>4, <1>4a, <1>4b, MovedPlaces
  <2>2. QED
    BY <2>1, QuietCounts DEF Own, heap
<1>9. QED
  BY <1>4, <1>5, <1>6, <1>7, <1>8, MovedStep

LEMMA StepFaultPrivate == ASSUME PagesInv, NEW p \in Procs, NEW a \in Addrs, FaultPrivate(p, a) PROVE PagesInv'
<1>1. status[p] = "live" /\ pc[p] = "user" /\ fault[p] = Idle
  BY ReadyFacts DEF FaultPrivate
<1>2. fault[p].addr \notin Addrs
  BY <1>1, AddressSpaceAssumption DEF Idle
<1>3. /\ MemoryTypes /\ FaultOK(p) /\ EntryOK(p, a) /\ TableOK(p, a)
      /\ memorymap[p][a] \in Entries /\ memorymap[p][a].page \in Pages \cup {None}
      /\ memorymap[p][a].writable \in BOOLEAN /\ memorymap[p][a].shared \in BOOLEAN
      /\ memorymap[p][a].source \in Anons \cup Offs \cup {None}
      /\ pte[p][a] \in Translations
      /\ fault[p] \in Locals /\ fault[p].page \in Pages \cup {None} /\ fault[p].cow \in BOOLEAN
  BY ProcessFacts
<1> DEFINE m == memorymap[p][a]
<1>4a. PICK x \in Pages :
        /\ NewPage(x, 1, 1)
        /\ memorymap' = [memorymap EXCEPT ![p][a] =
                [Entry("MEMORY", FALSE, FALSE, None) EXCEPT !.page = x]]
        /\ pte' = [pte EXCEPT ![p][a] = [page |-> x, writable |-> TRUE]]
        /\ content' = [content EXCEPT ![x] = Zero]
  BY DEF FaultPrivate
<1> DEFINE e == [Entry("MEMORY", FALSE, FALSE, None) EXCEPT !.page = x]
           t == [page |-> x, writable |-> TRUE]
<1>4b. /\ e \in Entries /\ t \in Translations /\ e.page = x /\ e.type = "MEMORY" /\ t.page = x
       /\ m.page = None /\ Idle \in Locals /\ Idle.page = None
  BY <1>3 DEF Entries, Translations, Entry, Resident, EntryOK, FaultPrivate, Locals, Idle
<1>4c. /\ used' \subseteq Pages /\ ref' \in [Pages -> Nat] /\ objs' \in [Pages -> Nat]
       /\ writable' \in [Pages -> BOOLEAN] /\ cow' \in [Pages -> BOOLEAN]
       /\ x \in used' /\ used \subseteq used' /\ x # None
       /\ objs[x] = 0 /\ objs'[x] = 1 /\ ref'[x] = 1
       /\ \A y \in Pages \ {x} : objs'[y] = objs[y] /\ ref'[y] = ref[y]
  BY <1>4a, NewPageFacts
<1> HIDE DEF e, t
<1>4. Moves(p, a, e, t, "user", Idle)
  BY <1>1, <1>3, <1>4a, <1>4b DEF e, t, Moves, FaultPrivate, MemoryTypes, Labels
<1>5. HeapOK'
  BY <1>3, <1>4a, <1>4c, AddressSpaceAssumption DEF MemoryTypes, HeapOK, FaultPrivate
<1>6. Fits(a, e, t, "user", Idle)
  BY <1>4b, <1>4c DEF Fits, Resident
<1>7. \A r \in Procs \ {p} : pc[r] = "map" => anonPage'[EntryOf(r).source] # None
  BY AnonsStay DEF FaultPrivate
<1>8. \A y \in Pages : CountsOK(p, a, y)
  <2>1. TAKE y \in Pages
  <2>2. /\ memorymap'[p][a].page = x /\ LocalPage'[p] = None /\ LocalPage[p] = None
        /\ CopyPage'[p] = None /\ CopyPage[p] = None
        /\ MappedPage'[<<p, a>>] = x /\ MappedPage[<<p, a>>] = None
    BY <1>1, <1>3, <1>4, <1>4b, MovedPlaces
  <2>3. y # None /\ objs[y] \in Nat /\ ref[y] \in Nat /\ (objs[y] > 0 => y \in used)
    BY AddressSpaceAssumption DEF PagesInv, MemoryTypes, ObjectsExact
  <2>4. ObjectsGain(p, a, y) = IF y = x THEN 1 ELSE 0
    BY <1>3, <1>4b, <2>2, <2>3, GainOfPlaces DEF Delta, FaultPrivate
  <2>5. MappingsGain(p, a, y) = IF y = x THEN 1 ELSE 0
    BY <2>2, <2>3 DEF Delta, MappingsGain
  <2>6. QED
    BY <1>4c, <2>3, <2>4, <2>5 DEF CountsOK
<1>9. QED
  BY <1>4, <1>5, <1>6, <1>7, <1>8, MovedStep

LEMMA StepFaultShared == ASSUME PagesInv, NEW p \in Procs, NEW a \in Addrs, FaultShared(p, a) PROVE PagesInv'
<1>1. status[p] = "live" /\ pc[p] = "user" /\ fault[p] = Idle
  BY ReadyFacts DEF FaultShared
<1>2. fault[p].addr \notin Addrs
  BY <1>1, AddressSpaceAssumption DEF Idle
<1>3. /\ MemoryTypes /\ FaultOK(p) /\ EntryOK(p, a) /\ TableOK(p, a)
      /\ memorymap[p][a] \in Entries /\ memorymap[p][a].page \in Pages \cup {None}
      /\ memorymap[p][a].writable \in BOOLEAN /\ memorymap[p][a].shared \in BOOLEAN
      /\ memorymap[p][a].source \in Anons \cup Offs \cup {None}
      /\ pte[p][a] \in Translations
      /\ fault[p] \in Locals /\ fault[p].page \in Pages \cup {None} /\ fault[p].cow \in BOOLEAN
  BY ProcessFacts
<1> DEFINE m == memorymap[p][a]
<1>4. CASE anonPage[m.source] = None
  <2>1. PICK x \in Pages : NewPage(x, 0, 1) /\ Keep(p, a, x, FALSE) /\ Goto(p, "store")
    BY <1>4 DEF FaultShared
  <2>2. content' \in [Pages -> Vals]
    BY <1>3 DEF FaultShared, MemoryTypes
  <2>3. QED
    BY <2>1, <2>2, NewLocal DEF FaultShared
<1>5. CASE anonPage[m.source] # None
  <2>1. Keep(p, a, None, FALSE) /\ Goto(p, "map") /\ UNCHANGED heap
    BY <1>5 DEF FaultShared
  <2>2. QED
    BY <1>5, <2>1, NoLocal DEF FaultShared
<1>6. QED
  BY <1>4, <1>5

LEMMA StepFaultFile == ASSUME PagesInv, NEW p \in Procs, NEW a \in Addrs, FaultFile(p, a) PROVE PagesInv'
<1>1. status[p] = "live" /\ pc[p] = "user" /\ fault[p] = Idle
  BY ReadyFacts DEF FaultFile
<1>2. fault[p].addr \notin Addrs
  BY <1>1, AddressSpaceAssumption DEF Idle
<1>3. /\ MemoryTypes /\ FaultOK(p) /\ EntryOK(p, a) /\ TableOK(p, a)
      /\ memorymap[p][a] \in Entries /\ memorymap[p][a].page \in Pages \cup {None}
      /\ memorymap[p][a].writable \in BOOLEAN /\ memorymap[p][a].shared \in BOOLEAN
      /\ memorymap[p][a].source \in Anons \cup Offs \cup {None}
      /\ pte[p][a] \in Translations
      /\ fault[p] \in Locals /\ fault[p].page \in Pages \cup {None} /\ fault[p].cow \in BOOLEAN
  BY ProcessFacts
<1> DEFINE m == memorymap[p][a]
           s == sharedPages[m.source]
<1>4. CASE s = None
  <2>1. PICK x \in Pages :
            /\ NewPage(x, 0, 1)
            /\ content' = [content EXCEPT ![x] = FileVal]
            /\ Keep(p, a, x, FALSE) /\ Goto(p, IF m.shared THEN "insert" ELSE "check")
    BY <1>4 DEF FaultFile
  <2>2. content' \in [Pages -> Vals]
    BY <1>3, <2>1, AddressSpaceAssumption DEF MemoryTypes
  <2>3. QED
    BY <2>1, <2>2, NewLocal DEF FaultFile
<1>5. CASE s # None
  <2>1. /\ objs' = [objs EXCEPT ![s] = @ + 1]
        /\ Keep(p, a, s, FALSE) /\ Goto(p, "check")
        /\ UNCHANGED <<used, ref, writable, cow, content>>
    BY <1>5 DEF FaultFile
  <2>2. s \in Pages /\ m.source \in Offs
    BY <1>3, <1>5 DEF MemoryTypes, EntryOK, FaultFile
  <2>3. objs[s] \in Nat /\ s \in used /\ objs[s] > 0
    BY <2>2, Held
  <2> DEFINE f == [addr |-> a, page |-> s, cow |-> FALSE]
             t == pte[p][a]
  <2>4. f \in Locals /\ f.page = s /\ f.addr = a /\ Idle.page = None
    BY <2>2 DEF Locals, Idle
  <2>5. fault' = [fault EXCEPT ![p] = f] /\ pc' = [pc EXCEPT ![p] = "check"]
    BY <2>1 DEF Keep, Goto
  <2>6. t.page = m.page
    BY <1>1, <1>3 DEF TableOK
  <2> HIDE DEF f
  <2>7. Moves(p, a, m, t, "check", f)
    BY <1>1, <1>3, <2>4, <2>5 DEF Moves, MemoryTypes, Labels, FaultFile
  <2>8. HeapOK'
    BY <1>3, <2>1, <2>2, <2>3 DEF MemoryTypes, HeapOK, FaultFile
  <2>9. Fits(a, m, t, "check", f)
    BY <1>1, <1>3, <1>5, <2>4, <2>6 DEF Fits, EntryOK, FaultFile
  <2>10. \A r \in Procs \ {p} : pc[r] = "map" => anonPage'[EntryOf(r).source] # None
    BY AnonsStay DEF FaultFile
  <2>11. \A y \in Pages : CountsOK(p, a, y)
    <3>1. TAKE y \in Pages
    <3>2. /\ memorymap'[p][a].page = m.page /\ LocalPage'[p] = s /\ LocalPage[p] = None
          /\ CopyPage'[p] = None /\ CopyPage[p] = None
          /\ MappedPage'[<<p, a>>] = m.page /\ MappedPage[<<p, a>>] = m.page
      BY <1>1, <1>3, <2>7, <2>4, MovedPlaces
    <3>3. y # None /\ objs[y] \in Nat /\ ref[y] \in Nat /\ (objs[y] > 0 => y \in used)
      BY AddressSpaceAssumption DEF PagesInv, MemoryTypes, ObjectsExact
    <3>4. ObjectsGain(p, a, y) = IF y = s THEN 1 ELSE 0
      BY <1>3, <3>2, <3>3, GainOfPlaces DEF Delta, FaultFile
    <3>5. MappingsGain(p, a, y) = 0
      BY <3>2, <3>3 DEF Delta, MappingsGain
    <3>6. objs'[y] = objs[y] + (IF y = s THEN 1 ELSE 0) /\ used' = used /\ ref' = ref
      BY <1>3, <2>1, <2>2, <2>3, <3>3 DEF MemoryTypes
    <3>7. QED
      BY <2>3, <3>3, <3>4, <3>5, <3>6 DEF CountsOK
  <2>12. QED
    BY <2>7, <2>8, <2>9, <2>10, <2>11, MovedStep
<1>6. QED
  BY <1>4, <1>5

LEMMA StepFaultFileCow == ASSUME PagesInv, NEW p \in Procs, NEW a \in Addrs, FaultFileCow(p, a) PROVE PagesInv'
<1>1. status[p] = "live" /\ pc[p] = "user" /\ fault[p] = Idle
  BY ReadyFacts DEF FaultFileCow
<1>2. fault[p].addr \notin Addrs
  BY <1>1, AddressSpaceAssumption DEF Idle
<1>3. /\ MemoryTypes /\ FaultOK(p) /\ EntryOK(p, a) /\ TableOK(p, a)
      /\ memorymap[p][a] \in Entries /\ memorymap[p][a].page \in Pages \cup {None}
      /\ memorymap[p][a].writable \in BOOLEAN /\ memorymap[p][a].shared \in BOOLEAN
      /\ memorymap[p][a].source \in Anons \cup Offs \cup {None}
      /\ pte[p][a] \in Translations
      /\ fault[p] \in Locals /\ fault[p].page \in Pages \cup {None} /\ fault[p].cow \in BOOLEAN
  BY ProcessFacts
<1> DEFINE m == memorymap[p][a]
<1>4. CASE ref[m.page] > 1
  <2>1. PICK x \in Pages : NewPage(x, 0, 1) /\ Keep(p, a, x, FALSE) /\ Goto(p, "lost")
    BY <1>4 DEF FaultFileCow
  <2>2. content' \in [Pages -> Vals]
    BY <1>3 DEF FaultFileCow, MemoryTypes
  <2>3. QED
    BY <2>1, <2>2, NewLocal DEF FaultFileCow
<1>5. CASE ~(ref[m.page] > 1)
  <2>1. Keep(p, a, None, FALSE) /\ Goto(p, "steal") /\ UNCHANGED heap
    BY <1>5 DEF FaultFileCow
  <2>2. QED
    BY <1>5, <2>1, NoLocal DEF FaultFileCow
<1>6. QED
  BY <1>4, <1>5

LEMMA StepStoreShared == ASSUME PagesInv, NEW p \in Procs, StoreShared(p) PROVE PagesInv'
<1>1. fault[p].addr \in Addrs /\ status[p] = "live"
  BY FaultAddress DEF StoreShared
<1>2. PICK a \in Addrs : fault[p].addr = a
  BY <1>1
<1>3. /\ MemoryTypes /\ FaultOK(p) /\ EntryOK(p, a) /\ TableOK(p, a)
      /\ memorymap[p][a] \in Entries /\ memorymap[p][a].page \in Pages \cup {None}
      /\ memorymap[p][a].writable \in BOOLEAN /\ memorymap[p][a].shared \in BOOLEAN
      /\ memorymap[p][a].source \in Anons \cup Offs \cup {None}
      /\ pte[p][a] \in Translations
      /\ fault[p] \in Locals /\ fault[p].page \in Pages \cup {None} /\ fault[p].cow \in BOOLEAN
  BY ProcessFacts
<1> DEFINE m == memorymap[p][a]
           t == pte[p][a]
           f == fault[p]
           n == m.source
           old == anonPage[n]
           no == [x \in Pages |-> IF x = old THEN objs[x] - 1 ELSE objs[x]]
<1>4a. /\ pc[p] = "store" /\ f.page # None /\ f.page \in Pages /\ f.addr = a
       /\ m.type = "ANONYMOUS" /\ m.shared /\ n \in Anons /\ t.page = m.page
       /\ old \in Pages \cup {None}
  BY <1>2, <1>3 DEF StoreShared, FaultOK, EntryOf, EntryOK, TableOK, MemoryTypes
<1>4b. /\ anonPage' = [anonPage EXCEPT ![n] = f.page] /\ Destroy(no, ref)
       /\ UNCHANGED <<writable, cow, content, sharedPages>>
  BY <1>2 DEF StoreShared, EntryOf
<1>4c. /\ objs' = no /\ ref' = ref /\ used' \subseteq Pages /\ no \in [Pages -> Nat]
       /\ \A y \in Pages : objs'[y] > 0 => y \in used'
  <2>1. old \in Pages => objs[old] \in Nat /\ objs[old] > 0
    BY <1>4a, Held
  <2>2. no \in [Pages -> Nat] /\ \A y \in Pages : no[y] <= objs[y]
    BY <1>3, <1>4a, <2>1 DEF MemoryTypes
  <2> HIDE DEF no
  <2>3. QED
    BY <1>4b, <2>2, DestroyFacts
<1>4d. anonPage'[n] = f.page /\ \A i \in Anons \ {n} : anonPage'[i] = anonPage[i]
  BY <1>3, <1>4a, <1>4b DEF MemoryTypes
<1>4. Moves(p, a, m, t, "map", f)
  BY <1>1, <1>2, <1>3 DEF Moves, StoreShared, Goto, MemoryTypes, Labels
<1>5. HeapOK'
  <2> HIDE DEF no
  <2>1. QED
    BY <1>3, <1>4a, <1>4b, <1>4c DEF MemoryTypes, HeapOK
<1>6. Fits(a, m, t, "map", f)
  BY <1>3, <1>4a, <1>4d DEF Fits, EntryOK
<1>7. \A r \in Procs \ {p} : pc[r] = "map" => anonPage'[EntryOf(r).source] # None
  <2>1. SUFFICES ASSUME NEW r \in Procs \ {p}, pc[r] = "map"
                 PROVE  anonPage'[EntryOf(r).source] # None
    OBVIOUS
  <2>2. EntryOf(r).source \in Anons /\ anonPage[EntryOf(r).source] # None
    BY <2>1, MapFacts
  <2>3. QED
    BY <1>4a, <1>4d, <2>2
<1>8. \A y \in Pages : CountsOK(p, a, y)
  <2>1. TAKE y \in Pages
  <2>2. /\ memorymap'[p][a].page = m.page /\ LocalPage'[p] = None /\ LocalPage[p] = f.page
        /\ CopyPage'[p] = None /\ CopyPage[p] = None
        /\ MappedPage'[<<p, a>>] = m.page /\ MappedPage[<<p, a>>] = m.page
    BY <1>3, <1>4, <1>4a, MovedPlaces
  <2>3. y # None /\ objs[y] \in Nat /\ ref[y] \in Nat /\ (objs[y] > 0 => y \in used)
    BY AddressSpaceAssumption DEF PagesInv, MemoryTypes, ObjectsExact
  <2>4. Count(sharedPages, y) \in Nat /\ Count(anonPage, y) \in Nat
    BY <1>3, CountTypes
  <2>5. Count(anonPage, y)' = Count(anonPage, y) + Delta(old, f.page, y)
    BY <1>3, <1>4a, <1>4b, AnonGain
  <2>6. Count(sharedPages, y)' = Count(sharedPages, y)
    BY <1>4b
  <2>7. ObjectsGain(p, a, y) = IF y = old THEN -1 ELSE 0
    <3> HIDE DEF old, no
    <3>1. QED
      BY <2>2, <2>3, <2>4, <2>5, <2>6 DEF ObjectsGain, Delta
  <2>8. MappingsGain(p, a, y) = 0
    BY <2>2, <2>3 DEF Delta, MappingsGain
  <2>9. objs'[y] = objs[y] + (IF y = old THEN -1 ELSE 0) /\ objs'[y] \in Nat
    BY <1>4c, <2>3
  <2>10. QED
    BY <1>4c, <2>3, <2>7, <2>8, <2>9 DEF CountsOK
<1>9. QED
  BY <1>4, <1>5, <1>6, <1>7, <1>8, MovedStep

LEMMA StepMapShared == ASSUME PagesInv, NEW p \in Procs, MapShared(p) PROVE PagesInv'
<1>1. fault[p].addr \in Addrs /\ status[p] = "live"
  BY FaultAddress DEF MapShared
<1>2. PICK a \in Addrs : fault[p].addr = a
  BY <1>1
<1>3. /\ MemoryTypes /\ FaultOK(p) /\ EntryOK(p, a) /\ TableOK(p, a)
      /\ memorymap[p][a] \in Entries /\ memorymap[p][a].page \in Pages \cup {None}
      /\ memorymap[p][a].writable \in BOOLEAN /\ memorymap[p][a].shared \in BOOLEAN
      /\ memorymap[p][a].source \in Anons \cup Offs \cup {None}
      /\ pte[p][a] \in Translations
      /\ fault[p] \in Locals /\ fault[p].page \in Pages \cup {None} /\ fault[p].cow \in BOOLEAN
  BY ProcessFacts
<1> DEFINE m == memorymap[p][a]
           n == m.source
           x == anonPage[n]
           e == [Entry("MEMORY", TRUE, FALSE, None) EXCEPT !.page = x]
           t == [page |-> x, writable |-> writable[x]]
           last == n \notin Alive(memorymap')
<1>4a. /\ pc[p] = "map" /\ m.type = "ANONYMOUS" /\ m.shared /\ n \in Anons /\ m.page = None
       /\ x # None /\ x \in Pages
  BY <1>2, <1>3 DEF MapShared, FaultOK, EntryOf, EntryOK, Resident, MemoryTypes
<1>4b. /\ memorymap' = [memorymap EXCEPT ![p][a] = e]
       /\ anonPage' = IF last THEN [anonPage EXCEPT ![n] = None] ELSE anonPage
       /\ ref' = [ref EXCEPT ![x] = @ + 1]
       /\ objs' = IF last THEN objs ELSE [objs EXCEPT ![x] = @ + 1]
       /\ pte' = [pte EXCEPT ![p][a] = t]
       /\ content' = [content EXCEPT ![x] = Zero]
       /\ pc' = [pc EXCEPT ![p] = "user"] /\ fault' = [fault EXCEPT ![p] = Idle]
       /\ UNCHANGED <<status, used, writable, cow, sharedPages>>
  BY <1>2 DEF MapShared, EntryOf, Goto, Return
<1>4c. /\ e \in Entries /\ e.page = x /\ e.type = "MEMORY" /\ t \in Translations /\ t.page = x
       /\ Idle \in Locals /\ Idle.page = None
  BY <1>3, <1>4a DEF Entries, Entry, Resident, Translations, Locals, Idle, MemoryTypes
<1>4d. objs[x] \in Nat /\ objs[x] > 0 /\ x \in used
  BY <1>4a, Held
<1> HIDE DEF e, t, last
<1>4. Moves(p, a, e, t, "user", Idle)
  BY <1>1, <1>2, <1>4b, <1>4c DEF Moves, Labels
<1>5. HeapOK'
  BY <1>3, <1>4a, <1>4b, <1>4d, AddressSpaceAssumption DEF MemoryTypes, HeapOK
<1>6. Fits(a, e, t, "user", Idle)
  BY <1>4a, <1>4c DEF Fits, Resident
<1>7. \A r \in Procs \ {p} : pc[r] = "map" => anonPage'[EntryOf(r).source] # None
  <2>1. SUFFICES ASSUME NEW r \in Procs \ {p}, pc[r] = "map"
                 PROVE  anonPage'[EntryOf(r).source] # None
    OBVIOUS
  <2>2. /\ EntryOf(r).source \in Anons /\ anonPage[EntryOf(r).source] # None
        /\ fault[r].addr \in Addrs /\ EntryOf(r).type = "ANONYMOUS"
    BY <2>1, MapFacts
  <2>3. memorymap'[r] = memorymap[r]
    BY <1>3, <1>4b DEF MemoryTypes
  <2>4. EntryOf(r).source \in Alive(memorymap')
    BY <2>2, <2>3 DEF Alive, EntryOf
  <2>5. QED
    BY <1>3, <1>4a, <1>4b, <2>2, <2>4 DEF MemoryTypes, last
<1>8. \A y \in Pages : CountsOK(p, a, y)
  <2>1. TAKE y \in Pages
  <2>2. /\ memorymap'[p][a].page = x /\ LocalPage'[p] = None /\ LocalPage[p] = None
        /\ CopyPage'[p] = None /\ CopyPage[p] = None
        /\ MappedPage'[<<p, a>>] = x /\ MappedPage[<<p, a>>] = None
    BY <1>3, <1>4, <1>4a, <1>4c, MovedPlaces
  <2>3. y # None /\ objs[y] \in Nat /\ ref[y] \in Nat /\ (objs[y] > 0 => y \in used)
    BY AddressSpaceAssumption DEF PagesInv, MemoryTypes, ObjectsExact
  <2>4. Count(sharedPages, y) \in Nat /\ Count(anonPage, y) \in Nat
    BY <1>3, CountTypes
  <2>5. Count(anonPage, y)' = Count(anonPage, y) + (IF last /\ y = x THEN -1 ELSE 0)
    <3>1. CASE last
      <4>0. anonPage' = [anonPage EXCEPT ![n] = None] /\ n \in Anons
        BY <1>4a, <1>4b, <3>1
      <4>1. Count(anonPage, y)' = Count(anonPage, y) + Delta(x, None, y)
        BY <1>3, <4>0, AnonGain
      <4>2. QED
        BY <2>3, <3>1, <4>1 DEF Delta
    <3>2. CASE ~last
      <4>1. anonPage' = anonPage
        BY <1>4b, <3>2
      <4>2. QED
        BY <2>4, <3>2, <4>1
    <3>3. QED
      BY <3>1, <3>2
  <2>6. Count(sharedPages, y)' = Count(sharedPages, y)
    BY <1>4b
  <2>7. ObjectsGain(p, a, y) = IF ~last /\ y = x THEN 1 ELSE 0
    <3> HIDE DEF x
    <3>1. QED
      BY <1>4a, <2>2, <2>3, <2>4, <2>5, <2>6 DEF ObjectsGain, Delta
  <2>8. MappingsGain(p, a, y) = IF y = x THEN 1 ELSE 0
    BY <2>2, <2>3 DEF Delta, MappingsGain
  <2>9. /\ objs'[y] = objs[y] + (IF ~last /\ y = x THEN 1 ELSE 0)
        /\ ref'[y] = ref[y] + (IF y = x THEN 1 ELSE 0) /\ used' = used
    BY <1>3, <1>4a, <1>4b, <2>3 DEF MemoryTypes
  <2>10. QED
    BY <1>4d, <2>3, <2>7, <2>8, <2>9 DEF CountsOK
<1>9. QED
  BY <1>4, <1>5, <1>6, <1>7, <1>8, MovedStep

LEMMA StepCopy == ASSUME PagesInv, NEW p \in Procs, Copy(p) PROVE PagesInv'
<1>1. fault[p].addr \in Addrs /\ status[p] = "live"
  BY FaultAddress DEF Copy
<1>2. PICK a \in Addrs : fault[p].addr = a
  BY <1>1
<1>3. /\ MemoryTypes /\ FaultOK(p) /\ EntryOK(p, a) /\ TableOK(p, a)
      /\ memorymap[p][a] \in Entries /\ memorymap[p][a].page \in Pages \cup {None}
      /\ memorymap[p][a].writable \in BOOLEAN /\ memorymap[p][a].shared \in BOOLEAN
      /\ memorymap[p][a].source \in Anons \cup Offs \cup {None}
      /\ pte[p][a] \in Translations
      /\ fault[p] \in Locals /\ fault[p].page \in Pages \cup {None} /\ fault[p].cow \in BOOLEAN
  BY ProcessFacts
<1> DEFINE m == memorymap[p][a]
<1>4a. PICK x \in Pages :
        /\ NewPage(x, 1, 1)
        /\ content' = [content EXCEPT ![x] = content[pte[p][a].page]]
        /\ pte' = [pte EXCEPT ![p][a] = [page |-> x, writable |-> TRUE]]
        /\ Keep(p, a, x, FALSE)
  BY <1>2 DEF Copy
<1> DEFINE t == [page |-> x, writable |-> TRUE]
           f == [addr |-> a, page |-> x, cow |-> FALSE]
<1>4b. t \in Translations /\ t.page = x /\ f \in Locals /\ f.page = x /\ f.addr = a
  BY DEF Translations, Locals
<1>4c. /\ used' \subseteq Pages /\ ref' \in [Pages -> Nat] /\ objs' \in [Pages -> Nat]
       /\ writable' \in [Pages -> BOOLEAN] /\ cow' \in [Pages -> BOOLEAN]
       /\ x \in used' /\ used \subseteq used' /\ x # None
       /\ objs[x] = 0 /\ objs'[x] = 1 /\ ref'[x] = 1
       /\ \A y \in Pages \ {x} : objs'[y] = objs[y] /\ ref'[y] = ref[y]
  BY <1>4a, NewPageFacts
<1>4d. /\ pc[p] = "copy" /\ fault[p].page = None /\ m.type = "MEMORY" /\ m.page # None
       /\ m.page \in Pages /\ pte[p][a].page = m.page
  BY <1>2, <1>3 DEF Copy, FaultOK, EntryOf, EntryOK, Resident, TableOK
<1>4e. /\ pc' = [pc EXCEPT ![p] = "unref"] /\ fault' = [fault EXCEPT ![p] = f]
       /\ UNCHANGED <<status, memorymap, sharedPages, anonPage>>
  BY <1>4a DEF Copy, Goto, Keep
<1>4f. memorymap' = [memorymap EXCEPT ![p][a] = m] /\ "unref" \in Labels
  BY <1>3, <1>4e DEF MemoryTypes, Labels
<1> HIDE DEF t, f
<1>4. Moves(p, a, m, t, "unref", f)
  BY <1>1, <1>2, <1>3, <1>4a, <1>4b, <1>4e, <1>4f DEF Moves, t
<1>5. HeapOK'
  <2>1. content' \in [Pages -> Vals]
    BY <1>3, <1>4a, <1>4d DEF MemoryTypes
  <2>2. QED
    BY <1>3, <1>4c, <2>1 DEF MemoryTypes, HeapOK, Copy
<1>6. Fits(a, m, t, "unref", f)
  BY <1>3, <1>4b, <1>4c, <1>4d DEF Fits, EntryOK
<1>7. \A r \in Procs \ {p} : pc[r] = "map" => anonPage'[EntryOf(r).source] # None
  BY AnonsStay DEF Copy
<1>8. \A y \in Pages : CountsOK(p, a, y)
  <2>1. TAKE y \in Pages
  <2>2. /\ memorymap'[p][a].page = m.page /\ LocalPage'[p] = x /\ LocalPage[p] = None
        /\ CopyPage'[p] = x /\ CopyPage[p] = None
        /\ MappedPage'[<<p, a>>] = m.page /\ MappedPage[<<p, a>>] = m.page
    BY <1>3, <1>4, <1>4b, <1>4d, MovedPlaces
  <2>3. y # None /\ objs[y] \in Nat /\ ref[y] \in Nat /\ (objs[y] > 0 => y \in used)
    BY AddressSpaceAssumption DEF PagesInv, MemoryTypes, ObjectsExact
  <2>4. ObjectsGain(p, a, y) = IF y = x THEN 1 ELSE 0
    BY <1>3, <2>2, <2>3, GainOfPlaces DEF Delta, Copy
  <2>5. MappingsGain(p, a, y) = IF y = x THEN 1 ELSE 0
    BY <2>2, <2>3 DEF Delta, MappingsGain
  <2>6. QED
    BY <1>4c, <2>3, <2>4, <2>5 DEF CountsOK
<1>9. QED
  BY <1>4, <1>5, <1>6, <1>7, <1>8, MovedStep

LEMMA StepUnref == ASSUME PagesInv, NEW p \in Procs, Unref(p) PROVE PagesInv'
<1>1. fault[p].addr \in Addrs /\ status[p] = "live"
  BY FaultAddress DEF Unref
<1>2. PICK a \in Addrs : fault[p].addr = a
  BY <1>1
<1>3. /\ MemoryTypes /\ FaultOK(p) /\ EntryOK(p, a) /\ TableOK(p, a)
      /\ memorymap[p][a] \in Entries /\ memorymap[p][a].page \in Pages \cup {None}
      /\ memorymap[p][a].writable \in BOOLEAN /\ memorymap[p][a].shared \in BOOLEAN
      /\ memorymap[p][a].source \in Anons \cup Offs \cup {None}
      /\ pte[p][a] \in Translations
      /\ fault[p] \in Locals /\ fault[p].page \in Pages \cup {None} /\ fault[p].cow \in BOOLEAN
  BY ProcessFacts
<1> DEFINE m == memorymap[p][a]
           t == pte[p][a]
           f == fault[p]
<1>4a. /\ pc[p] = "unref" /\ f.page # None /\ f.addr = a /\ m.type = "MEMORY" /\ m.page # None
       /\ m.page \in Pages /\ t.page = f.page
  BY <1>2, <1>3 DEF Unref, FaultOK, EntryOf, EntryOK, Resident, TableOK
<1>4b. ref' = [ref EXCEPT ![m.page] = @ - 1]
  BY <1>2 DEF Unref, EntryOf
<1>4c. ref[m.page] \in Nat /\ ref[m.page] >= 1
  <2>1. MappedPage[<<p, a>>] = m.page
    BY <1>4a, Places
  <2>2. QED
    BY <1>4a, <2>1, MappingCounted
<1>4. Moves(p, a, m, t, "delete", f)
  BY <1>1, <1>2, <1>3 DEF Moves, Unref, Goto, MemoryTypes, Labels
<1>5. HeapOK'
  BY <1>3, <1>4a, <1>4b, <1>4c DEF MemoryTypes, HeapOK, Unref
<1>6. Fits(a, m, t, "delete", f)
  BY <1>3, <1>4a DEF Fits, EntryOK
<1>7. \A r \in Procs \ {p} : pc[r] = "map" => anonPage'[EntryOf(r).source] # None
  BY AnonsStay DEF Unref
<1>8. \A y \in Pages : CountsOK(p, a, y)
  <2>1. TAKE y \in Pages
  <2>2. /\ memorymap'[p][a].page = m.page /\ LocalPage'[p] = LocalPage[p]
        /\ CopyPage'[p] = f.page /\ CopyPage[p] = f.page
        /\ MappedPage'[<<p, a>>] = None /\ MappedPage[<<p, a>>] = m.page
    BY <1>3, <1>4, <1>4a, MovedPlaces
  <2>3. y # None /\ objs[y] \in Nat /\ ref[y] \in Nat /\ (objs[y] > 0 => y \in used)
    BY AddressSpaceAssumption DEF PagesInv, MemoryTypes, ObjectsExact
  <2>4. ObjectsGain(p, a, y) = 0
    BY <1>3, <2>2, <2>3, GainOfPlaces DEF Delta, Unref
  <2>5. MappingsGain(p, a, y) = IF y = m.page THEN -1 ELSE 0
    BY <2>2, <2>3 DEF Delta, MappingsGain
  <2>6. ref'[y] = ref[y] + (IF y = m.page THEN -1 ELSE 0) /\ objs' = objs /\ used' = used
    BY <1>3, <1>4b, <2>3 DEF Unref, MemoryTypes
  <2>7. objs[m.page] > 0
    BY <1>4a, Held
  <2>8. QED
    BY <2>3, <2>4, <2>5, <2>6, <2>7 DEF CountsOK
<1>9. QED
  BY <1>4, <1>5, <1>6, <1>7, <1>8, MovedStep

LEMMA StepDelete == ASSUME PagesInv, NEW p \in Procs, Delete(p) PROVE PagesInv'
<1>1. fault[p].addr \in Addrs /\ status[p] = "live"
  BY FaultAddress DEF Delete
<1>2. PICK a \in Addrs : fault[p].addr = a
  BY <1>1
<1>3. /\ MemoryTypes /\ FaultOK(p) /\ EntryOK(p, a) /\ TableOK(p, a)
      /\ memorymap[p][a] \in Entries /\ memorymap[p][a].page \in Pages \cup {None}
      /\ memorymap[p][a].writable \in BOOLEAN /\ memorymap[p][a].shared \in BOOLEAN
      /\ memorymap[p][a].source \in Anons \cup Offs \cup {None}
      /\ pte[p][a] \in Translations
      /\ fault[p] \in Locals /\ fault[p].page \in Pages \cup {None} /\ fault[p].cow \in BOOLEAN
  BY ProcessFacts
<1> DEFINE m == memorymap[p][a]
           e == [m EXCEPT !.page = fault[p].page]
           t == pte[p][a]
           x == fault[p].page
           no == [objs EXCEPT ![m.page] = @ - 1]
<1>4a. /\ pc[p] = "delete" /\ x # None /\ x \in Pages /\ m.type = "MEMORY" /\ m.page # None
       /\ m.page \in Pages /\ t.page = x
  BY <1>2, <1>3 DEF Delete, FaultOK, EntryOf, EntryOK, Resident, TableOK
<1>4b. e \in Entries /\ e.page = x /\ e.type = "MEMORY" /\ Idle \in Locals /\ Idle.page = None
  BY <1>3, <1>4a DEF Entries, Locals, Idle
<1>4c. /\ objs' = no /\ ref' = ref /\ used' \subseteq Pages /\ no \in [Pages -> Nat]
       /\ \A y \in Pages : objs'[y] > 0 => y \in used'
  <2>1. objs[m.page] \in Nat /\ objs[m.page] > 0
    BY <1>4a, Held
  <2>2. no \in [Pages -> Nat] /\ \A y \in Pages : no[y] <= objs[y]
    BY <1>3, <1>4a, <2>1 DEF MemoryTypes
  <2>3. Destroy(no, ref)
    BY <1>2 DEF Delete, EntryOf
  <2> HIDE DEF no
  <2>4. QED
    BY <2>2, <2>3, DestroyFacts
<1> HIDE DEF e
<1>4. Moves(p, a, e, t, "user", Idle)
  BY <1>1, <1>2, <1>3, <1>4a, <1>4b DEF Moves, Delete, Goto, Return, MemoryTypes, Labels, e
<1>5. HeapOK'
  BY <1>3, <1>4c DEF MemoryTypes, HeapOK, Delete
<1>6. Fits(a, e, t, "user", Idle)
  BY <1>4a, <1>4b DEF Fits, Resident
<1>7. \A r \in Procs \ {p} : pc[r] = "map" => anonPage'[EntryOf(r).source] # None
  BY AnonsStay DEF Delete
<1>8. \A y \in Pages : CountsOK(p, a, y)
  <2>1. TAKE y \in Pages
  <2>2. /\ memorymap'[p][a].page = x /\ LocalPage'[p] = None /\ LocalPage[p] = x
        /\ CopyPage'[p] = None /\ CopyPage[p] = x
        /\ MappedPage'[<<p, a>>] = x /\ MappedPage[<<p, a>>] = None
    BY <1>3, <1>4, <1>4a, <1>4b, MovedPlaces
  <2>3. y # None /\ objs[y] \in Nat /\ ref[y] \in Nat /\ (objs[y] > 0 => y \in used)
    BY AddressSpaceAssumption DEF PagesInv, MemoryTypes, ObjectsExact
  <2>4. ObjectsGain(p, a, y) = IF y = m.page THEN -1 ELSE 0
    BY <1>3, <2>2, <2>3, GainOfPlaces DEF Delta, Delete
  <2>5. MappingsGain(p, a, y) = 0
    BY <2>2, <2>3 DEF Delta, MappingsGain
  <2>6. objs'[y] = objs[y] + (IF y = m.page THEN -1 ELSE 0) /\ objs'[y] \in Nat
    BY <1>3, <1>4c, <2>3 DEF MemoryTypes
  <2>7. QED
    BY <1>4c, <2>3, <2>4, <2>5, <2>6 DEF CountsOK
<1>9. QED
  BY <1>4, <1>5, <1>6, <1>7, <1>8, MovedStep

LEMMA StepInsertFile == ASSUME PagesInv, NEW p \in Procs, InsertFile(p) PROVE PagesInv'
<1>1. fault[p].addr \in Addrs /\ status[p] = "live"
  BY FaultAddress DEF InsertFile
<1>2. PICK a \in Addrs : fault[p].addr = a
  BY <1>1
<1>3. /\ MemoryTypes /\ FaultOK(p) /\ EntryOK(p, a) /\ TableOK(p, a)
      /\ memorymap[p][a] \in Entries /\ memorymap[p][a].page \in Pages \cup {None}
      /\ memorymap[p][a].writable \in BOOLEAN /\ memorymap[p][a].shared \in BOOLEAN
      /\ memorymap[p][a].source \in Anons \cup Offs \cup {None}
      /\ pte[p][a] \in Translations
      /\ fault[p] \in Locals /\ fault[p].page \in Pages \cup {None} /\ fault[p].cow \in BOOLEAN
  BY ProcessFacts
<1> DEFINE m == memorymap[p][a]
           t == pte[p][a]
           f == fault[p]
           o == m.source
<1>4a. /\ pc[p] = "insert" /\ f.page # None /\ f.page \in Pages /\ f.addr = a /\ m.type = "FILE"
       /\ o \in Offs /\ t.page = m.page
  BY <1>2, <1>3 DEF InsertFile, FaultOK, EntryOf, EntryOK, TableOK
<1>4b. /\ sharedPages[o] = None => /\ sharedPages' = [sharedPages EXCEPT ![o] = f.page]
                                   /\ objs' = [objs EXCEPT ![f.page] = @ + 1]
       /\ sharedPages[o] # None => UNCHANGED <<sharedPages, objs>>
       /\ UNCHANGED <<used, ref, writable, cow, content, anonPage>>
  BY <1>2 DEF InsertFile, EntryOf
<1>4c. objs[f.page] \in Nat /\ objs[f.page] > 0 /\ f.page \in used
  BY <1>4a, Held
<1>4. Moves(p, a, m, t, "check", f)
  BY <1>1, <1>2, <1>3 DEF Moves, InsertFile, Goto, MemoryTypes, Labels
<1>5. HeapOK'
  <2>1. sharedPages' \in [Offs -> Pages \cup {None}] /\ objs' \in [Pages -> Nat]
    <3>1. CASE sharedPages[o] = None
      <4>1. /\ sharedPages' = [sharedPages EXCEPT ![o] = f.page]
            /\ objs' = [objs EXCEPT ![f.page] = objs[f.page] + 1]
        BY <1>4b, <3>1
      <4>2. QED
        BY <1>3, <1>4a, <1>4c, <4>1 DEF MemoryTypes
    <3>2. CASE sharedPages[o] # None
      BY <1>3, <1>4b, <3>2 DEF MemoryTypes
    <3>3. QED
      BY <3>1, <3>2
  <2>2. QED
    BY <1>3, <1>4b, <2>1 DEF MemoryTypes, HeapOK
<1>6. Fits(a, m, t, "check", f)
  BY <1>3, <1>4a DEF Fits, EntryOK
<1>7. \A r \in Procs \ {p} : pc[r] = "map" => anonPage'[EntryOf(r).source] # None
  BY <1>4b, AnonsStay
<1>8. \A y \in Pages : CountsOK(p, a, y)
  <2>0. /\ memorymap'[p][a].page = m.page /\ LocalPage'[p] = LocalPage[p]
        /\ CopyPage'[p] = CopyPage[p]
        /\ MappedPage'[<<p, a>>] = MappedPage[<<p, a>>]
    BY <1>3, <1>4, <1>4a, MovedPlaces
  <2>a. CASE sharedPages[o] # None
    BY <1>4b, <2>0, <2>a, QuietCounts
  <2>b. CASE sharedPages[o] = None
    <3>1. TAKE y \in Pages
    <3>2. Count(sharedPages, y) \in Nat /\ Count(anonPage, y) \in Nat
      BY <1>3, CountTypes
    <3>3. y # None /\ objs[y] \in Nat /\ ref[y] \in Nat /\ (objs[y] > 0 => y \in used)
      BY AddressSpaceAssumption DEF PagesInv, MemoryTypes, ObjectsExact
    <3>4. Count(sharedPages, y)' = Count(sharedPages, y) + (IF y = f.page THEN 1 ELSE 0)
      <4>0. sharedPages' = [sharedPages EXCEPT ![o] = f.page] /\ o \in Offs
        BY <1>4a, <1>4b, <2>b
      <4>1. Count(sharedPages, y)' = Count(sharedPages, y) + Delta(sharedPages[o], f.page, y)
        BY <1>3, <4>0, SharedGain
      <4>2. QED
        BY <2>b, <3>3, <4>1 DEF Delta
    <3>5. Count(anonPage, y)' = Count(anonPage, y)
      BY <1>4b
    <3>6. ObjectsGain(p, a, y) = IF y = f.page THEN 1 ELSE 0
      BY <2>0, <3>2, <3>4, <3>5 DEF ObjectsGain, Delta
    <3>7. MappingsGain(p, a, y) = 0
      BY <2>0 DEF Delta, MappingsGain
    <3>8. objs'[y] = objs[y] + (IF y = f.page THEN 1 ELSE 0) /\ ref' = ref /\ used' = used
      BY <1>3, <1>4a, <1>4b, <2>b, <3>3 DEF MemoryTypes
    <3>9. QED
      BY <1>4c, <3>3, <3>6, <3>7, <3>8 DEF CountsOK
  <2>c. QED
    BY <2>a, <2>b
<1>9. QED
  BY <1>4, <1>5, <1>6, <1>7, <1>8, MovedStep

LEMMA StepMapFile == ASSUME PagesInv, NEW p \in Procs, MapFile(p) PROVE PagesInv'
<1>1. fault[p].addr \in Addrs /\ status[p] = "live"
  BY FaultAddress DEF MapFile
<1>2. PICK a \in Addrs : fault[p].addr = a
  BY <1>1
<1>3. /\ MemoryTypes /\ FaultOK(p) /\ EntryOK(p, a) /\ TableOK(p, a)
      /\ memorymap[p][a] \in Entries /\ memorymap[p][a].page \in Pages \cup {None}
      /\ memorymap[p][a].writable \in BOOLEAN /\ memorymap[p][a].shared \in BOOLEAN
      /\ memorymap[p][a].source \in Anons \cup Offs \cup {None}
      /\ pte[p][a] \in Translations
      /\ fault[p] \in Locals /\ fault[p].page \in Pages \cup {None} /\ fault[p].cow \in BOOLEAN
  BY ProcessFacts
<1> DEFINE m == memorymap[p][a]
           x == fault[p].page
           w == m.writable /\ ~fault[p].cow
           e == [Entry("FILE_MEMORY", m.shared, w, m.source) EXCEPT !.page = x, !.cow = fault[p].cow]
           t == [page |-> x, writable |-> w]
<1>4a. /\ pc[p] = "file" /\ x # None /\ x \in Pages /\ m.type = "FILE" /\ m.page = None
  BY <1>2, <1>3 DEF MapFile, FaultOK, EntryOf, EntryOK, Resident
<1>4b. /\ e \in Entries /\ e.page = x /\ e.type = "FILE_MEMORY" /\ t \in Translations /\ t.page = x
       /\ Idle \in Locals /\ Idle.page = None
  BY <1>3, <1>4a DEF Entries, Entry, Resident, Translations, Locals, Idle
<1>4c. ref' = [ref EXCEPT ![x] = @ + 1]
  BY DEF MapFile
<1>4d. memorymap' = [memorymap EXCEPT ![p][a] = e] /\ pte' = [pte EXCEPT ![p][a] = t]
  BY <1>2 DEF MapFile, EntryOf
<1> HIDE DEF e, t
<1>4. Moves(p, a, e, t, "user", Idle)
  BY <1>1, <1>2, <1>4b, <1>4d DEF Moves, MapFile, Goto, Return, Labels
<1>5. HeapOK'
  BY <1>3, <1>4a, <1>4c DEF MemoryTypes, HeapOK, MapFile
<1>6. Fits(a, e, t, "user", Idle)
  BY <1>4a, <1>4b DEF Fits, Resident
<1>7. \A r \in Procs \ {p} : pc[r] = "map" => anonPage'[EntryOf(r).source] # None
  BY AnonsStay DEF MapFile
<1>8. \A y \in Pages : CountsOK(p, a, y)
  <2>1. TAKE y \in Pages
  <2>2. /\ memorymap'[p][a].page = x /\ LocalPage'[p] = None /\ LocalPage[p] = x
        /\ CopyPage'[p] = None /\ CopyPage[p] = None
        /\ MappedPage'[<<p, a>>] = x /\ MappedPage[<<p, a>>] = None
    BY <1>3, <1>4, <1>4a, <1>4b, MovedPlaces
  <2>3. y # None /\ objs[y] \in Nat /\ ref[y] \in Nat /\ (objs[y] > 0 => y \in used)
    BY AddressSpaceAssumption DEF PagesInv, MemoryTypes, ObjectsExact
  <2>4. ObjectsGain(p, a, y) = 0
    BY <1>3, <1>4a, <2>2, <2>3, GainOfPlaces DEF Delta, MapFile
  <2>5. MappingsGain(p, a, y) = IF y = x THEN 1 ELSE 0
    BY <2>2, <2>3 DEF Delta, MappingsGain
  <2>6. ref'[y] = ref[y] + (IF y = x THEN 1 ELSE 0) /\ objs' = objs /\ used' = used
    BY <1>3, <1>4c, <2>3 DEF MemoryTypes, MapFile
  <2>7. objs[x] > 0
    BY <1>4a, Held
  <2>8. QED
    BY <2>3, <2>4, <2>5, <2>6, <2>7 DEF CountsOK
<1>9. QED
  BY <1>4, <1>5, <1>6, <1>7, <1>8, MovedStep

LEMMA StepSteal == ASSUME PagesInv, NEW p \in Procs, Steal(p) PROVE PagesInv'
<1>1. fault[p].addr \in Addrs /\ status[p] = "live"
  BY FaultAddress DEF Steal
<1>2. PICK a \in Addrs : fault[p].addr = a
  BY <1>1
<1>3. /\ MemoryTypes /\ FaultOK(p) /\ EntryOK(p, a) /\ TableOK(p, a)
      /\ memorymap[p][a] \in Entries /\ memorymap[p][a].page \in Pages \cup {None}
      /\ memorymap[p][a].writable \in BOOLEAN /\ memorymap[p][a].shared \in BOOLEAN
      /\ memorymap[p][a].source \in Anons \cup Offs \cup {None}
      /\ pte[p][a] \in Translations
      /\ fault[p] \in Locals /\ fault[p].page \in Pages \cup {None} /\ fault[p].cow \in BOOLEAN
  BY ProcessFacts
<1> DEFINE m == memorymap[p][a]
           t == pte[p][a]
           f == fault[p]
           o == f_offset(m.source)
           x == IF o \in Offs THEN sharedPages[o] ELSE None
           no == [objs EXCEPT ![x] = @ - 1]
<1>4a. /\ pc[p] = "steal" /\ f.page = None /\ f.addr = a /\ m.type = "FILE_MEMORY"
       /\ t.page = m.page
  BY <1>2, <1>3 DEF Steal, FaultOK, EntryOf, TableOK
<1>4b. /\ x # None => sharedPages' = [sharedPages EXCEPT ![o] = None] /\ Destroy(no, ref)
       /\ x = None => UNCHANGED <<sharedPages, objs, ref, used>>
       /\ UNCHANGED <<writable, cow, content, anonPage>>
  BY <1>2 DEF Steal, EntryOf
<1>4c. x # None => o \in Offs /\ x = sharedPages[o] /\ x \in Pages
  BY <1>3 DEF MemoryTypes
<1>4d. ASSUME x # None
       PROVE  /\ objs' = no /\ ref' = ref /\ used' \subseteq Pages /\ no \in [Pages -> Nat]
              /\ \A y \in Pages : objs'[y] > 0 => y \in used'
  <2>1. objs[x] \in Nat /\ objs[x] > 0
    BY <1>4c, <1>4d, Held
  <2>2. no \in [Pages -> Nat] /\ \A y \in Pages : no[y] <= objs[y]
    BY <1>3, <1>4c, <1>4d, <2>1 DEF MemoryTypes
  <2> HIDE DEF no
  <2>3. QED
    BY <1>4b, <1>4d, <2>2, DestroyFacts
<1> HIDE DEF x
<1>4. Moves(p, a, m, t, "own", f)
  BY <1>1, <1>2, <1>3 DEF Moves, Steal, Goto, MemoryTypes, Labels
<1>5. HeapOK'
  BY <1>3, <1>4b, <1>4c, <1>4d DEF MemoryTypes, HeapOK
<1>6. Fits(a, m, t, "own", f)
  BY <1>3, <1>4a DEF Fits, EntryOK
<1>7. \A r \in Procs \ {p} : pc[r] = "map" => anonPage'[EntryOf(r).source] # None
  BY <1>4b, AnonsStay
<1>8. \A y \in Pages : CountsOK(p, a, y)
  <2>0. /\ memorymap'[p][a].page = m.page /\ LocalPage'[p] = LocalPage[p]
        /\ CopyPage'[p] = CopyPage[p]
        /\ MappedPage'[<<p, a>>] = MappedPage[<<p, a>>]
    BY <1>3, <1>4, <1>4a, MovedPlaces
  <2>a. CASE x = None
    BY <1>4b, <2>0, <2>a, QuietCounts
  <2>b. CASE x # None
    <3>1. TAKE y \in Pages
    <3>2. Count(sharedPages, y) \in Nat /\ Count(anonPage, y) \in Nat
      BY <1>3, CountTypes
    <3>3. y # None /\ objs[y] \in Nat /\ ref[y] \in Nat /\ (objs[y] > 0 => y \in used)
      BY AddressSpaceAssumption DEF PagesInv, MemoryTypes, ObjectsExact
    <3>4. Count(sharedPages, y)' = Count(sharedPages, y) + (IF y = x THEN -1 ELSE 0)
      <4>1. Count(sharedPages, y)' = Count(sharedPages, y) + Delta(x, None, y)
        BY <1>3, <1>4b, <1>4c, <2>b, SharedGain
      <4>2. QED
        BY <2>b, <3>3, <4>1 DEF Delta
    <3>5. Count(anonPage, y)' = Count(anonPage, y)
      BY <1>4b
    <3>6. ObjectsGain(p, a, y) = IF y = x THEN -1 ELSE 0
      BY <2>0, <3>2, <3>4, <3>5 DEF ObjectsGain, Delta
    <3>7. MappingsGain(p, a, y) = 0
      BY <2>0 DEF Delta, MappingsGain
    <3>8. objs'[y] = objs[y] + (IF y = x THEN -1 ELSE 0) /\ objs'[y] \in Nat
      BY <1>3, <1>4c, <1>4d, <2>b, <3>3 DEF MemoryTypes
    <3>9. QED
      BY <1>4d, <2>b, <3>3, <3>6, <3>7, <3>8 DEF CountsOK
  <2>c. QED
    BY <2>a, <2>b
<1>9. QED
  BY <1>4, <1>5, <1>6, <1>7, <1>8, MovedStep

-----------------------------------------------------------------------------
(* The steps of a whole process: munmap, exec and exit replace its entries,  *)
(* fork gives them to another.                                               *)

\* What the places are indexed by.
LEMMA CountsDomain ==
    /\ DOMAIN EntryPage = Procs \X Addrs /\ DOMAIN EntryPage' = Procs \X Addrs
    /\ DOMAIN MappedPage = Procs \X Addrs /\ DOMAIN MappedPage' = Procs \X Addrs
    /\ DOMAIN LocalPage = Procs /\ DOMAIN CopyPage = Procs
BY DEF EntryPage, MappedPage, LocalPage, CopyPage

\* All counts are numbers.
LEMMA AllCounts ==
    ASSUME MemoryTypes, NEW x
    PROVE  /\ Count(EntryPage, x) \in Nat /\ Count(LocalPage, x) \in Nat
           /\ Count(sharedPages, x) \in Nat /\ Count(anonPage, x) \in Nat
           /\ Count(MappedPage, x) \in Nat /\ Count(CopyPage, x) \in Nat
<1>1. Count(EntryPage, x) \in Nat /\ Count(MappedPage, x) \in Nat
  BY CountsDomain, Finite, CountNat
<1>2. Count(LocalPage, x) \in Nat /\ Count(CopyPage, x) \in Nat
  BY CountsDomain, Finite, CountNat
<1>3. QED
  BY <1>1, <1>2, CountTypes

\* What holds of the entry itself.
EntryFits(e) ==
    /\ e.page # None <=> e.type \in Resident
    /\ e.type = "ANONYMOUS" /\ e.shared => e.source \in Anons
    /\ e.type = "FILE" => e.source \in Offs

\* The addresses at which the entries of p lose page x.
Lost(p, new, x) == {a \in Addrs : memorymap[p][a].page = x /\ new[a].page # x}

\* What p loses is lost by entries and mappings alike.
LEMMA ReplaceCounts ==
    ASSUME PagesInv, NEW p \in Procs, pc[p] = "user", NEW new, NEW x \in Pages,
           memorymap' = [memorymap EXCEPT ![p] = new], UNCHANGED <<pc, fault>>,
           \A b \in Addrs : new[b].page # None => new[b].page = memorymap[p][b].page
    PROVE  /\ Cardinality(Lost(p, new, x)) \in Nat /\ IsFiniteSet(Lost(p, new, x))
           /\ Count(EntryPage, x)' \in Nat /\ Count(MappedPage, x)' \in Nat
           /\ Count(EntryPage, x) = Count(EntryPage, x)' + Cardinality(Lost(p, new, x))
           /\ Count(MappedPage, x) = Count(MappedPage, x)' + Cardinality(Lost(p, new, x))
<1> DEFINE B == Lost(p, new, x)
           D == Procs \X Addrs
<1>1. /\ B \in SUBSET Addrs /\ x # None /\ MemoryTypes
  BY AddressSpaceAssumption DEF Lost, PagesInv
<1>2. IsFiniteSet(B) /\ Cardinality(B) \in Nat /\ Cardinality({p} \X B) = Cardinality(B)
  BY <1>1, CountRow
<1>3. \A r \in Procs, b \in Addrs :
        /\ EntryPage[<<r, b>>] = memorymap[r][b].page
        /\ EntryPage'[<<r, b>>] = IF r = p THEN new[b].page ELSE memorymap[r][b].page
        /\ MappedPage[<<r, b>>] = IF pc[r] = "delete" /\ fault[r].addr = b THEN None
                                  ELSE EntryPage[<<r, b>>]
        /\ MappedPage'[<<r, b>>] = IF pc[r] = "delete" /\ fault[r].addr = b THEN None
                                   ELSE EntryPage'[<<r, b>>]
  BY <1>1 DEF EntryPage, MappedPage, MemoryTypes
<1>4. \A r \in Procs, b \in Addrs :
        /\ EntryPage[<<r, b>>] = x <=> EntryPage'[<<r, b>>] = x \/ (r = p /\ b \in B)
        /\ r = p /\ b \in B => EntryPage'[<<r, b>>] # x
        /\ MappedPage[<<r, b>>] = x <=> MappedPage'[<<r, b>>] = x \/ (r = p /\ b \in B)
        /\ r = p /\ b \in B => MappedPage'[<<r, b>>] # x
  <2>1. TAKE r \in Procs, b \in Addrs
  <2>2. b \in B <=> memorymap[p][b].page = x /\ new[b].page # x
    BY DEF Lost
  <2>3. new[b].page # None => new[b].page = memorymap[p][b].page
    OBVIOUS
  <2> HIDE DEF B
  <2>4. CASE r # p
    BY <1>3, <2>4
  <2>5. CASE r = p
    <3>1. /\ EntryPage[<<r, b>>] = memorymap[p][b].page /\ EntryPage'[<<r, b>>] = new[b].page
          /\ MappedPage[<<r, b>>] = memorymap[p][b].page /\ MappedPage'[<<r, b>>] = new[b].page
      BY <1>3, <2>5
    <3>2. QED
      BY <1>1, <2>2, <2>3, <2>5, <3>1
  <2>6. QED
    BY <2>4, <2>5
<1> DEFINE S == {p} \X B
<1>5. S \subseteq D /\ \A z \in D : z = <<z[1], z[2]>> /\ z[1] \in Procs /\ z[2] \in Addrs
                          /\ (z \in S <=> z[1] = p /\ z[2] \in B)
  BY <1>1
<1>6. \A z \in D :
        /\ EntryPage[z] = x <=> EntryPage'[z] = x \/ z \in S
        /\ z \in S => EntryPage'[z] # x
        /\ MappedPage[z] = x <=> MappedPage'[z] = x \/ z \in S
        /\ z \in S => MappedPage'[z] # x
  BY <1>4, <1>5
<1> HIDE DEF S, B, D
<1>7. /\ {z \in D : EntryPage[z] = x} = {z \in D : EntryPage'[z] = x} \cup S
      /\ S \cap {z \in D : EntryPage'[z] = x} = {}
  BY <1>5, <1>6
<1>8. /\ {z \in D : MappedPage[z] = x} = {z \in D : MappedPage'[z] = x} \cup S
      /\ S \cap {z \in D : MappedPage'[z] = x} = {}
  BY <1>5, <1>6
<1>9. /\ DOMAIN EntryPage = D /\ DOMAIN EntryPage' = D /\ DOMAIN MappedPage = D
      /\ DOMAIN MappedPage' = D /\ IsFiniteSet(D)
  BY CountsDomain, Finite DEF D
<1>10. Count(EntryPage, x) = Count(EntryPage', x) + Cardinality(S)
  BY <1>7, <1>9, CountJoin
<1>11. Count(MappedPage, x) = Count(MappedPage', x) + Cardinality(S)
  BY <1>8, <1>9, CountJoin
<1>12. Count(EntryPage', x) \in Nat /\ Count(MappedPage', x) \in Nat
  BY <1>9, CountNat
<1>13. Cardinality(S) = Cardinality(B)
  BY <1>2 DEF S
<1>14. QED
  BY <1>2, <1>10, <1>11, <1>12, <1>13 DEF B

\* The SharedAnonymousPages that die give up their pages.
LEMMA DeadCounts ==
    ASSUME MemoryTypes, NEW dead \in SUBSET Anons, NEW x, x # None,
           anonPage' = [n \in Anons |-> IF n \in dead THEN None ELSE anonPage[n]]
    PROVE  /\ Cardinality({n \in dead : anonPage[n] = x}) \in Nat
           /\ Count(anonPage, x)' \in Nat
           /\ Count(anonPage, x) = Count(anonPage, x)' + Cardinality({n \in dead : anonPage[n] = x})
<1> DEFINE S == {n \in dead : anonPage[n] = x}
           f == anonPage
           g == anonPage'
<1>1. DOMAIN f = Anons /\ DOMAIN g = Anons /\ IsFiniteSet(Anons)
  BY AddressSpaceAssumption DEF MemoryTypes
<1>2. {n \in Anons : f[n] = x} = {n \in Anons : g[n] = x} \cup S
  OBVIOUS
<1>3. S \cap {n \in Anons : g[n] = x} = {}
  OBVIOUS
<1> HIDE DEF S, f, g
<1>4. Cardinality(S) \in Nat /\ Count(f, x) = Count(g, x) + Cardinality(S)
  BY <1>1, <1>2, <1>3, CountJoin
<1>5. Count(g, x) \in Nat
  BY <1>1, CountNat
<1>6. QED
  BY <1>4, <1>5 DEF S, f, g

\* munmap, exec and exit: p loses pages, and SharedAnonymousPages die with their last entry.
LEMMA ReplaceStep ==
    ASSUME PagesInv, NEW p \in Procs, Ready(p), NEW new \in [Addrs -> Entries], NEW unref,
           Replace(p, new, unref), NEW np \in [Addrs -> Translations],
           pte' = [pte EXCEPT ![p] = np], NEW st \in {"live", "dead"},
           status' = [status EXCEPT ![p] = st],
           UNCHANGED <<writable, cow, content, sharedPages, pc, fault>>,
           \A b \in Addrs : EntryFits(new[b]) /\ np[b].page = new[b].page
                            /\ (new[b].page # None => new[b].page = memorymap[p][b].page)
    PROVE  PagesInv'
<1> DEFINE map == [memorymap EXCEPT ![p] = new]
           dead == Alive(memorymap) \ Alive(map)
           G(x) == Lost(p, new, x)
           U(x) == {a \in G(x) : memorymap[p][a].type \in unref}
           A(x) == {n \in dead : anonPage[n] = x}
           no == [x \in Pages |-> objs[x] - Cardinality(G(x)) - Cardinality(A(x))]
           nr == [x \in Pages |-> ref[x] - Cardinality(U(x))]
<1>1. MemoryTypes /\ status[p] = "live" /\ pc[p] = "user" /\ fault[p] = Idle
  BY ReadyFacts DEF PagesInv
<1>2. /\ memorymap' = map
      /\ anonPage' = [n \in Anons |-> IF n \in dead THEN None ELSE anonPage[n]]
      /\ Destroy(no, nr)
  BY DEF Replace, Lost
<1>3. ASSUME NEW x \in Pages
      PROVE  /\ no[x] \in Nat /\ no[x] <= objs[x] /\ no[x] = Objects(x)'
             /\ nr[x] \in Nat /\ (no[x] > 0 => nr[x] >= Mappings(x)')
  <2>1. /\ Cardinality(G(x)) \in Nat /\ IsFiniteSet(G(x))
        /\ Count(EntryPage, x)' \in Nat /\ Count(MappedPage, x)' \in Nat
        /\ Count(EntryPage, x) = Count(EntryPage, x)' + Cardinality(G(x))
        /\ Count(MappedPage, x) = Count(MappedPage, x)' + Cardinality(G(x))
    BY <1>1, <1>2, ReplaceCounts
  <2>2. dead \in SUBSET Anons /\ x # None
    BY AddressSpaceAssumption DEF Alive
  <2>3. /\ Cardinality(A(x)) \in Nat /\ Count(anonPage, x)' \in Nat
        /\ Count(anonPage, x) = Count(anonPage, x)' + Cardinality(A(x))
    <3> HIDE DEF dead
    <3>1. QED
      BY <1>1, <1>2, <2>2, DeadCounts
  <2>4. Cardinality(U(x)) \in Nat /\ Cardinality(U(x)) <= Cardinality(G(x))
    <3>1. U(x) \subseteq G(x)
      OBVIOUS
    <3>2. IsFiniteSet(U(x)) /\ Cardinality(U(x)) <= Cardinality(G(x))
      BY <2>1, <3>1, FS_Subset
    <3>3. QED
      BY <3>2, FS_CardinalityType
  <2>5. /\ Count(LocalPage, x)' = Count(LocalPage, x) /\ Count(CopyPage, x)' = Count(CopyPage, x)
        /\ Count(sharedPages, x)' = Count(sharedPages, x)
    BY DEF LocalPage, CopyPage
  <2>6. /\ Count(EntryPage, x) \in Nat /\ Count(LocalPage, x) \in Nat
        /\ Count(sharedPages, x) \in Nat /\ Count(anonPage, x) \in Nat
        /\ Count(MappedPage, x) \in Nat /\ Count(CopyPage, x) \in Nat
    BY <1>1, AllCounts
  <2>7. /\ objs[x] \in Nat /\ ref[x] \in Nat /\ objs[x] = Objects(x)
        /\ (objs[x] > 0 => ref[x] >= Mappings(x)) /\ (objs[x] = 0 => Mappings(x) = 0)
    BY Unheld DEF PagesInv, MemoryTypes, ObjectsExact, RefsCoverMappings
  <2>8. no[x] = objs[x] - Cardinality(G(x)) - Cardinality(A(x)) /\ nr[x] = ref[x] - Cardinality(U(x))
    OBVIOUS
  <2>9. /\ objs[x] = Count(EntryPage, x) + Count(LocalPage, x) + Count(sharedPages, x)
                        + Count(anonPage, x)
        /\ Objects(x)' = Count(EntryPage, x)' + Count(LocalPage, x)' + Count(sharedPages, x)'
                        + Count(anonPage, x)'
        /\ Mappings(x) = Count(MappedPage, x) + Count(CopyPage, x)
        /\ Mappings(x)' = Count(MappedPage, x)' + Count(CopyPage, x)'
    BY <2>7 DEF Objects, Mappings
  <2> DEFINE g == Cardinality(G(x))
             u == Cardinality(U(x))
             k == Cardinality(A(x))
             o1 == no[x]
             r1 == nr[x]
  <2> HIDE DEF no, nr, G, U, A, dead, g, u, k, o1, r1
  <2>10. o1 = objs[x] - g - k /\ o1 = Objects(x)' /\ g \in Nat /\ k \in Nat
    BY <2>1, <2>3, <2>5, <2>6, <2>7, <2>8, <2>9 DEF g, k, o1
  <2>11. Objects(x)' \in Nat
    BY <2>1, <2>3, <2>5, <2>6, <2>9
  <2>12. u \in Nat /\ u <= g /\ r1 = ref[x] - u
    BY <2>4, <2>8 DEF u, g, r1
  <2>13. Mappings(x)' = Mappings(x) - g /\ Mappings(x)' \in Nat /\ Mappings(x) \in Nat
    BY <2>1, <2>5, <2>6, <2>9 DEF g
  <2>14. r1 \in Nat /\ r1 >= Mappings(x)'
    BY <2>7, <2>10, <2>12, <2>13
  <2>15. QED
    BY <2>7, <2>10, <2>11, <2>14 DEF o1, r1
<1>4. no \in [Pages -> Nat] /\ nr \in [Pages -> Nat] /\ \A x \in Pages : no[x] <= objs[x]
  BY <1>3
<1>5. /\ objs' = no /\ ref' = nr /\ used' \subseteq Pages
      /\ \A x \in Pages : objs'[x] > 0 => x \in used'
  <2> HIDE DEF no, nr
  <2>1. QED
    BY <1>2, <1>4, DestroyFacts
<1>6. ObjectsExact' /\ RefsCoverMappings'
  <2> HIDE DEF no, nr
  <2>1. QED
    BY <1>3, <1>5 DEF ObjectsExact, RefsCoverMappings
<1>7. memorymap'[p] = new /\ pte'[p] = np /\ status'[p] = st
      /\ \A r \in Procs \ {p} : memorymap'[r] = memorymap[r] /\ pte'[r] = pte[r] /\ status'[r] = status[r]
  BY <1>1, <1>2 DEF MemoryTypes
<1>8. MemoryTypes'
  <2>1. memorymap' \in [Procs -> [Addrs -> Entries]] /\ pte' \in [Procs -> [Addrs -> Translations]]
    BY <1>1, <1>2 DEF MemoryTypes
  <2>2. anonPage' \in [Anons -> Pages \cup {None}]
    <3> HIDE DEF dead
    <3>1. QED
      BY <1>1, <1>2 DEF MemoryTypes
  <2>3. status' \in [Procs -> {"unborn", "live", "dead"}]
    BY <1>1 DEF MemoryTypes
  <2> HIDE DEF no, nr
  <2>4. QED
    BY <1>1, <1>4, <1>5, <2>1, <2>2, <2>3 DEF MemoryTypes
<1>9. EntryShape'
  <2>1. SUFFICES ASSUME NEW r \in Procs, NEW b \in Addrs PROVE EntryOK(r, b)'
    BY DEF EntryShape
  <2>2. CASE r = p
    BY <1>7, <2>2 DEF EntryOK, EntryFits
  <2>3. CASE r # p
    BY <1>7, <2>3 DEF EntryOK, PagesInv, EntryShape
  <2>4. QED
    BY <2>2, <2>3
<1>10. TableShape'
  <2>1. SUFFICES ASSUME NEW r \in Procs, NEW b \in Addrs PROVE TableOK(r, b)'
    BY DEF TableShape
  <2>2. CASE r = p
    BY <1>1, <1>7, <2>2 DEF TableOK
  <2>3. CASE r # p
    BY <1>7, <2>3 DEF TableOK, PagesInv, TableShape
  <2>4. QED
    BY <2>2, <2>3
<1>11. FaultShape'
  <2>1. SUFFICES ASSUME NEW r \in Procs PROVE FaultOK(r)'
    BY DEF FaultShape
  <2>2. FaultOK(r)
    BY DEF PagesInv, FaultShape
  <2>3. CASE r = p
    BY <1>1, <2>2, <2>3 DEF FaultOK
  <2>4. CASE r # p
    <3>1. EntryOf(r)' = EntryOf(r) /\ status'[r] = status[r]
      BY <1>7, <2>4 DEF EntryOf
    <3>2. ASSUME pc[r] = "map" PROVE anonPage'[EntryOf(r).source] # None
      <4>1. /\ EntryOf(r).source \in Anons /\ anonPage[EntryOf(r).source] # None
            /\ fault[r].addr \in Addrs /\ EntryOf(r).type = "ANONYMOUS"
        BY <3>2, MapFacts
      <4>2. EntryOf(r).source \in Alive(map)
        BY <1>2, <1>7, <2>4, <4>1 DEF Alive, EntryOf
      <4>3. EntryOf(r).source \notin dead
        BY <4>2
      <4> HIDE DEF dead
      <4>4. QED
        BY <1>2, <4>1, <4>3
    <3>3. QED
      BY <2>2, <3>1, <3>2 DEF FaultOK
  <2>5. QED
    BY <2>3, <2>4
<1>12. QED
  BY <1>6, <1>8, <1>9, <1>10, <1>11 DEF PagesInv

\* The empty entry and translation.
LEMMA NoEntryFacts ==
    /\ NoEntry \in Entries /\ EntryFits(NoEntry) /\ NoEntry.page = None
    /\ NoPte \in Translations /\ NoPte.page = None
BY DEF NoEntry, Entry, Entries, EntryFits, Resident, NoPte, Translations

LEMMA StepMunmap ==
    ASSUME PagesInv, NEW p \in Procs, NEW a \in Addrs, Munmap(p, a) PROVE PagesInv'
<1> DEFINE new == [memorymap[p] EXCEPT ![a] = NoEntry]
           np == [pte[p] EXCEPT ![a] = NoPte]
<1>1. MemoryTypes /\ Ready(p) /\ status[p] = "live" /\ pc[p] = "user"
  BY DEF PagesInv, Munmap, Ready
<1>2. /\ new \in [Addrs -> Entries] /\ np \in [Addrs -> Translations]
      /\ pte' = [pte EXCEPT ![p] = np] /\ status' = [status EXCEPT ![p] = "live"]
  BY <1>1, NoEntryFacts DEF MemoryTypes, Munmap
<1>3. ASSUME NEW b \in Addrs
      PROVE  /\ EntryFits(new[b]) /\ np[b].page = new[b].page
             /\ new[b].page # None => new[b].page = memorymap[p][b].page
  <2>1. EntryOK(p, b) /\ TableOK(p, b)
    BY DEF PagesInv, EntryShape, TableShape
  <2>2. CASE b = a
    <3>1. new[b] = NoEntry /\ np[b] = NoPte
      BY <1>1, <2>2 DEF MemoryTypes
    <3>2. QED
      BY <3>1, NoEntryFacts
  <2>3. CASE b # a
    <3>1. new[b] = memorymap[p][b] /\ np[b] = pte[p][b]
      BY <1>1, <2>3 DEF MemoryTypes
    <3>2. QED
      BY <1>1, <2>1, <3>1 DEF EntryOK, EntryFits, TableOK
  <2>4. QED
    BY <2>2, <2>3
<1>4. Replace(p, new, Resident) /\ UNCHANGED <<writable, cow, content, sharedPages, pc, fault>>
  BY DEF Munmap
<1> HIDE DEF new, np
<1>5. QED
  BY <1>1, <1>2, <1>3, <1>4, ReplaceStep

LEMMA StepExit ==
    ASSUME PagesInv, NEW p \in Procs, Exit(p) PROVE PagesInv'
<1> DEFINE new == [a \in Addrs |-> NoEntry]
           np == [a \in Addrs |-> NoPte]
<1>1. /\ new \in [Addrs -> Entries] /\ np \in [Addrs -> Translations]
      /\ \A b \in Addrs : new[b] = NoEntry /\ np[b] = NoPte
  BY NoEntryFacts
<1>2. /\ Ready(p) /\ Replace(p, new, {"FILE_MEMORY"}) /\ pte' = [pte EXCEPT ![p] = np]
      /\ status' = [status EXCEPT ![p] = "dead"]
      /\ UNCHANGED <<writable, cow, content, sharedPages, pc, fault>>
  BY DEF Exit
<1> HIDE DEF new, np
<1>3. \A b \in Addrs : EntryFits(new[b]) /\ np[b].page = new[b].page
                       /\ (new[b].page # None => new[b].page = memorymap[p][b].page)
  BY <1>1, NoEntryFacts
<1>4. QED
  BY <1>1, <1>2, <1>3, ReplaceStep

LEMMA StepExec ==
    ASSUME PagesInv, NEW p \in Procs, Exec(p) PROVE PagesInv'
<1> DEFINE np == [a \in Addrs |-> NoPte]
           Segments == UNION {NewEntry(k) : k \in Kinds \cap {"text", "data", "private"}}
<1>1. PICK new : new \in [Addrs -> Segments \cup {NoEntry}] /\ Replace(p, new, {"FILE_MEMORY"})
  BY DEF Exec
<1>1a. Replace(p, new, {"FILE_MEMORY"})
  BY <1>1
<1>2. /\ Ready(p) /\ pte' = [pte EXCEPT ![p] = np]
      /\ UNCHANGED <<writable, cow, content, sharedPages, pc, fault>>
  BY DEF Exec
<1>3. ASSUME NEW b \in Addrs
      PROVE  new[b] \in Entries /\ EntryFits(new[b]) /\ new[b].page = None /\ np[b].page = None
  <2>1. np[b].page = None
    BY NoEntryFacts
  <2>a. new[b] = NoEntry \/ new[b] \in Segments
    BY <1>1
  <2>2. CASE new[b] = NoEntry
    BY <2>1, <2>2, NoEntryFacts
  <2>3. CASE new[b] \in Segments
    <3>1. PICK k \in Kinds : new[b] \in NewEntry(k)
      BY <2>3
    <3>2. /\ new[b] \in Entries /\ new[b].page = None /\ new[b].type \in {"EMPTY", "ANONYMOUS", "FILE"}
          /\ new[b].type = "ANONYMOUS" /\ new[b].shared => new[b].source \in Anons
          /\ new[b].type = "FILE" => new[b].source \in Offs
      BY <3>1, NewEntryFacts
    <3>3. QED
      BY <2>1, <3>2 DEF EntryFits, Resident
  <2>4. QED
    BY <2>a, <2>2, <2>3
<1>4. new \in [Addrs -> Entries] /\ np \in [Addrs -> Translations]
  BY <1>1, <1>3, NoEntryFacts
<1>5. status' = [status EXCEPT ![p] = "live"]
  BY <1>2, ReadyFacts DEF Exec, PagesInv, MemoryTypes
<1> HIDE DEF np, Segments
<1>6. \A b \in Addrs : EntryFits(new[b]) /\ np[b].page = new[b].page
                       /\ (new[b].page # None => new[b].page = memorymap[p][b].page)
  BY <1>3
<1>7. QED
  BY <1>1a, <1>2, <1>4, <1>5, <1>6, ReplaceStep

\* The addresses at which p has page x.
MappedAt(p, x) == {b \in Addrs : memorymap[p][b].page = x}

\* fork: the child gets an object and a mapping at every address where p has page x.
LEMMA ForkCounts ==
    ASSUME PagesInv, NEW p \in Procs, NEW q \in Procs, NEW map, NEW x \in Pages,
           pc[q] = "user", pc[p] = "user", p # q, UNCHANGED <<pc, fault>>,
           memorymap' = [memorymap EXCEPT ![p] = map, ![q] = map],
           \A b \in Addrs : map[b].page = memorymap[p][b].page /\ memorymap[q][b] = NoEntry
    PROVE  /\ Cardinality(MappedAt(p, x)) \in Nat
           /\ Count(EntryPage, x)' = Count(EntryPage, x) + Cardinality(MappedAt(p, x))
           /\ Count(MappedPage, x)' = Count(MappedPage, x) + Cardinality(MappedAt(p, x))
<1> DEFINE B == MappedAt(p, x)
           D == Procs \X Addrs
           S == {q} \X B
<1>1. B \in SUBSET Addrs /\ x # None /\ MemoryTypes
  BY AddressSpaceAssumption DEF PagesInv, MappedAt
<1>2. IsFiniteSet(B) /\ Cardinality(B) \in Nat /\ Cardinality({q} \X B) = Cardinality(B)
  BY <1>1, CountRow
<1>3. \A r \in Procs, b \in Addrs :
        /\ EntryPage[<<r, b>>] = memorymap[r][b].page
        /\ EntryPage'[<<r, b>>] = IF r = q THEN memorymap[p][b].page ELSE memorymap[r][b].page
        /\ MappedPage[<<r, b>>] = IF pc[r] = "delete" /\ fault[r].addr = b THEN None
                                  ELSE EntryPage[<<r, b>>]
        /\ MappedPage'[<<r, b>>] = IF pc[r] = "delete" /\ fault[r].addr = b THEN None
                                   ELSE EntryPage'[<<r, b>>]
  BY <1>1 DEF EntryPage, MappedPage, MemoryTypes
<1>4. \A r \in Procs, b \in Addrs :
        /\ EntryPage'[<<r, b>>] = x <=> EntryPage[<<r, b>>] = x \/ (r = q /\ b \in B)
        /\ r = q /\ b \in B => EntryPage[<<r, b>>] # x
        /\ MappedPage'[<<r, b>>] = x <=> MappedPage[<<r, b>>] = x \/ (r = q /\ b \in B)
        /\ r = q /\ b \in B => MappedPage[<<r, b>>] # x
  <2>1. TAKE r \in Procs, b \in Addrs
  <2>2. b \in B <=> memorymap[p][b].page = x
    BY DEF MappedAt
  <2>3. memorymap[q][b].page = None
    BY NoEntryFacts
  <2> HIDE DEF B
  <2>4. CASE r # q
    BY <1>3, <2>4
  <2>5. CASE r = q
    <3>1. /\ EntryPage'[<<r, b>>] = memorymap[p][b].page /\ EntryPage[<<r, b>>] = None
          /\ MappedPage'[<<r, b>>] = memorymap[p][b].page /\ MappedPage[<<r, b>>] = None
      BY <1>3, <2>3, <2>5
    <3>2. QED
      BY <1>1, <2>2, <2>5, <3>1
  <2>6. QED
    BY <2>4, <2>5
<1>5. S \subseteq D /\ \A z \in D : z = <<z[1], z[2]>> /\ z[1] \in Procs /\ z[2] \in Addrs
                          /\ (z \in S <=> z[1] = q /\ z[2] \in B)
  BY <1>1
<1>6. \A z \in D :
        /\ EntryPage'[z] = x <=> EntryPage[z] = x \/ z \in S
        /\ z \in S => EntryPage[z] # x
        /\ MappedPage'[z] = x <=> MappedPage[z] = x \/ z \in S
        /\ z \in S => MappedPage[z] # x
  BY <1>4, <1>5
<1> HIDE DEF S, B, D
<1>7. /\ {z \in D : EntryPage'[z] = x} = {z \in D : EntryPage[z] = x} \cup S
      /\ S \cap {z \in D : EntryPage[z] = x} = {}
  BY <1>5, <1>6
<1>8. /\ {z \in D : MappedPage'[z] = x} = {z \in D : MappedPage[z] = x} \cup S
      /\ S \cap {z \in D : MappedPage[z] = x} = {}
  BY <1>5, <1>6
<1>9. /\ DOMAIN EntryPage = D /\ DOMAIN EntryPage' = D /\ DOMAIN MappedPage = D
      /\ DOMAIN MappedPage' = D /\ IsFiniteSet(D)
  BY CountsDomain, Finite DEF D
<1>10. Count(EntryPage', x) = Count(EntryPage, x) + Cardinality(S)
  BY <1>7, <1>9, CountJoin
<1>11. Count(MappedPage', x) = Count(MappedPage, x) + Cardinality(S)
  BY <1>8, <1>9, CountJoin
<1>12. Cardinality(S) = Cardinality(B)
  BY <1>2 DEF S
<1>13. QED
  BY <1>2, <1>10, <1>11, <1>12 DEF B

LEMMA StepFork ==
    ASSUME PagesInv, NEW p \in Procs, NEW q \in Procs, Fork(p, q) PROVE PagesInv'
<1> DEFINE e(a) == memorymap[p][a]
           Memory(a) == e(a).type = "MEMORY" /\ ~e(a).shared /\ writable[e(a).page]
           File(a) == e(a).type = "FILE_MEMORY" /\ ~e(a).shared /\ e(a).writable
           CowMem(x) == \E a \in Addrs : Memory(a) /\ e(a).page = x
           Mapped(x) == {a \in Addrs : e(a).page = x}
           map == [a \in Addrs |->
               IF File(a) THEN [e(a) EXCEPT !.writable = FALSE, !.cow = TRUE] ELSE e(a)]
           parent == [a \in Addrs |->
               IF Memory(a) \/ File(a) THEN [pte[p][a] EXCEPT !.writable = FALSE] ELSE pte[p][a]]
           Allowed(a) == IF e(a).type = "MEMORY"
                         THEN writable[e(a).page] /\ ~CowMem(e(a).page)
                         ELSE map[a].writable
           child == [a \in Addrs |->
               IF e(a).type \in Resident
               THEN [page |-> e(a).page, writable |-> Allowed(a)]
               ELSE NoPte]
<1>1. /\ Ready(p) /\ status[q] = "unborn"
      /\ status' = [status EXCEPT ![q] = "live"]
      /\ memorymap' = [memorymap EXCEPT ![p] = map, ![q] = map]
      /\ pte' = [pte EXCEPT ![p] = parent, ![q] = child]
      /\ ref' = [x \in Pages |-> ref[x] + Cardinality(Mapped(x))]
      /\ objs' = [x \in Pages |-> objs[x] + Cardinality(Mapped(x))]
      /\ writable' = [x \in Pages |-> writable[x] /\ ~CowMem(x)]
      /\ cow' = [x \in Pages |-> cow[x] \/ CowMem(x)]
      /\ UNCHANGED <<used, content, sharedPages, anonPage, pc, fault>>
  BY DEF Fork
<1>2. /\ MemoryTypes /\ p # q /\ status[p] = "live" /\ pc[p] = "user" /\ fault[p] = Idle
      /\ pc[q] = "user" /\ fault[q] = Idle
  BY <1>1, ReadyFacts DEF PagesInv, FaultShape, FaultOK
<1>3. ASSUME NEW a \in Addrs
      PROVE  /\ map[a] \in Entries /\ map[a].page = e(a).page /\ EntryFits(map[a])
             /\ parent[a] \in Translations /\ parent[a].page = map[a].page
             /\ child[a] \in Translations /\ child[a].page = map[a].page
             /\ memorymap[q][a] = NoEntry
  <2>1. /\ e(a) \in Entries /\ EntryOK(p, a) /\ TableOK(p, a) /\ pte[p][a] \in Translations
        /\ EntryOK(q, a) /\ e(a).page \in Pages \cup {None}
    BY <1>2, ProcessFacts
  <2>2. pte[p][a].page = e(a).page /\ memorymap[q][a] = NoEntry
    BY <1>1, <1>2, <2>1 DEF TableOK, EntryOK
  <2>3. map[a] \in Entries /\ map[a].page = e(a).page /\ EntryFits(map[a])
    <3>1. map[a] = e(a) \/ map[a] = [e(a) EXCEPT !.writable = FALSE, !.cow = TRUE]
      OBVIOUS
    <3>2. CASE map[a] = e(a)
      <4> HIDE DEF map
      <4>1. QED
        BY <2>1, <3>2 DEF EntryOK, EntryFits
    <3>3. CASE map[a] = [e(a) EXCEPT !.writable = FALSE, !.cow = TRUE]
      <4>1. /\ map[a] \in Entries /\ map[a].page = e(a).page /\ map[a].type = e(a).type
            /\ map[a].shared = e(a).shared /\ map[a].source = e(a).source
        <5> HIDE DEF map
        <5>1. QED
          BY <2>1, <3>3 DEF Entries
      <4> HIDE DEF map
      <4>2. QED
        BY <2>1, <4>1 DEF EntryOK, EntryFits
    <3>4. QED
      BY <3>1, <3>2, <3>3
  <2>4. parent[a] \in Translations /\ parent[a].page = e(a).page
    BY <2>1, <2>2 DEF Translations
  <2>5. child[a] \in Translations /\ child[a].page = e(a).page
    <3>1. CASE e(a).type \in Resident
      <4>1. Allowed(a) \in BOOLEAN
        <5>1. CASE e(a).type = "MEMORY"
          BY <5>1
        <5>2. CASE e(a).type # "MEMORY"
          <6>1. map[a].writable \in BOOLEAN
            BY <2>3 DEF Entries
          <6>2. QED
            BY <5>2, <6>1
        <5>3. QED
          BY <5>1, <5>2
      <4>2. child[a] = [page |-> e(a).page, writable |-> Allowed(a)]
        BY <3>1
      <4> HIDE DEF Allowed, child
      <4>3. QED
        BY <2>1, <4>1, <4>2 DEF Translations
    <3>2. CASE e(a).type \notin Resident
      <4>1. child[a] = NoPte
        BY <3>2
      <4>2. e(a).page = None
        BY <2>1, <3>2 DEF EntryOK
      <4> HIDE DEF child
      <4>3. QED
        BY <4>1, <4>2, NoEntryFacts
    <3>3. QED
      BY <3>1, <3>2
  <2> HIDE DEF map, parent, child
  <2>6. QED
    BY <2>2, <2>3, <2>4, <2>5
<1>4. map \in [Addrs -> Entries] /\ parent \in [Addrs -> Translations] /\ child \in [Addrs -> Translations]
  <2>1. map = [a \in Addrs |-> map[a]] /\ parent = [a \in Addrs |-> parent[a]]
        /\ child = [a \in Addrs |-> child[a]]
    OBVIOUS
  <2> HIDE DEF map, parent, child
  <2>2. QED
    BY <1>3, <2>1
<1> HIDE DEF map, parent, child
<1>5. /\ memorymap'[p] = map /\ memorymap'[q] = map /\ pte'[p] = parent /\ pte'[q] = child
      /\ status'[p] = "live" /\ status'[q] = "live"
      /\ \A r \in Procs \ {p, q} : memorymap'[r] = memorymap[r] /\ pte'[r] = pte[r] /\ status'[r] = status[r]
  BY <1>1, <1>2 DEF MemoryTypes
<1>6. ASSUME NEW x \in Pages
      PROVE  /\ Cardinality(Mapped(x)) \in Nat
             /\ Objects(x)' = objs[x] + Cardinality(Mapped(x))
             /\ Mappings(x) \in Nat /\ Mappings(x)' = Mappings(x) + Cardinality(Mapped(x))
  <2>1. /\ Cardinality(Mapped(x)) \in Nat
        /\ Count(EntryPage, x)' = Count(EntryPage, x) + Cardinality(Mapped(x))
        /\ Count(MappedPage, x)' = Count(MappedPage, x) + Cardinality(Mapped(x))
    <3>1. \A b \in Addrs : map[b].page = memorymap[p][b].page /\ memorymap[q][b] = NoEntry
      BY <1>3
    <3>2. UNCHANGED <<pc, fault>> /\ memorymap' = [memorymap EXCEPT ![p] = map, ![q] = map]
      BY <1>1
    <3>3. Mapped(x) = MappedAt(p, x)
      BY DEF MappedAt
    <3> HIDE DEF Mapped
    <3>4. QED
      BY <1>2, <3>1, <3>2, <3>3, ForkCounts
  <2>2. /\ Count(LocalPage, x)' = Count(LocalPage, x) /\ Count(CopyPage, x)' = Count(CopyPage, x)
        /\ Count(sharedPages, x)' = Count(sharedPages, x) /\ Count(anonPage, x)' = Count(anonPage, x)
    BY <1>1 DEF LocalPage, CopyPage
  <2>3. /\ Count(EntryPage, x) \in Nat /\ Count(LocalPage, x) \in Nat
        /\ Count(sharedPages, x) \in Nat /\ Count(anonPage, x) \in Nat
        /\ Count(MappedPage, x) \in Nat /\ Count(CopyPage, x) \in Nat
    BY <1>2, AllCounts
  <2>4. objs[x] = Objects(x)
    BY DEF PagesInv, ObjectsExact
  <2> HIDE DEF Mapped
  <2>5. QED
    BY <2>1, <2>2, <2>3, <2>4 DEF Objects, Mappings
<1>7. ASSUME NEW x \in Pages
      PROVE  /\ objs'[x] = objs[x] + Cardinality(Mapped(x)) /\ ref'[x] = ref[x] + Cardinality(Mapped(x))
             /\ objs[x] \in Nat /\ ref[x] \in Nat /\ (objs[x] = 0 => Mapped(x) = {})
             /\ (objs[x] > 0 => x \in used) /\ (objs[x] > 0 => ref[x] >= Mappings(x))
  BY <1>1, <1>2, Unheld DEF MemoryTypes, PagesInv, ObjectsExact, RefsCoverMappings
<1>8. ObjectsExact' /\ RefsCoverMappings'
  <2>1. SUFFICES ASSUME NEW x \in Pages
                 PROVE  /\ objs'[x] = Objects(x)' /\ (objs'[x] > 0 => x \in used')
                        /\ objs'[x] > 0 => ref'[x] >= Mappings(x)'
    BY DEF ObjectsExact, RefsCoverMappings
  <2>2. objs[x] = 0 => Cardinality(Mapped(x)) = 0
    BY <1>7, FS_EmptySet, Zenon
  <2> HIDE DEF Mapped
  <2>3. used' = used
    BY <1>1
  <2>4. QED
    BY <1>6, <1>7, <2>2, <2>3
<1>9. MemoryTypes'
  <2>1. ref' \in [Pages -> Nat] /\ objs' \in [Pages -> Nat]
    <3> HIDE DEF Mapped
    <3>1. \A x \in Pages : /\ ref[x] + Cardinality(Mapped(x)) \in Nat
                           /\ objs[x] + Cardinality(Mapped(x)) \in Nat
      BY <1>6, <1>7
    <3>2. QED
      BY <1>1, <3>1
  <2>2. writable' \in [Pages -> BOOLEAN] /\ cow' \in [Pages -> BOOLEAN]
    <3> HIDE DEF CowMem
    <3>1. QED
      BY <1>1, <1>2 DEF MemoryTypes
  <2>3. /\ memorymap' \in [Procs -> [Addrs -> Entries]]
        /\ pte' \in [Procs -> [Addrs -> Translations]]
        /\ status' \in [Procs -> {"unborn", "live", "dead"}]
    BY <1>1, <1>2, <1>4 DEF MemoryTypes
  <2>4. QED
    BY <1>1, <1>2, <2>1, <2>2, <2>3 DEF MemoryTypes
<1>10. EntryShape' /\ TableShape'
  <2>1. SUFFICES ASSUME NEW r \in Procs, NEW b \in Addrs PROVE EntryOK(r, b)' /\ TableOK(r, b)'
    BY DEF EntryShape, TableShape
  <2>2. pc' = pc /\ fault' = fault
    BY <1>1
  <2>3. CASE r = p
    BY <1>2, <1>3, <1>5, <2>2, <2>3 DEF EntryOK, TableOK, EntryFits
  <2>4. CASE r = q
    BY <1>2, <1>3, <1>5, <2>2, <2>4 DEF EntryOK, TableOK, EntryFits
  <2>5. CASE r \notin {p, q}
    BY <1>5, <2>2, <2>5 DEF EntryOK, TableOK, PagesInv, EntryShape, TableShape
  <2>6. QED
    BY <2>3, <2>4, <2>5
<1>11. FaultShape'
  <2>1. SUFFICES ASSUME NEW r \in Procs PROVE FaultOK(r)'
    BY DEF FaultShape
  <2>2. FaultOK(r) /\ pc' = pc /\ fault' = fault /\ anonPage' = anonPage
    BY <1>1 DEF PagesInv, FaultShape
  <2>3. CASE r \in {p, q}
    BY <1>2, <2>2, <2>3 DEF FaultOK
  <2>4. CASE r \notin {p, q}
    <3>1. EntryOf(r)' = EntryOf(r) /\ status'[r] = status[r]
      BY <1>5, <2>2, <2>4 DEF EntryOf
    <3>2. QED
      BY <2>2, <3>1 DEF FaultOK
  <2>5. QED
    BY <2>3, <2>4
<1>12. QED
  BY <1>8, <1>9, <1>10, <1>11 DEF PagesInv

-----------------------------------------------------------------------------
\* Every step keeps the invariant.
LEMMA StepPagesInv == ASSUME PagesInv, [Next]_vars PROVE PagesInv'
<1>1. CASE UNCHANGED vars \/ \E p \in Procs : Enter(p)
  <2>1. /\ UNCHANGED <<status, memorymap, pte, used, ref, objs, writable, cow, content>>
        /\ UNCHANGED <<sharedPages, anonPage, pc, fault>>
    BY <1>1 DEF vars, heap, Enter
  <2>2. MemoryTypes'
    BY <2>1 DEF PagesInv, MemoryTypes
  <2>3. EntryShape' /\ TableShape'
    BY <2>1 DEF PagesInv, EntryShape, TableShape, EntryOK, TableOK
  <2>4. FaultShape'
    BY <2>1 DEF PagesInv, FaultShape, FaultOK, EntryOf
  <2>5. \A x : Objects(x)' = Objects(x) /\ Mappings(x)' = Mappings(x)
    BY <2>1 DEF Objects, Mappings, EntryPage, LocalPage, MappedPage, CopyPage, Count
  <2>6. ObjectsExact' /\ RefsCoverMappings'
    BY <2>1, <2>5 DEF PagesInv, ObjectsExact, RefsCoverMappings
  <2>7. QED
    BY <2>2, <2>3, <2>4, <2>6 DEF PagesInv
<1>2. ASSUME NEW p \in Procs, NEW a \in Addrs,
             \/ Munmap(p, a) \/ BadAccess(p, a)
             \/ \E kind \in Kinds : Mmap(p, a, kind)
             \/ \E v \in Vals : Write(p, a, v)
             \/ FaultPrivate(p, a) \/ FaultShared(p, a) \/ FaultCow(p, a)
             \/ FaultFile(p, a) \/ FaultFileCow(p, a)
      PROVE  PagesInv'
  BY <1>2, StepMunmap, StepBadAccess, StepMmap, StepWrite, StepFaultPrivate, StepFaultShared,
     StepFaultCow, StepFaultFile, StepFaultFileCow
<1>3. ASSUME NEW p \in Procs, (\E q \in Procs : Fork(p, q)) \/ Exec(p) \/ Exit(p) PROVE PagesInv'
  BY <1>3, StepFork, StepExec, StepExit
<1>4. ASSUME NEW p \in Procs,
             \/ StoreShared(p) \/ MapShared(p) \/ Copy(p) \/ Unref(p) \/ Delete(p) \/ Take(p)
             \/ InsertFile(p) \/ CheckFile(p) \/ MapFile(p) \/ Steal(p) \/ Own(p)
      PROVE  PagesInv'
  BY <1>4, StepStoreShared, StepMapShared, StepCopy, StepUnref, StepDelete, StepTake,
     StepInsertFile, StepCheckFile, StepMapFile, StepSteal, StepOwn
<1>5. QED
  BY <1>1, <1>2, <1>3, <1>4 DEF Next, OnShared, OnOwn

\* The page tables follow the memory maps, whose pages are allocated.
LEMMA OwnPages == PagesInv => ReachesOwnPages
<1>1. SUFFICES ASSUME PagesInv, NEW p \in Procs, NEW a \in Addrs
               PROVE  LET x == pte[p][a].page  e == memorymap[p][a] IN
                      /\ (x = None <=> e.type \notin Resident)
                      /\ x # None => /\ x \in used
                                     /\ \/ x = e.page
                                        \/ fault[p].addr = a /\ fault[p].page = x
  BY DEF ReachesOwnPages
<1> DEFINE x == pte[p][a].page
           e == memorymap[p][a]
<1>2. /\ FaultOK(p) /\ EntryOK(p, a) /\ TableOK(p, a) /\ e.page \in Pages \cup {None}
      /\ fault[p].page \in Pages \cup {None}
  BY <1>1, ProcessFacts
<1>3. CASE pc[p] \in {"unref", "delete"} /\ fault[p].addr = a
  <2>1. x = fault[p].page /\ x # None /\ x \in Pages /\ e.type \in Resident /\ pc[p] # "map"
    BY <1>2, <1>3 DEF TableOK, FaultOK, EntryOf, Resident
  <2>2. x \in used
    BY <1>1, <2>1, Held
  <2>3. QED
    BY <1>3, <2>1, <2>2
<1>4. CASE ~(pc[p] \in {"unref", "delete"} /\ fault[p].addr = a)
  <2>1. x = e.page /\ (x # None <=> e.type \in Resident)
    BY <1>2, <1>4 DEF TableOK, EntryOK
  <2>2. x # None => x \in used
    BY <1>1, <1>2, <2>1, Held
  <2>3. QED
    BY <2>1, <2>2
<1>5. QED
  BY <1>3, <1>4

\* The object count of every page is exact and an object keeps its page, in every
\* interleaving of faults, forks, unmaps and exits in which no two processes are at the
\* same f_page or f_shared_pages at once (PhysicalPage, process.cpp, anonpage.cpp).
THEOREM ObjectCountsAreExact == Spec => []ObjectsExact
<1>1. Init => PagesInv
  BY InitPagesInv
<1>2. PagesInv /\ [Next]_vars => PagesInv'
  BY StepPagesInv
<1>3. PagesInv => ObjectsExact
  BY DEF PagesInv
<1>4. QED
  BY <1>1, <1>2, <1>3, PTL DEF Spec

\* The reference count of a page covers its mappings, and a process reaches only pages
\* that are allocated and that its memory map, or the copy it makes, has, up to such a
\* race for an object without a lock (process.cpp, ppage.cpp).
THEOREM PagesAreSound == Spec => []PagesSound
<1>1. Init => PagesInv /\ TypeOK
  BY InitPagesInv DEF Init, PagesInv, TypeOK
<1>2. PagesInv /\ [Next]_vars => PagesInv'
  BY StepPagesInv
<1>3. PagesInv' /\ TypeOK /\ [Next]_vars => TypeOK'
  <2>1. SUFFICES ASSUME PagesInv', TypeOK, [Next]_vars
                 PROVE  inside' \subseteq Procs /\ raced' \in BOOLEAN
    BY DEF PagesInv, TypeOK
  <2>2. CASE UNCHANGED <<inside, raced>>
    BY <2>1, <2>2 DEF TypeOK
  <2>3. ASSUME NEW p \in Procs, OnShared(p) PROVE inside' \subseteq Procs /\ raced' \in BOOLEAN
    BY <2>1, <2>3 DEF TypeOK, OnShared, Enter, Leave, FaultShared, FaultFile, StoreShared,
       MapShared, InsertFile, Steal
  <2>4. QED
    BY <2>1, <2>2, <2>3 DEF Next, vars
<1>4. PagesInv /\ TypeOK => PagesSound
  BY OwnPages DEF PagesInv, PagesSound
<1>5. QED
  BY <1>1, <1>2, <1>3, <1>4, PTL DEF Spec

-----------------------------------------------------------------------------
(* Private memory.  That a store is seen by one process only rests on who can *)
(* have a page: a private page that two entries map is read-only in both, and *)
(* the page of a private mapping is never one that the file, an anonymous     *)
(* object or a fault on behalf of them will hand out.                         *)

Private(p, a) == memorymap[p][a].type = "MEMORY" /\ ~memorymap[p][a].shared

\* A page that the file or an anonymous object has, or will be given.
Public(x) ==
    \/ \E o \in Offs : sharedPages[o] = x
    \/ \E n \in Anons : anonPage[n] = x
    \/ \E p \in Procs : pc[p] \in {"store", "insert", "check", "file"} /\ fault[p].page = x

\* Who maps the page of a private mapping has a private mapping too, and cannot write.
ReadOnlyTogether ==
    \A p, r \in Procs, a, b \in Addrs :
        (p # r \/ a # b) /\ Private(r, b) /\ pte[p][a].page = pte[r][b].page =>
            Private(p, a) /\ ~pte[p][a].writable

\* fork looks at the flag of the page to decide what becomes read-only.
FlagFollowsTable ==
    \A p \in Procs, a \in Addrs :
        Private(p, a) /\ pte[p][a].writable => writable[pte[p][a].page]

\* A fault that found itself to be the last mapping stays the last.
TakesAlone ==
    \A p, r \in Procs, b \in Addrs :
        /\ pc[p] = "take" /\ Private(p, fault[p].addr)
        /\ r # p \/ b # fault[p].addr
        => pte[r][b].page # memorymap[p][fault[p].addr].page

PrivateNotPublic ==
    \A p \in Procs, a \in Addrs : Private(p, a) => ~Public(pte[p][a].page)

PrivateInv == ReadOnlyTogether /\ FlagFollowsTable /\ TakesAlone /\ PrivateNotPublic

\* What a page table points at is allocated; the page of a private mapping is a page.
LEMMA TableFacts ==
    ASSUME PagesInv, NEW p \in Procs, NEW a \in Addrs
    PROVE  /\ pte[p][a].page \in Pages \cup {None}
           /\ pte[p][a].page # None => pte[p][a].page \in used
           /\ memorymap[p][a].type \in Resident <=> pte[p][a].page # None
           /\ Private(p, a) => pte[p][a].page \in used /\ pte[p][a].page \in Pages
<1>1. pte[p][a] \in Translations
  BY DEF PagesInv, MemoryTypes
<1>2. pte[p][a].page \in Pages \cup {None}
  BY <1>1 DEF Translations
<1>3. ReachesOwnPages
  BY OwnPages
<1>4. /\ pte[p][a].page = None <=> memorymap[p][a].type \notin Resident
      /\ pte[p][a].page # None => pte[p][a].page \in used
  BY <1>3 DEF ReachesOwnPages
<1>5. QED
  BY <1>2, <1>4 DEF Private, Resident

\* A page that palloc() hands out is in no page table and is not public.
LEMMA Fresh ==
    ASSUME PagesInv, NEW x \in Pages \ used
    PROVE  ~Public(x) /\ \A p \in Procs, a \in Addrs : pte[p][a].page # x
<1>1. /\ \A p \in Procs : fault[p].page = x => pc[p] = "map"
      /\ \A o \in Offs : sharedPages[o] # x
      /\ \A n \in Anons : anonPage[n] # x
  BY Unheld
<1>2. ~Public(x)
  BY <1>1 DEF Public
<1>3. ASSUME NEW p \in Procs, NEW a \in Addrs PROVE pte[p][a].page # x
  BY TableFacts, AddressSpaceAssumption
<1>4. QED
  BY <1>2, <1>3

\* At most page y becomes public.
LEMMA PublicStep ==
    ASSUME PagesInv, NEW p \in Procs, NEW y, y = None \/ Public(y) \/ y \notin used,
           \A o \in Offs : sharedPages'[o] \in {sharedPages[o], None, y},
           \A n \in Anons : anonPage'[n] \in {anonPage[n], None, y},
           \A r \in Procs \ {p} : pc'[r] = pc[r] /\ fault'[r] = fault[r],
           pc'[p] \in {"store", "insert", "check", "file"} => fault'[p].page = y
    PROVE  \A x \in Pages : Public(x)' => Public(x) \/ x \notin used
<1>1. SUFFICES ASSUME NEW x \in Pages, Public(x)' PROVE Public(x) \/ x = y
  BY AddressSpaceAssumption
<1>2. x # None
  BY AddressSpaceAssumption
<1>3. CASE \E o \in Offs : sharedPages'[o] = x
  BY <1>2, <1>3 DEF Public
<1>4. CASE \E n \in Anons : anonPage'[n] = x
  BY <1>2, <1>4 DEF Public
<1>5. CASE \E r \in Procs : pc'[r] \in {"store", "insert", "check", "file"} /\ fault'[r].page = x
  BY <1>5 DEF Public
<1>6. QED
  BY <1>1, <1>3, <1>4, <1>5 DEF Public

\* What a step of process p at address a leaves alone.
Elsewhere(p, a) ==
    /\ \A r \in Procs, b \in Addrs : r # p \/ b # a =>
        memorymap'[r][b] = memorymap[r][b] /\ pte'[r][b] = pte[r][b]
    /\ \A r \in Procs \ {p} : pc'[r] = pc[r] /\ fault'[r] = fault[r]

\* The mapping at a after the step: as it was, or with a page that no private mapping
\* has, nor any mapping at all if it is private itself.
Placed(p, a) ==
    \/ (Private(p, a)' <=> Private(p, a)) /\ pte'[p][a] = pte[p][a]
    \/ /\ \A r \in Procs, b \in Addrs :
            (r # p \/ b # a) /\ pte'[p][a].page = pte[r][b].page =>
                ~Private(p, a)' /\ ~Private(r, b)
       /\ Private(p, a)' => /\ pte'[p][a].writable => writable'[pte'[p][a].page]
                            /\ ~Public(pte[p][a].page)'

LEMMA PrivateStep ==
    ASSUME PagesInv, PrivateInv, NEW p \in Procs, NEW a \in Addrs, Elsewhere(p, a), Placed(p, a),
           \A x \in Pages : writable[x] => writable'[x],
           \A x \in Pages : Public(x)' => Public(x) \/ x \notin used,
           pc'[p] = "take" =>
               /\ fault'[p].addr = a
               /\ Private(p, a)' => \A r \in Procs, b \in Addrs : r # p \/ b # a =>
                      pte[r][b].page # memorymap'[p][a].page
    PROVE  PrivateInv'
<1>1. \A r \in Procs, b \in Addrs : r # p \/ b # a =>
        /\ memorymap'[r][b] = memorymap[r][b] /\ pte'[r][b] = pte[r][b]
        /\ Private(r, b)' <=> Private(r, b)
  BY DEF Elsewhere, Private
<1>2. \A r \in Procs, b \in Addrs :
        Private(r, b) => pte[r][b].page \in used /\ pte[r][b].page \in Pages
  BY TableFacts
<1>3. ReadOnlyTogether'
  <2>1. SUFFICES ASSUME NEW q \in Procs, NEW r \in Procs, NEW c \in Addrs, NEW b \in Addrs,
                        q # r \/ c # b, Private(r, b)', pte'[q][c].page = pte'[r][b].page
                 PROVE  Private(q, c)' /\ ~pte'[q][c].writable
    BY DEF ReadOnlyTogether
  <2>2. /\ Private(r, b) /\ pte[q][c].page = pte[r][b].page => Private(q, c) /\ ~pte[q][c].writable
        /\ Private(q, c) /\ pte[q][c].page = pte[r][b].page => Private(r, b) /\ ~pte[r][b].writable
    BY <2>1 DEF PrivateInv, ReadOnlyTogether
  <2>3. CASE (q # p \/ c # a) /\ (r # p \/ b # a)
    BY <1>1, <2>1, <2>2, <2>3
  <2>4. CASE q = p /\ c = a
    BY <1>1, <2>1, <2>2, <2>4 DEF Placed
  <2>5. CASE r = p /\ b = a
    BY <1>1, <2>1, <2>2, <2>5 DEF Placed
  <2>6. QED
    BY <2>3, <2>4, <2>5
<1>4. FlagFollowsTable'
  <2>1. SUFFICES ASSUME NEW r \in Procs, NEW b \in Addrs, Private(r, b)', pte'[r][b].writable
                 PROVE  writable'[pte'[r][b].page]
    BY DEF FlagFollowsTable
  <2>2. Private(r, b) /\ pte[r][b].writable => writable[pte[r][b].page]
    BY DEF PrivateInv, FlagFollowsTable
  <2>3. CASE r # p \/ b # a
    BY <1>1, <1>2, <2>1, <2>2, <2>3
  <2>4. CASE r = p /\ b = a
    BY <1>2, <2>1, <2>2, <2>4 DEF Placed
  <2>5. QED
    BY <2>3, <2>4
<1>5. TakesAlone'
  <2>1. SUFFICES ASSUME NEW q \in Procs, NEW r \in Procs, NEW b \in Addrs, pc'[q] = "take",
                        Private(q, fault[q].addr)', r # q \/ b # fault'[q].addr
                 PROVE  pte'[r][b].page # memorymap'[q][fault'[q].addr].page
    BY DEF TakesAlone
  <2>2. CASE q = p
    BY <1>1, <2>1, <2>2
  <2>3. CASE q # p
    <3>1. pc[q] = "take" /\ fault'[q] = fault[q]
      BY <2>1, <2>3 DEF Elsewhere
    <3>2. PICK c \in Addrs : fault[q].addr = c
      BY <3>1, FaultAddress
    <3>3. /\ memorymap'[q][c] = memorymap[q][c] /\ pte'[q][c] = pte[q][c] /\ Private(q, c)
      BY <1>1, <2>1, <2>3, <3>1, <3>2
    <3>4. r # q \/ b # c => pte[r][b].page # memorymap[q][c].page
      BY <3>1, <3>2, <3>3 DEF PrivateInv, TakesAlone
    <3>5. pte[q][c].page = memorymap[q][c].page
      BY <3>1 DEF PagesInv, TableShape, TableOK
    <3>6. CASE r # p \/ b # a
      BY <1>1, <2>1, <3>1, <3>2, <3>3, <3>4, <3>6
    <3>7. CASE r = p /\ b = a
      BY <2>1, <2>3, <3>1, <3>2, <3>3, <3>4, <3>5, <3>7 DEF Placed
    <3>8. QED
      BY <3>6, <3>7
  <2>4. QED
    BY <2>2, <2>3
<1>6. PrivateNotPublic'
  <2>1. SUFFICES ASSUME NEW r \in Procs, NEW b \in Addrs, Private(r, b)' PROVE ~Public(pte[r][b].page)'
    BY DEF PrivateNotPublic
  <2>2. Private(r, b) => ~Public(pte[r][b].page)
    BY DEF PrivateInv, PrivateNotPublic
  <2>3. CASE Private(r, b) /\ pte'[r][b] = pte[r][b]
    <3>1. \A x : x = pte[r][b].page /\ Public(x)' => FALSE
      BY <1>2, <2>2, <2>3
    <3>2. QED
      BY <2>3, <3>1
  <2>4. CASE ~(Private(r, b) /\ pte'[r][b] = pte[r][b])
    <3>1. r = p /\ b = a
      BY <1>1, <2>1, <2>4
    <3>2. QED
      BY <2>1, <2>4, <3>1 DEF Placed
  <2>5. QED
    BY <2>3, <2>4
<1>7. QED
  BY <1>3, <1>4, <1>5, <1>6 DEF PrivateInv

\* What processes see is an array; two arrays that differ at one place.
IsArray(S) == S = [r \in Procs |-> [b \in Addrs |-> S[r][b]]]

LEMMA ArrayUpdate ==
    ASSUME NEW S, NEW T, IsArray(S), IsArray(T),
           NEW p \in Procs, NEW a \in Addrs,
           \A r \in Procs, b \in Addrs : r # p \/ b # a => T[r][b] = S[r][b]
    PROVE  T = [S EXCEPT ![p][a] = T[p][a]]
<1>0. /\ S = [r \in Procs |-> S[r]] /\ T = [r \in Procs |-> T[r]]
      /\ \A r \in Procs : S[r] = [b \in Addrs |-> S[r][b]] /\ T[r] = [b \in Addrs |-> T[r][b]]
  BY DEF IsArray
<1>1. T[p] = [S[p] EXCEPT ![a] = T[p][a]]
  BY <1>0
<1>2. \A r \in Procs \ {p} : T[r] = S[r]
  <2>1. TAKE r \in Procs \ {p}
  <2>2. \A b \in Addrs : T[r][b] = S[r][b]
    OBVIOUS
  <2>3. QED
    BY <1>0, <2>2
<1>3. T = [S EXCEPT ![p] = T[p]]
  BY <1>0, <1>2
<1>4. QED
  BY <1>1, <1>3

\* A step at one address changes what one process sees at one address.
LEMMA Confined ==
    ASSUME PagesInv, PrivateInv, NEW p \in Procs, NEW a \in Addrs, Elsewhere(p, a), Placed(p, a),
           \A x \in Pages : writable[x] => writable'[x],
           \A x \in Pages : Public(x)' => Public(x) \/ x \notin used,
           pc'[p] = "take" =>
               /\ fault'[p].addr = a
               /\ Private(p, a)' => \A r \in Procs, b \in Addrs : r # p \/ b # a =>
                      pte[r][b].page # memorymap'[p][a].page,
           \A r \in Procs, b \in Addrs : (r # p \/ b # a) /\ Private(r, b) =>
               content'[pte[r][b].page] = content[pte[r][b].page]
    PROVE  PrivateInv' /\ SeenMemory' = [SeenMemory EXCEPT ![p][a] = Seen(p, a)']
<1>1. PrivateInv'
  BY PrivateStep
<1>2. ASSUME NEW r \in Procs, NEW b \in Addrs, r # p \/ b # a PROVE Seen(r, b)' = Seen(r, b)
  <2>1. memorymap'[r][b] = memorymap[r][b] /\ pte'[r][b] = pte[r][b]
    BY <1>2 DEF Elsewhere
  <2>2. Private(r, b) => content'[pte[r][b].page] = content[pte[r][b].page]
    BY <1>2
  <2>3. QED
    BY <2>1, <2>2 DEF Seen, Private
<1>3. SeenMemory' = [SeenMemory EXCEPT ![p][a] = Seen(p, a)']
  <2> DEFINE S == SeenMemory
             T == SeenMemory'
  <2>1. IsArray(S) /\ IsArray(T)
    BY DEF SeenMemory, IsArray
  <2>2. \A r \in Procs, b \in Addrs : S[r][b] = Seen(r, b) /\ T[r][b] = Seen(r, b)'
    BY DEF SeenMemory
  <2>3. \A r \in Procs, b \in Addrs : r # p \/ b # a => T[r][b] = S[r][b]
    BY <1>2, <2>2
  <2> HIDE DEF S, T
  <2>4. T = [S EXCEPT ![p][a] = T[p][a]]
    BY <2>1, <2>3, ArrayUpdate
  <2>5. QED
    BY <2>2, <2>4 DEF S, T
<1>4. QED
  BY <1>1, <1>3

\* A step that leaves the page tables, the kinds of mappings and the pages in use as they are.
LEMMA QuietStep ==
    ASSUME PagesInv, PrivateInv, NEW p \in Procs, NEW a \in Addrs, Elsewhere(p, a),
           pte'[p][a] = pte[p][a], memorymap'[p][a].type = memorymap[p][a].type,
           memorymap'[p][a].shared = memorymap[p][a].shared,
           \A x \in Pages : writable[x] => writable'[x],
           \A x \in Pages : Public(x)' => Public(x) \/ x \notin used,
           pc'[p] # "take", \A x \in used : content'[x] = content[x]
    PROVE  PrivateInv' /\ SeenMemory' = SeenMemory
<1>1. Private(p, a)' <=> Private(p, a)
  BY DEF Private
<1>2. Placed(p, a)
  BY <1>1 DEF Placed
<1>3. \A r \in Procs, b \in Addrs : Private(r, b) => content'[pte[r][b].page] = content[pte[r][b].page]
  BY TableFacts
<1>4. PrivateInv' /\ SeenMemory' = [SeenMemory EXCEPT ![p][a] = Seen(p, a)']
  <2>1. \A r \in Procs, b \in Addrs : (r # p \/ b # a) /\ Private(r, b) =>
            content'[pte[r][b].page] = content[pte[r][b].page]
    BY <1>3
  <2>2. QED
    BY <1>2, <2>1, Confined
<1>5. Seen(p, a)' = Seen(p, a)
  BY <1>3 DEF Seen, Private
<1>6. SeenMemory = [r \in Procs |-> [b \in Addrs |-> Seen(r, b)]]
  BY DEF SeenMemory
<1>7. QED
  BY <1>4, <1>5, <1>6

\* The steps that nobody can notice.
LEMMA QuietBadAccess ==
    ASSUME PagesInv, PrivateInv, NEW p \in Procs, NEW a \in Addrs, BadAccess(p, a)
    PROVE  PrivateInv' /\ SeenMemory' = SeenMemory
<1>1. pc[p] = "user" /\ MemoryTypes
  BY DEF BadAccess, Ready, PagesInv
<1>3. Elsewhere(p, a)
  BY <1>1 DEF Elsewhere, BadAccess, Goto, Keep, heap, MemoryTypes
<1>4. /\ pte'[p][a] = pte[p][a] /\ memorymap'[p][a].type = memorymap[p][a].type
      /\ memorymap'[p][a].shared = memorymap[p][a].shared /\ pc'[p] # "take"
      /\ \A x \in Pages : writable[x] => writable'[x]
      /\ \A x \in used : content'[x] = content[x]
  BY <1>1 DEF BadAccess, Goto, Keep, heap, MemoryTypes
<1>5. \A x \in Pages : Public(x)' => Public(x) \/ x \notin used
  <2>1. /\ \A o \in Offs : sharedPages'[o] \in {sharedPages[o], None}
        /\ \A n \in Anons : anonPage'[n] \in {anonPage[n], None}
        /\ \A r \in Procs \ {p} : pc'[r] = pc[r] /\ fault'[r] = fault[r]
        /\ pc'[p] \notin {"store", "insert", "check", "file"}
    BY <1>1, <1>3 DEF Elsewhere, BadAccess, Goto, Keep, heap, MemoryTypes
  <2>2. QED
    BY <2>1, PublicStep
<1>6. QED
  BY <1>3, <1>4, <1>5, QuietStep

LEMMA QuietUnref ==
    ASSUME PagesInv, PrivateInv, NEW p \in Procs, Unref(p)
    PROVE  PrivateInv' /\ SeenMemory' = SeenMemory
<1>0. fault[p].addr \in Addrs
  BY FaultAddress DEF Unref
<1>1. PICK a \in Addrs : fault[p].addr = a /\ MemoryTypes
  BY <1>0 DEF PagesInv
<1>3. Elsewhere(p, a)
  BY <1>1 DEF Elsewhere, Unref, Goto, MemoryTypes
<1>4. /\ pte'[p][a] = pte[p][a] /\ memorymap'[p][a].type = memorymap[p][a].type
      /\ memorymap'[p][a].shared = memorymap[p][a].shared /\ pc'[p] # "take"
      /\ \A x \in Pages : writable[x] => writable'[x]
      /\ \A x \in used : content'[x] = content[x]
  BY <1>1 DEF Unref, Goto, MemoryTypes
<1>5. \A x \in Pages : Public(x)' => Public(x) \/ x \notin used
  <2>1. /\ \A o \in Offs : sharedPages'[o] \in {sharedPages[o], None}
        /\ \A n \in Anons : anonPage'[n] \in {anonPage[n], None}
        /\ \A r \in Procs \ {p} : pc'[r] = pc[r] /\ fault'[r] = fault[r]
        /\ pc'[p] \notin {"store", "insert", "check", "file"}
    BY <1>1, <1>3 DEF Elsewhere, Unref, Goto, MemoryTypes
  <2>2. QED
    BY <2>1, PublicStep
<1>6. QED
  BY <1>3, <1>4, <1>5, QuietStep

LEMMA QuietDelete ==
    ASSUME PagesInv, PrivateInv, NEW p \in Procs, Delete(p)
    PROVE  PrivateInv' /\ SeenMemory' = SeenMemory
<1>0. fault[p].addr \in Addrs
  BY FaultAddress DEF Delete
<1>1. PICK a \in Addrs : fault[p].addr = a /\ MemoryTypes
  BY <1>0 DEF PagesInv
<1>3. Elsewhere(p, a)
  BY <1>1 DEF Elsewhere, Delete, Goto, Return, Destroy, MemoryTypes
<1>4. /\ pte'[p][a] = pte[p][a] /\ memorymap'[p][a].type = memorymap[p][a].type
      /\ memorymap'[p][a].shared = memorymap[p][a].shared /\ pc'[p] # "take"
      /\ \A x \in Pages : writable[x] => writable'[x]
      /\ \A x \in used : content'[x] = content[x]
  BY <1>1 DEF Delete, Goto, Return, Destroy, MemoryTypes
<1>5. \A x \in Pages : Public(x)' => Public(x) \/ x \notin used
  <2>1. /\ \A o \in Offs : sharedPages'[o] \in {sharedPages[o], None}
        /\ \A n \in Anons : anonPage'[n] \in {anonPage[n], None}
        /\ \A r \in Procs \ {p} : pc'[r] = pc[r] /\ fault'[r] = fault[r]
        /\ pc'[p] \notin {"store", "insert", "check", "file"}
    BY <1>1, <1>3 DEF Elsewhere, Delete, Goto, Return, Destroy, MemoryTypes
  <2>2. QED
    BY <2>1, PublicStep
<1>6. QED
  BY <1>3, <1>4, <1>5, QuietStep

LEMMA QuietSteal ==
    ASSUME PagesInv, PrivateInv, NEW p \in Procs, Steal(p)
    PROVE  PrivateInv' /\ SeenMemory' = SeenMemory
<1>0. fault[p].addr \in Addrs
  BY FaultAddress DEF Steal
<1>1. PICK a \in Addrs : fault[p].addr = a /\ MemoryTypes
  BY <1>0 DEF PagesInv
<1>3. Elsewhere(p, a)
  BY <1>1 DEF Elsewhere, Steal, Goto, Destroy, MemoryTypes
<1>4. /\ pte'[p][a] = pte[p][a] /\ memorymap'[p][a].type = memorymap[p][a].type
      /\ memorymap'[p][a].shared = memorymap[p][a].shared /\ pc'[p] # "take"
      /\ \A x \in Pages : writable[x] => writable'[x]
      /\ \A x \in used : content'[x] = content[x]
  BY <1>1 DEF Steal, Goto, Destroy, MemoryTypes
<1>5. \A x \in Pages : Public(x)' => Public(x) \/ x \notin used
  <2>1. /\ \A o \in Offs : sharedPages'[o] \in {sharedPages[o], None}
        /\ \A n \in Anons : anonPage'[n] \in {anonPage[n], None}
        /\ \A r \in Procs \ {p} : pc'[r] = pc[r] /\ fault'[r] = fault[r]
        /\ pc'[p] \notin {"store", "insert", "check", "file"}
    BY <1>1, <1>3 DEF Elsewhere, Steal, Goto, Destroy, MemoryTypes
  <2>2. QED
    BY <2>1, PublicStep
<1>6. QED
  BY <1>3, <1>4, <1>5, QuietStep

LEMMA QuietFaultFileCow ==
    ASSUME PagesInv, PrivateInv, NEW p \in Procs, NEW a \in Addrs, FaultFileCow(p, a)
    PROVE  PrivateInv' /\ SeenMemory' = SeenMemory
<1>1. pc[p] = "user" /\ MemoryTypes
  BY DEF FaultFileCow, Ready, PagesInv
<1>3. Elsewhere(p, a)
  BY <1>1 DEF Elsewhere, FaultFileCow, Goto, Keep, heap, NewPage, MemoryTypes
<1>4. /\ pte'[p][a] = pte[p][a] /\ memorymap'[p][a].type = memorymap[p][a].type
      /\ memorymap'[p][a].shared = memorymap[p][a].shared /\ pc'[p] # "take"
      /\ \A x \in Pages : writable[x] => writable'[x]
      /\ \A x \in used : content'[x] = content[x]
  BY <1>1 DEF FaultFileCow, Goto, Keep, heap, NewPage, MemoryTypes
<1>5. \A x \in Pages : Public(x)' => Public(x) \/ x \notin used
  <2>1. /\ \A o \in Offs : sharedPages'[o] \in {sharedPages[o], None}
        /\ \A n \in Anons : anonPage'[n] \in {anonPage[n], None}
        /\ \A r \in Procs \ {p} : pc'[r] = pc[r] /\ fault'[r] = fault[r]
        /\ pc'[p] \notin {"store", "insert", "check", "file"}
    BY <1>1, <1>3 DEF Elsewhere, FaultFileCow, Goto, Keep, heap, NewPage, MemoryTypes
  <2>2. QED
    BY <2>1, PublicStep
<1>6. QED
  BY <1>3, <1>4, <1>5, QuietStep

LEMMA QuietCheckFile ==
    ASSUME PagesInv, PrivateInv, NEW p \in Procs, CheckFile(p)
    PROVE  PrivateInv' /\ SeenMemory' = SeenMemory
<1>0. fault[p].addr \in Addrs
  BY FaultAddress DEF CheckFile
<1>1. PICK a \in Addrs : fault[p].addr = a /\ MemoryTypes
  BY <1>0 DEF PagesInv
<1>2. Public(fault[p].page)
  BY DEF CheckFile, Public
<1>3. Elsewhere(p, a)
  BY <1>1 DEF Elsewhere, CheckFile, Goto, Keep, heap, MemoryTypes
<1>4. /\ pte'[p][a] = pte[p][a] /\ memorymap'[p][a].type = memorymap[p][a].type
      /\ memorymap'[p][a].shared = memorymap[p][a].shared /\ pc'[p] # "take"
      /\ \A x \in Pages : writable[x] => writable'[x]
      /\ \A x \in used : content'[x] = content[x]
  BY <1>1, <1>2 DEF CheckFile, Goto, Keep, heap, MemoryTypes
<1>5. \A x \in Pages : Public(x)' => Public(x) \/ x \notin used
  <2>1. /\ \A o \in Offs : sharedPages'[o] \in {sharedPages[o], None, fault[p].page}
        /\ \A n \in Anons : anonPage'[n] \in {anonPage[n], None, fault[p].page}
        /\ \A r \in Procs \ {p} : pc'[r] = pc[r] /\ fault'[r] = fault[r]
        /\ pc'[p] \in {"store", "insert", "check", "file"} => fault'[p].page = fault[p].page
    BY <1>1, <1>2, <1>3 DEF Elsewhere, CheckFile, Goto, Keep, heap, MemoryTypes
  <2>2. QED
    BY <1>2, <2>1, PublicStep
<1>6. QED
  BY <1>3, <1>4, <1>5, QuietStep

LEMMA QuietInsertFile ==
    ASSUME PagesInv, PrivateInv, NEW p \in Procs, InsertFile(p)
    PROVE  PrivateInv' /\ SeenMemory' = SeenMemory
<1>0. fault[p].addr \in Addrs
  BY FaultAddress DEF InsertFile
<1>1. PICK a \in Addrs : fault[p].addr = a /\ MemoryTypes
  BY <1>0 DEF PagesInv
<1>2. Public(fault[p].page)
  BY DEF InsertFile, Public
<1>3. Elsewhere(p, a)
  BY <1>1 DEF Elsewhere, InsertFile, Goto, Keep, heap, MemoryTypes
<1>4. /\ pte'[p][a] = pte[p][a] /\ memorymap'[p][a].type = memorymap[p][a].type
      /\ memorymap'[p][a].shared = memorymap[p][a].shared /\ pc'[p] # "take"
      /\ \A x \in Pages : writable[x] => writable'[x]
      /\ \A x \in used : content'[x] = content[x]
  BY <1>1, <1>2 DEF InsertFile, Goto, Keep, heap, MemoryTypes
<1>5. \A x \in Pages : Public(x)' => Public(x) \/ x \notin used
  <2>1. /\ \A o \in Offs : sharedPages'[o] \in {sharedPages[o], None, fault[p].page}
        /\ \A n \in Anons : anonPage'[n] \in {anonPage[n], None, fault[p].page}
        /\ \A r \in Procs \ {p} : pc'[r] = pc[r] /\ fault'[r] = fault[r]
        /\ pc'[p] \in {"store", "insert", "check", "file"} => fault'[p].page = fault[p].page
    BY <1>1, <1>2, <1>3 DEF Elsewhere, InsertFile, Goto, Keep, heap, MemoryTypes
  <2>2. QED
    BY <1>2, <2>1, PublicStep
<1>6. QED
  BY <1>3, <1>4, <1>5, QuietStep

LEMMA QuietStoreShared ==
    ASSUME PagesInv, PrivateInv, NEW p \in Procs, StoreShared(p)
    PROVE  PrivateInv' /\ SeenMemory' = SeenMemory
<1>0. fault[p].addr \in Addrs
  BY FaultAddress DEF StoreShared
<1>1. PICK a \in Addrs : fault[p].addr = a /\ MemoryTypes
  BY <1>0 DEF PagesInv
<1>2. Public(fault[p].page)
  BY DEF StoreShared, Public
<1>3. Elsewhere(p, a)
  BY <1>1 DEF Elsewhere, StoreShared, Goto, Keep, heap, Destroy, MemoryTypes
<1>4. /\ pte'[p][a] = pte[p][a] /\ memorymap'[p][a].type = memorymap[p][a].type
      /\ memorymap'[p][a].shared = memorymap[p][a].shared /\ pc'[p] # "take"
      /\ \A x \in Pages : writable[x] => writable'[x]
      /\ \A x \in used : content'[x] = content[x]
  BY <1>1, <1>2 DEF StoreShared, Goto, Keep, heap, Destroy, MemoryTypes
<1>5. \A x \in Pages : Public(x)' => Public(x) \/ x \notin used
  <2>1. /\ \A o \in Offs : sharedPages'[o] \in {sharedPages[o], None, fault[p].page}
        /\ \A n \in Anons : anonPage'[n] \in {anonPage[n], None, fault[p].page}
        /\ \A r \in Procs \ {p} : pc'[r] = pc[r] /\ fault'[r] = fault[r]
        /\ pc'[p] \in {"store", "insert", "check", "file"} => fault'[p].page = fault[p].page
    BY <1>1, <1>2, <1>3 DEF Elsewhere, StoreShared, Goto, Keep, heap, Destroy, MemoryTypes
  <2>2. QED
    BY <1>2, <2>1, PublicStep
<1>6. QED
  BY <1>3, <1>4, <1>5, QuietStep

LEMMA QuietFaultShared ==
    ASSUME PagesInv, PrivateInv, NEW p \in Procs, NEW a \in Addrs, FaultShared(p, a)
    PROVE  PrivateInv' /\ SeenMemory' = SeenMemory
<1>1. pc[p] = "user" /\ MemoryTypes
  BY DEF FaultShared, Ready, PagesInv
<1>2. PICK y : /\ Public(y) \/ y \notin used
               /\ pc'[p] \in {"store", "insert", "check", "file"} => fault'[p].page = y
               /\ \A x \in Pages : x # y \/ Public(y) => content'[x] = content[x]
  <2>1. CASE anonPage[memorymap[p][a].source] = None
    BY <1>1, <2>1, AddressSpaceAssumption DEF FaultShared, Goto, Keep, NewPage, MemoryTypes
  <2>2. CASE anonPage[memorymap[p][a].source] # None
    BY <1>1, <2>2, AddressSpaceAssumption DEF FaultShared, Goto, Keep, MemoryTypes, PagesInv
  <2>3. QED
    BY <2>1, <2>2
<1>3. Elsewhere(p, a)
  BY <1>1 DEF Elsewhere, FaultShared, Goto, Keep, heap, NewPage, MemoryTypes
<1>4. /\ pte'[p][a] = pte[p][a] /\ memorymap'[p][a].type = memorymap[p][a].type
      /\ memorymap'[p][a].shared = memorymap[p][a].shared /\ pc'[p] # "take"
      /\ \A x \in Pages : writable[x] => writable'[x]
      /\ \A x \in used : content'[x] = content[x]
  BY <1>1, <1>2 DEF FaultShared, Goto, Keep, heap, NewPage, MemoryTypes
<1>5. \A x \in Pages : Public(x)' => Public(x) \/ x \notin used
  <2>1. y = None \/ Public(y) \/ y \notin used
    BY <1>2
  <2>2. sharedPages' = sharedPages /\ anonPage' = anonPage
    BY DEF FaultShared
  <2>3. /\ \A o \in Offs : sharedPages'[o] \in {sharedPages[o], None, y}
        /\ \A n \in Anons : anonPage'[n] \in {anonPage[n], None, y}
    BY <2>2
  <2>4. \A r \in Procs \ {p} : pc'[r] = pc[r] /\ fault'[r] = fault[r]
    BY <1>3 DEF Elsewhere
  <2>5. pc'[p] \in {"store", "insert", "check", "file"} => fault'[p].page = y
    BY <1>2
  <2>6. QED
    BY <2>1, <2>3, <2>4, <2>5, PublicStep
<1>6. QED
  BY <1>3, <1>4, <1>5, QuietStep

LEMMA QuietFaultFile ==
    ASSUME PagesInv, PrivateInv, NEW p \in Procs, NEW a \in Addrs, FaultFile(p, a)
    PROVE  PrivateInv' /\ SeenMemory' = SeenMemory
<1>1. pc[p] = "user" /\ MemoryTypes
  BY DEF FaultFile, Ready, PagesInv
<1>2. PICK y : /\ Public(y) \/ y \notin used
               /\ pc'[p] \in {"store", "insert", "check", "file"} => fault'[p].page = y
               /\ \A x \in Pages : x # y \/ Public(y) => content'[x] = content[x]
  <2>0. memorymap[p][a].source \in Offs
    BY DEF PagesInv, EntryShape, EntryOK, FaultFile
  <2>1. CASE sharedPages[memorymap[p][a].source] = None
    <3>1. PICK new \in Pages :
            /\ NewPage(new, 0, 1) /\ content' = [content EXCEPT ![new] = FileVal]
            /\ Keep(p, a, new, FALSE)
      BY <2>1 DEF FaultFile
    <3>2. new \notin used /\ fault'[p].page = new /\ \A x \in Pages : x # new => content'[x] = content[x]
      BY <1>1, <3>1 DEF NewPage, Keep, MemoryTypes
    <3>3. ~Public(new)
      BY <3>2, Fresh
    <3>4. QED
      BY <3>2, <3>3
  <2>2. CASE sharedPages[memorymap[p][a].source] # None
    <3>1. Public(sharedPages[memorymap[p][a].source])
      BY <2>0 DEF Public
    <3>2. fault'[p].page = sharedPages[memorymap[p][a].source] /\ content' = content
      BY <1>1, <2>2 DEF FaultFile, Keep, MemoryTypes
    <3>3. QED
      BY <3>1, <3>2
  <2>3. QED
    BY <2>1, <2>2
<1>3. Elsewhere(p, a)
  BY <1>1 DEF Elsewhere, FaultFile, Goto, Keep, heap, NewPage, MemoryTypes
<1>4. /\ pte'[p][a] = pte[p][a] /\ memorymap'[p][a].type = memorymap[p][a].type
      /\ memorymap'[p][a].shared = memorymap[p][a].shared /\ pc'[p] # "take"
      /\ \A x \in Pages : writable[x] => writable'[x]
      /\ \A x \in used : content'[x] = content[x]
  BY <1>1, <1>2 DEF FaultFile, Goto, Keep, heap, NewPage, MemoryTypes
<1>5. \A x \in Pages : Public(x)' => Public(x) \/ x \notin used
  <2>1. y = None \/ Public(y) \/ y \notin used
    BY <1>2
  <2>2. sharedPages' = sharedPages /\ anonPage' = anonPage
    BY DEF FaultFile
  <2>3. /\ \A o \in Offs : sharedPages'[o] \in {sharedPages[o], None, y}
        /\ \A n \in Anons : anonPage'[n] \in {anonPage[n], None, y}
    BY <2>2
  <2>4. \A r \in Procs \ {p} : pc'[r] = pc[r] /\ fault'[r] = fault[r]
    BY <1>3 DEF Elsewhere
  <2>5. pc'[p] \in {"store", "insert", "check", "file"} => fault'[p].page = y
    BY <1>2
  <2>6. QED
    BY <2>1, <2>3, <2>4, <2>5, PublicStep
<1>6. QED
  BY <1>3, <1>4, <1>5, QuietStep


\* The steps that change a mapping.
LEMMA PublicStays ==
    ASSUME UNCHANGED <<sharedPages, anonPage>>, NEW p \in Procs, NEW x,
           pc'[p] \notin {"store", "insert", "check", "file"},
           \A r \in Procs \ {p} : pc'[r] = pc[r] /\ fault'[r] = fault[r], Public(x)'
    PROVE  Public(x)
<1>1. CASE \E o \in Offs : sharedPages'[o] = x
  BY <1>1 DEF Public
<1>2. CASE \E n \in Anons : anonPage'[n] = x
  BY <1>2 DEF Public
<1>3. CASE \E r \in Procs : pc'[r] \in {"store", "insert", "check", "file"} /\ fault'[r].page = x
  BY <1>3 DEF Public
<1>4. QED
  BY <1>1, <1>2, <1>3 DEF Public

\* What a process sees of an address that is not changed in what it sees.
LEMMA Unnoticed ==
    ASSUME NEW p \in Procs, NEW a \in Addrs,
           SeenMemory' = [SeenMemory EXCEPT ![p][a] = Seen(p, a)'], Seen(p, a)' = Seen(p, a)
    PROVE  SeenMemory' = SeenMemory
<1>1. SeenMemory = [r \in Procs |-> [b \in Addrs |-> Seen(r, b)]]
  BY DEF SeenMemory
<1>2. QED
  BY <1>1

LEMMA SeeMmap ==
    ASSUME PagesInv, PrivateInv, NEW p \in Procs, NEW a \in Addrs, NEW kind \in Kinds, Mmap(p, a, kind)
    PROVE  PrivateInv' /\ (SeenMemory' = SeenMemory \/ Abstract!Map(p, a))
<1>1. pc[p] = "user" /\ MemoryTypes /\ memorymap[p][a] = NoEntry
  BY DEF Mmap, Ready, PagesInv
<1>2. PICK e \in NewEntry(kind) : memorymap' = [memorymap EXCEPT ![p][a] = e]
  BY DEF Mmap
<1>3. e.type \in {"EMPTY", "ANONYMOUS", "FILE"}
  BY NewEntryFacts
<1>4. memorymap'[p][a] = e
  BY <1>1, <1>2 DEF MemoryTypes
<1>5. Elsewhere(p, a)
  BY <1>1, <1>2 DEF Elsewhere, Mmap, MemoryTypes
<1>6. ~Private(p, a) /\ ~Private(p, a)' /\ pte' = pte
  BY <1>1, <1>3, <1>4 DEF Private, NoEntry, Entry, Mmap
<1>7. Placed(p, a)
  BY <1>6 DEF Placed
<1>8. /\ pc'[p] # "take" /\ writable' = writable /\ content' = content
      /\ sharedPages' = sharedPages /\ anonPage' = anonPage /\ pc' = pc /\ fault' = fault
  BY <1>1 DEF Mmap, heap
<1>9. \A x \in Pages : Public(x)' => Public(x)
  BY <1>8 DEF Public
<1>10. PrivateInv' /\ SeenMemory' = [SeenMemory EXCEPT ![p][a] = Seen(p, a)']
  BY <1>5, <1>7, <1>8, <1>9, Confined
<1>11. Seen(p, a) = None
  BY <1>1 DEF Seen, NoEntry, Entry
<1>12. Seen(p, a)' \in {Zero, None}
  BY <1>3, <1>4 DEF Seen
<1>13. CASE Seen(p, a)' = Zero
  <2>1. SeenMemory[p][a] = None
    BY <1>11 DEF SeenMemory
  <2>2. QED
    BY <1>10, <1>13, <2>1 DEF Abstract!Map
<1>14. CASE Seen(p, a)' = None
  BY <1>10, <1>11, <1>14, Unnoticed
<1>15. QED
  BY <1>10, <1>12, <1>13, <1>14

LEMMA SeeWrite ==
    ASSUME PagesInv, PrivateInv, NEW p \in Procs, NEW a \in Addrs, NEW v \in Vals, Write(p, a, v)
    PROVE  PrivateInv' /\ (SeenMemory' = SeenMemory \/ Abstract!Store(p, a, v))
<1> DEFINE x == pte[p][a].page
<1>1. /\ pc[p] = "user" /\ MemoryTypes /\ pte[p][a].writable /\ x # None
      /\ content' = [content EXCEPT ![x] = v]
      /\ UNCHANGED <<memorymap, pte, writable, sharedPages, anonPage, pc, fault>>
  BY DEF Write, Ready, PagesInv, heap
<1>2. x \in Pages
  BY <1>1, TableFacts
<1>3. Elsewhere(p, a) /\ Placed(p, a) /\ (Private(p, a)' <=> Private(p, a))
  BY <1>1 DEF Elsewhere, Placed, Private
<1>4. \A y \in Pages : Public(y)' => Public(y)
  BY <1>1 DEF Public
<1>5. ASSUME NEW r \in Procs, NEW b \in Addrs, r # p \/ b # a, Private(r, b)
      PROVE  content'[pte[r][b].page] = content[pte[r][b].page]
  <2>1. pte[r][b].page # x
    BY <1>1, <1>5 DEF PrivateInv, ReadOnlyTogether
  <2>2. pte[r][b].page \in Pages
    BY <1>5, TableFacts
  <2>3. QED
    BY <1>1, <2>1, <2>2 DEF MemoryTypes
<1>6. PrivateInv' /\ SeenMemory' = [SeenMemory EXCEPT ![p][a] = Seen(p, a)']
  <2>1. pc'[p] # "take" /\ \A y \in Pages : writable[y] => writable'[y]
    BY <1>1
  <2>2. QED
    BY <1>3, <1>4, <1>5, <2>1, Confined
<1>7. CASE Private(p, a)
  <2>1. Seen(p, a) = content[x] /\ Seen(p, a)' = content'[x]
    BY <1>1, <1>7 DEF Seen, Private
  <2>2. content'[x] = v /\ content[x] \in Vals
    BY <1>1, <1>2 DEF MemoryTypes
  <2>3. SeenMemory[p][a] # None
    BY <2>1, <2>2, AddressSpaceAssumption DEF SeenMemory
  <2>4. QED
    BY <1>6, <2>1, <2>2, <2>3 DEF Abstract!Store
<1>8. CASE ~Private(p, a)
  <2>1. Seen(p, a)' = Seen(p, a)
    BY <1>1, <1>8 DEF Seen, Private
  <2>2. QED
    BY <1>6, <2>1, Unnoticed
<1>9. QED
  BY <1>7, <1>8

LEMMA SeeFaultPrivate ==
    ASSUME PagesInv, PrivateInv, NEW p \in Procs, NEW a \in Addrs, FaultPrivate(p, a)
    PROVE  PrivateInv' /\ SeenMemory' = SeenMemory
<1>1. /\ pc[p] = "user" /\ MemoryTypes
      /\ memorymap[p][a].type = "ANONYMOUS" /\ ~memorymap[p][a].shared
      /\ UNCHANGED <<sharedPages, anonPage, pc, fault>>
  BY DEF FaultPrivate, Ready, PagesInv
<1>2. PICK x \in Pages :
        /\ NewPage(x, 1, 1)
        /\ memorymap' = [memorymap EXCEPT ![p][a] =
                [Entry("MEMORY", FALSE, FALSE, None) EXCEPT !.page = x]]
        /\ pte' = [pte EXCEPT ![p][a] = [page |-> x, writable |-> TRUE]]
        /\ content' = [content EXCEPT ![x] = Zero]
  BY DEF FaultPrivate
<1>3. /\ x \notin used /\ writable'[x] /\ \A y \in Pages : writable[y] => writable'[y]
      /\ content'[x] = Zero /\ \A y \in Pages : y # x => content'[y] = content[y]
      /\ pte'[p][a].page = x
  BY <1>1, <1>2 DEF NewPage, MemoryTypes
<1>4. memorymap'[p][a].type = "MEMORY" /\ ~memorymap'[p][a].shared
  BY <1>1, <1>2 DEF Entry, MemoryTypes
<1>5. Elsewhere(p, a)
  BY <1>1, <1>2 DEF Elsewhere, MemoryTypes
<1>6. ~Public(x) /\ \A r \in Procs, b \in Addrs : pte[r][b].page # x
  BY <1>3, Fresh
<1>7. \A y : Public(y)' => Public(y)
  BY <1>1 DEF Public
<1>8. Placed(p, a)
  <2>1. ~Public(pte[p][a].page)'
    BY <1>3, <1>6, <1>7
  <2>2. QED
    BY <1>3, <1>6, <2>1 DEF Placed
<1>9. \A r \in Procs, b \in Addrs : Private(r, b) => content'[pte[r][b].page] = content[pte[r][b].page]
  BY <1>3, <1>6, TableFacts
<1>10. PrivateInv' /\ SeenMemory' = [SeenMemory EXCEPT ![p][a] = Seen(p, a)']
  <2>1. pc'[p] # "take"
    BY <1>1
  <2>2. QED
    BY <1>3, <1>5, <1>7, <1>8, <1>9, <2>1, Confined
<1>11. Seen(p, a)' = Seen(p, a)
  BY <1>1, <1>3, <1>4 DEF Seen
<1>12. QED
  BY <1>10, <1>11, Unnoticed

LEMMA SeeMapShared ==
    ASSUME PagesInv, PrivateInv, NEW p \in Procs, MapShared(p)
    PROVE  PrivateInv' /\ SeenMemory' = SeenMemory
<1>1. fault[p].addr \in Addrs
  BY FaultAddress DEF MapShared
<1>2. PICK a \in Addrs : fault[p].addr = a /\ MemoryTypes
  BY <1>1 DEF PagesInv
<1> DEFINE n == memorymap[p][a].source
           x == anonPage[n]
           m == [Entry("MEMORY", TRUE, FALSE, None) EXCEPT !.page = x]
<1>3. /\ pc[p] = "map" /\ n \in Anons /\ x # None /\ memorymap[p][a].shared
  BY <1>2 DEF MapShared, PagesInv, FaultShape, FaultOK, EntryShape, EntryOK, EntryOf
<1>4. /\ memorymap' = [memorymap EXCEPT ![p][a] = m]
      /\ pte' = [pte EXCEPT ![p][a] = [page |-> x, writable |-> writable[x]]]
      /\ content' = [content EXCEPT ![x] = Zero]
      /\ anonPage' = anonPage \/ anonPage' = [anonPage EXCEPT ![n] = None]
      /\ pc' = [pc EXCEPT ![p] = "user"] /\ fault' = [fault EXCEPT ![p] = Idle]
      /\ UNCHANGED <<writable, sharedPages>>
  BY <1>2 DEF MapShared, EntryOf, Return, Goto
<1>5. m.type = "MEMORY" /\ m.shared = TRUE
  BY DEF Entry
<1>6. /\ memorymap'[p][a].shared = TRUE /\ pte'[p][a].page = x /\ pc'[p] = "user"
      /\ \A y \in Pages : y # x => content'[y] = content[y]
  BY <1>2, <1>4, <1>5 DEF MemoryTypes
<1>7. Elsewhere(p, a)
  BY <1>2, <1>4 DEF Elsewhere, MemoryTypes
<1>8. Public(x)
  BY <1>3 DEF Public
<1>9. \A r \in Procs, b \in Addrs : Private(r, b) => pte[r][b].page # x
  BY <1>8 DEF PrivateInv, PrivateNotPublic
<1>10. Placed(p, a)
  BY <1>6, <1>9 DEF Placed, Private
<1>11. \A y \in Pages : Public(y)' => Public(y) \/ y \notin used
  <2>1. /\ \A o \in Offs : sharedPages'[o] \in {sharedPages[o], None}
        /\ \A k \in Anons : anonPage'[k] \in {anonPage[k], None}
        /\ \A r \in Procs \ {p} : pc'[r] = pc[r] /\ fault'[r] = fault[r]
        /\ pc'[p] \notin {"store", "insert", "check", "file"}
    BY <1>2, <1>4, <1>6, <1>7 DEF Elsewhere, MemoryTypes
  <2>2. QED
    BY <2>1, PublicStep
<1>12. \A r \in Procs, b \in Addrs : Private(r, b) => content'[pte[r][b].page] = content[pte[r][b].page]
  BY <1>6, <1>9, TableFacts
<1>13. PrivateInv' /\ SeenMemory' = [SeenMemory EXCEPT ![p][a] = Seen(p, a)']
  <2>1. pc'[p] # "take" /\ \A y \in Pages : writable[y] => writable'[y]
    BY <1>4, <1>6
  <2>2. QED
    BY <1>7, <1>10, <1>11, <1>12, <2>1, Confined
<1>14. Seen(p, a)' = Seen(p, a)
  BY <1>3, <1>6 DEF Seen
<1>15. QED
  BY <1>13, <1>14, Unnoticed

LEMMA SeeCopy ==
    ASSUME PagesInv, PrivateInv, NEW p \in Procs, Copy(p)
    PROVE  PrivateInv' /\ SeenMemory' = SeenMemory
<1>1. fault[p].addr \in Addrs
  BY FaultAddress DEF Copy
<1>2. PICK a \in Addrs : fault[p].addr = a /\ MemoryTypes
  BY <1>1 DEF PagesInv
<1>3. PICK x \in Pages :
        /\ NewPage(x, 1, 1)
        /\ content' = [content EXCEPT ![x] = content[pte[p][a].page]]
        /\ pte' = [pte EXCEPT ![p][a] = [page |-> x, writable |-> TRUE]]
        /\ Keep(p, a, x, FALSE)
  BY <1>2 DEF Copy
<1>4. /\ pc' = [pc EXCEPT ![p] = "unref"] /\ UNCHANGED <<memorymap, sharedPages, anonPage>>
  BY DEF Copy, Goto
<1>5. /\ x \notin used /\ writable'[x] /\ \A y \in Pages : writable[y] => writable'[y]
      /\ content'[x] = content[pte[p][a].page]
      /\ \A y \in Pages : y # x => content'[y] = content[y]
      /\ pte'[p][a].page = x /\ pc'[p] = "unref"
  BY <1>2, <1>3, <1>4 DEF NewPage, MemoryTypes
<1>6. Elsewhere(p, a)
  BY <1>2, <1>3, <1>4 DEF Elsewhere, Keep, MemoryTypes
<1>7. ~Public(x) /\ \A r \in Procs, b \in Addrs : pte[r][b].page # x
  BY <1>5, Fresh
<1>8. \A y : Public(y)' => Public(y)
  <2>1. \A r \in Procs \ {p} : pc'[r] = pc[r] /\ fault'[r] = fault[r]
    BY <1>6 DEF Elsewhere
  <2>2. pc'[p] \notin {"store", "insert", "check", "file"} /\ UNCHANGED <<sharedPages, anonPage>>
    BY <1>4, <1>5
  <2>3. QED
    BY <2>1, <2>2, PublicStays
<1>9. Placed(p, a)
  <2>1. ~Public(pte[p][a].page)'
    BY <1>5, <1>7, <1>8
  <2>2. QED
    BY <1>5, <1>7, <2>1 DEF Placed
<1>10. \A r \in Procs, b \in Addrs : Private(r, b) => content'[pte[r][b].page] = content[pte[r][b].page]
  BY <1>5, <1>7, TableFacts
<1>11. PrivateInv' /\ SeenMemory' = [SeenMemory EXCEPT ![p][a] = Seen(p, a)']
  <2>1. pc'[p] # "take"
    BY <1>5
  <2>2. QED
    BY <1>5, <1>6, <1>8, <1>9, <1>10, <2>1, Confined
<1>12. Seen(p, a)' = Seen(p, a)
  BY <1>4, <1>5 DEF Seen
<1>13. QED
  BY <1>11, <1>12, Unnoticed

LEMMA SeeTake ==
    ASSUME PagesInv, PrivateInv, NEW p \in Procs, Take(p)
    PROVE  PrivateInv' /\ SeenMemory' = SeenMemory
<1>1. fault[p].addr \in Addrs
  BY FaultAddress DEF Take
<1>2. PICK a \in Addrs : fault[p].addr = a /\ MemoryTypes
  BY <1>1 DEF PagesInv
<1> DEFINE x == memorymap[p][a].page
<1>3. /\ pc[p] = "take" /\ pte[p][a].page = x /\ x \in Pages
  BY <1>2, ProcessFacts DEF Take, FaultOK, EntryOK, TableOK, EntryOf, Resident
<1>4. /\ writable' = [writable EXCEPT ![x] = TRUE]
      /\ pte' = [pte EXCEPT ![p][a] = [page |-> x, writable |-> TRUE]]
      /\ pc' = [pc EXCEPT ![p] = "user"] /\ fault' = [fault EXCEPT ![p] = Idle]
      /\ UNCHANGED <<memorymap, content, sharedPages, anonPage>>
  BY <1>2 DEF Take, EntryOf, Return, Goto
<1>5. /\ pte'[p][a].page = x /\ pc'[p] = "user" /\ writable'[x]
      /\ \A y \in Pages : writable[y] => writable'[y]
  BY <1>2, <1>3, <1>4 DEF MemoryTypes
<1>6. Elsewhere(p, a)
  BY <1>2, <1>4 DEF Elsewhere, MemoryTypes
<1>7. \A y : Public(y)' => Public(y)
  <2>1. \A r \in Procs \ {p} : pc'[r] = pc[r] /\ fault'[r] = fault[r]
    BY <1>6 DEF Elsewhere
  <2>2. pc'[p] \notin {"store", "insert", "check", "file"} /\ UNCHANGED <<sharedPages, anonPage>>
    BY <1>4, <1>5
  <2>3. QED
    BY <2>1, <2>2, PublicStays
<1>8. Private(p, a)' <=> Private(p, a)
  BY <1>4 DEF Private
<1>9. Placed(p, a)
  <2>1. ASSUME NEW r \in Procs, NEW b \in Addrs, r # p \/ b # a, pte'[p][a].page = pte[r][b].page
        PROVE  ~Private(p, a)' /\ ~Private(r, b)
    <3>1. ~Private(p, a)
      BY <1>2, <1>3, <1>5, <2>1 DEF PrivateInv, TakesAlone
    <3>2. ~Private(r, b)
      BY <1>3, <1>5, <2>1, <3>1 DEF PrivateInv, ReadOnlyTogether
    <3>3. QED
      BY <1>8, <3>1, <3>2
  <2>2. Private(p, a) => ~Public(x)
    BY <1>3 DEF PrivateInv, PrivateNotPublic
  <2>3. Private(p, a)' => ~Public(pte[p][a].page)'
    BY <1>5, <1>7, <1>8, <2>2
  <2>4. QED
    BY <1>5, <2>1, <2>3 DEF Placed
<1>10. PrivateInv' /\ SeenMemory' = [SeenMemory EXCEPT ![p][a] = Seen(p, a)']
  <2>1. pc'[p] # "take"
    BY <1>5
  <2>2. \A r \in Procs, b \in Addrs : Private(r, b) => content'[pte[r][b].page] = content[pte[r][b].page]
    BY <1>4
  <2>3. QED
    BY <1>5, <1>6, <1>7, <1>9, <2>1, <2>2, Confined
<1>11. Seen(p, a)' = Seen(p, a)
  BY <1>3, <1>4, <1>5 DEF Seen
<1>12. QED
  BY <1>10, <1>11, Unnoticed

LEMMA SeeMapFile ==
    ASSUME PagesInv, PrivateInv, NEW p \in Procs, MapFile(p)
    PROVE  PrivateInv' /\ SeenMemory' = SeenMemory
<1>1. fault[p].addr \in Addrs
  BY FaultAddress DEF MapFile
<1>2. PICK a \in Addrs : fault[p].addr = a /\ MemoryTypes
  BY <1>1 DEF PagesInv
<1> DEFINE e == memorymap[p][a]
           x == fault[p].page
           w == e.writable /\ ~fault[p].cow
           m == [Entry("FILE_MEMORY", e.shared, w, e.source) EXCEPT !.page = x, !.cow = fault[p].cow]
<1>3. pc[p] = "file" /\ e.type = "FILE" /\ Public(x)
  BY <1>2 DEF MapFile, PagesInv, FaultShape, FaultOK, EntryOf, Public
<1>4. /\ memorymap' = [memorymap EXCEPT ![p][a] = m]
      /\ pte' = [pte EXCEPT ![p][a] = [page |-> x, writable |-> w]]
      /\ pc' = [pc EXCEPT ![p] = "user"] /\ fault' = [fault EXCEPT ![p] = Idle]
      /\ UNCHANGED <<writable, content, sharedPages, anonPage>>
  BY <1>2 DEF MapFile, EntryOf, Return, Goto
<1>5. m.type = "FILE_MEMORY"
  BY DEF Entry
<1>6. memorymap'[p][a].type = "FILE_MEMORY" /\ pte'[p][a].page = x /\ pc'[p] = "user"
  <2> HIDE DEF m
  <2>1. QED
    BY <1>2, <1>4, <1>5 DEF MemoryTypes
<1>7. Elsewhere(p, a)
  <2> HIDE DEF m
  <2>1. QED
    BY <1>2, <1>4 DEF Elsewhere, MemoryTypes
<1>8. \A r \in Procs, b \in Addrs : Private(r, b) => pte[r][b].page # x
  BY <1>3 DEF PrivateInv, PrivateNotPublic
<1>9. Placed(p, a)
  BY <1>6, <1>8 DEF Placed, Private
<1>10. \A y : Public(y)' => Public(y)
  <2>1. \A r \in Procs \ {p} : pc'[r] = pc[r] /\ fault'[r] = fault[r]
    BY <1>7 DEF Elsewhere
  <2>2. pc'[p] \notin {"store", "insert", "check", "file"} /\ UNCHANGED <<sharedPages, anonPage>>
    BY <1>4, <1>6
  <2>3. QED
    BY <2>1, <2>2, PublicStays
<1>11. PrivateInv' /\ SeenMemory' = [SeenMemory EXCEPT ![p][a] = Seen(p, a)']
  <2>1. pc'[p] # "take" /\ \A y \in Pages : writable[y] => writable'[y]
    BY <1>4, <1>6
  <2>2. \A r \in Procs, b \in Addrs : Private(r, b) => content'[pte[r][b].page] = content[pte[r][b].page]
    BY <1>4
  <2>3. QED
    BY <1>7, <1>9, <1>10, <2>1, <2>2, Confined
<1>12. Seen(p, a)' = None /\ Seen(p, a) = None
  BY <1>3, <1>6 DEF Seen
<1>13. QED
  BY <1>11, <1>12, Unnoticed

LEMMA SeeOwn ==
    ASSUME PagesInv, PrivateInv, NEW p \in Procs, Own(p)
    PROVE  PrivateInv' /\ SeenMemory' = SeenMemory
<1>1. fault[p].addr \in Addrs
  BY FaultAddress DEF Own
<1>2. PICK a \in Addrs : fault[p].addr = a /\ MemoryTypes
  BY <1>1 DEF PagesInv
<1>3. pc[p] = "own" /\ memorymap[p][a].type = "FILE_MEMORY"
  BY <1>2 DEF Own, PagesInv, FaultShape, FaultOK, EntryOf
<1>4. /\ memorymap' = [memorymap EXCEPT ![p][a].writable = TRUE, ![p][a].cow = FALSE]
      /\ pte' = [pte EXCEPT ![p][a].writable = TRUE]
      /\ pc' = [pc EXCEPT ![p] = "user"] /\ fault' = [fault EXCEPT ![p] = Idle]
      /\ UNCHANGED <<writable, content, sharedPages, anonPage>>
  BY <1>2 DEF Own, Return, Goto, heap
<1>5. memorymap[p][a] \in Entries /\ pte[p][a] \in Translations
  BY <1>2 DEF MemoryTypes
<1>6. memorymap'[p][a].type = "FILE_MEMORY" /\ pte'[p][a].page = pte[p][a].page /\ pc'[p] = "user"
  BY <1>2, <1>3, <1>4, <1>5 DEF MemoryTypes, Entries, Translations
<1>7. Elsewhere(p, a)
  BY <1>2, <1>4 DEF Elsewhere, MemoryTypes
<1>8. \A r \in Procs, b \in Addrs : (r # p \/ b # a) /\ Private(r, b) => pte[r][b].page # pte[p][a].page
  BY <1>3 DEF PrivateInv, ReadOnlyTogether, Private
<1>9. Placed(p, a)
  BY <1>6, <1>8 DEF Placed, Private
<1>10. \A y : Public(y)' => Public(y)
  <2>1. \A r \in Procs \ {p} : pc'[r] = pc[r] /\ fault'[r] = fault[r]
    BY <1>7 DEF Elsewhere
  <2>2. pc'[p] \notin {"store", "insert", "check", "file"} /\ UNCHANGED <<sharedPages, anonPage>>
    BY <1>4, <1>6
  <2>3. QED
    BY <2>1, <2>2, PublicStays
<1>11. PrivateInv' /\ SeenMemory' = [SeenMemory EXCEPT ![p][a] = Seen(p, a)']
  <2>1. pc'[p] # "take" /\ \A y \in Pages : writable[y] => writable'[y]
    BY <1>4, <1>6
  <2>2. \A r \in Procs, b \in Addrs : Private(r, b) => content'[pte[r][b].page] = content[pte[r][b].page]
    BY <1>4
  <2>3. QED
    BY <1>7, <1>9, <1>10, <2>1, <2>2, Confined
<1>12. Seen(p, a)' = None /\ Seen(p, a) = None
  BY <1>3, <1>6 DEF Seen
<1>13. QED
  BY <1>11, <1>12, Unnoticed

\* Two places with x.
LEMMA CountTwo ==
    ASSUME NEW D, IsFiniteSet(D), NEW f, DOMAIN f = D, NEW x, NEW c \in D, NEW d \in D, c # d,
           f[c] = x, f[d] = x
    PROVE  Count(f, x) \in Nat /\ Count(f, x) >= 2
<1> DEFINE F == {z \in D : f[z] = x}
<1>1. IsFiniteSet(F) /\ {c, d} \subseteq F
  BY FS_Subset
<1>2. IsFiniteSet({c}) /\ Cardinality({c}) = 1
  BY FS_Singleton
<1>3. {c, d} = {c} \cup {d} /\ d \notin {c}
  OBVIOUS
<1>4. IsFiniteSet({c} \cup {d}) /\ Cardinality({c} \cup {d}) = 2
  BY <1>2, <1>3, FS_AddElement
<1>5. Cardinality({c, d}) = 2
  BY <1>3, <1>4
<1>6. Cardinality({c, d}) <= Cardinality(F) /\ Cardinality(F) \in Nat
  BY <1>1, FS_Subset, FS_CardinalityType
<1>7. QED
  BY <1>5, <1>6 DEF Count

\* Who finds a count of one is the only mapping: f_ref_count covers the mappings.
LEMMA SoleMapping ==
    ASSUME PagesInv, NEW p \in Procs, NEW a \in Addrs, pc[p] = "user",
           memorymap[p][a].type = "MEMORY", ~(ref[memorymap[p][a].page] > 1),
           NEW r \in Procs, NEW b \in Addrs, r # p \/ b # a
    PROVE  pte[r][b].page # memorymap[p][a].page
<1> DEFINE x == memorymap[p][a].page
<1>1. SUFFICES ASSUME pte[r][b].page = x PROVE FALSE
  OBVIOUS
<1>2. MemoryTypes /\ x \in Pages /\ x # None
  BY ProcessFacts DEF EntryOK, Resident
<1>3. objs[x] > 0
  BY <1>2, Held
<1>4. ref[x] >= Mappings(x) /\ ref[x] \in Nat
  BY <1>2, <1>3 DEF PagesInv, RefsCoverMappings, MemoryTypes
<1>5. /\ DOMAIN MappedPage = Procs \X Addrs /\ DOMAIN CopyPage = Procs
      /\ <<p, a>> \in Procs \X Addrs /\ <<r, b>> \in Procs \X Addrs /\ <<p, a>> # <<r, b>>
      /\ MappedPage[<<p, a>>] = x
  BY DEF MappedPage, CopyPage, EntryPage
<1>6. /\ Count(MappedPage, x) \in Nat /\ Count(MappedPage, x) > 0
      /\ Count(CopyPage, x) \in Nat /\ (CopyPage[r] = x => Count(CopyPage, x) > 0)
  BY <1>5, Finite, CountNat
<1>7. TableOK(r, b)
  BY ProcessFacts
<1> HIDE DEF x
<1>8. CASE pc[r] \in {"unref", "delete"} /\ fault[r].addr = b
  <2>1. CopyPage[r] = x
    BY <1>1, <1>7, <1>8 DEF TableOK, CopyPage
  <2>2. QED
    BY <1>2, <1>4, <1>6, <2>1 DEF Mappings, x
<1>9. CASE ~(pc[r] \in {"unref", "delete"} /\ fault[r].addr = b)
  <2>1. MappedPage[<<r, b>>] = x
    BY <1>1, <1>5, <1>7, <1>9 DEF TableOK, MappedPage, EntryPage
  <2>2. Count(MappedPage, x) >= 2
    BY <1>5, <2>1, Finite, CountTwo
  <2>3. QED
    BY <1>2, <1>4, <1>6, <2>2 DEF Mappings, x
<1>10. QED
  BY <1>8, <1>9

LEMMA SeeFaultCow ==
    ASSUME PagesInv, PrivateInv, NEW p \in Procs, NEW a \in Addrs, FaultCow(p, a)
    PROVE  PrivateInv' /\ SeenMemory' = SeenMemory
<1>1. /\ pc[p] = "user" /\ MemoryTypes /\ memorymap[p][a].type = "MEMORY"
      /\ pc' = [pc EXCEPT ![p] = IF ref[memorymap[p][a].page] > 1 THEN "copy" ELSE "take"]
      /\ fault' = [fault EXCEPT ![p] = [addr |-> a, page |-> None, cow |-> FALSE]]
      /\ UNCHANGED <<memorymap, pte, writable, content, sharedPages, anonPage>>
  BY DEF FaultCow, Ready, PagesInv, Goto, Keep, heap
<1>2. /\ pc'[p] = IF ref[memorymap[p][a].page] > 1 THEN "copy" ELSE "take"
      /\ fault'[p].addr = a
  BY <1>1 DEF MemoryTypes
<1>3. Elsewhere(p, a)
  BY <1>1 DEF Elsewhere, MemoryTypes
<1>4. Placed(p, a)
  BY <1>1 DEF Placed, Private
<1>5. \A y : Public(y)' => Public(y)
  <2>1. \A r \in Procs \ {p} : pc'[r] = pc[r] /\ fault'[r] = fault[r]
    BY <1>3 DEF Elsewhere
  <2>2. pc'[p] \notin {"store", "insert", "check", "file"} /\ UNCHANGED <<sharedPages, anonPage>>
    BY <1>1, <1>2
  <2>3. QED
    BY <2>1, <2>2, PublicStays
<1>6. pc'[p] = "take" => \A r \in Procs, b \in Addrs : r # p \/ b # a =>
            pte[r][b].page # memorymap'[p][a].page
  <2>1. SUFFICES ASSUME pc'[p] = "take", NEW r \in Procs, NEW b \in Addrs, r # p \/ b # a
                 PROVE  pte[r][b].page # memorymap[p][a].page
    BY <1>1
  <2>2. ~(ref[memorymap[p][a].page] > 1)
    BY <1>2, <2>1
  <2>3. QED
    BY <1>1, <2>1, <2>2, SoleMapping
<1>7. PrivateInv' /\ SeenMemory' = [SeenMemory EXCEPT ![p][a] = Seen(p, a)']
  <2>1. \A y \in Pages : writable[y] => writable'[y]
    BY <1>1
  <2>2. \A r \in Procs, b \in Addrs : Private(r, b) => content'[pte[r][b].page] = content[pte[r][b].page]
    BY <1>1
  <2>3. QED
    BY <1>2, <1>3, <1>4, <1>5, <1>6, <2>1, <2>2, Confined
<1>8. Seen(p, a)' = Seen(p, a)
  BY <1>1 DEF Seen
<1>9. QED
  BY <1>7, <1>8, Unnoticed

\* munmap, exec and exit: the mappings of a process that do not stay have no page.
LEMMA ReplacePrivate ==
    ASSUME PagesInv, PrivateInv, NEW p \in Procs, Ready(p),
           UNCHANGED <<writable, content, sharedPages, pc, fault>>,
           \A n \in Anons : anonPage'[n] \in {anonPage[n], None},
           \A r \in Procs, b \in Addrs :
               \/ memorymap'[r][b] = memorymap[r][b] /\ pte'[r][b] = pte[r][b]
               \/ r = p /\ memorymap'[r][b].type # "MEMORY" /\ pte'[r][b].page = None
    PROVE  PrivateInv' /\ \A r \in Procs \ {p}, b \in Addrs : Seen(r, b)' = Seen(r, b)
<1>1. pc[p] = "user"
  BY DEF Ready
<1>2. ASSUME NEW r \in Procs, NEW b \in Addrs
      PROVE  /\ Private(r, b)' => Private(r, b) /\ pte'[r][b] = pte[r][b]
             /\ \/ pte'[r][b] = pte[r][b] /\ (Private(r, b)' <=> Private(r, b))
                \/ pte'[r][b].page = None
             /\ Private(r, b) => pte[r][b].page \in Pages /\ pte[r][b].page \in used
  <2>1. Private(r, b) => pte[r][b].page \in Pages /\ pte[r][b].page \in used
    BY TableFacts
  <2>2. QED
    BY <2>1 DEF Private
<1>3. None \notin Pages
  BY AddressSpaceAssumption
<1>4. ReadOnlyTogether'
  <2>1. SUFFICES ASSUME NEW q \in Procs, NEW r \in Procs, NEW c \in Addrs, NEW b \in Addrs,
                        q # r \/ c # b, Private(r, b)', pte'[q][c].page = pte'[r][b].page
                 PROVE  Private(q, c)' /\ ~pte'[q][c].writable
    BY DEF ReadOnlyTogether
  <2>2. /\ Private(r, b) /\ pte'[r][b] = pte[r][b] /\ pte'[q][c] = pte[q][c]
        /\ Private(q, c)' <=> Private(q, c)
    BY <1>2, <1>3, <2>1
  <2>3. QED
    BY <2>1, <2>2 DEF PrivateInv, ReadOnlyTogether
<1>5. FlagFollowsTable'
  <2>1. SUFFICES ASSUME NEW r \in Procs, NEW b \in Addrs, Private(r, b)', pte'[r][b].writable
                 PROVE  writable'[pte'[r][b].page]
    BY DEF FlagFollowsTable
  <2>2. QED
    BY <1>2, <2>1 DEF PrivateInv, FlagFollowsTable
<1>6. TakesAlone'
  <2>1. SUFFICES ASSUME NEW q \in Procs, NEW r \in Procs, NEW b \in Addrs, pc[q] = "take",
                        Private(q, fault[q].addr)', r # q \/ b # fault[q].addr
                 PROVE  pte'[r][b].page # memorymap'[q][fault[q].addr].page
    BY DEF TakesAlone
  <2>2. PICK c \in Addrs : fault[q].addr = c
    BY <2>1, FaultAddress
  <2>3. q # p /\ memorymap'[q][c] = memorymap[q][c] /\ Private(q, c)
    BY <1>1, <1>2, <2>1, <2>2
  <2>4. pte[r][b].page # memorymap[q][c].page
    BY <2>1, <2>2, <2>3 DEF PrivateInv, TakesAlone
  <2>5. memorymap[q][c].page # None
    BY <2>3, ProcessFacts DEF Private, EntryOK, Resident
  <2>6. pte'[r][b].page \in {pte[r][b].page, None}
    BY <1>2
  <2>7. QED
    BY <2>2, <2>3, <2>4, <2>5, <2>6
<1>7. PrivateNotPublic'
  <2>1. SUFFICES ASSUME NEW r \in Procs, NEW b \in Addrs, Private(r, b)' PROVE ~Public(pte[r][b].page)'
    BY DEF PrivateNotPublic
  <2>2. \A x \in Pages : Public(x)' => Public(x) \/ x \notin used
    <3>1. /\ \A o \in Offs : sharedPages'[o] \in {sharedPages[o], None}
          /\ \A r1 \in Procs \ {p} : pc'[r1] = pc[r1] /\ fault'[r1] = fault[r1]
          /\ pc'[p] \notin {"store", "insert", "check", "file"}
      BY <1>1
    <3>2. QED
      BY <3>1, PublicStep
  <2>3. /\ Private(r, b) /\ pte'[r][b] = pte[r][b]
        /\ pte[r][b].page \in Pages /\ pte[r][b].page \in used
    BY <1>2, <2>1
  <2>4. ~Public(pte[r][b].page)
    BY <2>3 DEF PrivateInv, PrivateNotPublic
  <2>5. \A x : x = pte[r][b].page /\ Public(x)' => FALSE
    BY <2>2, <2>3, <2>4
  <2>6. QED
    BY <2>3, <2>5
<1>8. ASSUME NEW r \in Procs \ {p}, NEW b \in Addrs PROVE Seen(r, b)' = Seen(r, b)
  BY DEF Seen
<1>9. QED
  BY <1>4, <1>5, <1>6, <1>7, <1>8 DEF PrivateInv

\* Two arrays that differ in one row.
LEMMA RowUpdate ==
    ASSUME NEW S, NEW T, IsArray(S), IsArray(T), NEW p \in Procs,
           \A r \in Procs \ {p}, b \in Addrs : T[r][b] = S[r][b]
    PROVE  T = [S EXCEPT ![p] = T[p]] /\ T[p] = [b \in Addrs |-> T[p][b]]
<1>1. /\ S = [r \in Procs |-> S[r]] /\ T = [r \in Procs |-> T[r]]
      /\ \A r \in Procs : S[r] = [b \in Addrs |-> S[r][b]] /\ T[r] = [b \in Addrs |-> T[r][b]]
  BY DEF IsArray
<1>2. \A r \in Procs \ {p} : T[r] = S[r]
  <2>1. TAKE r \in Procs \ {p}
  <2>2. \A b \in Addrs : T[r][b] = S[r][b]
    OBVIOUS
  <2>3. QED
    BY <1>1, <2>2
<1>3. QED
  BY <1>1, <1>2

LEMMA SeenArray ==
    /\ IsArray(SeenMemory) /\ IsArray(SeenMemory)'
    /\ \A r \in Procs, b \in Addrs :
        SeenMemory[r][b] = Seen(r, b) /\ SeenMemory'[r][b] = Seen(r, b)'
BY DEF SeenMemory, IsArray

LEMMA ReplaceMap ==
    ASSUME NEW p \in Procs, NEW new, NEW unref, MemoryTypes, Replace(p, new, unref)
    PROVE  /\ memorymap'[p] = new /\ \A r \in Procs \ {p} : memorymap'[r] = memorymap[r]
           /\ \A n \in Anons : anonPage'[n] \in {anonPage[n], None}
BY DEF Replace, MemoryTypes

LEMMA SeeMunmap ==
    ASSUME PagesInv, PrivateInv, NEW p \in Procs, NEW a \in Addrs, Munmap(p, a)
    PROVE  PrivateInv' /\ Abstract!Unmap(p, a)
<1> DEFINE new == [memorymap[p] EXCEPT ![a] = NoEntry]
<1>1. /\ MemoryTypes /\ Ready(p) /\ Replace(p, new, Resident) /\ pte' = [pte EXCEPT ![p][a] = NoPte]
      /\ UNCHANGED <<writable, content, sharedPages, pc, fault>>
  BY DEF Munmap, PagesInv
<1>2. /\ new[a] = NoEntry /\ \A b \in Addrs \ {a} : new[b] = memorymap[p][b]
      /\ pte'[p][a] = NoPte /\ \A r \in Procs, b \in Addrs : r # p \/ b # a => pte'[r][b] = pte[r][b]
  BY <1>1 DEF MemoryTypes
<1> HIDE DEF new
<1>3. /\ memorymap'[p] = new /\ \A r \in Procs \ {p} : memorymap'[r] = memorymap[r]
      /\ \A n \in Anons : anonPage'[n] \in {anonPage[n], None}
  BY <1>1, ReplaceMap
<1>4. NoEntry.type = "none" /\ NoEntry.shared = FALSE /\ NoPte.page = None
  BY DEF NoEntry, Entry, NoPte
<1>5. \A r \in Procs, b \in Addrs :
        \/ memorymap'[r][b] = memorymap[r][b] /\ pte'[r][b] = pte[r][b]
        \/ r = p /\ memorymap'[r][b].type # "MEMORY" /\ pte'[r][b].page = None
  BY <1>2, <1>3, <1>4
<1>6. PrivateInv' /\ \A r \in Procs \ {p}, b \in Addrs : Seen(r, b)' = Seen(r, b)
  BY <1>1, <1>3, <1>5, ReplacePrivate
<1>7. Seen(p, a)' = None
  BY <1>2, <1>3, <1>4 DEF Seen
<1>8. \A b \in Addrs \ {a} : Seen(p, b)' = Seen(p, b)
  BY <1>1, <1>2, <1>3 DEF Seen
<1>9. \A r \in Procs, b \in Addrs : r # p \/ b # a => SeenMemory'[r][b] = SeenMemory[r][b]
  BY <1>6, <1>8, SeenArray
<1>10. SeenMemory' = [SeenMemory EXCEPT ![p][a] = SeenMemory'[p][a]]
  BY <1>9, SeenArray, ArrayUpdate
<1>11. SeenMemory'[p][a] = None
  BY <1>7, SeenArray
<1>12. QED
  BY <1>6, <1>10, <1>11 DEF Abstract!Unmap

\* exec and exit.
LEMMA SeeRenew ==
    ASSUME PagesInv, PrivateInv, NEW p \in Procs, Ready(p), NEW new, NEW unref, Replace(p, new, unref),
           \A b \in Addrs : new[b].type # "MEMORY", pte' = [pte EXCEPT ![p] = [b \in Addrs |-> NoPte]],
           UNCHANGED <<writable, content, sharedPages, pc, fault>>
    PROVE  PrivateInv' /\ Abstract!Renew(p)
<1>1. MemoryTypes
  BY DEF PagesInv
<1>2. /\ \A b \in Addrs : pte'[p][b] = NoPte
      /\ \A r \in Procs \ {p}, b \in Addrs : pte'[r][b] = pte[r][b]
  BY <1>1 DEF MemoryTypes
<1>3. /\ memorymap'[p] = new /\ \A r \in Procs \ {p} : memorymap'[r] = memorymap[r]
      /\ \A n \in Anons : anonPage'[n] \in {anonPage[n], None}
  BY <1>1, ReplaceMap
<1>4. NoPte.page = None
  BY DEF NoPte
<1>5. \A r \in Procs, b \in Addrs :
        \/ memorymap'[r][b] = memorymap[r][b] /\ pte'[r][b] = pte[r][b]
        \/ r = p /\ memorymap'[r][b].type # "MEMORY" /\ pte'[r][b].page = None
  BY <1>2, <1>3, <1>4
<1>6. PrivateInv' /\ \A r \in Procs \ {p}, b \in Addrs : Seen(r, b)' = Seen(r, b)
  BY <1>3, <1>5, ReplacePrivate
<1>7. \A b \in Addrs : Seen(p, b)' \in {Zero, None}
  BY <1>3 DEF Seen
<1>8. \A r \in Procs \ {p}, b \in Addrs : SeenMemory'[r][b] = SeenMemory[r][b]
  BY <1>6, SeenArray
<1>9. /\ SeenMemory' = [SeenMemory EXCEPT ![p] = SeenMemory'[p]]
      /\ SeenMemory'[p] = [b \in Addrs |-> SeenMemory'[p][b]]
  BY <1>8, SeenArray, RowUpdate
<1>10. SeenMemory'[p] \in [Addrs -> {Zero, None}]
  <2>1. \A b \in Addrs : SeenMemory'[p][b] \in {Zero, None}
    BY <1>7, SeenArray
  <2>2. QED
    BY <1>9, <2>1
<1>11. QED
  BY <1>6, <1>9, <1>10 DEF Abstract!Renew

LEMMA SeeExit ==
    ASSUME PagesInv, PrivateInv, NEW p \in Procs, Exit(p) PROVE PrivateInv' /\ Abstract!Renew(p)
<1> DEFINE new == [a \in Addrs |-> NoEntry]
<1>1. /\ Ready(p) /\ Replace(p, new, {"FILE_MEMORY"})
      /\ pte' = [pte EXCEPT ![p] = [b \in Addrs |-> NoPte]]
      /\ UNCHANGED <<writable, content, sharedPages, pc, fault>>
  BY DEF Exit
<1>2. \A b \in Addrs : new[b].type # "MEMORY"
  BY DEF NoEntry, Entry
<1> HIDE DEF new
<1>3. QED
  BY <1>1, <1>2, SeeRenew

LEMMA SeeExec ==
    ASSUME PagesInv, PrivateInv, NEW p \in Procs, Exec(p) PROVE PrivateInv' /\ Abstract!Renew(p)
<1> DEFINE Segments == UNION {NewEntry(k) : k \in Kinds \cap {"text", "data", "private"}}
<1>1. PICK new : new \in [Addrs -> Segments \cup {NoEntry}] /\ Replace(p, new, {"FILE_MEMORY"})
  BY DEF Exec
<1>2. Replace(p, new, {"FILE_MEMORY"})
  BY <1>1
<1>3. /\ Ready(p) /\ pte' = [pte EXCEPT ![p] = [b \in Addrs |-> NoPte]]
      /\ UNCHANGED <<writable, content, sharedPages, pc, fault>>
  BY DEF Exec
<1>4. ASSUME NEW b \in Addrs PROVE new[b].type # "MEMORY"
  <2>1. CASE new[b] = NoEntry
    BY <2>1 DEF NoEntry, Entry
  <2>2. CASE new[b] \in Segments
    <3>1. PICK k \in Kinds : new[b] \in NewEntry(k)
      BY <2>2
    <3>2. new[b].type \in {"EMPTY", "ANONYMOUS", "FILE"}
      BY <3>1, NewEntryFacts
    <3>3. QED
      BY <3>2
  <2>3. QED
    BY <1>1, <2>1, <2>2
<1>5. QED
  BY <1>2, <1>3, <1>4, SeeRenew

\* fork: in both processes the private pages are the parent's, and read-only.
LEMMA ForkMaps ==
    ASSUME PagesInv, PrivateInv, NEW p \in Procs, NEW q \in Procs, Fork(p, q)
    PROVE  /\ p # q /\ pc[p] = "user" /\ pc[q] = "user"
           /\ UNCHANGED <<content, sharedPages, anonPage, pc, fault>>
           /\ \A r \in Procs \ {p, q} : memorymap'[r] = memorymap[r] /\ pte'[r] = pte[r]
           /\ \A b \in Addrs :
                /\ memorymap[q][b] = NoEntry
                /\ memorymap'[p][b].type = memorymap[p][b].type
                /\ memorymap'[p][b].shared = memorymap[p][b].shared
                /\ memorymap'[q][b] = memorymap'[p][b]
                /\ pte'[p][b].page = pte[p][b].page /\ pte'[q][b].page = pte[p][b].page
                /\ Private(p, b) => ~pte'[p][b].writable /\ ~pte'[q][b].writable
           /\ \A x \in Pages : writable[x] =>
                \/ writable'[x]
                \/ \E b \in Addrs : Private(p, b) /\ pte[p][b].page = x
<1> DEFINE e(a) == memorymap[p][a]
           Memory(a) == e(a).type = "MEMORY" /\ ~e(a).shared /\ writable[e(a).page]
           File(a) == e(a).type = "FILE_MEMORY" /\ ~e(a).shared /\ e(a).writable
           CowMem(x) == \E a \in Addrs : Memory(a) /\ e(a).page = x
           map == [a \in Addrs |->
               IF File(a) THEN [e(a) EXCEPT !.writable = FALSE, !.cow = TRUE] ELSE e(a)]
           parent == [a \in Addrs |->
               IF Memory(a) \/ File(a) THEN [pte[p][a] EXCEPT !.writable = FALSE] ELSE pte[p][a]]
           Allowed(a) == IF e(a).type = "MEMORY"
                         THEN writable[e(a).page] /\ ~CowMem(e(a).page)
                         ELSE map[a].writable
           child == [a \in Addrs |->
               IF e(a).type \in Resident
               THEN [page |-> e(a).page, writable |-> Allowed(a)]
               ELSE NoPte]
<1>1. /\ Ready(p) /\ status[q] = "unborn"
      /\ memorymap' = [memorymap EXCEPT ![p] = map, ![q] = map]
      /\ pte' = [pte EXCEPT ![p] = parent, ![q] = child]
      /\ writable' = [x \in Pages |-> writable[x] /\ ~CowMem(x)]
      /\ UNCHANGED <<content, sharedPages, anonPage, pc, fault>>
  BY DEF Fork
<1>2. /\ MemoryTypes /\ p # q /\ pc[p] = "user" /\ pc[q] = "user"
  BY <1>1, ReadyFacts DEF PagesInv, FaultShape, FaultOK
<1>3. ASSUME NEW b \in Addrs
      PROVE  /\ e(b) \in Entries /\ pte[p][b] \in Translations /\ pte[p][b].page = e(b).page
             /\ (e(b).page # None <=> e(b).type \in Resident) /\ memorymap[q][b] = NoEntry
  BY <1>1, <1>2, ProcessFacts DEF EntryOK, TableOK
<1>4. ASSUME NEW b \in Addrs PROVE map[b].type = e(b).type /\ map[b].shared = e(b).shared
  BY <1>3 DEF Entries
<1>5. ASSUME NEW b \in Addrs
      PROVE  parent[b].page = pte[p][b].page /\ child[b].page = pte[p][b].page
  <2>1. parent[b].page = pte[p][b].page
    BY <1>3 DEF Translations
  <2>2. CASE e(b).type \in Resident
    <3>1. child[b] = [page |-> e(b).page, writable |-> Allowed(b)]
      BY <2>2
    <3> HIDE DEF child, Allowed
    <3>2. QED
      BY <1>3, <2>1, <3>1
  <2>3. CASE e(b).type \notin Resident
    <3>1. child[b] = NoPte
      BY <2>3
    <3> HIDE DEF child, parent
    <3>2. QED
      BY <1>3, <2>1, <2>3, <3>1 DEF NoPte
  <2>4. QED
    BY <2>2, <2>3
<1>6. ASSUME NEW b \in Addrs, Private(p, b) PROVE ~parent[b].writable /\ ~child[b].writable
  <2>1. e(b).type = "MEMORY" /\ ~e(b).shared
    BY <1>6 DEF Private
  <2>2. CASE writable[e(b).page]
    <3>1. Memory(b) /\ CowMem(e(b).page)
      BY <2>1, <2>2
    <3>2. parent[b] = [pte[p][b] EXCEPT !.writable = FALSE]
      BY <3>1
    <3>3. ~parent[b].writable
      <4> HIDE DEF parent
      <4>1. QED
        BY <1>3, <3>2 DEF Translations
    <3>4. ~Allowed(b)
      BY <2>1, <3>1
    <3>5. child[b] = [page |-> e(b).page, writable |-> Allowed(b)]
      BY <2>1 DEF Resident
    <3> HIDE DEF child, Allowed, parent
    <3>6. QED
      BY <3>3, <3>4, <3>5
  <2>3. CASE ~writable[e(b).page]
    <3>1. ~Memory(b) /\ ~File(b) /\ ~Allowed(b)
      BY <2>1, <2>3
    <3>2. parent[b] = pte[p][b]
      BY <3>1
    <3>3. ~pte[p][b].writable
      BY <1>3, <1>6, <2>3 DEF PrivateInv, FlagFollowsTable
    <3>4. child[b] = [page |-> e(b).page, writable |-> Allowed(b)]
      BY <2>1 DEF Resident
    <3> HIDE DEF child, Allowed, parent
    <3>5. QED
      BY <3>1, <3>2, <3>3, <3>4
  <2>4. QED
    BY <2>2, <2>3
<1>7. ASSUME NEW x \in Pages, writable[x]
      PROVE  writable'[x] \/ \E b \in Addrs : Private(p, b) /\ pte[p][b].page = x
  <2>1. CASE CowMem(x)
    <3>1. PICK b \in Addrs : Memory(b) /\ e(b).page = x
      BY <2>1
    <3>2. Private(p, b) /\ pte[p][b].page = x
      BY <1>3, <3>1 DEF Private
    <3>3. QED
      BY <3>2
  <2>2. CASE ~CowMem(x)
    <3> HIDE DEF CowMem
    <3>1. QED
      BY <1>1, <1>7, <2>2
  <2>3. QED
    BY <2>1, <2>2
<1> HIDE DEF map, parent, child
<1>8. /\ memorymap'[p] = map /\ memorymap'[q] = map /\ pte'[p] = parent /\ pte'[q] = child
      /\ \A r \in Procs \ {p, q} : memorymap'[r] = memorymap[r] /\ pte'[r] = pte[r]
  BY <1>1, <1>2 DEF MemoryTypes
<1>9. \A b \in Addrs :
        /\ memorymap[q][b] = NoEntry
        /\ memorymap'[p][b].type = memorymap[p][b].type
        /\ memorymap'[p][b].shared = memorymap[p][b].shared
        /\ memorymap'[q][b] = memorymap'[p][b]
        /\ pte'[p][b].page = pte[p][b].page /\ pte'[q][b].page = pte[p][b].page
        /\ Private(p, b) => ~pte'[p][b].writable /\ ~pte'[q][b].writable
  BY <1>3, <1>4, <1>5, <1>6, <1>8
<1>10. QED
  BY <1>1, <1>2, <1>7, <1>8, <1>9

\* The mapping that a mapping after the fork comes from.
Origin(p, q, r) == IF r = q THEN p ELSE r

LEMMA SeeFork ==
    ASSUME PagesInv, PrivateInv, NEW p \in Procs, NEW q \in Procs, Fork(p, q)
    PROVE  PrivateInv' /\ Abstract!CopyTo(p, q)
<1>1. /\ p # q /\ pc[p] = "user" /\ pc[q] = "user"
      /\ UNCHANGED <<content, sharedPages, anonPage, pc, fault>>
      /\ \A r \in Procs \ {p, q} : memorymap'[r] = memorymap[r] /\ pte'[r] = pte[r]
  BY ForkMaps
<1>2. \A b \in Addrs :
        /\ memorymap[q][b] = NoEntry
        /\ memorymap'[p][b].type = memorymap[p][b].type
        /\ memorymap'[p][b].shared = memorymap[p][b].shared
        /\ memorymap'[q][b] = memorymap'[p][b]
        /\ pte'[p][b].page = pte[p][b].page /\ pte'[q][b].page = pte[p][b].page
        /\ Private(p, b) => ~pte'[p][b].writable /\ ~pte'[q][b].writable
  BY ForkMaps
<1>3. ASSUME NEW r \in Procs, NEW b \in Addrs
      PROVE  /\ Origin(p, q, r) \in Procs
             /\ Private(r, b)' <=> Private(Origin(p, q, r), b)
             /\ pte'[r][b].page = pte[Origin(p, q, r)][b].page
             /\ Private(r, b)' => \/ r \notin {p, q} /\ pte'[r] = pte[r]
                                  \/ ~pte'[r][b].writable
  BY <1>1, <1>2 DEF Private, Origin
<1>4. ReadOnlyTogether'
  <2>1. SUFFICES ASSUME NEW s \in Procs, NEW r \in Procs, NEW c \in Addrs, NEW b \in Addrs,
                        s # r \/ c # b, Private(r, b)', pte'[s][c].page = pte'[r][b].page
                 PROVE  Private(s, c)' /\ ~pte'[s][c].writable
    BY DEF ReadOnlyTogether
  <2> DEFINE so == Origin(p, q, s)
             ro == Origin(p, q, r)
  <2>2. /\ so \in Procs /\ ro \in Procs /\ Private(ro, b) /\ pte[so][c].page = pte[ro][b].page
    BY <1>3, <2>1
  <2>3. CASE so = ro /\ c = b
    <3>1. Private(s, c)'
      BY <1>3, <2>2, <2>3
    <3>2. s \in {p, q}
      BY <2>1, <2>3 DEF Origin
    <3>3. QED
      BY <1>3, <3>1, <3>2
  <2>4. CASE so # ro \/ c # b
    <3>1. Private(so, c) /\ ~pte[so][c].writable
      BY <2>2, <2>4 DEF PrivateInv, ReadOnlyTogether
    <3>2. Private(s, c)'
      BY <1>3, <3>1
    <3>3. s \notin {p, q} => so = s
      BY DEF Origin
    <3>4. QED
      BY <1>3, <3>1, <3>2, <3>3
  <2>5. QED
    BY <2>3, <2>4
<1>5. FlagFollowsTable'
  <2>1. SUFFICES ASSUME NEW r \in Procs, NEW b \in Addrs, Private(r, b)', pte'[r][b].writable
                 PROVE  writable'[pte'[r][b].page]
    BY DEF FlagFollowsTable
  <2>2. r \notin {p, q} /\ pte'[r] = pte[r] /\ Private(r, b)
    BY <1>3, <2>1 DEF Origin
  <2>3. writable[pte[r][b].page] /\ pte[r][b].page \in Pages
    BY <2>1, <2>2, TableFacts DEF PrivateInv, FlagFollowsTable
  <2>4. ASSUME NEW c \in Addrs, Private(p, c), pte[p][c].page = pte[r][b].page PROVE FALSE
    BY <2>1, <2>2, <2>4 DEF PrivateInv, ReadOnlyTogether
  <2>5. \A x \in Pages : writable[x] =>
            \/ writable'[x]
            \/ \E c \in Addrs : Private(p, c) /\ pte[p][c].page = x
    BY ForkMaps
  <2>6. QED
    BY <2>2, <2>3, <2>4, <2>5
<1>6. TakesAlone'
  <2>1. SUFFICES ASSUME NEW s \in Procs, NEW r \in Procs, NEW b \in Addrs, pc[s] = "take",
                        Private(s, fault[s].addr)', r # s \/ b # fault[s].addr
                 PROVE  pte'[r][b].page # memorymap'[s][fault[s].addr].page
    BY <1>1 DEF TakesAlone
  <2>2. PICK c \in Addrs : fault[s].addr = c
    BY <2>1, FaultAddress
  <2>3. s \notin {p, q} /\ memorymap'[s][c] = memorymap[s][c] /\ Private(s, c)
    BY <1>1, <2>1, <2>2 DEF Private
  <2> DEFINE ro == Origin(p, q, r)
  <2>4. ro \in Procs /\ (ro # s \/ b # c)
    BY <2>1, <2>2, <2>3 DEF Origin
  <2>5. pte[ro][b].page # memorymap[s][c].page
    BY <2>1, <2>2, <2>3, <2>4 DEF PrivateInv, TakesAlone
  <2>6. QED
    BY <1>3, <2>2, <2>3, <2>5
<1>7. PrivateNotPublic'
  <2>1. SUFFICES ASSUME NEW r \in Procs, NEW b \in Addrs, Private(r, b)' PROVE ~Public(pte[r][b].page)'
    BY DEF PrivateNotPublic
  <2>2. \A x : Public(x)' => Public(x)
    BY <1>1 DEF Public
  <2> DEFINE ro == Origin(p, q, r)
  <2>3. ro \in Procs /\ Private(ro, b) /\ pte'[r][b].page = pte[ro][b].page
    BY <1>3, <2>1
  <2>4. ~Public(pte[ro][b].page)
    BY <2>3 DEF PrivateInv, PrivateNotPublic
  <2> HIDE DEF ro
  <2>5. QED
    BY <2>2, <2>3, <2>4
<1>8. PrivateInv'
  BY <1>4, <1>5, <1>6, <1>7 DEF PrivateInv
<1>9. \A b \in Addrs : Seen(q, b) = None /\ Seen(q, b)' = Seen(p, b) /\ Seen(p, b)' = Seen(p, b)
  BY <1>1, <1>2 DEF Seen, NoEntry, Entry
<1>10. \A r \in Procs \ {p, q}, b \in Addrs : Seen(r, b)' = Seen(r, b)
  BY <1>1 DEF Seen
<1>11. \A r \in Procs \ {q}, b \in Addrs : SeenMemory'[r][b] = SeenMemory[r][b]
  BY <1>9, <1>10, SeenArray
<1>12. /\ SeenMemory' = [SeenMemory EXCEPT ![q] = SeenMemory'[q]]
       /\ SeenMemory'[q] = [b \in Addrs |-> SeenMemory'[q][b]]
  BY <1>11, SeenArray, RowUpdate
<1>13. SeenMemory'[q] = SeenMemory[p]
  <2>1. \A b \in Addrs : SeenMemory'[q][b] = SeenMemory[p][b]
    BY <1>9, SeenArray
  <2>2. SeenMemory[p] = [b \in Addrs |-> SeenMemory[p][b]]
    BY SeenArray DEF IsArray
  <2>3. QED
    BY <1>12, <2>1, <2>2
<1>14. \A a \in Addrs : SeenMemory[q][a] = None
  BY <1>9, SeenArray
<1>15. QED
  BY <1>8, <1>12, <1>13, <1>14 DEF Abstract!CopyTo

-----------------------------------------------------------------------------
LEMMA InitPrivate == Init => PrivateInv /\ Abstract!AbsInit
<1>1. SUFFICES ASSUME Init PROVE PrivateInv /\ Abstract!AbsInit
  OBVIOUS
<1>2. \A p \in Procs, a \in Addrs : ~Private(p, a) /\ Seen(p, a) = None
  BY <1>1 DEF Init, Private, Seen, NoEntry, Entry
<1>3. PrivateInv
  <2>1. \A p \in Procs : pc[p] # "take"
    BY <1>1 DEF Init
  <2>2. QED
    BY <1>2, <2>1 DEF PrivateInv, ReadOnlyTogether, FlagFollowsTable, TakesAlone, PrivateNotPublic
<1>4. Abstract!AbsInit
  BY <1>2 DEF Abstract!AbsInit, SeenMemory
<1>5. QED
  BY <1>3, <1>4

\* Every step keeps what private memory rests on, and is a step of PrivateMemory or none.
LEMMA StepPrivate ==
    ASSUME PagesInv, PrivateInv, [Next]_vars
    PROVE  PrivateInv' /\ [Abstract!AbsNext]_SeenMemory
<1>1. CASE UNCHANGED vars \/ \E p \in Procs : Enter(p)
  <2>1. /\ UNCHANGED <<status, memorymap, pte, used, ref, objs, writable, cow, content>>
        /\ UNCHANGED <<sharedPages, anonPage, pc, fault>>
    BY <1>1 DEF vars, heap, Enter
  <2>2. /\ \A r \in Procs, b \in Addrs : Private(r, b)' <=> Private(r, b)
        /\ \A x : Public(x)' <=> Public(x)
        /\ \A r \in Procs, b \in Addrs : Seen(r, b)' = Seen(r, b)
    BY <2>1 DEF Private, Public, Seen
  <2>3. PrivateInv'
    BY <2>1, <2>2 DEF PrivateInv, ReadOnlyTogether, FlagFollowsTable, TakesAlone,
                      PrivateNotPublic, Private
  <2>4. SeenMemory' = SeenMemory
    BY <2>2 DEF SeenMemory
  <2>5. QED
    BY <2>3, <2>4
<1>2. ASSUME NEW p \in Procs, NEW a \in Addrs,
             \/ Munmap(p, a) \/ BadAccess(p, a)
             \/ \E kind \in Kinds : Mmap(p, a, kind)
             \/ \E v \in Vals : Write(p, a, v)
             \/ FaultPrivate(p, a) \/ FaultShared(p, a) \/ FaultCow(p, a)
             \/ FaultFile(p, a) \/ FaultFileCow(p, a)
      PROVE  PrivateInv' /\ [Abstract!AbsNext]_SeenMemory
  <2>1. \/ PrivateInv' /\ SeenMemory' = SeenMemory
        \/ PrivateInv' /\ Abstract!Unmap(p, a)
        \/ PrivateInv' /\ Abstract!Map(p, a)
        \/ \E v \in Vals : PrivateInv' /\ Abstract!Store(p, a, v)
    BY <1>2, SeeMunmap, QuietBadAccess, SeeMmap, SeeWrite, SeeFaultPrivate, QuietFaultShared,
       SeeFaultCow, QuietFaultFile, QuietFaultFileCow
  <2>2. QED
    BY <2>1 DEF Abstract!AbsNext
<1>3. ASSUME NEW p \in Procs, (\E q \in Procs : Fork(p, q)) \/ Exec(p) \/ Exit(p)
      PROVE  PrivateInv' /\ [Abstract!AbsNext]_SeenMemory
  BY <1>3, SeeFork, SeeExec, SeeExit DEF Abstract!AbsNext
<1>4. ASSUME NEW p \in Procs,
             \/ StoreShared(p) \/ MapShared(p) \/ Copy(p) \/ Unref(p) \/ Delete(p) \/ Take(p)
             \/ InsertFile(p) \/ CheckFile(p) \/ MapFile(p) \/ Steal(p) \/ Own(p)
      PROVE  PrivateInv' /\ [Abstract!AbsNext]_SeenMemory
  BY <1>4, QuietStoreShared, SeeMapShared, SeeCopy, QuietUnref, QuietDelete, SeeTake,
     QuietInsertFile, QuietCheckFile, SeeMapFile, QuietSteal, SeeOwn
<1>5. QED
  BY <1>1, <1>2, <1>3, <1>4 DEF Next, OnShared, OnOwn

\* Lazy zero pages, copy-on-write and writing in place when the count of a page says that
\* it has one mapping are invisible: what a process reads of its private memory is an array
\* of its own, whatever faults of other processes overlap, up to a race for a shared object
\* (process.cpp, handle_page_fault).
THEOREM RefinesPrivateMemory == Spec => ImplementsPrivateMemory
<1>1. Init => PagesInv /\ PrivateInv /\ Abstract!AbsInit
  BY InitPagesInv, InitPrivate
<1>2. PagesInv /\ PrivateInv /\ [Next]_vars =>
        PagesInv' /\ PrivateInv' /\ [Abstract!AbsNext]_SeenMemory
  BY StepPagesInv, StepPrivate
<1>3. QED
  BY <1>1, <1>2, PTL DEF Spec, ImplementsPrivateMemory, Abstract!AbsSpec

=============================================================================
