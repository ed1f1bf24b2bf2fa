----------------------------- MODULE VfsProofs ------------------------------
(***************************************************************************)
(* Proofs about Vfs, for any number of tasks, nodes, names and paths: the  *)
(* tree of nodes stays one although nothing is locked, and every iteration *)
(* of get_file() leaves less to do.                                        *)
(*                                                                         *)
(* TreeConsistent is far from inductive.  A mount erases the name of its   *)
(* location from the parent of the root it mounts, so it must be known     *)
(* that the location was never inside the filesystem being mounted: a walk *)
(* for the mount of f only comes to the initrd and to the filesystems that *)
(* are at "/" or whose mount() has returned (Reach), because ".." and the  *)
(* entries leave a filesystem only through a mounted root (FsStays), and   *)
(* that root is mounted where f is not needed to get there                 *)
(* (MountedWithin).  A created node has one creator and no parent until    *)
(* the creator sets it (Creators), a filesystem has one mounter            *)
(* (Mounters), and a name that a mount took out of a directory of the      *)
(* initrd is only ever taken again by another mounted root                 *)
(* (MountsReplace).                                                        *)
(***************************************************************************)
EXTENDS Vfs, SequenceTheorems, TLAPS

Roots == {RootOf[f] : f \in Fs}
VRoots == {RootOf[f] : f \in VNodeFs}
Frames == [root : Nodes, path : Seq(Comps), resolve_link : BOOLEAN, follow_links : BOOLEAN]

\* The calls in progress.
LookupCalls == [op : {"open", "symlink"}, path : Seq(Comps), start : Nodes,
                resolve : BOOLEAN, follow : BOOLEAN]
MountCalls == [op : {"mount"}, fs : VNodeFs, path : Seq(Comps), start : Nodes,
               resolve : BOOLEAN, follow : BOOLEAN]
AddCalls == [op : {"add"}, dir : Nodes, rest : Seq(Names) \ {<<>>}]
CreateCalls == [op : {"create"}, dir : Nodes, new : Nodes, rest : Seq(Names)]
Calls == {Idle} \cup LookupCalls \cup MountCalls \cup AddCalls \cup CreateCalls

Places == {"idle", "walk", "return", "make", "create", "insert", "adopt",
           "erase", "rename", "attach", "halted"}

Shape ==
    /\ f_rootNode \in Roots
    /\ kind \in [Nodes -> Kinds \cup {Null}]
    /\ filesystem \in [Nodes -> Fs \cup {Null}]
    /\ name \in [Nodes -> Names \cup {""}]
    /\ dest \in [Nodes -> Seq(Comps)]
    /\ f_parent \in [Nodes -> Nodes \cup {Null}]
    /\ f_children \in [Nodes -> [Names -> Nodes \cup {Null}]]
    /\ pc \in [Task -> Places]
    /\ call \in [Task -> Calls]
    /\ stack \in [Task -> Seq(Frames)]
    /\ found \in [Task -> Nodes \cup Errors \cup {Null}]

IsMount(t) == call[t].op = "mount"

\* What a task is doing fits its call.
CallsFit ==
    \A t \in Task :
        /\ pc[t] = "idle" => call[t] = Idle /\ found[t] = Null
        /\ pc[t] \in {"walk", "return"} => call[t] \in LookupCalls \cup MountCalls
        /\ pc[t] = "walk" => stack[t] # <<>>
        /\ pc[t] \in {"make", "create"} => call[t] \in AddCalls
        /\ pc[t] \in {"insert", "adopt"} => call[t] \in CreateCalls
        /\ pc[t] \in {"erase", "rename", "attach", "halted"} =>
              call[t] \in MountCalls /\ found[t] \in Nodes

\* The roots are directories of their filesystems, and only nodes that were made are in
\* the tree.
NodesMade ==
    /\ \A f \in Fs : kind[RootOf[f]] = "dir" /\ filesystem[RootOf[f]] = f
    /\ \A n \in Nodes :
          /\ (kind[n] = Null) <=> (filesystem[n] = Null)
          /\ f_parent[n] # Null => kind[n] # Null /\ kind[f_parent[n]] # Null
          /\ \A c \in Names : f_children[n][c] # Null =>
                kind[n] # Null /\ kind[f_children[n][c]] # Null

\* The root of g is in the tree and its mount() has returned.
Attached(g) == f_parent[RootOf[g]] # Null /\ ~Mounting(g)

\* ".." and the entries stay within a filesystem, but for the mounted roots.
FsStays ==
    /\ \A n \in Nodes \ VRoots : f_parent[n] # Null =>
          name[n] \in Names /\ filesystem[f_parent[n]] = filesystem[n]
    /\ \A d \in Nodes, c \in Names : f_children[d][c] # Null =>
          \/ f_children[d][c] \notin VRoots /\ filesystem[f_children[d][c]] = filesystem[d]
          \/ \E g \in VNodeFs : f_children[d][c] = RootOf[g] /\ Attached(g)

Creating(t) == pc[t] \in {"insert", "adopt"}

\* A node that is being put into the tree has one creator, and no parent until then.
Creators ==
    /\ \A t \in Task : Creating(t) =>
          /\ call[t].new \notin Roots /\ kind[call[t].new] # Null /\ kind[call[t].dir] # Null
          /\ name[call[t].new] \in Names /\ f_parent[call[t].new] = Null
          /\ filesystem[call[t].dir] \in VNodeFs
          /\ filesystem[call[t].new] = filesystem[call[t].dir]
    /\ \A t, u \in Task : Creating(t) /\ Creating(u) /\ call[t].new = call[u].new => t = u
    /\ \A t \in Task : pc[t] \in {"make", "create"} => filesystem[call[t].dir] \in VNodeFs

\* A filesystem is being mounted by one task; it is nowhere in the tree until mount()
\* takes the parent of the location.
Mounters ==
    /\ \A t, u \in Task : IsMount(t) /\ IsMount(u) /\ call[t].fs = call[u].fs => t = u
    /\ \A t \in Task : IsMount(t) =>
          /\ f_rootNode # RootOf[call[t].fs]
          /\ (f_parent[RootOf[call[t].fs]] = Null) <=> (pc[t] \in {"walk", "return", "halted"})
    /\ \A f \in VNodeFs : f_rootNode = RootOf[f] => f_parent[f_rootNode] = Null

\* The filesystem can be walked: it is at "/", or its mount() has returned.
Entered(g) == f_rootNode = RootOf[g] \/ Attached(g)

\* A node that a walk for the mount of f can come to.
Reach(f, n) ==
    /\ kind[n] # Null
    /\ \/ filesystem[n] = "initrd"
       \/ \E g \in VNodeFs \ {f} : filesystem[n] = g /\ Entered(g)

\* The nodes t holds while it looks for a location.
Holds(t, n) == found[t] = n \/ \E i \in 1..Len(stack[t]) : stack[t][i].root = n

\* mount() never finds a node of the filesystem it mounts.
MountWalks ==
    \A t \in Task, f \in VNodeFs, n \in Nodes :
        IsMount(t) /\ call[t].fs = f /\ Holds(t, n) => Reach(f, n)

\* Where a filesystem is mounted can be walked without it.
MountedWithin ==
    \A g \in VNodeFs, p \in Nodes : f_parent[RootOf[g]] = p => Reach(g, p)

\* The location a mount replaces leads nowhere, or to another mounted root, once its
\* entry is taken out; the mounted root gets its name.
MountsReplace ==
    /\ \A t \in Task : pc[t] \in {"erase", "rename", "attach"} =>
          /\ name[found[t]] \in Names
          /\ pc[t] # "erase" /\ filesystem[f_parent[RootOf[call[t].fs]]] = "initrd" =>
                f_children[f_parent[RootOf[call[t].fs]]][name[found[t]]] \in VRoots \cup {Null}
          /\ pc[t] = "attach" => name[RootOf[call[t].fs]] = name[found[t]]
    /\ \A g \in VNodeFs : Attached(g) => name[RootOf[g]] \in Names

\* MountsStay, said of the parent p and the name c of the root.
RootsStay ==
    \A g \in VNodeFs, p \in Nodes, c \in Names :
        /\ f_parent[RootOf[g]] = p /\ name[RootOf[g]] = c
        /\ filesystem[p] = "initrd" /\ ~Mounting(g)
        => f_children[p][c] \in VRoots \/ Replacing(p, c)

IInv == /\ Shape /\ CallsFit /\ NodesMade /\ FsStays /\ Creators /\ Mounters
        /\ MountWalks /\ MountedWithin /\ MountsReplace
        /\ EntriesConsistent /\ RootsStay

\* The steps of t leave the other tasks alone.
KeepOthers(t) ==
    \A u \in Task \ {t} : /\ pc'[u] = pc[u] /\ call'[u] = call[u]
                          /\ stack'[u] = stack[u] /\ found'[u] = found[u]

\* The calls of t before and after a step mount the same filesystem, or none.
SameMount(t) ==
    /\ call'[t].op = "mount" <=> call[t].op = "mount"
    /\ call[t].op = "mount" => call'[t].fs = call[t].fs

\* Where a task neither has a node of its own to insert nor has taken a location's parent.
Aside == {"idle", "walk", "return", "make", "create", "halted"}

\* The call of a task says what it is doing, and which fields it has.
LEMMA CallKinds ==
    ASSUME NEW c
    PROVE  /\ c = Idle => c.op # "mount"
           /\ c \in LookupCalls => c.op # "mount" /\ c.op \in {"open", "symlink"}
           /\ c \in MountCalls => c.op = "mount" /\ c.fs \in VNodeFs
           /\ c \in AddCalls => c.op # "mount" /\ c.dir \in Nodes /\ c.rest \in Seq(Names) /\ c.rest # <<>>
           /\ c \in CreateCalls => c.op # "mount" /\ c.dir \in Nodes /\ c.new \in Nodes
                                   /\ c.rest \in Seq(Names)
           /\ c \in Calls /\ c.op = "mount" => c \in MountCalls
  BY DEF Idle, LookupCalls, MountCalls, AddCalls, CreateCalls, Calls

\* The types of the state, at each node and each task.
LEMMA Types ==
    ASSUME IInv
    PROVE  /\ \A n \in Nodes : /\ kind[n] \in Kinds \cup {Null} /\ filesystem[n] \in Fs \cup {Null}
                               /\ name[n] \in Names \cup {""} /\ f_parent[n] \in Nodes \cup {Null}
                               /\ dest[n] \in Seq(Comps)
           /\ \A n \in Nodes, c \in Names : f_children[n][c] \in Nodes \cup {Null}
           /\ \A t \in Task : /\ call[t] \in Calls /\ stack[t] \in Seq(Frames)
                              /\ found[t] \in Nodes \cup Errors \cup {Null}
           /\ f_rootNode \in Roots
<1>1. \A n \in Nodes : /\ kind[n] \in Kinds \cup {Null} /\ filesystem[n] \in Fs \cup {Null}
                       /\ name[n] \in Names \cup {""} /\ f_parent[n] \in Nodes \cup {Null}
                       /\ dest[n] \in Seq(Comps)
  BY DEF IInv, Shape
<1>2. \A n \in Nodes, c \in Names : f_children[n][c] \in Nodes \cup {Null}
  <2>1. f_children \in [Nodes -> [Names -> Nodes \cup {Null}]]
    BY DEF IInv, Shape
  <2>2. ASSUME NEW n \in Nodes PROVE f_children[n] \in [Names -> Nodes \cup {Null}]
    BY <2>1
  <2>3. QED
    BY <2>2
<1>3. \A t \in Task : /\ call[t] \in Calls /\ stack[t] \in Seq(Frames)
                      /\ found[t] \in Nodes \cup Errors \cup {Null}
  BY DEF IInv, Shape
<1>4. QED
  BY <1>1, <1>2, <1>3 DEF IInv, Shape

\* Entries lead to nodes that were made.
LEMMA EntryFacts ==
    ASSUME IInv, NEW d \in Nodes, NEW c \in Names, f_children[d][c] # Null
    PROVE  f_children[d][c] \in Nodes /\ kind[d] # Null /\ kind[f_children[d][c]] # Null
<1>1. f_children[d][c] \in Nodes
  BY Types
<1>2. kind[d] # Null /\ kind[f_children[d][c]] # Null
  BY DEF IInv, NodesMade
<1>3. QED
  BY <1>1, <1>2

\* A parent is a node that was made.
LEMMA ParentFacts ==
    ASSUME IInv, NEW n \in Nodes, f_parent[n] # Null
    PROVE  f_parent[n] \in Nodes /\ kind[n] # Null /\ kind[f_parent[n]] # Null
  BY Types DEF IInv, NodesMade

\* The roots are different nodes, and none of devfs or sysfs is the one of the initrd.
LEMMA RootFacts ==
    /\ Roots = {RootOf[f] : f \in Fs} /\ VRoots = {RootOf[f] : f \in VNodeFs}
    /\ "initrd" \in Fs /\ "initrd" \notin VNodeFs
    /\ \A f \in VNodeFs : f \in Fs /\ f # "initrd" /\ RootOf[f] \in Nodes
    /\ \A f \in Fs : RootOf[f] \in Nodes /\ (f = "initrd" \/ f \in VNodeFs)
    /\ \A f, g \in Fs : RootOf[f] = RootOf[g] => f = g
    /\ Roots \subseteq Nodes /\ VRoots \subseteq Roots
    /\ RootOf["initrd"] \notin VRoots
    /\ Null \notin Nodes /\ Null \notin Kinds /\ Null \notin Fs
    /\ Errors \cap Nodes = {}
<1>1. RootOf \in [Fs -> Nodes] /\ "initrd" \in Fs /\ \A f, g \in Fs : RootOf[f] = RootOf[g] => f = g
  BY VfsAssumption
<1>2. Null \notin Nodes /\ Null \notin Kinds /\ Null \notin Fs /\ Null \notin Errors
  BY VfsAssumption
<1>3. Errors \cap Nodes = {}
  BY VfsAssumption
<1>4. VNodeFs = Fs \ {"initrd"}
  BY DEF VNodeFs
<1>5. RootOf["initrd"] \notin VRoots
  BY <1>1, <1>4 DEF VRoots
<1>6. Roots \subseteq Nodes /\ VRoots \subseteq Roots
  BY <1>1, <1>4 DEF VRoots, Roots
<1>7. Roots = {RootOf[f] : f \in Fs} /\ VRoots = {RootOf[f] : f \in VNodeFs}
  BY DEF Roots, VRoots
<1>8. QED
  BY <1>1, <1>2, <1>3, <1>4, <1>5, <1>6, <1>7

\* A step that leaves the set of mounts alone.
LEMMA MountingSame ==
    ASSUME NEW t \in Task, KeepOthers(t), SameMount(t)
    PROVE  /\ \A u \in Task : IsMount(u)' <=> IsMount(u)
           /\ \A u \in Task : IsMount(u) => call'[u].fs = call[u].fs
           /\ \A f : Mounting(f)' <=> Mounting(f)
  BY DEF KeepOthers, SameMount, IsMount, Mounting

\* The walks of the other tasks go on as they were.
LEMMA OthersHold ==
    ASSUME NEW t \in Task, KeepOthers(t)
    PROVE  \A u \in Task \ {t} : \A n : Holds(u, n)' <=> Holds(u, n)
  BY DEF KeepOthers, Holds

-----------------------------------------------------------------------------
(* Steps that read the tree only *)

\* A step of a task that has nothing to insert or to replace keeps the entries as they are.
LEMMA AsideKeepsEntries ==
    ASSUME NEW t \in Task, UNCHANGED tree, KeepOthers(t), NodesMade, EntriesConsistent,
           pc[t] \in Aside
    PROVE  NodesMade' /\ EntriesConsistent'
<1>1. NodesMade'
  BY DEF NodesMade, tree
<1>2. EntriesConsistent'
  <2> SUFFICES ASSUME NEW d \in Nodes, NEW c \in Names, f_children'[d][c] # Null
               PROVE  /\ name'[f_children'[d][c]] = c
                      /\ \/ f_parent'[f_children'[d][c]] = d
                         \/ \E u \in Task : pc'[u] = "adopt" /\ call'[u].new = f_children'[d][c]
                                             /\ call'[u].dir = d
    BY DEF EntriesConsistent
  <2>1. /\ name[f_children[d][c]] = c
        /\ \/ f_parent[f_children[d][c]] = d
           \/ \E u \in Task : pc[u] = "adopt" /\ call[u].new = f_children[d][c] /\ call[u].dir = d
    BY DEF EntriesConsistent, tree
  <2>2. ASSUME NEW u \in Task, pc[u] = "adopt" PROVE pc'[u] = "adopt" /\ call'[u] = call[u]
    BY <2>2 DEF KeepOthers, Aside
  <2>3. QED
    BY <2>1, <2>2 DEF tree
<1>3. QED
  BY <1>1, <1>2

\* A step of t that keeps its mount, if it has one.
LEMMA AsideKeepsMounts ==
    ASSUME NEW t \in Task, UNCHANGED tree, KeepOthers(t), SameMount(t), IInv,
           pc[t] \in Aside, pc'[t] \in Aside, 
           IsMount(t) => (pc[t] \in {"walk", "return", "halted"} /\ pc'[t] \in {"walk", "return", "halted"})
    PROVE  FsStays' /\ Mounters' /\ MountedWithin' /\ MountsReplace' /\ RootsStay'
<1>0. /\ \A u \in Task : IsMount(u)' <=> IsMount(u)
      /\ \A u \in Task : IsMount(u) => call'[u].fs = call[u].fs
      /\ \A f : Mounting(f)' <=> Mounting(f)
  BY MountingSame
<1>1. \A f : Attached(f)' <=> Attached(f)
  BY <1>0 DEF Attached, tree
<1>2. FsStays'
  BY <1>1 DEF FsStays, IInv, tree
<1>3. Mounters'
  BY <1>0 DEF Mounters, IInv, tree, KeepOthers
<1>4. \A f, n : Reach(f, n)' <=> Reach(f, n)
  BY <1>1 DEF Reach, Entered, tree
<1>5. MountedWithin'
  BY <1>4 DEF MountedWithin, IInv, tree
<1>6. ASSUME NEW u \in Task, pc[u] \in {"erase", "rename", "attach"} \/ pc'[u] \in {"erase", "rename", "attach"}
      PROVE  pc'[u] = pc[u] /\ call'[u] = call[u] /\ found'[u] = found[u]
  BY <1>6 DEF KeepOthers, Aside
<1>7. MountsReplace'
  BY <1>6, <1>1 DEF MountsReplace, IInv, tree
<1>8. \A d, c : Replacing(d, c)' <=> Replacing(d, c)
  BY <1>6 DEF Replacing, tree
<1>9. RootsStay'
  BY <1>8, <1>0 DEF RootsStay, IInv, tree
<1>10. QED
  BY <1>2, <1>3, <1>5, <1>7, <1>9

\* The creators are other tasks.
LEMMA AsideKeepsCreators ==
    ASSUME NEW t \in Task, UNCHANGED tree, KeepOthers(t), Creators,
           pc[t] \in Aside, pc'[t] \in Aside,
           pc'[t] \in {"make", "create"} => filesystem[call'[t].dir] \in VNodeFs
    PROVE  Creators'
<1>1. ASSUME NEW u \in Task, Creating(u)' PROVE Creating(u) /\ call'[u] = call[u]
  BY <1>1 DEF Creating, Aside, KeepOthers
<1>2. ASSUME NEW u \in Task, pc'[u] \in {"make", "create"} PROVE filesystem[call'[u].dir] \in VNodeFs
  BY <1>2 DEF Creators, KeepOthers
<1>3. QED
  BY <1>1, <1>2 DEF Creators, tree

-----------------------------------------------------------------------------
(* The walk *)

\* A node that the walk of t may be at.
Good(t, n) == n \in Nodes /\ (IsMount(t) => Reach(call[t].fs, n))

\* What a step of a walk leaves.
Walked(t) ==
    /\ pc' \in [Task -> Places] /\ pc'[t] \in {"walk", "return"}
    /\ stack' \in [Task -> Seq(Frames)] /\ (pc'[t] = "walk" => stack'[t] # <<>>)
    /\ found' \in [Task -> Nodes \cup Errors \cup {Null}]
    /\ \A u \in Task \ {t} : pc'[u] = pc[u] /\ stack'[u] = stack[u] /\ found'[u] = found[u]
    /\ \A i \in 1..Len(stack'[t]) : Good(t, stack'[t][i].root)
    /\ found'[t] \in Nodes => Good(t, found'[t])

\* Where a walk is: the frame on top.
LEMMA TopFrame ==
    ASSUME IInv, NEW t \in Task, pc[t] = "walk"
    PROVE  /\ stack[t] \in Seq(Frames) /\ stack[t] # <<>> /\ Len(stack[t]) \in Nat \ {0}
           /\ Top(t) = stack[t][Len(stack[t])]
           /\ Top(t) \in Frames /\ Top(t).root \in Nodes /\ Top(t).path \in Seq(Comps)
           /\ Top(t).resolve_link \in BOOLEAN /\ Top(t).follow_links \in BOOLEAN
           /\ \A i \in 1..Len(stack[t]) : Good(t, stack[t][i].root)
           /\ found[t] \in Nodes => Good(t, found[t])
<1>0. IsMount(t) => call[t].fs \in VNodeFs
  BY CallKinds, Types DEF IsMount
<1>1. stack[t] \in Seq(Frames) /\ stack[t] # <<>>
  BY DEF IInv, Shape, CallsFit
<1>2. Len(stack[t]) \in Nat \ {0} /\ Top(t) = stack[t][Len(stack[t])] /\ Top(t) \in Frames
  BY <1>1 DEF Top, Last
<1>3. \A i \in 1..Len(stack[t]) : Good(t, stack[t][i].root)
  <2> SUFFICES ASSUME NEW i \in 1..Len(stack[t]) PROVE Good(t, stack[t][i].root)
    OBVIOUS
  <2>1. stack[t][i] \in Frames
    BY <1>1
  <2>2. stack[t][i].root \in Nodes
    BY <2>1 DEF Frames
  <2>3. QED
    BY <1>0, <2>2 DEF Good, IInv, MountWalks, Holds
<1>4. found[t] \in Nodes => Good(t, found[t])
  BY <1>0 DEF Good, IInv, MountWalks, Holds
<1>5. QED
  BY <1>1, <1>2, <1>3, <1>4 DEF Frames

\* A walk that fails holds nothing any more.
LEMMA FailWalks ==
    ASSUME IInv, NEW t \in Task, pc[t] = "walk", NEW e \in Errors, Fail(t, e)
    PROVE  Walked(t)
<1>1. /\ pc' \in [Task -> Places] /\ pc'[t] = "return" /\ \A u \in Task \ {t} : pc'[u] = pc[u]
  BY DEF Fail, IInv, Shape, Places
<1>a. <<>> \in Seq(Frames)
  OBVIOUS
<1>2. /\ stack' \in [Task -> Seq(Frames)] /\ stack'[t] = <<>> /\ \A u \in Task \ {t} : stack'[u] = stack[u]
  BY <1>a DEF Fail, IInv, Shape
<1>3. /\ found' \in [Task -> Nodes \cup Errors \cup {Null}] /\ found'[t] = e
      /\ \A u \in Task \ {t} : found'[u] = found[u]
  BY DEF Fail, IInv, Shape
<1>4. e \notin Nodes
  BY RootFacts
<1>5. QED
  BY <1>1, <1>2, <1>3, <1>4 DEF Walked

\* A walk that goes on comes to a node that a mount may come to.
LEMMA GoOnWalks ==
    ASSUME IInv, NEW t \in Task, pc[t] = "walk", NEW n, Good(t, n),
           NEW path \in Seq(Comps), GoOn(t, n, path)
    PROVE  Walked(t)
<1>0. /\ stack[t] \in Seq(Frames) /\ Len(stack[t]) \in Nat \ {0}
      /\ \A i \in 1..Len(stack[t]) : Good(t, stack[t][i].root)
      /\ found[t] \in Nodes => Good(t, found[t])
  BY TopFrame
<1> DEFINE top == [Last(stack[t]) EXCEPT !.root = n, !.path = path]
           low == Front(stack[t])
<1>a. Last(stack[t]) \in Frames
  BY <1>0 DEF Last
<1>1. top \in Frames /\ top.root = n
  BY <1>a DEF Frames, Good
<1>2. /\ low \in Seq(Frames) /\ Len(low) = Len(stack[t]) - 1
      /\ \A i \in 1..Len(low) : low[i] = stack[t][i]
  BY <1>0 DEF Front
<1> HIDE DEF top, low
<1>3. /\ Append(low, top) \in Seq(Frames) /\ Len(Append(low, top)) = Len(stack[t])
      /\ \A i \in 1..Len(stack[t]) : Append(low, top)[i] = IF i = Len(stack[t]) THEN top ELSE stack[t][i]
  BY <1>0, <1>1, <1>2
<1>4. /\ stack' \in [Task -> Seq(Frames)] /\ stack'[t] = Append(low, top)
      /\ \A u \in Task \ {t} : stack'[u] = stack[u]
  BY <1>3 DEF GoOn, IInv, Shape, top, low
<1>5. \A i \in 1..Len(stack'[t]) : Good(t, stack'[t][i].root)
  BY <1>0, <1>1, <1>3, <1>4
<1>6. stack'[t] # <<>>
  BY <1>0, <1>3, <1>4
<1>7. QED
  BY <1>0, <1>4, <1>5, <1>6 DEF Walked, GoOn, IInv, Shape

\* "/" and the directory of a link can be reached.
LEMMA StartGood ==
    ASSUME IInv, NEW t \in Task, IsMount(t) => pc[t] # "idle", NEW n \in Nodes \cup {Null}, n # Null => Good(t, n)
    PROVE  Good(t, StartAt(n))
<1>1. Good(t, f_rootNode)
  <2>1. PICK f \in Fs : f_rootNode = RootOf[f]
    BY DEF IInv, Shape, Roots
  <2>2. f_rootNode \in Nodes /\ kind[f_rootNode] # Null /\ filesystem[f_rootNode] = f
    BY <2>1, RootFacts DEF IInv, NodesMade, Kinds
  <2>3. IsMount(t) => f # call[t].fs
    BY <2>1 DEF IInv, Mounters
  <2>a. f = "initrd" \/ f \in VNodeFs
    BY RootFacts
  <2>4. QED
    BY <2>1, <2>2, <2>3, <2>a DEF Good, Reach, Entered
<1>2. QED
  BY <1>1 DEF StartAt

\* A node's parent and its entries can be reached from it.
LEMMA NextGood ==
    ASSUME IInv, NEW t \in Task, IsMount(t) => pc[t] = "walk" \/ pc[t] = "return", NEW n, Good(t, n)
    PROVE  /\ f_parent[n] # Null => Good(t, f_parent[n])
           /\ \A c \in Names : f_children[n][c] # Null => Good(t, f_children[n][c])
<1>1. ASSUME f_parent[n] # Null PROVE Good(t, f_parent[n])
  <2>a. n \in Nodes /\ f_parent \in [Nodes -> Nodes \cup {Null}] /\ NodesMade
    BY DEF Good, IInv, Shape
  <2>1. f_parent[n] \in Nodes /\ n \in Nodes /\ kind[f_parent[n]] # Null
    BY <1>1, <2>a DEF NodesMade
  <2> SUFFICES ASSUME IsMount(t) PROVE Reach(call[t].fs, f_parent[n])
    BY <2>1 DEF Good
  <2>2. Reach(call[t].fs, n)
    BY DEF Good
  <2>3. CASE n \notin VRoots
    BY <2>1, <2>2, <2>3, <1>1 DEF IInv, FsStays, Reach
  <2>4. CASE n \in VRoots
    <3>1. PICK g \in VNodeFs : n = RootOf[g]
      BY <2>4 DEF VRoots
    <3>2. Reach(g, f_parent[n])
      BY <3>1, <1>1, <2>1 DEF IInv, MountedWithin
    <3>3. f_rootNode # RootOf[call[t].fs] /\ Mounting(call[t].fs)
      BY DEF IInv, Mounters, Mounting, IsMount
    <3>4. ~Entered(call[t].fs)
      BY <3>3 DEF Entered, Attached
    <3>5. call[t].fs # "initrd"
      BY CallKinds, RootFacts DEF IInv, Shape, IsMount
    <3>6. QED
      BY <3>2, <3>4, <3>5 DEF Reach
  <2>5. QED
    BY <2>3, <2>4
<1>2. ASSUME NEW c \in Names, f_children[n][c] # Null PROVE Good(t, f_children[n][c])
  <2> DEFINE m == f_children[n][c]
  <2>a. n \in Nodes /\ f_children \in [Nodes -> [Names -> Nodes \cup {Null}]] /\ NodesMade
    BY DEF Good, IInv, Shape
  <2>1. m \in Nodes /\ n \in Nodes /\ kind[m] # Null
    BY <1>2, <2>a DEF NodesMade
  <2> SUFFICES ASSUME IsMount(t) PROVE Reach(call[t].fs, m)
    BY <2>1 DEF Good
  <2>2. Reach(call[t].fs, n)
    BY DEF Good
  <2>3. CASE m \notin VRoots
    <3>1. filesystem[m] = filesystem[n]
      BY <2>1, <2>3, <1>2 DEF IInv, FsStays, VRoots
    <3>2. QED
      BY <3>1, <2>1, <2>2 DEF Reach
  <2>4. CASE m \in VRoots
    <3>1. PICK g \in VNodeFs : m = RootOf[g] /\ Attached(g)
      BY <2>1, <2>4, <1>2 DEF IInv, FsStays
    <3>2. filesystem[m] = g
      BY <3>1, RootFacts DEF IInv, NodesMade
    <3>3. g # call[t].fs
      BY <3>1 DEF Attached, Mounting, IsMount
    <3>4. QED
      BY <2>1, <3>1, <3>2, <3>3 DEF Reach, Entered
  <2>5. QED
    BY <2>3, <2>4
<1>3. QED
  BY <1>1, <1>2

\* A link is resolved from its directory, or from "/".
LEMMA ResolveWalks ==
    ASSUME IInv, NEW t \in Task, pc[t] = "walk", NEW n, Good(t, n), ResolveLink(t, n)
    PROVE  Walked(t)
<1>0. /\ stack[t] \in Seq(Frames) /\ Len(stack[t]) \in Nat \ {0}
      /\ \A i \in 1..Len(stack[t]) : Good(t, stack[t][i].root)
      /\ found[t] \in Nodes => Good(t, found[t])
  BY TopFrame
<1>1. CASE \E e \in Errors : Fail(t, e)
  BY <1>1, FailWalks
<1>2. CASE /\ stack' = [stack EXCEPT ![t] = Append(@, Frame(f_parent[n], dest[n], TRUE, TRUE))]
           /\ UNCHANGED <<pc, found>>
  <2> DEFINE f == Frame(f_parent[n], dest[n], TRUE, TRUE)
  <2>1. n \in Nodes /\ f_parent[n] \in Nodes \cup {Null} /\ dest[n] \in Seq(Comps)
    BY DEF Good, IInv, Shape
  <2>2. Good(t, StartAt(f_parent[n]))
    BY <2>1, NextGood, StartGood
  <2>3. f \in Frames /\ f.root = StartAt(f_parent[n])
    BY <2>1, <2>2 DEF Frame, Frames, Good
  <2> HIDE DEF f
  <2>a. Append(stack[t], f) \in Seq(Frames)
    BY <1>0, <2>3
  <2>4. /\ stack' \in [Task -> Seq(Frames)] /\ stack'[t] = Append(stack[t], f)
        /\ \A u \in Task \ {t} : stack'[u] = stack[u]
    BY <1>2, <2>a DEF IInv, Shape, f
  <2>5. /\ Len(stack'[t]) = Len(stack[t]) + 1
        /\ \A i \in 1..Len(stack'[t]) : stack'[t][i] = IF i = Len(stack[t]) + 1 THEN f ELSE stack[t][i]
    BY <1>0, <2>3, <2>4
  <2>6. \A i \in 1..Len(stack'[t]) : Good(t, stack'[t][i].root)
    BY <1>0, <2>5, <2>2, <2>3
  <2>7. stack'[t] # <<>>
    BY <1>0, <2>5
  <2>8. QED
    BY <1>0, <1>2, <2>4, <2>6, <2>7 DEF Walked, IInv, Shape
<1>3. QED
  BY <1>1, <1>2 DEF ResolveLink, Errors

\* The node a walk ends at is handed on.
LEMMA EndWalks ==
    ASSUME IInv, NEW t \in Task, pc[t] = "walk", WalkEnd(t)
    PROVE  Walked(t)
<1>0. /\ stack[t] \in Seq(Frames) /\ Len(stack[t]) \in Nat \ {0}
      /\ \A i \in 1..Len(stack[t]) : Good(t, stack[t][i].root)
      /\ Top(t) = stack[t][Len(stack[t])] /\ Top(t) \in Frames
      /\ found[t] \in Nodes => Good(t, found[t])
  BY TopFrame
<1>1. Good(t, Top(t).root)
  BY <1>0
<1>2. CASE Len(stack[t]) = 1
  <2>1. /\ found' = [found EXCEPT ![t] = Top(t).root]
        /\ stack' = [stack EXCEPT ![t] = <<>>] /\ pc' = [pc EXCEPT ![t] = "return"]
    BY <1>2 DEF WalkEnd
  <2>2. pc' \in [Task -> Places] /\ pc'[t] = "return" /\ \A u \in Task \ {t} : pc'[u] = pc[u]
    BY <2>1 DEF IInv, Shape, Places
  <2>a. <<>> \in Seq(Frames)
    OBVIOUS
  <2>3. stack' \in [Task -> Seq(Frames)] /\ stack'[t] = <<>> /\ \A u \in Task \ {t} : stack'[u] = stack[u]
    BY <2>1, <2>a DEF IInv, Shape
  <2>4. /\ found' \in [Task -> Nodes \cup Errors \cup {Null}] /\ found'[t] = Top(t).root
        /\ \A u \in Task \ {t} : found'[u] = found[u]
    BY <2>1, <1>1 DEF IInv, Shape, Good
  <2>5. QED
    BY <1>1, <2>2, <2>3, <2>4 DEF Walked
<1>3. CASE Len(stack[t]) # 1
  <2> DEFINE outer == Front(stack[t])
             low == Front(outer)
             top == [Last(outer) EXCEPT !.root = Top(t).root]
             k == Len(stack[t]) - 1
  <2>1. stack' = [stack EXCEPT ![t] = Append(low, top)] /\ UNCHANGED <<pc, found>>
    BY <1>3 DEF WalkEnd
  <2>2. k \in Nat \ {0}
    BY <1>0, <1>3
  <2>3. outer \in Seq(Frames) /\ Len(outer) = k /\ \A i \in 1..k : outer[i] = stack[t][i]
    BY <1>0, <2>2 DEF Front
  <2> HIDE DEF outer, k
  <2>a. Last(outer) \in Frames
    BY <2>2, <2>3 DEF Last
  <2>4. top \in Frames /\ top.root = Top(t).root
    BY <2>a, <1>1 DEF Frames, Good
  <2>5. low \in Seq(Frames) /\ Len(low) = k - 1 /\ \A i \in 1..(k - 1) : low[i] = outer[i]
    BY <2>2, <2>3 DEF Front
  <2> HIDE DEF low, top
  <2>6. /\ Append(low, top) \in Seq(Frames) /\ Len(Append(low, top)) = k
        /\ \A i \in 1..k : Append(low, top)[i] = IF i = k THEN top ELSE stack[t][i]
    BY <2>2, <2>3, <2>4, <2>5
  <2>7. /\ stack' \in [Task -> Seq(Frames)] /\ stack'[t] = Append(low, top)
        /\ \A u \in Task \ {t} : stack'[u] = stack[u]
    BY <2>1, <2>6 DEF IInv, Shape
  <2>8. \A i \in 1..k : i \in 1..Len(stack[t])
    BY <2>2, <1>0 DEF k
  <2>9. \A i \in 1..Len(stack'[t]) : Good(t, stack'[t][i].root)
    BY <1>0, <1>1, <2>2, <2>4, <2>6, <2>7, <2>8
  <2>10. stack'[t] # <<>>
    BY <2>2, <2>6, <2>7
  <2>11. QED
    BY <1>0, <2>1, <2>7, <2>9, <2>10 DEF Walked, IInv, Shape
<1>4. QED
  BY <1>2, <1>3

\* The walk at a link.
LEMMA LinkWalks ==
    ASSUME IInv, NEW t \in Task, pc[t] = "walk", WalkLink(t)
    PROVE  Walked(t)
<1>1. Good(t, Top(t).root)
  BY TopFrame
<1>2. Fail(t, "ELOOP") \/ ResolveLink(t, Top(t).root)
  BY DEF WalkLink
<1>3. QED
  BY <1>1, <1>2, FailWalks, ResolveWalks DEF Errors

\* The walk of one component: a child, a parent or the node itself.
LEMMA ComponentWalks ==
    ASSUME IInv, NEW t \in Task, pc[t] = "walk", WalkComponent(t)
    PROVE  Walked(t)
<1> DEFINE f == Top(t)
           part == Head(f.path)
<1>0. f.path \in Seq(Comps) /\ f.path # <<>>
  BY TopFrame DEF WalkComponent
<1>1. part \in Comps /\ Tail(f.path) \in Seq(Comps)
  BY <1>0
<1>2. Good(t, f.root)
  BY TopFrame
<1>3. \/ Fail(t, "ENOTDIR") \/ Fail(t, "ENOENT")
      \/ GoOn(t, f.root, Tail(f.path))
      \/ f_parent[f.root] # Null /\ GoOn(t, f_parent[f.root], Tail(f.path))
      \/ part \notin {"", ".", ".."} /\ f_children[f.root][part] # Null
         /\ GoOn(t, f_children[f.root][part], Tail(f.path))
  BY DEF WalkComponent
<1>4. CASE Fail(t, "ENOTDIR") \/ Fail(t, "ENOENT")
  BY <1>4, FailWalks DEF Errors
<1>5. CASE GoOn(t, f.root, Tail(f.path))
  <2> HIDE DEF f
  <2>1. QED
    BY <1>1, <1>2, <1>5, GoOnWalks
<1>6. CASE f_parent[f.root] # Null /\ GoOn(t, f_parent[f.root], Tail(f.path))
  <2> HIDE DEF f
  <2>1. Good(t, f_parent[f.root])
    BY <1>2, <1>6, NextGood
  <2>2. QED
    BY <1>1, <2>1, <1>6, GoOnWalks
<1>7. CASE part \notin {"", ".", ".."} /\ f_children[f.root][part] # Null
         /\ GoOn(t, f_children[f.root][part], Tail(f.path))
  <2>0. part \in Names
    BY <1>1, <1>7 DEF Comps
  <2> HIDE DEF f, part
  <2>1. Good(t, f_children[f.root][part])
    BY <2>0, <1>2, <1>7, NextGood
  <2>2. QED
    BY <1>1, <2>1, <1>7, GoOnWalks
<1>8. QED
  BY <1>3, <1>4, <1>5, <1>6, <1>7

\* Each action keeps the invariant: get_file(),
LEMMA WalkIInv == ASSUME IInv, NEW t \in Task, Walk(t) PROVE IInv'
<1>0. pc[t] = "walk" /\ UNCHANGED tree /\ UNCHANGED call
  BY DEF Walk
<1>1. Walked(t)
  BY <1>0, LinkWalks, ComponentWalks, EndWalks DEF Walk
<1>2. KeepOthers(t) /\ SameMount(t)
  BY <1>0, <1>1 DEF KeepOthers, SameMount, Walked
<1>3. pc[t] \in Aside /\ pc'[t] \in Aside /\ pc'[t] \in {"walk", "return"}
  BY <1>0, <1>1 DEF Aside, Walked
<1>4. Shape'
  <2>1. /\ pc' \in [Task -> Places] /\ stack' \in [Task -> Seq(Frames)]
        /\ found' \in [Task -> Nodes \cup Errors \cup {Null}]
    BY <1>1 DEF Walked
  <2>2. QED
    BY <1>0, <2>1 DEF IInv, Shape, tree
<1>5. CallsFit'
  BY <1>0, <1>1 DEF IInv, CallsFit, Walked
<1>6. NodesMade' /\ EntriesConsistent'
  BY <1>0, <1>2, <1>3, AsideKeepsEntries DEF IInv
<1>7. FsStays' /\ Mounters' /\ MountedWithin' /\ MountsReplace' /\ RootsStay'
  BY <1>0, <1>2, <1>3, AsideKeepsMounts
<1>8. Creators'
  BY <1>0, <1>2, <1>3, AsideKeepsCreators DEF IInv
<1>9. MountWalks'
  <2>1. \A f, n : Reach(f, n)' <=> Reach(f, n)
    BY <1>0, <1>2, MountingSame DEF Reach, Entered, Attached, tree
  <2> SUFFICES ASSUME NEW u \in Task, NEW f \in VNodeFs, NEW n \in Nodes,
                      IsMount(u), call[u].fs = f, Holds(u, n)'
               PROVE  Reach(f, n)
    BY <1>0, <2>1 DEF MountWalks, IsMount
  <2>2. CASE u = t
    BY <2>2, <1>1 DEF Walked, Good, Holds
  <2>3. CASE u # t
    BY <2>3, <1>2, OthersHold DEF IInv, MountWalks
  <2>4. QED
    BY <2>2, <2>3
<1>10. QED
  BY <1>4, <1>5, <1>6, <1>7, <1>8, <1>9 DEF IInv

-----------------------------------------------------------------------------
(* Calls that change nothing but the task *)

\* A step of a task that mounts nothing and only reads the tree.
LEMMA AsideStep ==
    ASSUME IInv, NEW t \in Task, UNCHANGED tree, KeepOthers(t),
           pc[t] \in Aside, pc'[t] \in Aside, ~IsMount(t), ~IsMount(t)', Shape', CallsFit',
           pc'[t] \in {"make", "create"} => filesystem[call'[t].dir] \in VNodeFs
    PROVE  IInv'
<1>1. SameMount(t)
  BY DEF SameMount, IsMount
<1>2. NodesMade' /\ EntriesConsistent'
  BY AsideKeepsEntries DEF IInv
<1>3. FsStays' /\ Mounters' /\ MountedWithin' /\ MountsReplace' /\ RootsStay'
  BY <1>1, AsideKeepsMounts
<1>4. Creators'
  BY AsideKeepsCreators DEF IInv
<1>5. MountWalks'
  <2>1. \A f, n : Reach(f, n)' <=> Reach(f, n)
    BY <1>1, MountingSame DEF Reach, Entered, Attached, tree
  <2>2. ASSUME NEW u \in Task, NEW f \in VNodeFs, NEW n \in Nodes,
               IsMount(u)', call'[u].fs = f, Holds(u, n)'
        PROVE  Reach(f, n)
    <3>1. u # t
      BY <2>2
    <3>2. IsMount(u) /\ call[u].fs = f /\ Holds(u, n)
      BY <2>2, <3>1, OthersHold DEF KeepOthers, IsMount
    <3>3. QED
      BY <3>2 DEF IInv, MountWalks
  <2>3. QED
    BY <2>1, <2>2 DEF MountWalks
<1>6. QED
  BY <1>2, <1>3, <1>4, <1>5 DEF IInv

\* The first frame of a walk.
LEMMA FirstFrame ==
    ASSUME IInv, NEW t \in Task, NEW n \in Nodes \cup {Null}, NEW path \in Seq(Comps),
           NEW r \in BOOLEAN, NEW f \in BOOLEAN, GetFile(t, n, path, r, f)
    PROVE  /\ StartAt(n) \in Nodes
           /\ pc' \in [Task -> Places] /\ pc'[t] = "walk" /\ \A u \in Task \ {t} : pc'[u] = pc[u]
           /\ stack' \in [Task -> Seq(Frames)] /\ stack'[t] # <<>>
           /\ Len(stack'[t]) = 1 /\ stack'[t][1].root = StartAt(n)
           /\ \A u \in Task \ {t} : stack'[u] = stack[u]
<1>1. StartAt(n) \in Nodes
  BY RootFacts DEF StartAt, IInv, Shape
<1>2. pc' \in [Task -> Places] /\ pc'[t] = "walk" /\ \A u \in Task \ {t} : pc'[u] = pc[u]
  BY DEF GetFile, IInv, Shape, Places
<1>3. Frame(n, path, r, f) \in Frames /\ Frame(n, path, r, f).root = StartAt(n)
  BY <1>1 DEF Frame, Frames
<1>4. <<Frame(n, path, r, f)>> \in Seq(Frames)
  BY <1>3
<1>5. /\ stack' \in [Task -> Seq(Frames)] /\ stack'[t] = <<Frame(n, path, r, f)>>
      /\ \A u \in Task \ {t} : stack'[u] = stack[u]
  BY <1>4 DEF GetFile, IInv, Shape
<1>6. QED
  BY <1>1, <1>2, <1>3, <1>5

\* A task whose call ends.
LEMMA FinishEffect ==
    ASSUME IInv, NEW t \in Task, Finish(t)
    PROVE  /\ pc' \in [Task -> Places] /\ pc'[t] = "idle" /\ \A u \in Task \ {t} : pc'[u] = pc[u]
           /\ call' \in [Task -> Calls] /\ call'[t] = Idle /\ \A u \in Task \ {t} : call'[u] = call[u]
           /\ found' \in [Task -> Nodes \cup Errors \cup {Null}] /\ found'[t] = Null
           /\ \A u \in Task \ {t} : found'[u] = found[u]
<1>1. pc' \in [Task -> Places] /\ pc'[t] = "idle" /\ \A u \in Task \ {t} : pc'[u] = pc[u]
  BY DEF Finish, IInv, Shape, Places
<1>2. call' \in [Task -> Calls] /\ call'[t] = Idle /\ \A u \in Task \ {t} : call'[u] = call[u]
  BY DEF Finish, IInv, Shape, Calls
<1>3. /\ found' \in [Task -> Nodes \cup Errors \cup {Null}] /\ found'[t] = Null
      /\ \A u \in Task \ {t} : found'[u] = found[u]
  BY DEF Finish, IInv, Shape
<1>4. QED
  BY <1>1, <1>2, <1>3

\* A task that mounts nothing gives up or returns.
LEMMA FinishIInv ==
    ASSUME IInv, NEW t \in Task, Finish(t), UNCHANGED <<tree, stack>>, pc[t] \in Aside, ~IsMount(t)
    PROVE  IInv'
<1>0. /\ pc' \in [Task -> Places] /\ pc'[t] = "idle" /\ \A u \in Task \ {t} : pc'[u] = pc[u]
      /\ call' \in [Task -> Calls] /\ call'[t] = Idle /\ \A u \in Task \ {t} : call'[u] = call[u]
      /\ found' \in [Task -> Nodes \cup Errors \cup {Null}] /\ found'[t] = Null
      /\ \A u \in Task \ {t} : found'[u] = found[u]
  BY FinishEffect
<1>1. Shape'
  BY <1>0 DEF IInv, Shape, tree
<1>2. CallsFit'
  BY <1>0 DEF IInv, CallsFit
<1>3. KeepOthers(t) /\ pc'[t] \in Aside /\ ~IsMount(t)' /\ UNCHANGED tree
  BY <1>0, CallKinds DEF KeepOthers, Aside, IsMount, tree
<1>4. QED
  BY <1>0, <1>1, <1>2, <1>3, AsideStep

\* openat() and symlinkat() start to walk.
LEMMA LookupIInv ==
    ASSUME IInv, NEW t \in Task, pc[t] = "idle", NEW n \in Nodes \cup {Null}, NEW path \in Seq(Comps),
           NEW r \in BOOLEAN, NEW f \in BOOLEAN, GetFile(t, n, path, r, f),
           NEW o \in {"open", "symlink"},
           call' = [call EXCEPT ![t] = [op |-> o, path |-> path, start |-> StartAt(n),
                                        resolve |-> r, follow |-> f]],
           UNCHANGED <<tree, found>>
    PROVE  IInv'
<1>0. /\ StartAt(n) \in Nodes
      /\ pc' \in [Task -> Places] /\ pc'[t] = "walk" /\ \A u \in Task \ {t} : pc'[u] = pc[u]
      /\ stack' \in [Task -> Seq(Frames)] /\ stack'[t] # <<>>
      /\ \A u \in Task \ {t} : stack'[u] = stack[u]
  BY FirstFrame
<1>1. [op |-> o, path |-> path, start |-> StartAt(n), resolve |-> r, follow |-> f] \in LookupCalls
  BY <1>0 DEF LookupCalls
<1>2. call' \in [Task -> Calls] /\ call'[t] \in LookupCalls /\ \A u \in Task \ {t} : call'[u] = call[u]
  BY <1>1 DEF IInv, Shape, Calls
<1>3. Shape'
  BY <1>0, <1>2 DEF IInv, Shape, tree
<1>4. CallsFit'
  BY <1>0, <1>2 DEF IInv, CallsFit
<1>5. KeepOthers(t) /\ pc[t] \in Aside /\ pc'[t] \in Aside /\ UNCHANGED tree
  BY <1>0, <1>2 DEF KeepOthers, Aside, tree
<1>6. ~IsMount(t) /\ ~IsMount(t)'
  BY <1>2, CallKinds DEF IsMount, IInv, CallsFit
<1>7. QED
  BY <1>0, <1>3, <1>4, <1>5, <1>6, AsideStep

\* openat(),
LEMMA OpenatIInv == ASSUME IInv, NEW t \in Task, Openat(t) PROVE IInv'
<1>1. PICK path \in OpenPaths, start \in {Null} \cup HeldDirs,
           flags \in {<<TRUE, TRUE>>, <<FALSE, TRUE>>, <<FALSE, FALSE>>} :
            /\ call' = [call EXCEPT ![t] = [op |-> "open", path |-> path, start |-> StartAt(start),
                                            resolve |-> flags[1], follow |-> flags[2]]]
            /\ GetFile(t, start, path, flags[1], flags[2])
  BY DEF Openat
<1>2. path \in Seq(Comps) /\ start \in Nodes \cup {Null}
  BY VfsAssumption
<1>3. flags[1] \in BOOLEAN /\ flags[2] \in BOOLEAN
  <2>1. flags = <<TRUE, TRUE>> \/ flags = <<FALSE, TRUE>> \/ flags = <<FALSE, FALSE>>
    OBVIOUS
  <2>2. CASE flags = <<TRUE, TRUE>>
    BY <2>2
  <2>3. CASE flags = <<FALSE, TRUE>>
    BY <2>3
  <2>4. CASE flags = <<FALSE, FALSE>>
    BY <2>4
  <2>5. QED
    BY <2>1, <2>2, <2>3, <2>4, Zenon
<1>4. pc[t] = "idle" /\ UNCHANGED <<tree, found>>
  BY DEF Openat
<1>5. QED
  BY <1>1, <1>2, <1>3, <1>4, LookupIInv

\* symlinkat(),
LEMMA SymlinkatIInv == ASSUME IInv, NEW t \in Task, Symlinkat(t) PROVE IInv'
<1>1. PICK path \in DirPaths, start \in {Null} \cup HeldDirs :
            /\ call' = [call EXCEPT ![t] = [op |-> "symlink", path |-> path, start |-> StartAt(start),
                                            resolve |-> TRUE, follow |-> TRUE]]
            /\ GetFile(t, start, path, TRUE, TRUE)
  BY DEF Symlinkat
<1>2. path \in Seq(Comps) /\ start \in Nodes \cup {Null}
  BY VfsAssumption
<1>3. pc[t] = "idle" /\ UNCHANGED <<tree, found>>
  BY DEF Symlinkat
<1>4. QED
  BY <1>1, <1>2, <1>3, LookupIInv

\* the return of openat(),
LEMMA OpenReturnIInv == ASSUME IInv, NEW t \in Task, OpenReturn(t) PROVE IInv'
<1>1. pc[t] \in Aside /\ ~IsMount(t) /\ Finish(t) /\ UNCHANGED <<tree, stack>>
  BY DEF OpenReturn, Aside, IsMount
<1>2. QED
  BY <1>1, FinishIInv

\* a module that adds a path,
LEMMA AddIInv == ASSUME IInv, NEW t \in Task, Add(t) PROVE IInv'
<1>1. PICK f \in VNodeFs, path \in AddPaths :
            call' = [call EXCEPT ![t] = [op |-> "add", dir |-> RootOf[f], rest |-> path]]
  BY DEF Add
<1>2. [op |-> "add", dir |-> RootOf[f], rest |-> path] \in AddCalls
  BY RootFacts, VfsAssumption DEF AddCalls
<1>3. /\ call' \in [Task -> Calls] /\ call'[t] \in AddCalls /\ call'[t].dir = RootOf[f]
      /\ \A u \in Task \ {t} : call'[u] = call[u]
  BY <1>1, <1>2 DEF IInv, Shape, Calls
<1>4. pc' \in [Task -> Places] /\ pc'[t] = "make" /\ \A u \in Task \ {t} : pc'[u] = pc[u]
  BY DEF Add, IInv, Shape, Places
<1>5. pc[t] = "idle" /\ UNCHANGED <<tree, stack, found>>
  BY DEF Add
<1>6. Shape'
  BY <1>3, <1>4, <1>5 DEF IInv, Shape, tree
<1>7. CallsFit'
  BY <1>3, <1>4, <1>5 DEF IInv, CallsFit
<1>8. KeepOthers(t) /\ pc[t] \in Aside /\ pc'[t] \in Aside /\ UNCHANGED tree
  BY <1>3, <1>4, <1>5 DEF KeepOthers, Aside, tree
<1>9. ~IsMount(t) /\ ~IsMount(t)'
  BY <1>3, <1>5, CallKinds DEF IsMount, IInv, CallsFit
<1>10. filesystem[call'[t].dir] \in VNodeFs
  BY <1>3, RootFacts DEF IInv, NodesMade
<1>11. QED
  BY <1>6, <1>7, <1>8, <1>9, <1>10, AsideStep

\* the directories before the file name,
LEMMA MakePathIInv == ASSUME IInv, NEW t \in Task, MakePath(t) PROVE IInv'
<1> DEFINE dir == call[t].dir
           rest == call[t].rest
           next == f_children[dir][Head(rest)]
<1>0. pc[t] = "make" /\ UNCHANGED tree /\ UNCHANGED stack
  BY DEF MakePath
<1>1. /\ call[t] \in AddCalls /\ ~IsMount(t) /\ dir \in Nodes /\ rest \in Seq(Names) /\ rest # <<>>
      /\ filesystem[dir] \in VNodeFs
  BY <1>0, CallKinds DEF IInv, CallsFit, Creators, IsMount
<1>2. Head(rest) \in Names /\ Tail(rest) \in Seq(Names)
  BY <1>1
<1>3. CASE Finish(t)
  <2>1. pc[t] \in Aside /\ UNCHANGED <<tree, stack>>
    BY <1>0 DEF Aside
  <2>2. QED
    BY <2>1, <1>1, <1>3, FinishIInv
<1>4. CASE pc' = [pc EXCEPT ![t] = "create"] /\ UNCHANGED <<call, found>>
  <2>1. pc' \in [Task -> Places] /\ pc'[t] = "create" /\ \A u \in Task \ {t} : pc'[u] = pc[u]
    BY <1>4 DEF IInv, Shape, Places
  <2>2. Shape'
    BY <2>1, <1>0, <1>4 DEF IInv, Shape, tree
  <2>3. CallsFit'
    BY <2>1, <1>0, <1>1, <1>4 DEF IInv, CallsFit
  <2>4. KeepOthers(t) /\ pc[t] \in Aside /\ pc'[t] \in Aside /\ UNCHANGED tree /\ ~IsMount(t)'
    BY <1>0, <1>1, <1>4, <2>1 DEF KeepOthers, Aside, tree, IsMount
  <2>5. QED
    BY <1>1, <1>4, <2>2, <2>3, <2>4, AsideStep
<1>5. CASE /\ ~(Len(rest) = 1 \/ (kind[dir] = "dir" /\ next = Null)) /\ kind[dir] = "dir"
           /\ call' = [call EXCEPT ![t] = [op |-> "add", dir |-> next, rest |-> Tail(@.rest)]]
           /\ UNCHANGED <<pc, found>>
  <2>1. next \in Nodes /\ next # Null
    <3>1. f_children \in [Nodes -> [Names -> Nodes \cup {Null}]]
      BY DEF IInv, Shape
    <3>2. QED
      BY <1>1, <1>2, <1>5, <3>1
  <2>2. Tail(rest) # <<>>
    <3>1. rest \in Seq(Names) /\ rest # <<>> /\ Len(rest) # 1
      BY <1>1, <1>5
    <3> HIDE DEF rest
    <3>2. Len(rest) \in Nat /\ Len(rest) # 0
      BY <3>1
    <3>3. Tail(rest) \in Seq(Names) /\ Len(Tail(rest)) = Len(rest) - 1
      BY <3>1
    <3>4. Len(Tail(rest)) # 0
      BY <3>1, <3>2, <3>3
    <3>5. Len(<<>>) = 0
      OBVIOUS
    <3>6. QED
      BY <3>4, <3>5
  <2>3. filesystem[next] \in VNodeFs
    <3>1. CASE next \notin VRoots
      BY <3>1, <1>1, <1>2, <2>1 DEF IInv, FsStays, VRoots
    <3>2. CASE next \in VRoots
      BY <3>2, RootFacts DEF VRoots, IInv, NodesMade
    <3>3. QED
      BY <3>1, <3>2
  <2> DEFINE c == [op |-> "add", dir |-> next, rest |-> Tail(rest)]
  <2>5. c \in AddCalls
    BY <1>2, <2>1, <2>2 DEF AddCalls
  <2> HIDE DEF next
  <2>6. call' = [call EXCEPT ![t] = c]
    BY <1>5
  <2>7. /\ call' \in [Task -> Calls] /\ call'[t] = c /\ call'[t] \in AddCalls
        /\ \A u \in Task \ {t} : call'[u] = call[u]
    BY <2>5, <2>6 DEF IInv, Shape, Calls
  <2>8. Shape'
    BY <2>7, <1>0, <1>5 DEF IInv, Shape, tree
  <2>9. CallsFit'
    BY <2>7, <1>0, <1>5 DEF IInv, CallsFit
  <2>10. KeepOthers(t) /\ pc[t] \in Aside /\ pc'[t] \in Aside /\ UNCHANGED tree
    BY <1>0, <1>5, <2>7 DEF KeepOthers, Aside, tree
  <2>11. ~IsMount(t)'
    BY <2>7, CallKinds DEF IsMount
  <2>12. filesystem[call'[t].dir] \in VNodeFs
    BY <2>7, <2>3
  <2>13. QED
    BY <1>1, <2>8, <2>9, <2>10, <2>11, <2>12, AsideStep
<1>6. QED
  BY <1>0, <1>3, <1>4, <1>5 DEF MakePath

-----------------------------------------------------------------------------
(* The creation of nodes *)

\* A node not made yet is nowhere.
LEMMA FreshFacts ==
    ASSUME IInv, NEW n \in Nodes, kind[n] = Null
    PROVE  /\ n \notin Roots /\ n \notin VRoots /\ f_parent[n] = Null
           /\ \A d \in Nodes : f_parent[d] # n
           /\ \A d \in Nodes, c \in Names : f_children[d][c] # n
           /\ \A u \in Task : Creating(u) => call[u].new # n /\ call[u].dir # n
           /\ \A u \in Task : pc[u] \in {"make", "create"} => call[u].dir # n
           /\ \A f : ~Reach(f, n)
<1>0. n # Null
  BY RootFacts
<1>1. n \notin Roots /\ n \notin VRoots
  <2>1. \A f \in Fs : kind[RootOf[f]] # Null
    BY RootFacts DEF IInv, NodesMade, Kinds
  <2>2. QED
    BY <2>1, RootFacts DEF Roots
<1>2. f_parent[n] = Null /\ \A d \in Nodes : f_parent[d] # n
  BY <1>0 DEF IInv, NodesMade
<1>3. \A d \in Nodes, c \in Names : f_children[d][c] # n
  BY <1>0 DEF IInv, NodesMade
<1>4. \A u \in Task : Creating(u) => call[u].new # n /\ call[u].dir # n
  BY DEF IInv, Creators
<1>5. filesystem[n] = Null /\ Null \notin VNodeFs
  BY RootFacts DEF IInv, NodesMade
<1>6. \A u \in Task : pc[u] \in {"make", "create"} => call[u].dir # n
  BY <1>5 DEF IInv, Creators
<1>7. \A f : ~Reach(f, n)
  BY DEF Reach
<1>8. QED
  BY <1>1, <1>2, <1>3, <1>4, <1>6, <1>7

\* A new node is in nobody's directory and belongs to its creator.
LEMMA MakeNodeIInv ==
    ASSUME IInv, NEW t \in Task, pc[t] \in Aside, ~IsMount(t),
           NEW n \in Nodes, kind[n] = Null, NEW dir \in Nodes, filesystem[dir] \in VNodeFs,
           NEW k \in Kinds, NEW nm \in Names, NEW ds \in Seq(Comps),
           MakeNode(t, n, filesystem[dir], k, nm, ds), NEW rest \in Seq(Names),
           call' = [call EXCEPT ![t] = [op |-> "create", dir |-> dir, new |-> n, rest |-> rest]],
           UNCHANGED stack, found' \in {found, [found EXCEPT ![t] = Null]}
    PROVE  IInv'
<1> DEFINE f == filesystem[dir]
<1>0. /\ n \notin Roots /\ n \notin VRoots /\ f_parent[n] = Null
      /\ \A d \in Nodes : f_parent[d] # n
      /\ \A d \in Nodes, c \in Names : f_children[d][c] # n
      /\ \A u \in Task : Creating(u) => call[u].new # n /\ call[u].dir # n
      /\ \A u \in Task : pc[u] \in {"make", "create"} => call[u].dir # n
  BY FreshFacts
<1>1. /\ kind' = [kind EXCEPT ![n] = k] /\ filesystem' = [filesystem EXCEPT ![n] = f]
      /\ name' = [name EXCEPT ![n] = nm] /\ dest' = [dest EXCEPT ![n] = ds]
      /\ pc' = [pc EXCEPT ![t] = "insert"]
      /\ UNCHANGED <<f_rootNode, f_parent, f_children>>
  BY DEF MakeNode
<1>2. /\ kind' \in [Nodes -> Kinds \cup {Null}] /\ kind'[n] = k /\ k # Null
      /\ filesystem' \in [Nodes -> Fs \cup {Null}] /\ filesystem'[n] = f /\ f \in Fs /\ f # Null
      /\ name' \in [Nodes -> Names \cup {""}] /\ name'[n] = nm
      /\ \A m \in Nodes \ {n} : kind'[m] = kind[m] /\ filesystem'[m] = filesystem[m] /\ name'[m] = name[m]
  BY <1>1, RootFacts DEF IInv, Shape
<1>3. dest' \in [Nodes -> Seq(Comps)]
  BY <1>1 DEF IInv, Shape
<1>4. pc' \in [Task -> Places] /\ pc'[t] = "insert" /\ \A u \in Task \ {t} : pc'[u] = pc[u]
  BY <1>1 DEF IInv, Shape, Places
<1>5. [op |-> "create", dir |-> dir, new |-> n, rest |-> rest] \in CreateCalls
  BY DEF CreateCalls
<1>6. /\ call' \in [Task -> Calls] /\ call'[t] \in CreateCalls /\ call'[t].new = n /\ call'[t].dir = dir
      /\ \A u \in Task \ {t} : call'[u] = call[u]
  BY <1>5 DEF IInv, Shape, Calls
<1>7. /\ found' \in [Task -> Nodes \cup Errors \cup {Null}] /\ \A u \in Task \ {t} : found'[u] = found[u]
  BY DEF IInv, Shape
<1>8. KeepOthers(t) /\ SameMount(t) /\ ~IsMount(t)'
  BY <1>4, <1>6, <1>7, CallKinds DEF KeepOthers, SameMount, IsMount
<1>9. dir # n /\ kind[dir] # Null
  <2>1. Null \notin VNodeFs
    BY RootFacts
  <2>2. kind[dir] # Null
    BY <2>1 DEF IInv, NodesMade
  <2>3. QED
    BY <2>2
<1> HIDE DEF f
<1>10. Shape'
  BY <1>1, <1>2, <1>3, <1>4, <1>6, <1>7 DEF IInv, Shape
<1>11. CallsFit'
  BY <1>4, <1>6, <1>7 DEF IInv, CallsFit
<1>12. /\ \A u \in Task : IsMount(u)' <=> IsMount(u)
       /\ \A u \in Task : IsMount(u) => call'[u].fs = call[u].fs
       /\ \A g : Mounting(g)' <=> Mounting(g)
  BY <1>8, MountingSame
<1>13. \A g : Attached(g)' <=> Attached(g)
  BY <1>1, <1>12 DEF Attached
<1>14. NodesMade'
  <2>1. \A g \in Fs : kind'[RootOf[g]] = "dir" /\ filesystem'[RootOf[g]] = g
    <3>1. \A g \in Fs : RootOf[g] \in Nodes \ {n}
      BY <1>0, RootFacts
    <3>2. \A g \in Fs : kind[RootOf[g]] = "dir" /\ filesystem[RootOf[g]] = g
      BY DEF IInv, NodesMade
    <3>3. QED
      BY <3>1, <3>2, <1>2
  <2>2. ASSUME NEW m \in Nodes PROVE (kind'[m] = Null) <=> (filesystem'[m] = Null)
    BY <1>2 DEF IInv, NodesMade
  <2>3. ASSUME NEW m \in Nodes PROVE kind[m] # Null => kind'[m] # Null
    BY <1>2
  <2>4. ASSUME NEW m \in Nodes, f_parent[m] # Null PROVE kind'[m] # Null /\ kind'[f_parent[m]] # Null
    BY <2>3, <2>4, ParentFacts
  <2>5. ASSUME NEW m \in Nodes, NEW c \in Names, f_children[m][c] # Null
        PROVE  kind'[m] # Null /\ kind'[f_children[m][c]] # Null
    <3>1. f_children[m][c] \in Nodes /\ kind[m] # Null /\ kind[f_children[m][c]] # Null
      BY <2>5, EntryFacts
    <3>2. QED
      BY <3>1, <2>3
  <2>6. QED
    BY <1>1, <2>1, <2>2, <2>4, <2>5 DEF NodesMade
<1>15. FsStays'
  <2>1. ASSUME NEW m \in Nodes \ VRoots, f_parent[m] # Null
        PROVE  name'[m] \in Names /\ filesystem'[f_parent[m]] = filesystem'[m]
    <3>1. m # n /\ f_parent[m] # n /\ f_parent[m] \in Nodes
      BY <1>0, <2>1, ParentFacts
    <3>2. QED
      BY <3>1, <2>1, <1>2 DEF IInv, FsStays
  <2>2. ASSUME NEW d \in Nodes, NEW c \in Names, f_children[d][c] # Null
        PROVE  \/ f_children[d][c] \notin VRoots /\ filesystem'[f_children[d][c]] = filesystem'[d]
               \/ \E g \in VNodeFs : f_children[d][c] = RootOf[g] /\ Attached(g)
    <3>1. f_children[d][c] # n /\ d # n /\ f_children[d][c] \in Nodes
      BY <1>0, <2>2, EntryFacts
    <3>2. QED
      <4>1. \/ f_children[d][c] \notin VRoots /\ filesystem[f_children[d][c]] = filesystem[d]
            \/ \E g \in VNodeFs : f_children[d][c] = RootOf[g] /\ Attached(g)
        BY <2>2 DEF IInv, FsStays
      <4>2. filesystem'[f_children[d][c]] = filesystem[f_children[d][c]] /\ filesystem'[d] = filesystem[d]
        BY <3>1, <1>2
      <4>3. QED
        BY <4>1, <4>2
  <2>3. QED
    BY <2>1, <2>2, <1>1, <1>13 DEF FsStays
<1>16. EntriesConsistent'
  <2> SUFFICES ASSUME NEW d \in Nodes, NEW c \in Names, f_children[d][c] # Null
               PROVE  /\ name'[f_children[d][c]] = c
                      /\ \/ f_parent[f_children[d][c]] = d
                         \/ \E u \in Task : pc'[u] = "adopt" /\ call'[u].new = f_children[d][c]
                                             /\ call'[u].dir = d
    BY <1>1 DEF EntriesConsistent
  <2>1. f_children[d][c] # n /\ f_children[d][c] \in Nodes
    BY <1>0, EntryFacts
  <2>2. ASSUME NEW u \in Task, pc[u] = "adopt" PROVE pc'[u] = "adopt" /\ call'[u] = call[u]
    BY <2>2, <1>4, <1>6 DEF Aside
  <2>3. /\ name[f_children[d][c]] = c
        /\ \/ f_parent[f_children[d][c]] = d
           \/ \E u \in Task : pc[u] = "adopt" /\ call[u].new = f_children[d][c] /\ call[u].dir = d
    BY DEF IInv, EntriesConsistent
  <2>4. name'[f_children[d][c]] = name[f_children[d][c]]
    BY <2>1, <1>2
  <2>5. QED
    BY <2>2, <2>3, <2>4
<1>17. Creators'
  <2>1. ASSUME NEW u \in Task, Creating(u)', u # t
        PROVE  Creating(u) /\ call'[u] = call[u] /\ call[u].new # n /\ call[u].dir # n
                /\ call[u].new \in Nodes /\ call[u].dir \in Nodes
    BY <2>1, <1>0, <1>4, <1>6, CallKinds DEF Creating, IInv, CallsFit
  <2>2. ASSUME NEW u \in Task, Creating(u)'
        PROVE  /\ call'[u].new \notin Roots /\ kind'[call'[u].new] # Null /\ kind'[call'[u].dir] # Null
               /\ name'[call'[u].new] \in Names /\ f_parent[call'[u].new] = Null
               /\ filesystem'[call'[u].dir] \in VNodeFs
               /\ filesystem'[call'[u].new] = filesystem'[call'[u].dir]
    <3>1. CASE u = t
      BY <3>1, <1>0, <1>2, <1>6, <1>9 DEF f
    <3>2. CASE u # t
      <4>1. Creating(u) /\ call'[u] = call[u] /\ call[u].new \in Nodes \ {n} /\ call[u].dir \in Nodes \ {n}
        BY <3>2, <2>1, <2>2
      <4>2. /\ call[u].new \notin Roots /\ kind[call[u].new] # Null /\ kind[call[u].dir] # Null
            /\ name[call[u].new] \in Names /\ f_parent[call[u].new] = Null
            /\ filesystem[call[u].dir] \in VNodeFs
            /\ filesystem[call[u].new] = filesystem[call[u].dir]
        BY <4>1 DEF IInv, Creators
      <4>3. QED
        BY <4>1, <4>2, <1>2
    <3>3. QED
      BY <3>1, <3>2
  <2>3. ASSUME NEW u \in Task, NEW w \in Task, Creating(u)', Creating(w)', call'[u].new = call'[w].new
        PROVE  u = w
    BY <2>1, <2>3, <1>6 DEF IInv, Creators
  <2>4. ASSUME NEW u \in Task, pc'[u] \in {"make", "create"} PROVE filesystem'[call'[u].dir] \in VNodeFs
    <3>1. u # t /\ pc[u] \in {"make", "create"} /\ call'[u] = call[u]
      BY <2>4, <1>4, <1>6
    <3>2. call[u].dir \in Nodes /\ call[u].dir # n
      BY <3>1, <1>0, CallKinds DEF IInv, CallsFit
    <3>3. QED
      <4>1. filesystem[call[u].dir] \in VNodeFs
        BY <3>1 DEF IInv, Creators
      <4>2. filesystem'[call[u].dir] = filesystem[call[u].dir]
        BY <3>2, <1>2
      <4>3. QED
        BY <3>1, <4>1, <4>2
  <2>5. QED
    BY <2>2, <2>3, <2>4, <1>1 DEF Creators
<1>18. Mounters'
  BY <1>1, <1>4, <1>8, <1>12 DEF IInv, Mounters, KeepOthers
<1>19. ASSUME NEW g, NEW m \in Nodes, Reach(g, m) PROVE Reach(g, m)'
  <2>1. m # n
    BY <1>19 DEF Reach
  <2>2. QED
    BY <2>1, <1>19, <1>1, <1>2, <1>13 DEF Reach, Entered
<1>20. MountWalks'
  <2> SUFFICES ASSUME NEW u \in Task, NEW g \in VNodeFs, NEW m \in Nodes,
                      IsMount(u)', call'[u].fs = g, Holds(u, m)'
               PROVE  Reach(g, m)'
    BY DEF MountWalks
  <2>1. u # t /\ IsMount(u) /\ call[u].fs = g
    BY <1>8, <1>12
  <2>2. Holds(u, m)
    BY <2>1, <1>8, OthersHold
  <2>3. Reach(g, m)
    BY <2>1, <2>2 DEF IInv, MountWalks
  <2>4. QED
    BY <2>3, <1>19
<1>21. MountedWithin'
  BY <1>1, <1>19 DEF IInv, MountedWithin
<1>22. ASSUME NEW u \in Task, pc'[u] \in {"erase", "rename", "attach"} \/ pc[u] \in {"erase", "rename", "attach"}
       PROVE  /\ pc[u] = pc'[u] /\ call'[u] = call[u] /\ found'[u] = found[u]
              /\ found[u] \in Nodes /\ found[u] # n /\ name'[found[u]] = name[found[u]]
              /\ call[u].fs \in VNodeFs /\ RootOf[call[u].fs] # n /\ RootOf[call[u].fs] \in Nodes
              /\ f_parent[RootOf[call[u].fs]] \in Nodes /\ f_parent[RootOf[call[u].fs]] # n
  <2>1. u # t /\ pc[u] = pc'[u] /\ call'[u] = call[u] /\ found'[u] = found[u]
    BY <1>4, <1>8, <1>22 DEF KeepOthers, Aside
  <2>2. call[u] \in MountCalls /\ found[u] \in Nodes /\ IsMount(u) /\ call[u].fs \in VNodeFs
    BY <2>1, <1>22, CallKinds DEF IInv, CallsFit, IsMount
  <2>3. Reach(call[u].fs, found[u])
    BY <2>2 DEF IInv, MountWalks, Holds
  <2>4. found[u] # n
    BY <2>3 DEF Reach
  <2>5. RootOf[call[u].fs] \in Nodes /\ RootOf[call[u].fs] # n
    BY <2>2, <1>0, RootFacts DEF VRoots
  <2>6. f_parent[RootOf[call[u].fs]] # Null
    BY <2>1, <2>2, <1>22 DEF IInv, Mounters
  <2>7. f_parent[RootOf[call[u].fs]] \in Nodes /\ f_parent[RootOf[call[u].fs]] # n
    BY <2>5, <2>6, <1>0, ParentFacts
  <2>8. QED
    BY <2>1, <2>2, <2>4, <2>5, <2>7, <1>2
<1>23. ASSUME NEW g \in VNodeFs PROVE RootOf[g] \in Nodes /\ name'[RootOf[g]] = name[RootOf[g]]
  <2>1. RootOf[g] \in Nodes \ {n}
    BY <1>0, RootFacts
  <2>2. QED
    BY <2>1, <1>2
<1>24. MountsReplace'
  <2>1. ASSUME NEW u \in Task, pc'[u] \in {"erase", "rename", "attach"}
        PROVE  /\ name'[found'[u]] \in Names
               /\ pc'[u] # "erase" /\ filesystem'[f_parent[RootOf[call'[u].fs]]] = "initrd" =>
                     f_children[f_parent[RootOf[call'[u].fs]]][name'[found'[u]]] \in VRoots \cup {Null}
               /\ pc'[u] = "attach" => name'[RootOf[call'[u].fs]] = name'[found'[u]]
    <3> DEFINE p == f_parent[RootOf[call[u].fs]]
    <3>1. /\ pc[u] = pc'[u] /\ call'[u] = call[u] /\ found'[u] = found[u]
          /\ name'[found[u]] = name[found[u]] /\ call[u].fs \in VNodeFs
          /\ p \in Nodes \ {n}
      BY <2>1, <1>22
    <3>2. filesystem'[p] = filesystem[p] /\ name'[RootOf[call[u].fs]] = name[RootOf[call[u].fs]]
      BY <3>1, <1>2, <1>23
    <3>3. /\ name[found[u]] \in Names
          /\ pc[u] # "erase" /\ filesystem[p] = "initrd" =>
                f_children[p][name[found[u]]] \in VRoots \cup {Null}
          /\ pc[u] = "attach" => name[RootOf[call[u].fs]] = name[found[u]]
      BY <2>1, <3>1 DEF IInv, MountsReplace
    <3>4. QED
      BY <3>1, <3>2, <3>3
  <2>2. \A g \in VNodeFs : Attached(g)' => name'[RootOf[g]] \in Names
    BY <1>13, <1>23 DEF IInv, MountsReplace
  <2>3. QED
    BY <2>1, <2>2, <1>1 DEF MountsReplace
<1>25. RootsStay'
  <2> SUFFICES ASSUME NEW g \in VNodeFs, NEW p \in Nodes, NEW c \in Names,
                      f_parent[RootOf[g]] = p, name'[RootOf[g]] = c, filesystem'[p] = "initrd", ~Mounting(g)
               PROVE  f_children[p][c] \in VRoots \/ Replacing(p, c)'
    BY <1>1, <1>12 DEF RootsStay
  <2>1. p # n
    BY <1>0, <1>23
  <2>2. f_children[p][c] \in VRoots \/ Replacing(p, c)
    BY <2>1, <1>2, <1>23 DEF IInv, RootsStay
  <2>3. ASSUME Replacing(p, c) PROVE Replacing(p, c)'
    <3>1. PICK u \in Task : /\ pc[u] \in {"rename", "attach"}
                           /\ f_parent[RootOf[call[u].fs]] = p /\ name[found[u]] = c
      BY <2>3 DEF Replacing
    <3>2. /\ pc'[u] \in {"rename", "attach"}
          /\ f_parent'[RootOf[call'[u].fs]] = p /\ name'[found'[u]] = c
      BY <3>1, <1>1, <1>22
    <3>3. QED
      BY <3>2 DEF Replacing
  <2>4. QED
    BY <2>2, <2>3
<1>26. QED
  BY <1>10, <1>11, <1>14, <1>15, <1>16, <1>17, <1>18, <1>20, <1>21, <1>24, <1>25 DEF IInv

\* There is room for a node: the one taken is not made yet.
LEMMA FreshNode ==
    ASSUME Fresh # {}
    PROVE  (CHOOSE m \in Fresh : TRUE) \in Nodes /\ kind[CHOOSE m \in Fresh : TRUE] = Null
<1>1. (CHOOSE m \in Fresh : TRUE) \in Fresh
  OBVIOUS
<1>2. QED
  BY <1>1 DEF Fresh

\* The link that symlinkat() makes,
LEMMA SymlinkReturnIInv == ASSUME IInv, NEW t \in Task, SymlinkReturn(t) PROVE IInv'
<1>0. pc[t] = "return" /\ call[t].op = "symlink" /\ UNCHANGED stack
  BY DEF SymlinkReturn
<1>1. pc[t] \in Aside /\ ~IsMount(t)
  BY <1>0 DEF Aside, IsMount
<1>2. CASE Finish(t) /\ UNCHANGED tree
  <2>1. UNCHANGED <<tree, stack>>
    BY <1>0, <1>2
  <2>2. QED
    BY <2>1, <1>1, <1>2, FinishIInv
<1>3. CASE ~(Finish(t) /\ UNCHANGED tree)
  <2>1. /\ found[t] \in Nodes /\ filesystem[found[t]] \in VNodeFs /\ Fresh # {}
        /\ found' = [found EXCEPT ![t] = Null]
    BY <1>3 DEF SymlinkReturn
  <2> DEFINE n == CHOOSE m \in Fresh : TRUE
  <2>2. /\ \E nm \in Names, d \in LinkDests : MakeNode(t, n, filesystem[found[t]], "link", nm, d)
        /\ call' = [call EXCEPT ![t] = [op |-> "create", dir |-> found[t], new |-> n, rest |-> <<>>]]
    BY <1>3 DEF SymlinkReturn
  <2>3. n \in Nodes /\ kind[n] = Null
    BY <2>1, FreshNode
  <2> HIDE DEF n
  <2>4. PICK nm \in Names, d \in LinkDests : MakeNode(t, n, filesystem[found[t]], "link", nm, d)
    BY <2>2
  <2>5. d \in Seq(Comps) /\ "link" \in Kinds
    BY VfsAssumption DEF Kinds
  <2>6. <<>> \in Seq(Names)
    OBVIOUS
  <2>7. QED
    BY <1>0, <1>1, <2>1, <2>2, <2>3, <2>4, <2>5, <2>6, MakeNodeIInv
<1>4. QED
  BY <1>2, <1>3

\* the node that a module makes,
LEMMA CreateIInv == ASSUME IInv, NEW t \in Task, Create(t) PROVE IInv'
<1> DEFINE dir == call[t].dir
           nm == Head(call[t].rest)
           rest == Tail(call[t].rest)
<1>0. pc[t] = "create" /\ UNCHANGED stack
  BY DEF Create
<1>1. /\ pc[t] \in Aside /\ ~IsMount(t) /\ dir \in Nodes /\ filesystem[dir] \in VNodeFs
      /\ call[t].rest \in Seq(Names) /\ call[t].rest # <<>>
  BY <1>0, CallKinds DEF Aside, IsMount, IInv, CallsFit, Creators
<1>2. nm \in Names /\ rest \in Seq(Names)
  BY <1>1
<1>3. CASE Finish(t) /\ UNCHANGED tree
  <2>1. UNCHANGED <<tree, stack>>
    BY <1>0, <1>3
  <2>2. QED
    BY <2>1, <1>1, <1>3, FinishIInv
<1>4. CASE ~(Finish(t) /\ UNCHANGED tree)
  <2> DEFINE n == CHOOSE m \in Fresh : TRUE
  <2>1. PICK k \in IF rest = <<>> THEN Kinds ELSE {"dir"} :
            /\ Fresh # {}
            /\ \E d \in IF k = "link" THEN LinkDests ELSE {<<>>} : MakeNode(t, n, filesystem[dir], k, nm, d)
            /\ call' = [call EXCEPT ![t] = [op |-> "create", dir |-> dir, new |-> n, rest |-> rest]]
            /\ UNCHANGED found
    BY <1>4 DEF Create
  <2>2. n \in Nodes /\ kind[n] = Null
    BY <2>1, FreshNode
  <2> HIDE DEF n, rest, nm, dir
  <2>3. k \in Kinds
    BY <2>1 DEF Kinds
  <2>4. PICK d \in IF k = "link" THEN LinkDests ELSE {<<>>} : MakeNode(t, n, filesystem[dir], k, nm, d)
    BY <2>1
  <2>5. <<>> \in Seq(Comps)
    OBVIOUS
  <2>6. d \in Seq(Comps)
    BY <2>5, VfsAssumption
  <2>7. QED
    BY <1>0, <1>1, <1>2, <2>1, <2>2, <2>3, <2>4, <2>6, MakeNodeIInv
<1>5. QED
  BY <1>3, <1>4

\* add_child(): one entry of one directory is filled if it is empty.
LEMMA AddChildEffect ==
    ASSUME IInv, NEW d \in Nodes, NEW n \in Nodes, name[n] \in Names, AddChild(d, n)
    PROVE  /\ f_children' \in [Nodes -> [Names -> Nodes \cup {Null}]]
           /\ \A x \in Nodes, c \in Names :
                f_children'[x][c] = IF x = d /\ c = name[n] /\ f_children[x][c] = Null THEN n
                                    ELSE f_children[x][c]
<1> DEFINE cell == IF f_children[d][name[n]] = Null THEN n ELSE f_children[d][name[n]]
<1>1. f_children \in [Nodes -> [Names -> Nodes \cup {Null}]]
  BY DEF IInv, Shape
<1>2. f_children[d] \in [Names -> Nodes \cup {Null}] /\ cell \in Nodes \cup {Null}
  BY <1>1
<1>3. f_children' = [f_children EXCEPT ![d] = [f_children[d] EXCEPT ![name[n]] = cell]]
  BY <1>1, <1>2 DEF AddChild
<1> DEFINE row == [f_children[d] EXCEPT ![name[n]] = cell]
<1>4. row \in [Names -> Nodes \cup {Null}]
  BY <1>2
<1>5. f_children' \in [Nodes -> [Names -> Nodes \cup {Null}]]
  BY <1>1, <1>3, <1>4
<1>6. ASSUME NEW x \in Nodes, NEW c \in Names
      PROVE  f_children'[x][c] = IF x = d /\ c = name[n] /\ f_children[x][c] = Null THEN n
                                 ELSE f_children[x][c]
  <2>1. CASE x # d
    BY <2>1, <1>1, <1>3
  <2>2. CASE x = d
    <3>1. f_children'[x] = row
      BY <2>2, <1>1, <1>3
    <3>2. row[c] = IF c = name[n] THEN cell ELSE f_children[d][c]
      BY <1>2
    <3>3. QED
      BY <2>2, <3>1, <3>2
  <2>3. QED
    BY <2>1, <2>2
<1>7. QED
  BY <1>5, <1>6

\* What creates nodes in devfs and sysfs does not touch the mounts.
LEMMA CreationKeepsMounts ==
    ASSUME IInv, NEW t \in Task, KeepOthers(t), ~IsMount(t), ~IsMount(t)',
           pc[t] \notin {"erase", "rename", "attach"}, pc'[t] \notin {"erase", "rename", "attach"},
           UNCHANGED <<f_rootNode, kind, filesystem, name>>,
           \A g \in VNodeFs : f_parent'[RootOf[g]] = f_parent[RootOf[g]],
           \A p \in Nodes, c \in Names : filesystem[p] = "initrd" => f_children'[p][c] = f_children[p][c]
    PROVE  /\ \A g \in VNodeFs : Attached(g)' <=> Attached(g)
           /\ Mounters' /\ MountWalks' /\ MountedWithin' /\ MountsReplace' /\ RootsStay'
<1>0. SameMount(t)
  BY DEF SameMount, IsMount
<1>1. /\ \A u \in Task : IsMount(u)' <=> IsMount(u)
      /\ \A u \in Task : IsMount(u) => call'[u].fs = call[u].fs
      /\ \A g : Mounting(g)' <=> Mounting(g)
  BY <1>0, MountingSame
<1>2. \A g \in VNodeFs : Attached(g)' <=> Attached(g)
  BY <1>1 DEF Attached
<1>3. ASSUME NEW u \in Task, IsMount(u) PROVE call[u].fs \in VNodeFs /\ u # t
  BY <1>3, CallKinds, Types DEF IsMount
<1>4. Mounters'
  <2>1. \A u, w \in Task : IsMount(u)' /\ IsMount(w)' /\ call'[u].fs = call'[w].fs => u = w
    BY <1>1 DEF IInv, Mounters
  <2>2. ASSUME NEW u \in Task, IsMount(u)
        PROVE  /\ f_rootNode # RootOf[call'[u].fs]
               /\ (f_parent'[RootOf[call'[u].fs]] = Null) <=> (pc'[u] \in {"walk", "return", "halted"})
    <3>1. u # t /\ call'[u].fs = call[u].fs /\ call[u].fs \in VNodeFs /\ pc'[u] = pc[u]
      BY <2>2, <1>1, <1>3 DEF KeepOthers
    <3>2. QED
      BY <2>2, <3>1 DEF IInv, Mounters
  <2>3. \A f \in VNodeFs : f_rootNode = RootOf[f] => f_parent'[f_rootNode] = Null
    BY DEF IInv, Mounters
  <2>4. QED
    BY <1>1, <2>1, <2>2, <2>3 DEF Mounters
<1>5. \A g, n : Reach(g, n)' <=> Reach(g, n)
  BY <1>2 DEF Reach, Entered
<1>6. MountWalks'
  <2> SUFFICES ASSUME NEW u \in Task, NEW g \in VNodeFs, NEW m \in Nodes,
                      IsMount(u)', call'[u].fs = g, Holds(u, m)'
               PROVE  Reach(g, m)
    BY <1>5 DEF MountWalks
  <2>1. u # t /\ IsMount(u) /\ call[u].fs = g
    BY <1>1
  <2>2. Holds(u, m)
    BY <2>1, OthersHold
  <2>3. QED
    BY <2>1, <2>2 DEF IInv, MountWalks
<1>7. MountedWithin'
  BY <1>5 DEF IInv, MountedWithin
<1>8. ASSUME NEW u \in Task, pc'[u] \in {"erase", "rename", "attach"} \/ pc[u] \in {"erase", "rename", "attach"}
       PROVE  /\ pc[u] = pc'[u] /\ call'[u] = call[u] /\ found'[u] = found[u]
              /\ call[u].fs \in VNodeFs /\ f_parent[RootOf[call[u].fs]] \in Nodes
              /\ f_parent'[RootOf[call[u].fs]] = f_parent[RootOf[call[u].fs]]
  <2>1. u # t /\ pc[u] = pc'[u] /\ call'[u] = call[u] /\ found'[u] = found[u]
    BY <1>8 DEF KeepOthers
  <2>2. IsMount(u) /\ call[u].fs \in VNodeFs
    BY <2>1, <1>8, CallKinds DEF IInv, CallsFit, IsMount
  <2>3. f_parent[RootOf[call[u].fs]] # Null
    BY <2>1, <2>2, <1>8 DEF IInv, Mounters
  <2>4. f_parent[RootOf[call[u].fs]] \in Nodes
    BY <2>2, <2>3, ParentFacts, RootFacts
  <2>5. QED
    BY <2>1, <2>2, <2>4
<1>9. MountsReplace'
  <2>1. ASSUME NEW u \in Task, pc'[u] \in {"erase", "rename", "attach"}
        PROVE  /\ name[found'[u]] \in Names
               /\ pc'[u] # "erase" /\ filesystem[f_parent'[RootOf[call'[u].fs]]] = "initrd" =>
                     f_children'[f_parent'[RootOf[call'[u].fs]]][name[found'[u]]] \in VRoots \cup {Null}
               /\ pc'[u] = "attach" => name[RootOf[call'[u].fs]] = name[found'[u]]
    <3>1. /\ pc[u] = pc'[u] /\ call'[u] = call[u] /\ found'[u] = found[u]
          /\ call[u].fs \in VNodeFs /\ f_parent[RootOf[call[u].fs]] \in Nodes
          /\ f_parent'[RootOf[call[u].fs]] = f_parent[RootOf[call[u].fs]]
      BY <2>1, <1>8
    <3>2. /\ name[found[u]] \in Names
          /\ pc[u] # "erase" /\ filesystem[f_parent[RootOf[call[u].fs]]] = "initrd" =>
                f_children[f_parent[RootOf[call[u].fs]]][name[found[u]]] \in VRoots \cup {Null}
          /\ pc[u] = "attach" => name[RootOf[call[u].fs]] = name[found[u]]
      BY <2>1, <3>1 DEF IInv, MountsReplace
    <3>3. QED
      BY <3>1, <3>2
  <2>2. \A g \in VNodeFs : Attached(g)' => name[RootOf[g]] \in Names
    BY <1>2 DEF IInv, MountsReplace
  <2>3. QED
    BY <2>1, <2>2 DEF MountsReplace
<1>10. ASSUME NEW p, NEW c, Replacing(p, c) PROVE Replacing(p, c)'
  <2>1. PICK u \in Task : /\ pc[u] \in {"rename", "attach"}
                          /\ f_parent[RootOf[call[u].fs]] = p /\ name[found[u]] = c
    BY <1>10 DEF Replacing
  <2>2. /\ pc'[u] \in {"rename", "attach"}
        /\ f_parent'[RootOf[call'[u].fs]] = p /\ name'[found'[u]] = c
    BY <2>1, <1>8
  <2>3. QED
    BY <2>2 DEF Replacing
<1>11. RootsStay'
  <2> SUFFICES ASSUME NEW g \in VNodeFs, NEW p \in Nodes, NEW c \in Names,
                      f_parent'[RootOf[g]] = p, name[RootOf[g]] = c, filesystem[p] = "initrd", ~Mounting(g)
               PROVE  f_children'[p][c] \in VRoots \/ Replacing(p, c)'
    BY <1>1 DEF RootsStay
  <2>1. f_children[p][c] \in VRoots \/ Replacing(p, c)
    BY DEF IInv, RootsStay
  <2>2. QED
    BY <2>1, <1>10
<1>12. QED
  BY <1>2, <1>4, <1>6, <1>7, <1>9, <1>11

\* What is known of a task that puts a node into the tree.
LEMMA CreatorFacts ==
    ASSUME IInv, NEW t \in Task, Creating(t)
    PROVE  /\ call[t] \in CreateCalls /\ ~IsMount(t)
           /\ call[t].dir \in Nodes /\ call[t].new \in Nodes /\ call[t].rest \in Seq(Names)
           /\ call[t].new \notin Roots /\ call[t].new \notin VRoots
           /\ kind[call[t].new] # Null /\ kind[call[t].dir] # Null
           /\ name[call[t].new] \in Names /\ f_parent[call[t].new] = Null
           /\ filesystem[call[t].dir] \in VNodeFs /\ filesystem[call[t].dir] # "initrd"
           /\ filesystem[call[t].new] = filesystem[call[t].dir]
           /\ \A u \in Task \ {t} : Creating(u) => call[u].new # call[t].new
<1>1. /\ call[t] \in CreateCalls /\ ~IsMount(t)
      /\ call[t].dir \in Nodes /\ call[t].new \in Nodes /\ call[t].rest \in Seq(Names)
  BY CallKinds DEF Creating, IInv, CallsFit, IsMount
<1>2. /\ call[t].new \notin Roots /\ kind[call[t].new] # Null /\ kind[call[t].dir] # Null
      /\ name[call[t].new] \in Names /\ f_parent[call[t].new] = Null
      /\ filesystem[call[t].dir] \in VNodeFs
      /\ filesystem[call[t].new] = filesystem[call[t].dir]
      /\ \A u \in Task \ {t} : Creating(u) => call[u].new # call[t].new
  BY DEF IInv, Creators
<1>3. QED
  BY <1>1, <1>2, RootFacts

\* add_child() of a new node,
LEMMA InsertIInv == ASSUME IInv, NEW t \in Task, Insert(t) PROVE IInv'
<1> DEFINE d == call[t].dir
           n == call[t].new
<1>0. /\ pc[t] = "insert" /\ Creating(t) /\ AddChild(d, n)
      /\ UNCHANGED <<f_rootNode, kind, filesystem, name, dest, f_parent, call, stack, found>>
  BY DEF Insert, Creating
<1>1. /\ call[t] \in CreateCalls /\ ~IsMount(t) /\ d \in Nodes /\ n \in Nodes
      /\ n \notin Roots /\ n \notin VRoots
      /\ kind[n] # Null /\ kind[d] # Null /\ name[n] \in Names /\ f_parent[n] = Null
      /\ filesystem[d] \in VNodeFs /\ filesystem[d] # "initrd" /\ filesystem[n] = filesystem[d]
      /\ \A u \in Task \ {t} : Creating(u) => call[u].new # n
  BY <1>0, CreatorFacts
<1> HIDE DEF d, n
<1>2. /\ f_children' \in [Nodes -> [Names -> Nodes \cup {Null}]]
      /\ \A x \in Nodes, c \in Names :
            f_children'[x][c] = IF x = d /\ c = name[n] /\ f_children[x][c] = Null THEN n
                                ELSE f_children[x][c]
  BY <1>0, <1>1, AddChildEffect
<1>3. pc' \in [Task -> Places] /\ pc'[t] = "adopt" /\ \A u \in Task \ {t} : pc'[u] = pc[u]
  BY DEF Insert, IInv, Shape, Places
<1>4. Shape'
  BY <1>0, <1>2, <1>3 DEF IInv, Shape
<1>5. CallsFit'
  BY <1>0, <1>1, <1>3 DEF IInv, CallsFit
<1>6. KeepOthers(t) /\ ~IsMount(t)' /\ \A u \in Task : Creating(u)' <=> Creating(u)
  BY <1>0, <1>1, <1>3 DEF KeepOthers, IsMount, Creating
<1>7. /\ \A g \in VNodeFs : Attached(g)' <=> Attached(g)
      /\ Mounters' /\ MountWalks' /\ MountedWithin' /\ MountsReplace' /\ RootsStay'
  <2>1. \A p \in Nodes, c \in Names : filesystem[p] = "initrd" => f_children'[p][c] = f_children[p][c]
    BY <1>1, <1>2
  <2>2. UNCHANGED <<f_rootNode, kind, filesystem, name>>
    BY <1>0
  <2>3. \A g \in VNodeFs : f_parent'[RootOf[g]] = f_parent[RootOf[g]]
    BY <1>0
  <2>4. pc[t] \notin {"erase", "rename", "attach"} /\ pc'[t] \notin {"erase", "rename", "attach"}
    BY <1>0, <1>3
  <2>5. QED
    BY <1>1, <1>6, <2>1, <2>2, <2>3, <2>4, CreationKeepsMounts
<1>8. NodesMade'
  <2>1. ASSUME NEW x \in Nodes, NEW c \in Names, f_children'[x][c] # Null
        PROVE  kind[x] # Null /\ kind[f_children'[x][c]] # Null
    BY <1>1, <1>2, <2>1, EntryFacts
  <2>2. QED
    BY <1>0, <2>1 DEF IInv, NodesMade
<1>9. FsStays'
  <2>1. ASSUME NEW x \in Nodes, NEW c \in Names, f_children'[x][c] # Null
        PROVE  \/ f_children'[x][c] \notin VRoots /\ filesystem[f_children'[x][c]] = filesystem[x]
               \/ \E g \in VNodeFs : f_children'[x][c] = RootOf[g] /\ Attached(g)
    <3>1. CASE f_children'[x][c] = f_children[x][c]
      BY <2>1, <3>1 DEF IInv, FsStays
    <3>2. CASE f_children'[x][c] # f_children[x][c]
      BY <1>1, <1>2, <3>2
    <3>3. QED
      BY <3>1, <3>2
  <2>2. QED
    BY <1>0, <1>7, <2>1 DEF IInv, FsStays
<1>10. EntriesConsistent'
  <2> SUFFICES ASSUME NEW x \in Nodes, NEW c \in Names, f_children'[x][c] # Null
               PROVE  /\ name[f_children'[x][c]] = c
                      /\ \/ f_parent[f_children'[x][c]] = x
                         \/ \E u \in Task : pc'[u] = "adopt" /\ call[u].new = f_children'[x][c]
                                             /\ call[u].dir = x
    BY <1>0 DEF EntriesConsistent
  <2>1. CASE f_children'[x][c] = f_children[x][c]
    <3>1. /\ name[f_children[x][c]] = c
          /\ \/ f_parent[f_children[x][c]] = x
             \/ \E u \in Task : pc[u] = "adopt" /\ call[u].new = f_children[x][c] /\ call[u].dir = x
      BY <2>1 DEF IInv, EntriesConsistent
    <3>2. \A u \in Task : pc[u] = "adopt" => pc'[u] = "adopt"
      BY <1>3
    <3>3. QED
      BY <2>1, <3>1, <3>2
  <2>2. CASE f_children'[x][c] # f_children[x][c]
    BY <1>2, <1>3, <2>2 DEF d, n
  <2>3. QED
    BY <2>1, <2>2
<1>11. Creators'
  <2>1. \A u \in Task : pc'[u] \in {"make", "create"} => pc[u] \in {"make", "create"}
    BY <1>3
  <2>2. QED
    BY <1>0, <1>6, <2>1 DEF IInv, Creators
<1>12. QED
  BY <1>4, <1>5, <1>7, <1>8, <1>9, <1>10, <1>11 DEF IInv

\* and its f_parent.
LEMMA AdoptIInv == ASSUME IInv, NEW t \in Task, Adopt(t) PROVE IInv'
<1> DEFINE d == call[t].dir
           n == call[t].new
           c0 == [op |-> "add", dir |-> call[t].new, rest |-> call[t].rest]
<1>0. /\ pc[t] = "adopt" /\ Creating(t) /\ f_parent' = [f_parent EXCEPT ![n] = d]
      /\ UNCHANGED <<f_rootNode, kind, filesystem, name, dest, f_children, stack>>
  BY DEF Adopt, Creating
<1>1. /\ call[t] \in CreateCalls /\ ~IsMount(t) /\ d \in Nodes /\ n \in Nodes
      /\ n \notin Roots /\ n \notin VRoots
      /\ kind[n] # Null /\ kind[d] # Null /\ name[n] \in Names /\ f_parent[n] = Null
      /\ filesystem[d] \in VNodeFs /\ filesystem[d] # "initrd" /\ filesystem[n] = filesystem[d]
      /\ \A u \in Task \ {t} : Creating(u) => call[u].new # n
  BY <1>0, CreatorFacts
<1>2. /\ f_parent' \in [Nodes -> Nodes \cup {Null}] /\ f_parent'[n] = d
      /\ \A x \in Nodes \ {n} : f_parent'[x] = f_parent[x]
  BY <1>0, <1>1 DEF IInv, Shape
<1>3. /\ pc' \in [Task -> Places] /\ \A u \in Task \ {t} : pc'[u] = pc[u]
      /\ call' \in [Task -> Calls] /\ \A u \in Task \ {t} : call'[u] = call[u]
      /\ found' \in [Task -> Nodes \cup Errors \cup {Null}]
      /\ \A u \in Task \ {t} : found'[u] = found[u]
      /\ \/ pc'[t] = "idle" /\ call'[t] = Idle /\ found'[t] = Null
         \/ pc'[t] = "make" /\ call'[t] \in AddCalls /\ call'[t].dir = n
  <2>1. CASE call[t].rest = <<>>
    <3>1. Finish(t)
      BY <2>1 DEF Adopt
    <3>2. QED
      BY <3>1, FinishEffect
  <2>2. CASE call[t].rest # <<>>
    <3>1. pc' = [pc EXCEPT ![t] = "make"] /\ UNCHANGED found /\ call' = [call EXCEPT ![t] = c0]
      BY <2>2 DEF Adopt
    <3>2. c0 \in AddCalls /\ c0.dir = n
      BY <2>2, <1>1, CallKinds DEF AddCalls
    <3> HIDE DEF c0, n
    <3>3. pc' \in [Task -> Places] /\ pc'[t] = "make" /\ \A u \in Task \ {t} : pc'[u] = pc[u]
      BY <3>1 DEF IInv, Shape, Places
    <3>4. call' \in [Task -> Calls] /\ call'[t] = c0 /\ \A u \in Task \ {t} : call'[u] = call[u]
      BY <3>1, <3>2 DEF IInv, Shape, Calls
    <3>5. QED
      BY <3>1, <3>2, <3>3, <3>4 DEF IInv, Shape
  <2>3. QED
    BY <2>1, <2>2
<1> HIDE DEF d, n, c0
<1>4. Shape'
  BY <1>0, <1>2, <1>3 DEF IInv, Shape
<1>5. CallsFit'
  BY <1>0, <1>1, <1>3 DEF IInv, CallsFit
<1>6. /\ KeepOthers(t) /\ ~IsMount(t)' /\ ~Creating(t)'
      /\ \A u \in Task \ {t} : Creating(u)' <=> Creating(u)
  BY <1>0, <1>1, <1>3, CallKinds DEF KeepOthers, IsMount, Creating
<1>7. /\ \A g \in VNodeFs : Attached(g)' <=> Attached(g)
      /\ Mounters' /\ MountWalks' /\ MountedWithin' /\ MountsReplace' /\ RootsStay'
  <2>1. \A p \in Nodes, c \in Names : filesystem[p] = "initrd" => f_children'[p][c] = f_children[p][c]
    BY <1>0
  <2>2. UNCHANGED <<f_rootNode, kind, filesystem, name>>
    BY <1>0
  <2>3. \A g \in VNodeFs : f_parent'[RootOf[g]] = f_parent[RootOf[g]]
    BY <1>1, <1>2, RootFacts
  <2>4. pc[t] \notin {"erase", "rename", "attach"} /\ pc'[t] \notin {"erase", "rename", "attach"}
    BY <1>0, <1>3
  <2>5. QED
    BY <1>1, <1>6, <2>1, <2>2, <2>3, <2>4, CreationKeepsMounts
<1>8. NodesMade'
  <2>1. ASSUME NEW x \in Nodes, f_parent'[x] # Null PROVE kind[x] # Null /\ kind[f_parent'[x]] # Null
    BY <1>1, <1>2, <2>1, ParentFacts
  <2>2. QED
    BY <1>0, <2>1 DEF IInv, NodesMade
<1>9. FsStays'
  <2>1. ASSUME NEW x \in Nodes \ VRoots, f_parent'[x] # Null
        PROVE  name[x] \in Names /\ filesystem[f_parent'[x]] = filesystem[x]
    BY <1>1, <1>2, <2>1 DEF IInv, FsStays
  <2>2. QED
    BY <1>0, <1>7, <2>1 DEF IInv, FsStays
<1>10. EntriesConsistent'
  <2> SUFFICES ASSUME NEW x \in Nodes, NEW c \in Names, f_children[x][c] # Null
               PROVE  /\ name[f_children[x][c]] = c
                      /\ \/ f_parent'[f_children[x][c]] = x
                         \/ \E u \in Task : pc'[u] = "adopt" /\ call'[u].new = f_children[x][c]
                                             /\ call'[u].dir = x
    BY <1>0 DEF EntriesConsistent
  <2>1. /\ name[f_children[x][c]] = c
        /\ \/ f_parent[f_children[x][c]] = x
           \/ \E u \in Task : pc[u] = "adopt" /\ call[u].new = f_children[x][c] /\ call[u].dir = x
    BY DEF IInv, EntriesConsistent
  <2>2. f_children[x][c] \in Nodes /\ x # Null
    BY EntryFacts, RootFacts
  <2>3. CASE f_children[x][c] = n
    <3>1. PICK u \in Task : pc[u] = "adopt" /\ call[u].new = n /\ call[u].dir = x
      BY <2>1, <2>2, <2>3, <1>1
    <3>2. u = t
      BY <3>1, <1>1 DEF Creating
    <3>3. QED
      BY <2>1, <2>3, <3>1, <3>2, <1>2 DEF d
  <2>4. CASE f_children[x][c] # n
    <3>1. f_parent'[f_children[x][c]] = f_parent[f_children[x][c]]
      BY <2>2, <2>4, <1>2
    <3>2. ASSUME NEW u \in Task, pc[u] = "adopt", call[u].new = f_children[x][c]
          PROVE  pc'[u] = "adopt" /\ call'[u] = call[u]
      <4>1. u # t
        BY <3>2, <2>4 DEF n
      <4>2. QED
        BY <4>1, <3>2, <1>3
    <3>3. QED
      BY <2>1, <3>1, <3>2
  <2>5. QED
    BY <2>3, <2>4
<1>11. Creators'
  <2>1. ASSUME NEW u \in Task, Creating(u)'
        PROVE  Creating(u) /\ call'[u] = call[u] /\ call[u].new # n /\ call[u].new \in Nodes
    BY <2>1, <1>1, <1>3, <1>6, CreatorFacts
  <2>2. ASSUME NEW u \in Task, Creating(u)' PROVE f_parent'[call[u].new] = f_parent[call[u].new]
    BY <2>1, <2>2, <1>2
  <2>3. ASSUME NEW u \in Task, pc'[u] \in {"make", "create"} PROVE filesystem[call'[u].dir] \in VNodeFs
    <3>1. CASE u = t
      BY <2>3, <3>1, <1>1, <1>3
    <3>2. CASE u # t
      BY <2>3, <3>2, <1>3 DEF IInv, Creators
    <3>3. QED
      BY <3>1, <3>2
  <2>4. ASSUME NEW u \in Task, NEW w \in Task, Creating(u)', Creating(w)', call'[u].new = call'[w].new
        PROVE  u = w
    BY <2>1, <2>4 DEF IInv, Creators
  <2>5. ASSUME NEW u \in Task, Creating(u)'
        PROVE  /\ call'[u].new \notin Roots /\ kind[call'[u].new] # Null /\ kind[call'[u].dir] # Null
               /\ name[call'[u].new] \in Names /\ f_parent'[call'[u].new] = Null
               /\ filesystem[call'[u].dir] \in VNodeFs
               /\ filesystem[call'[u].new] = filesystem[call'[u].dir]
    BY <2>1, <2>2, <2>5 DEF IInv, Creators
  <2>6. QED
    BY <1>0, <2>3, <2>4, <2>5 DEF Creators
<1>12. QED
  BY <1>4, <1>5, <1>7, <1>8, <1>9, <1>10, <1>11 DEF IInv

-----------------------------------------------------------------------------
(* Mounts *)

\* A step that only reads the tree, after which the same roots are attached.
LEMMA AsideKeepsTree ==
    ASSUME IInv, NEW t \in Task, UNCHANGED tree, KeepOthers(t), pc[t] \in Aside, pc'[t] \in Aside,
           \A g \in VNodeFs : Attached(g)' <=> Attached(g)
    PROVE  /\ \A g, n : Reach(g, n)' <=> Reach(g, n)
           /\ FsStays' /\ MountedWithin' /\ MountsReplace' /\ RootsStay'
<1>1. \A g, n : Reach(g, n)' <=> Reach(g, n)
  BY DEF Reach, Entered, tree
<1>2. FsStays'
  BY DEF FsStays, IInv, tree
<1>3. MountedWithin'
  BY <1>1 DEF MountedWithin, IInv, tree
<1>4. ASSUME NEW u \in Task, pc[u] \in {"erase", "rename", "attach"} \/ pc'[u] \in {"erase", "rename", "attach"}
      PROVE  pc'[u] = pc[u] /\ call'[u] = call[u] /\ found'[u] = found[u]
  BY <1>4 DEF KeepOthers, Aside
<1>5. MountsReplace'
  BY <1>4 DEF MountsReplace, IInv, tree
<1>6. \A d, c : Replacing(d, c)' <=> Replacing(d, c)
  BY <1>4 DEF Replacing, tree
<1>7. RootsStay'
  <2> SUFFICES ASSUME NEW g \in VNodeFs, NEW p \in Nodes, NEW c \in Names,
                      f_parent[RootOf[g]] = p, name[RootOf[g]] = c, filesystem[p] = "initrd", ~Mounting(g)'
               PROVE  f_children[p][c] \in VRoots \/ Replacing(p, c)
    BY <1>6 DEF RootsStay, tree
  <2>1. Attached(g)'
    BY RootFacts DEF Attached, tree
  <2>2. ~Mounting(g)
    BY <2>1 DEF Attached
  <2>3. QED
    BY <2>2 DEF IInv, RootsStay
<1>8. QED
  BY <1>1, <1>2, <1>3, <1>5, <1>7

\* What is known of a mount on its way.
LEMMA MounterFacts ==
    ASSUME IInv, NEW t \in Task, IsMount(t)
    PROVE  /\ call[t] \in MountCalls /\ call[t].fs \in VNodeFs /\ call[t].fs \in Fs
           /\ RootOf[call[t].fs] \in Nodes /\ RootOf[call[t].fs] \in VRoots
           /\ filesystem[RootOf[call[t].fs]] = call[t].fs /\ kind[RootOf[call[t].fs]] # Null
           /\ f_rootNode # RootOf[call[t].fs] /\ Mounting(call[t].fs) /\ ~Attached(call[t].fs)
           /\ \A u \in Task \ {t} : IsMount(u) => call[u].fs # call[t].fs
                                                  /\ RootOf[call[u].fs] # RootOf[call[t].fs]
           /\ \A d \in Nodes, c \in Names : f_children[d][c] # RootOf[call[t].fs]
           /\ \A u \in Task : IsMount(u) => found[u] # RootOf[call[t].fs]
<1> DEFINE f == call[t].fs
           r == RootOf[f]
<1>1. call[t] \in MountCalls /\ f \in VNodeFs /\ f \in Fs /\ r \in Nodes /\ r \in VRoots
  BY CallKinds, Types, RootFacts DEF IsMount
<1>2. filesystem[r] = f /\ kind[r] # Null
  BY <1>1, RootFacts DEF IInv, NodesMade, Kinds
<1>3. f_rootNode # r /\ Mounting(f) /\ ~Attached(f)
  BY DEF IInv, Mounters, Mounting, Attached, IsMount
<1>4. ASSUME NEW u \in Task \ {t}, IsMount(u) PROVE call[u].fs # f /\ RootOf[call[u].fs] # r
  <2>1. call[u].fs # f
    BY <1>4 DEF IInv, Mounters
  <2>2. call[u].fs \in VNodeFs
    BY <1>4, CallKinds, Types DEF IsMount
  <2>3. QED
    BY <2>1, <2>2, <1>1, RootFacts
<1>5. ASSUME NEW d \in Nodes, NEW c \in Names, f_children[d][c] = r PROVE FALSE
  <2>1. PICK g \in VNodeFs : r = RootOf[g] /\ Attached(g)
    BY <1>1, <1>5, RootFacts DEF IInv, FsStays
  <2>2. g = f
    BY <2>1, <1>1, RootFacts
  <2>3. QED
    BY <2>1, <2>2, <1>3
<1>6. ASSUME NEW u \in Task, IsMount(u), found[u] = r PROVE FALSE
  <2>1. call[u].fs \in VNodeFs
    BY <1>6, CallKinds, Types DEF IsMount
  <2>2. Reach(call[u].fs, r)
    BY <1>6, <1>1, <2>1 DEF IInv, MountWalks, Holds
  <2>3. Entered(f)
    BY <2>2, <1>1, <1>2, RootFacts DEF Reach
  <2>4. QED
    BY <2>3, <1>3 DEF Entered
<1>7. QED
  BY <1>1, <1>2, <1>3, <1>4, <1>5, <1>6

\* mount() at "/": another root takes the place of "/".
LEMMA MountRootIInv ==
    ASSUME IInv, NEW f \in VNodeFs, ~Mounting(f), ~Mounted(f), f_rootNode' = RootOf[f],
           UNCHANGED <<kind, filesystem, name, dest, f_parent, f_children, pc, call, stack, found>>
    PROVE  IInv'
<1>1. f_parent[RootOf[f]] = Null /\ f_rootNode # RootOf[f]
  BY DEF Mounted
<1>2. \A g : (Mounting(g)' <=> Mounting(g)) /\ (Attached(g)' <=> Attached(g))
  BY DEF Mounting, Attached
<1>3. Shape'
  BY RootFacts DEF IInv, Shape
<1>4. CallsFit' /\ NodesMade' /\ EntriesConsistent' /\ MountsReplace'
  BY <1>2 DEF IInv, CallsFit, NodesMade, EntriesConsistent, MountsReplace
<1>5. FsStays'
  BY <1>2 DEF IInv, FsStays
<1>6. Creators'
  BY DEF IInv, Creators, Creating
<1>7. RootsStay'
  BY <1>2 DEF IInv, RootsStay, Replacing
<1>8. Mounters'
  <2>1. \A t \in Task : IsMount(t)' <=> IsMount(t)
    BY DEF IsMount
  <2>2. ASSUME NEW t \in Task, IsMount(t) PROVE RootOf[f] # RootOf[call[t].fs]
    <3>1. call[t].fs # f /\ call[t].fs \in Fs /\ f \in Fs
      BY <2>2, MounterFacts, RootFacts
    <3>2. QED
      BY <3>1, RootFacts
  <2>3. QED
    BY <1>1, <2>1, <2>2 DEF IInv, Mounters
<1>9. ASSUME NEW g \in VNodeFs, g # f, NEW n, Reach(g, n) PROVE Reach(g, n)'
  <2>1. ASSUME NEW h \in VNodeFs \ {g}, Entered(h) PROVE Entered(h)'
    <3>1. h = f \/ h # f
      OBVIOUS
    <3>2. f_rootNode # RootOf[h]
      <4>1. h = g \/ g = f \/ h = f
        BY VfsAssumption
      <4>2. QED
        BY <4>1, <1>1, <1>9, <2>1
    <3>3. QED
      BY <3>2, <2>1, <1>2 DEF Entered
  <2>2. QED
    BY <2>1, <1>9 DEF Reach
<1>10. MountWalks'
  <2> SUFFICES ASSUME NEW t \in Task, NEW g \in VNodeFs, NEW n \in Nodes,
                      IsMount(t), call[t].fs = g, Holds(t, n)
               PROVE  Reach(g, n)'
    BY DEF MountWalks, IsMount, Holds
  <2>1. g # f
    BY MounterFacts
  <2>2. Reach(g, n)
    BY DEF IInv, MountWalks
  <2>3. QED
    BY <2>1, <2>2, <1>9
<1>11. MountedWithin'
  <2> SUFFICES ASSUME NEW g \in VNodeFs, NEW p \in Nodes, f_parent[RootOf[g]] = p PROVE Reach(g, p)'
    BY DEF MountedWithin
  <2>1. g # f
    BY <1>1, RootFacts
  <2>2. QED
    BY <2>1, <1>9 DEF IInv, MountedWithin
<1>12. QED
  BY <1>3, <1>4, <1>5, <1>6, <1>7, <1>8, <1>10, <1>11 DEF IInv

\* mount() elsewhere starts to look for the location.
LEMMA MountWalkIInv ==
    ASSUME IInv, NEW t \in Task, pc[t] = "idle", NEW f \in VNodeFs, NEW path \in Seq(Comps),
           ~Mounting(f), ~Mounted(f), GetFile(t, Null, path, TRUE, TRUE),
           call' = [call EXCEPT ![t] = [op |-> "mount", fs |-> f, path |-> path, start |-> f_rootNode,
                                        resolve |-> TRUE, follow |-> TRUE]],
           UNCHANGED tree, UNCHANGED found
    PROVE  IInv'
<1>0. f_parent[RootOf[f]] = Null /\ f_rootNode # RootOf[f]
  BY DEF Mounted
<1>1. /\ StartAt(Null) = f_rootNode /\ f_rootNode \in Nodes
      /\ pc' \in [Task -> Places] /\ pc'[t] = "walk" /\ \A u \in Task \ {t} : pc'[u] = pc[u]
      /\ stack' \in [Task -> Seq(Frames)] /\ stack'[t] # <<>>
      /\ Len(stack'[t]) = 1 /\ stack'[t][1].root = f_rootNode
      /\ \A u \in Task \ {t} : stack'[u] = stack[u]
  BY FirstFrame DEF StartAt
<1>2. [op |-> "mount", fs |-> f, path |-> path, start |-> f_rootNode, resolve |-> TRUE, follow |-> TRUE]
         \in MountCalls
  BY <1>1 DEF MountCalls
<1>3. /\ call' \in [Task -> Calls] /\ call'[t] \in MountCalls /\ call'[t].fs = f /\ call'[t].op = "mount"
      /\ \A u \in Task \ {t} : call'[u] = call[u]
  BY <1>2 DEF IInv, Shape, Calls
<1>4. ~IsMount(t) /\ found[t] = Null /\ IsMount(t)'
  BY <1>3, CallKinds DEF IsMount, IInv, CallsFit
<1>5. Shape'
  BY <1>1, <1>3 DEF IInv, Shape, tree
<1>6. CallsFit'
  BY <1>1, <1>3 DEF IInv, CallsFit
<1>7. KeepOthers(t) /\ pc[t] \in Aside /\ pc'[t] \in Aside /\ pc'[t] \notin {"make", "create"}
  BY <1>1, <1>3 DEF KeepOthers, Aside
<1>8. \A u \in Task \ {t} : (IsMount(u)' <=> IsMount(u)) /\ call'[u].fs = call[u].fs
  BY <1>3 DEF IsMount
<1>9. \A g : Mounting(g)' <=> (Mounting(g) \/ g = f)
  BY <1>3, <1>4 DEF Mounting, IsMount
<1>10. \A g \in VNodeFs : Attached(g)' <=> Attached(g)
  BY <1>0, <1>9 DEF Attached, tree
<1>11. /\ \A g, n : Reach(g, n)' <=> Reach(g, n)
       /\ FsStays' /\ MountedWithin' /\ MountsReplace' /\ RootsStay'
  BY <1>7, <1>10, AsideKeepsTree
<1>12. NodesMade' /\ EntriesConsistent' /\ Creators'
  BY <1>7, AsideKeepsEntries, AsideKeepsCreators DEF IInv
<1>13. Mounters'
  <2>1. ASSUME NEW u \in Task \ {t}, IsMount(u) PROVE call[u].fs # f
    BY <2>1, MounterFacts
  <2>2. ASSUME NEW u \in Task, NEW w \in Task, IsMount(u)', IsMount(w)', call'[u].fs = call'[w].fs
        PROVE  u = w
    BY <2>1, <2>2, <1>3, <1>8 DEF IInv, Mounters
  <2>3. ASSUME NEW u \in Task, IsMount(u)'
        PROVE  /\ f_rootNode # RootOf[call'[u].fs]
               /\ (f_parent[RootOf[call'[u].fs]] = Null) <=> (pc'[u] \in {"walk", "return", "halted"})
    <3>1. CASE u = t
      BY <3>1, <1>0, <1>1, <1>3
    <3>2. CASE u # t
      BY <2>3, <3>2, <1>1, <1>8 DEF IInv, Mounters
    <3>3. QED
      BY <3>1, <3>2
  <2>4. QED
    BY <2>2, <2>3 DEF IInv, Mounters, tree
<1>14. MountWalks'
  <2> SUFFICES ASSUME NEW u \in Task, NEW g \in VNodeFs, NEW n \in Nodes,
                      IsMount(u)', call'[u].fs = g, Holds(u, n)'
               PROVE  Reach(g, n)
    BY <1>11 DEF MountWalks
  <2>1. CASE u # t
    <3>1. IsMount(u) /\ call[u].fs = g /\ Holds(u, n)
      BY <2>1, <1>7, <1>8, OthersHold
    <3>2. QED
      BY <3>1 DEF IInv, MountWalks
  <2>2. CASE u = t
    <3>1. n = f_rootNode /\ g = f
      BY <2>2, <1>1, <1>3, <1>4, RootFacts DEF Holds
    <3>2. PICK h \in Fs : f_rootNode = RootOf[h]
      BY Types, RootFacts
    <3>3. filesystem[n] = h /\ kind[n] # Null /\ h # f /\ (h = "initrd" \/ h \in VNodeFs)
      BY <3>1, <3>2, <1>0, RootFacts DEF IInv, NodesMade, Kinds
    <3>4. Entered(h)
      BY <3>2 DEF Entered
    <3>5. QED
      BY <3>1, <3>3, <3>4 DEF Reach
  <2>3. QED
    BY <2>1, <2>2
<1>15. QED
  BY <1>5, <1>6, <1>11, <1>12, <1>13, <1>14 DEF IInv

\* mount() begins its walk, or mounts at "/".
LEMMA MountIInv == ASSUME IInv, NEW t \in Task, Mount(t) PROVE IInv'
<1>0. pc[t] = "idle" /\ UNCHANGED <<kind, filesystem, name, dest, f_parent, f_children, found>>
  BY DEF Mount
<1>1. PICK f \in VNodeFs, path \in MountPaths :
        /\ ~Mounting(f) /\ ~Mounted(f)
        /\ \/ f_rootNode' = RootOf[f] /\ UNCHANGED <<pc, call, stack>>
           \/ /\ call' = [call EXCEPT ![t] = [op |-> "mount", fs |-> f, path |-> path, start |-> f_rootNode,
                                              resolve |-> TRUE, follow |-> TRUE]]
              /\ GetFile(t, Null, path, TRUE, TRUE)
              /\ UNCHANGED f_rootNode
  BY DEF Mount
<1>2. CASE f_rootNode' = RootOf[f] /\ UNCHANGED <<pc, call, stack>>
  <2>1. UNCHANGED <<kind, filesystem, name, dest, f_parent, f_children, pc, call, stack, found>>
    BY <1>0, <1>2
  <2>2. QED
    BY <1>1, <1>2, <2>1, MountRootIInv
<1>3. CASE /\ call' = [call EXCEPT ![t] = [op |-> "mount", fs |-> f, path |-> path, start |-> f_rootNode,
                                           resolve |-> TRUE, follow |-> TRUE]]
           /\ GetFile(t, Null, path, TRUE, TRUE)
           /\ UNCHANGED f_rootNode
  <2>1. UNCHANGED tree /\ UNCHANGED found
    BY <1>0, <1>3 DEF tree
  <2>2. path \in Seq(Comps)
    BY VfsAssumption
  <2>3. QED
    BY <1>0, <1>1, <1>3, <2>1, <2>2, MountWalkIInv
<1>4. QED
  BY <1>1, <1>2, <1>3

\* A mount whose location was not found.
LEMMA MountFailsIInv ==
    ASSUME IInv, NEW t \in Task, pc[t] = "return", IsMount(t), Finish(t), UNCHANGED tree, UNCHANGED stack
    PROVE  IInv'
<1> DEFINE f == call[t].fs
<1>0. /\ pc' \in [Task -> Places] /\ pc'[t] = "idle" /\ \A u \in Task \ {t} : pc'[u] = pc[u]
      /\ call' \in [Task -> Calls] /\ call'[t] = Idle /\ \A u \in Task \ {t} : call'[u] = call[u]
      /\ found' \in [Task -> Nodes \cup Errors \cup {Null}] /\ found'[t] = Null
      /\ \A u \in Task \ {t} : found'[u] = found[u]
  BY FinishEffect
<1>1. Shape'
  BY <1>0 DEF IInv, Shape, tree
<1>2. CallsFit'
  BY <1>0 DEF IInv, CallsFit
<1>3. KeepOthers(t) /\ pc[t] \in Aside /\ pc'[t] \in Aside /\ ~IsMount(t)' /\ pc'[t] \notin {"make", "create"}
  BY <1>0, CallKinds DEF KeepOthers, Aside, IsMount
<1>4. \A u \in Task \ {t} : (IsMount(u)' <=> IsMount(u)) /\ call'[u].fs = call[u].fs
  BY <1>0 DEF IsMount
<1>5. f_parent[RootOf[f]] = Null
  BY DEF IInv, Mounters
<1>6. \A g : g # f => (Mounting(g)' <=> Mounting(g))
  BY <1>3, <1>4 DEF Mounting, IsMount
<1>7. \A g \in VNodeFs : Attached(g)' <=> Attached(g)
  BY <1>5, <1>6 DEF Attached, tree
<1>8. /\ \A g, n : Reach(g, n)' <=> Reach(g, n)
      /\ FsStays' /\ MountedWithin' /\ MountsReplace' /\ RootsStay'
  BY <1>3, <1>7, AsideKeepsTree
<1>9. NodesMade' /\ EntriesConsistent' /\ Creators'
  BY <1>3, AsideKeepsEntries, AsideKeepsCreators DEF IInv
<1>10. Mounters'
  BY <1>0, <1>3, <1>4 DEF IInv, Mounters, tree
<1>11. MountWalks'
  <2> SUFFICES ASSUME NEW u \in Task, NEW g \in VNodeFs, NEW n \in Nodes,
                      IsMount(u)', call'[u].fs = g, Holds(u, n)'
               PROVE  Reach(g, n)
    BY <1>8 DEF MountWalks
  <2>1. IsMount(u) /\ call[u].fs = g /\ Holds(u, n)
    BY <1>3, <1>4, OthersHold
  <2>2. QED
    BY <2>1 DEF IInv, MountWalks
<1>12. QED
  BY <1>1, <1>2, <1>8, <1>9, <1>10, <1>11 DEF IInv

\* A mount at a location without a parent.
LEMMA MountHaltsIInv ==
    ASSUME IInv, NEW t \in Task, pc[t] = "return", IsMount(t), found[t] \in Nodes,
           pc' = [pc EXCEPT ![t] = "halted"], UNCHANGED <<tree, call, found, stack>>
    PROVE  IInv'
<1>0. pc' \in [Task -> Places] /\ pc'[t] = "halted" /\ \A u \in Task \ {t} : pc'[u] = pc[u]
  BY DEF IInv, Shape, Places
<1>1. Shape'
  BY <1>0 DEF IInv, Shape, tree
<1>2. CallsFit'
  BY <1>0, MounterFacts DEF IInv, CallsFit
<1>3. /\ KeepOthers(t) /\ SameMount(t) /\ pc[t] \in Aside /\ pc'[t] \in Aside /\ UNCHANGED tree
      /\ pc'[t] \notin {"make", "create"}
  BY <1>0 DEF KeepOthers, SameMount, Aside
<1>4. NodesMade' /\ EntriesConsistent' /\ Creators'
  BY <1>3, AsideKeepsEntries, AsideKeepsCreators DEF IInv
<1>5. FsStays' /\ Mounters' /\ MountedWithin' /\ MountsReplace' /\ RootsStay'
  BY <1>0, <1>3, AsideKeepsMounts
<1>6. MountWalks'
  <2>1. \A g, n : Reach(g, n)' <=> Reach(g, n)
    BY <1>3, MountingSame DEF Reach, Entered, Attached, tree
  <2>2. QED
    BY <2>1 DEF IInv, MountWalks, IsMount, Holds
<1>7. QED
  BY <1>1, <1>2, <1>4, <1>5, <1>6 DEF IInv

\* The steps of a mount after the walk leave the calls and the other tasks alone.
LEMMA MountStepKeeps ==
    ASSUME IInv, NEW t \in Task, IsMount(t), NEW l \in {"erase", "rename", "attach"},
           pc' = [pc EXCEPT ![t] = l], found[t] \in Nodes,
           UNCHANGED <<f_rootNode, kind, filesystem, dest, call, stack, found>>,
           \A g \in VNodeFs \ {call[t].fs} : f_parent'[RootOf[g]] = f_parent[RootOf[g]]
    PROVE  /\ pc' \in [Task -> Places] /\ pc'[t] = l /\ \A u \in Task \ {t} : pc'[u] = pc[u]
           /\ CallsFit'
           /\ \A u \in Task : IsMount(u)' <=> IsMount(u)
           /\ \A g : Mounting(g)' <=> Mounting(g)
           /\ \A g \in VNodeFs : Attached(g)' <=> Attached(g)
           /\ \A g, n : Reach(g, n)' <=> Reach(g, n)
           /\ MountWalks'
<1>1. pc' \in [Task -> Places] /\ pc'[t] = l /\ \A u \in Task \ {t} : pc'[u] = pc[u]
  BY DEF IInv, Shape, Places
<1>2. CallsFit'
  BY <1>1, MounterFacts DEF IInv, CallsFit
<1>3. (\A u \in Task : IsMount(u)' <=> IsMount(u)) /\ (\A g : Mounting(g)' <=> Mounting(g))
  BY DEF IsMount, Mounting
<1>4. \A g \in VNodeFs : Attached(g)' <=> Attached(g)
  BY <1>3, MounterFacts DEF Attached
<1>5. \A g, n : Reach(g, n)' <=> Reach(g, n)
  BY <1>4 DEF Reach, Entered
<1>6. MountWalks'
  BY <1>3, <1>5 DEF IInv, MountWalks, Holds
<1>7. QED
  BY <1>1, <1>2, <1>3, <1>4, <1>5, <1>6

\* The name of a location with a parent is a name of a file.
LEMMA LocationNamed ==
    ASSUME IInv, NEW t \in Task, IsMount(t), found[t] \in Nodes, f_parent[found[t]] # Null
    PROVE  name[found[t]] \in Names
<1> DEFINE x == found[t]
<1>1. CASE x \notin VRoots
  BY <1>1 DEF IInv, FsStays
<1>2. CASE x \in VRoots
  <2>1. PICK g \in VNodeFs : x = RootOf[g]
    BY <1>2, RootFacts
  <2>2. Reach(call[t].fs, x)
    BY MounterFacts DEF IInv, MountWalks, Holds
  <2>3. filesystem[x] = g /\ g # "initrd"
    BY <2>1, RootFacts DEF IInv, NodesMade
  <2>4. Entered(g)
    BY <2>2, <2>3 DEF Reach
  <2>5. f_rootNode # x
    BY <2>1 DEF IInv, Mounters
  <2>6. Attached(g)
    BY <2>1, <2>4, <2>5 DEF Entered
  <2>7. QED
    BY <2>1, <2>6 DEF IInv, MountsReplace
<1>3. QED
  BY <1>1, <1>2

\* The root of the mounted filesystem gets the location's parent.
LEMMA MountTakesParent ==
    ASSUME IInv, NEW t \in Task, pc[t] = "return", IsMount(t), found[t] \in Nodes,
           f_parent[found[t]] # Null,
           f_parent' = [f_parent EXCEPT ![RootOf[call[t].fs]] = f_parent[found[t]]],
           pc' = [pc EXCEPT ![t] = "erase"],
           UNCHANGED <<f_rootNode, kind, filesystem, name, dest, f_children, stack, call, found>>
    PROVE  IInv'
<1> DEFINE f == call[t].fs
           r == RootOf[call[t].fs]
           p == f_parent[found[t]]
<1>0. /\ f \in VNodeFs /\ f \in Fs /\ r \in Nodes /\ r \in VRoots /\ r \in Roots /\ kind[r] # Null
      /\ f_rootNode # r /\ Mounting(f) /\ ~Attached(f)
      /\ \A u \in Task \ {t} : IsMount(u) => call[u].fs # f /\ RootOf[call[u].fs] # r
      /\ \A d \in Nodes, c \in Names : f_children[d][c] # r
  BY MounterFacts, RootFacts
<1>1. p \in Nodes /\ kind[p] # Null /\ p # Null
  BY ParentFacts
<1>2. name[found[t]] \in Names
  BY LocationNamed
<1>3. Reach(f, p)
  <2>1. Reach(f, found[t])
    BY <1>0 DEF IInv, MountWalks, Holds
  <2>2. Good(t, found[t])
    BY <2>1 DEF Good
  <2>3. Good(t, p)
    BY <2>2, NextGood
  <2>4. QED
    BY <2>3 DEF Good
<1> HIDE DEF p
<1>4. /\ f_parent' \in [Nodes -> Nodes \cup {Null}] /\ f_parent'[r] = p
      /\ \A x \in Nodes \ {r} : f_parent'[x] = f_parent[x]
  BY <1>0, <1>1 DEF IInv, Shape, p
<1>5. \A g \in VNodeFs \ {f} : RootOf[g] \in Nodes \ {r} /\ f_parent'[RootOf[g]] = f_parent[RootOf[g]]
  BY <1>0, <1>4, RootFacts
<1>6. /\ pc' \in [Task -> Places] /\ pc'[t] = "erase" /\ \A u \in Task \ {t} : pc'[u] = pc[u]
      /\ CallsFit'
      /\ \A u \in Task : IsMount(u)' <=> IsMount(u)
      /\ \A g : Mounting(g)' <=> Mounting(g)
      /\ \A g \in VNodeFs : Attached(g)' <=> Attached(g)
      /\ \A g, n : Reach(g, n)' <=> Reach(g, n)
      /\ MountWalks'
  BY <1>5, MountStepKeeps
<1> HIDE DEF f, r
<1>7. Shape'
  BY <1>4, <1>6 DEF IInv, Shape
<1>8. NodesMade'
  <2>1. ASSUME NEW x \in Nodes, f_parent'[x] # Null PROVE kind[x] # Null /\ kind[f_parent'[x]] # Null
    BY <1>0, <1>1, <1>4, <2>1, ParentFacts
  <2>2. QED
    BY <2>1 DEF IInv, NodesMade
<1>9. FsStays'
  <2>1. \A x \in Nodes \ VRoots : f_parent'[x] = f_parent[x]
    BY <1>0, <1>4
  <2>2. QED
    BY <1>6, <2>1 DEF IInv, FsStays
<1>10. EntriesConsistent'
  <2> SUFFICES ASSUME NEW x \in Nodes, NEW c \in Names, f_children[x][c] # Null
               PROVE  /\ name[f_children[x][c]] = c
                      /\ \/ f_parent'[f_children[x][c]] = x
                         \/ \E u \in Task : pc'[u] = "adopt" /\ call[u].new = f_children[x][c]
                                             /\ call[u].dir = x
    BY DEF EntriesConsistent
  <2>1. /\ name[f_children[x][c]] = c
        /\ \/ f_parent[f_children[x][c]] = x
           \/ \E u \in Task : pc[u] = "adopt" /\ call[u].new = f_children[x][c] /\ call[u].dir = x
    BY DEF IInv, EntriesConsistent
  <2>2. f_parent'[f_children[x][c]] = f_parent[f_children[x][c]]
    BY <1>0, <1>4, EntryFacts
  <2>3. \A u \in Task : pc[u] = "adopt" => pc'[u] = "adopt"
    BY <1>6
  <2>4. QED
    BY <2>1, <2>2, <2>3
<1>11. Creators'
  <2>1. \A u \in Task : Creating(u)' <=> Creating(u)
    BY <1>6 DEF Creating
  <2>2. \A u \in Task : Creating(u) => f_parent'[call[u].new] = f_parent[call[u].new]
    BY <1>0, <1>4, CreatorFacts
  <2>3. \A u \in Task : pc'[u] \in {"make", "create"} => pc[u] \in {"make", "create"}
    BY <1>6
  <2>4. QED
    BY <2>1, <2>2, <2>3 DEF IInv, Creators
<1>12. Mounters'
  <2>1. ASSUME NEW u \in Task, IsMount(u)
        PROVE  /\ f_rootNode # RootOf[call[u].fs]
               /\ (f_parent'[RootOf[call[u].fs]] = Null) <=> (pc'[u] \in {"walk", "return", "halted"})
    <3>1. CASE u = t
      BY <3>1, <1>0, <1>1, <1>4, <1>6 DEF r, f
    <3>2. CASE u # t
      <4>1. f_parent'[RootOf[call[u].fs]] = f_parent[RootOf[call[u].fs]]
        BY <2>1, <3>2, <1>0, <1>4, MounterFacts
      <4>2. QED
        BY <2>1, <3>2, <4>1, <1>6 DEF IInv, Mounters
    <3>3. QED
      BY <3>1, <3>2
  <2>2. ASSUME NEW g \in VNodeFs, f_rootNode = RootOf[g] PROVE f_parent'[f_rootNode] = Null
    BY <2>2, <1>0, <1>4, RootFacts DEF IInv, Mounters
  <2>3. QED
    BY <2>1, <2>2, <1>6 DEF IInv, Mounters
<1>13. MountedWithin'
  <2> SUFFICES ASSUME NEW g \in VNodeFs, NEW q \in Nodes, f_parent'[RootOf[g]] = q PROVE Reach(g, q)
    BY <1>6 DEF MountedWithin
  <2>1. CASE g = f
    BY <2>1, <1>3, <1>4 DEF r, f
  <2>2. CASE g # f
    BY <2>2, <1>5 DEF IInv, MountedWithin
  <2>3. QED
    BY <2>1, <2>2
<1>14. ASSUME NEW u \in Task \ {t}, pc[u] \in {"erase", "rename", "attach"}
       PROVE  f_parent'[RootOf[call[u].fs]] = f_parent[RootOf[call[u].fs]]
  <2>1. IsMount(u)
    BY <1>14, CallKinds DEF IInv, CallsFit, IsMount
  <2>2. QED
    BY <2>1, <1>0, <1>4, MounterFacts
<1>15. MountsReplace'
  <2>1. ASSUME NEW u \in Task, pc'[u] \in {"erase", "rename", "attach"}
        PROVE  /\ name[found[u]] \in Names
               /\ pc'[u] # "erase" /\ filesystem[f_parent'[RootOf[call[u].fs]]] = "initrd" =>
                     f_children[f_parent'[RootOf[call[u].fs]]][name[found[u]]] \in VRoots \cup {Null}
               /\ pc'[u] = "attach" => name[RootOf[call[u].fs]] = name[found[u]]
    <3>1. CASE u = t
      BY <3>1, <1>2, <1>6
    <3>2. CASE u # t
      BY <2>1, <3>2, <1>6, <1>14 DEF IInv, MountsReplace
    <3>3. QED
      BY <3>1, <3>2
  <2>2. QED
    BY <2>1, <1>6 DEF IInv, MountsReplace
<1>16. RootsStay'
  <2> SUFFICES ASSUME NEW g \in VNodeFs, NEW q \in Nodes, NEW c \in Names,
                      f_parent'[RootOf[g]] = q, name[RootOf[g]] = c, filesystem[q] = "initrd", ~Mounting(g)
               PROVE  f_children[q][c] \in VRoots \/ Replacing(q, c)'
    BY <1>6 DEF RootsStay
  <2>1. f_parent[RootOf[g]] = q
    BY <1>0, <1>5
  <2>2. f_children[q][c] \in VRoots \/ Replacing(q, c)
    BY <2>1 DEF IInv, RootsStay
  <2>3. ASSUME Replacing(q, c) PROVE Replacing(q, c)'
    <3>1. PICK u \in Task : /\ pc[u] \in {"rename", "attach"}
                            /\ f_parent[RootOf[call[u].fs]] = q /\ name[found[u]] = c
      BY <2>3 DEF Replacing
    <3>2. u # t
      BY <3>1
    <3>3. pc'[u] \in {"rename", "attach"} /\ f_parent'[RootOf[call[u].fs]] = q
      BY <3>1, <3>2, <1>6, <1>14
    <3>4. QED
      BY <3>1, <3>3 DEF Replacing
  <2>4. QED
    BY <2>2, <2>3
<1>17. QED
  BY <1>6, <1>7, <1>8, <1>9, <1>10, <1>11, <1>12, <1>13, <1>15, <1>16 DEF IInv

\* VNode::mount() takes the parent of the location,
LEMMA MountParentIInv == ASSUME IInv, NEW t \in Task, MountParent(t) PROVE IInv'
<1>0. /\ pc[t] = "return" /\ IsMount(t)
      /\ UNCHANGED <<f_rootNode, kind, filesystem, name, dest, f_children, stack>>
  BY DEF MountParent, IsMount
<1>1. CASE found[t] \notin Nodes
  <2>1. Finish(t) /\ UNCHANGED tree /\ UNCHANGED stack
    BY <1>1 DEF MountParent, tree
  <2>2. QED
    BY <2>1, <1>0, MountFailsIInv
<1>2. CASE found[t] \in Nodes /\ f_parent[found[t]] = Null
  <2>1. pc' = [pc EXCEPT ![t] = "halted"] /\ UNCHANGED <<tree, call, found, stack>>
    BY <1>2 DEF MountParent, tree
  <2>2. QED
    BY <2>1, <1>0, <1>2, MountHaltsIInv
<1>3. CASE found[t] \in Nodes /\ f_parent[found[t]] # Null
  <2>1. /\ f_parent' = [f_parent EXCEPT ![RootOf[call[t].fs]] = f_parent[found[t]]]
        /\ pc' = [pc EXCEPT ![t] = "erase"] /\ UNCHANGED <<call, found>>
    BY <1>3 DEF MountParent
  <2>2. UNCHANGED <<f_rootNode, kind, filesystem, name, dest, f_children, stack, call, found>>
    BY <1>0, <2>1
  <2>3. QED
    BY <2>1, <2>2, <1>0, <1>3, MountTakesParent
<1>4. QED
  BY <1>1, <1>2, <1>3

\* What is known of a mount that has taken the location's parent.
LEMMA ReplacerFacts ==
    ASSUME IInv, NEW t \in Task, pc[t] \in {"erase", "rename", "attach"}
    PROVE  /\ IsMount(t) /\ found[t] \in Nodes /\ found[t] # RootOf[call[t].fs]
           /\ f_parent[RootOf[call[t].fs]] \in Nodes /\ kind[f_parent[RootOf[call[t].fs]]] # Null
           /\ name[found[t]] \in Names
<1>1. IsMount(t) /\ found[t] \in Nodes
  BY CallKinds DEF IInv, CallsFit, IsMount
<1>2. f_parent[RootOf[call[t].fs]] # Null
  BY <1>1 DEF IInv, Mounters
<1>3. name[found[t]] \in Names
  BY DEF IInv, MountsReplace
<1>4. QED
  BY <1>1, <1>2, <1>3, MounterFacts, ParentFacts

\* takes the name of the location out of it,
LEMMA MountEraseIInv == ASSUME IInv, NEW t \in Task, MountErase(t) PROVE IInv'
<1> DEFINE r == RootOf[call[t].fs]
           p == f_parent[r]
           b == name[found[t]]
<1>0. /\ pc[t] = "erase" /\ pc' = [pc EXCEPT ![t] = "rename"]
      /\ f_children' = [f_children EXCEPT ![p][b] = Null]
      /\ UNCHANGED <<f_rootNode, kind, filesystem, name, dest, f_parent, call, stack, found>>
  BY DEF MountErase
<1>1. IsMount(t) /\ found[t] \in Nodes /\ p \in Nodes /\ b \in Names
  BY <1>0, ReplacerFacts
<1>2. /\ f_children' \in [Nodes -> [Names -> Nodes \cup {Null}]]
      /\ \A x \in Nodes, c \in Names :
            f_children'[x][c] = IF x = p /\ c = b THEN Null ELSE f_children[x][c]
  <2> HIDE DEF p, b
  <2>1. f_children \in [Nodes -> [Names -> Nodes \cup {Null}]]
    BY DEF IInv, Shape
  <2>2. f_children[p] \in [Names -> Nodes \cup {Null}]
    BY <2>1, <1>1
  <2> DEFINE row == [f_children[p] EXCEPT ![b] = Null]
  <2>3. row \in [Names -> Nodes \cup {Null}] /\ \A c \in Names : row[c] = IF c = b THEN Null ELSE f_children[p][c]
    BY <2>2
  <2>4. f_children' = [f_children EXCEPT ![p] = row]
    BY <1>0
  <2> HIDE DEF row
  <2>5. f_children' \in [Nodes -> [Names -> Nodes \cup {Null}]]
    BY <2>1, <2>3, <2>4
  <2>6. \A x \in Nodes : f_children'[x] = IF x = p THEN row ELSE f_children[x]
    BY <2>1, <2>4
  <2>7. QED
    BY <2>3, <2>5, <2>6
<1>3. /\ pc' \in [Task -> Places] /\ pc'[t] = "rename" /\ \A u \in Task \ {t} : pc'[u] = pc[u]
      /\ CallsFit'
      /\ \A u \in Task : IsMount(u)' <=> IsMount(u)
      /\ \A g : Mounting(g)' <=> Mounting(g)
      /\ \A g \in VNodeFs : Attached(g)' <=> Attached(g)
      /\ \A g, n : Reach(g, n)' <=> Reach(g, n)
      /\ MountWalks'
  BY <1>0, <1>1, MountStepKeeps
<1> HIDE DEF r, p, b
<1>4. Shape'
  BY <1>0, <1>2, <1>3 DEF IInv, Shape
<1>5. \A x \in Nodes, c \in Names : f_children'[x][c] # Null => f_children'[x][c] = f_children[x][c]
  BY <1>2
<1>6. NodesMade'
  BY <1>0, <1>5 DEF IInv, NodesMade
<1>7. FsStays'
  BY <1>0, <1>3, <1>5 DEF IInv, FsStays
<1>8. EntriesConsistent'
  <2> SUFFICES ASSUME NEW x \in Nodes, NEW c \in Names, f_children'[x][c] # Null
               PROVE  /\ name[f_children'[x][c]] = c
                      /\ \/ f_parent[f_children'[x][c]] = x
                         \/ \E u \in Task : pc'[u] = "adopt" /\ call[u].new = f_children'[x][c]
                                             /\ call[u].dir = x
    BY <1>0 DEF EntriesConsistent
  <2>1. f_children'[x][c] = f_children[x][c] /\ f_children[x][c] # Null
    BY <1>5
  <2>2. \A u \in Task : pc[u] = "adopt" => pc'[u] = "adopt"
    BY <1>0, <1>3
  <2>3. /\ name[f_children[x][c]] = c
        /\ \/ f_parent[f_children[x][c]] = x
           \/ \E u \in Task : pc[u] = "adopt" /\ call[u].new = f_children[x][c] /\ call[u].dir = x
    BY <2>1 DEF IInv, EntriesConsistent
  <2>4. QED
    BY <2>1, <2>2, <2>3
<1>9. Creators'
  <2>1. \A u \in Task : Creating(u)' <=> Creating(u)
    BY <1>0, <1>3 DEF Creating
  <2>2. \A u \in Task : pc'[u] \in {"make", "create"} => pc[u] \in {"make", "create"}
    BY <1>3
  <2>3. QED
    BY <1>0, <2>1, <2>2 DEF IInv, Creators
<1>10. Mounters'
  <2>1. \A u \in Task : pc'[u] \in {"walk", "return", "halted"} <=> pc[u] \in {"walk", "return", "halted"}
    BY <1>0, <1>3
  <2>2. QED
    BY <1>0, <1>3, <2>1 DEF IInv, Mounters
<1>11. MountedWithin'
  BY <1>0, <1>3 DEF IInv, MountedWithin
<1>12. MountsReplace'
  <2>1. ASSUME NEW u \in Task, pc'[u] \in {"erase", "rename", "attach"}
        PROVE  /\ name[found[u]] \in Names
               /\ pc'[u] # "erase" /\ filesystem[f_parent[RootOf[call[u].fs]]] = "initrd" =>
                     f_children'[f_parent[RootOf[call[u].fs]]][name[found[u]]] \in VRoots \cup {Null}
               /\ pc'[u] = "attach" => name[RootOf[call[u].fs]] = name[found[u]]
    <3>1. CASE u = t
      BY <3>1, <1>1, <1>2, <1>3 DEF r, p, b
    <3>2. CASE u # t
      <4>1. pc[u] = pc'[u] /\ pc[u] \in {"erase", "rename", "attach"}
        BY <2>1, <3>2, <1>3
      <4>2. f_parent[RootOf[call[u].fs]] \in Nodes /\ name[found[u]] \in Names
        BY <4>1, ReplacerFacts
      <4>3. /\ pc[u] # "erase" /\ filesystem[f_parent[RootOf[call[u].fs]]] = "initrd" =>
                     f_children[f_parent[RootOf[call[u].fs]]][name[found[u]]] \in VRoots \cup {Null}
            /\ pc[u] = "attach" => name[RootOf[call[u].fs]] = name[found[u]]
        BY <4>1 DEF IInv, MountsReplace
      <4>4. QED
        BY <4>1, <4>2, <4>3, <1>2
    <3>3. QED
      BY <3>1, <3>2
  <2>2. QED
    BY <1>0, <2>1, <1>3 DEF IInv, MountsReplace
<1>13. RootsStay'
  <2> SUFFICES ASSUME NEW g \in VNodeFs, NEW q \in Nodes, NEW c \in Names,
                      f_parent[RootOf[g]] = q, name[RootOf[g]] = c, filesystem[q] = "initrd", ~Mounting(g)
               PROVE  f_children'[q][c] \in VRoots \/ Replacing(q, c)'
    BY <1>0, <1>3 DEF RootsStay
  <2>1. f_children[q][c] \in VRoots \/ Replacing(q, c)
    BY DEF IInv, RootsStay
  <2>2. CASE q = p /\ c = b
    BY <2>2, <1>0, <1>3 DEF Replacing, r, p, b
  <2>3. CASE ~(q = p /\ c = b)
    <3>1. f_children'[q][c] = f_children[q][c]
      BY <2>3, <1>2
    <3>2. ASSUME Replacing(q, c) PROVE Replacing(q, c)'
      BY <3>2, <1>0, <1>3 DEF Replacing
    <3>3. QED
      BY <2>1, <3>1, <3>2
  <2>4. QED
    BY <2>2, <2>3
<1>14. QED
  BY <1>3, <1>4, <1>6, <1>7, <1>8, <1>9, <1>10, <1>11, <1>12, <1>13 DEF IInv

\* names the mounted root after the location,
LEMMA MountRenameIInv == ASSUME IInv, NEW t \in Task, MountRename(t) PROVE IInv'
<1> DEFINE f == call[t].fs
           r == RootOf[call[t].fs]
           b == name[found[t]]
<1>0. /\ pc[t] = "rename" /\ pc' = [pc EXCEPT ![t] = "attach"] /\ name' = [name EXCEPT ![r] = b]
      /\ UNCHANGED <<f_rootNode, kind, filesystem, dest, f_parent, f_children, call, stack, found>>
  BY DEF MountRename
<1>1. IsMount(t) /\ found[t] \in Nodes /\ found[t] # r /\ b \in Names
  BY <1>0, ReplacerFacts
<1>2. /\ f \in VNodeFs /\ f \in Fs /\ r \in Nodes /\ r \in VRoots /\ r \in Roots
      /\ Mounting(f) /\ ~Attached(f)
      /\ \A u \in Task \ {t} : IsMount(u) => call[u].fs # f /\ RootOf[call[u].fs] # r
      /\ \A d \in Nodes, c \in Names : f_children[d][c] # r
      /\ \A u \in Task : IsMount(u) => found[u] # r
  BY <1>1, MounterFacts, RootFacts
<1>3. /\ pc' \in [Task -> Places] /\ pc'[t] = "attach" /\ \A u \in Task \ {t} : pc'[u] = pc[u]
      /\ CallsFit'
      /\ \A u \in Task : IsMount(u)' <=> IsMount(u)
      /\ \A g : Mounting(g)' <=> Mounting(g)
      /\ \A g \in VNodeFs : Attached(g)' <=> Attached(g)
      /\ \A g, n : Reach(g, n)' <=> Reach(g, n)
      /\ MountWalks'
  BY <1>0, <1>1, MountStepKeeps
<1> HIDE DEF r, b, f
<1>4. /\ name' \in [Nodes -> Names \cup {""}] /\ name'[r] = b
      /\ \A x \in Nodes \ {r} : name'[x] = name[x]
  BY <1>0, <1>1, <1>2 DEF IInv, Shape
<1>5. Shape'
  BY <1>0, <1>3, <1>4 DEF IInv, Shape
<1>6. NodesMade'
  BY <1>0 DEF IInv, NodesMade
<1>7. FsStays'
  <2>1. \A x \in Nodes \ VRoots : name'[x] = name[x]
    BY <1>2, <1>4
  <2>2. QED
    BY <1>0, <1>3, <2>1 DEF IInv, FsStays
<1>8. EntriesConsistent'
  <2> SUFFICES ASSUME NEW x \in Nodes, NEW c \in Names, f_children[x][c] # Null
               PROVE  /\ name'[f_children[x][c]] = c
                      /\ \/ f_parent[f_children[x][c]] = x
                         \/ \E u \in Task : pc'[u] = "adopt" /\ call[u].new = f_children[x][c]
                                             /\ call[u].dir = x
    BY <1>0 DEF EntriesConsistent
  <2>1. name'[f_children[x][c]] = name[f_children[x][c]]
    BY <1>2, <1>4, EntryFacts
  <2>2. \A u \in Task : pc[u] = "adopt" => pc'[u] = "adopt"
    BY <1>0, <1>3
  <2>3. /\ name[f_children[x][c]] = c
        /\ \/ f_parent[f_children[x][c]] = x
           \/ \E u \in Task : pc[u] = "adopt" /\ call[u].new = f_children[x][c] /\ call[u].dir = x
    BY DEF IInv, EntriesConsistent
  <2>4. QED
    BY <2>1, <2>2, <2>3
<1>9. Creators'
  <2>1. \A u \in Task : Creating(u)' <=> Creating(u)
    BY <1>0, <1>3 DEF Creating
  <2>2. \A u \in Task : pc'[u] \in {"make", "create"} => pc[u] \in {"make", "create"}
    BY <1>3
  <2>3. \A u \in Task : Creating(u) => name'[call[u].new] = name[call[u].new]
    BY <1>2, <1>4, CreatorFacts
  <2>4. QED
    BY <1>0, <2>1, <2>2, <2>3 DEF IInv, Creators
<1>10. Mounters'
  <2>1. \A u \in Task : pc'[u] \in {"walk", "return", "halted"} <=> pc[u] \in {"walk", "return", "halted"}
    BY <1>0, <1>3
  <2>2. QED
    BY <1>0, <1>3, <2>1 DEF IInv, Mounters
<1>11. MountedWithin'
  BY <1>0, <1>3 DEF IInv, MountedWithin
<1>12. ASSUME NEW u \in Task, pc[u] \in {"erase", "rename", "attach"}
       PROVE  name'[found[u]] = name[found[u]]
  BY <1>12, <1>2, <1>4, ReplacerFacts
<1>13. MountsReplace'
  <2>1. ASSUME NEW u \in Task, pc'[u] \in {"erase", "rename", "attach"}
        PROVE  /\ name'[found[u]] \in Names
               /\ pc'[u] # "erase" /\ filesystem[f_parent[RootOf[call[u].fs]]] = "initrd" =>
                     f_children[f_parent[RootOf[call[u].fs]]][name'[found[u]]] \in VRoots \cup {Null}
               /\ pc'[u] = "attach" => name'[RootOf[call[u].fs]] = name'[found[u]]
    <3>0. /\ pc[u] \in {"erase", "rename", "attach"} /\ (pc'[u] # "erase" => pc[u] # "erase")
          /\ name'[found[u]] = name[found[u]]
      BY <2>1, <1>0, <1>3, <1>12
    <3>1. /\ name[found[u]] \in Names
          /\ pc[u] # "erase" /\ filesystem[f_parent[RootOf[call[u].fs]]] = "initrd" =>
                f_children[f_parent[RootOf[call[u].fs]]][name[found[u]]] \in VRoots \cup {Null}
          /\ pc[u] = "attach" => name[RootOf[call[u].fs]] = name[found[u]]
      BY <3>0 DEF IInv, MountsReplace
    <3>2. CASE u = t
      BY <3>0, <3>1, <3>2, <1>4 DEF r, b
    <3>3. CASE u # t
      <4>1. pc'[u] = pc[u] /\ IsMount(u)
        BY <3>0, <3>3, <1>3, ReplacerFacts
      <4>2. name'[RootOf[call[u].fs]] = name[RootOf[call[u].fs]]
        BY <4>1, <3>3, <1>2, <1>4, MounterFacts
      <4>3. QED
        BY <3>0, <3>1, <4>1, <4>2
    <3>4. QED
      BY <3>2, <3>3
  <2>2. ASSUME NEW g \in VNodeFs, Attached(g) PROVE name'[RootOf[g]] \in Names
    <3>1. g # f
      BY <2>2, <1>2
    <3>2. RootOf[g] \in Nodes \ {r}
      BY <3>1, <1>2, RootFacts DEF r, f
    <3>3. QED
      BY <3>2, <2>2, <1>4 DEF IInv, MountsReplace
  <2>3. QED
    BY <1>0, <2>1, <2>2, <1>3 DEF MountsReplace
<1>14. RootsStay'
  <2> SUFFICES ASSUME NEW g \in VNodeFs, NEW q \in Nodes, NEW c \in Names,
                      f_parent[RootOf[g]] = q, name'[RootOf[g]] = c, filesystem[q] = "initrd", ~Mounting(g)
               PROVE  f_children[q][c] \in VRoots \/ Replacing(q, c)'
    BY <1>0, <1>3 DEF RootsStay
  <2>1. name[RootOf[g]] = c
    <3>1. g # f
      BY <1>2
    <3>2. RootOf[g] \in Nodes \ {r}
      BY <3>1, <1>2, RootFacts DEF r, f
    <3>3. QED
      BY <3>2, <1>4
  <2>2. f_children[q][c] \in VRoots \/ Replacing(q, c)
    BY <2>1 DEF IInv, RootsStay
  <2>3. ASSUME Replacing(q, c) PROVE Replacing(q, c)'
    <3>1. PICK u \in Task : /\ pc[u] \in {"rename", "attach"}
                            /\ f_parent[RootOf[call[u].fs]] = q /\ name[found[u]] = c
      BY <2>3 DEF Replacing
    <3>2. pc'[u] \in {"rename", "attach"} /\ name'[found[u]] = c
      BY <3>1, <1>3, <1>12
    <3>3. QED
      BY <1>0, <3>1, <3>2 DEF Replacing
  <2>4. QED
    BY <2>2, <2>3
<1>15. QED
  BY <1>3, <1>5, <1>6, <1>7, <1>8, <1>9, <1>10, <1>11, <1>13, <1>14 DEF IInv

\* and adds the root to the parent.
LEMMA MountAttachIInv == ASSUME IInv, NEW t \in Task, MountAttach(t) PROVE IInv'
<1>a. PICK f : f = call[t].fs
  OBVIOUS
<1> DEFINE r == RootOf[f]
           p == f_parent[r]
<1>0. /\ pc[t] = "attach" /\ Finish(t) /\ AddChild(p, r)
      /\ UNCHANGED <<f_rootNode, kind, filesystem, name, dest, f_parent, stack>>
  BY <1>a DEF MountAttach
<1>1. IsMount(t) /\ found[t] \in Nodes /\ p \in Nodes /\ kind[p] # Null
  BY <1>0, <1>a, ReplacerFacts
<1>2. name[r] = name[found[t]] /\ name[r] \in Names
  BY <1>0, <1>a DEF IInv, MountsReplace
<1>3. /\ f \in VNodeFs /\ f \in Fs /\ r \in Nodes /\ r \in VRoots /\ kind[r] # Null
      /\ Mounting(f) /\ ~Attached(f)
      /\ \A u \in Task \ {t} : IsMount(u) => call[u].fs # f
  BY <1>1, <1>a, MounterFacts
<1>4. /\ f_children' \in [Nodes -> [Names -> Nodes \cup {Null}]]
      /\ \A x \in Nodes, c \in Names :
            f_children'[x][c] = IF x = p /\ c = name[r] /\ f_children[x][c] = Null THEN r
                                ELSE f_children[x][c]
  BY <1>0, <1>1, <1>2, <1>3, AddChildEffect
<1>5. /\ pc' \in [Task -> Places] /\ pc'[t] = "idle" /\ \A u \in Task \ {t} : pc'[u] = pc[u]
      /\ call' \in [Task -> Calls] /\ call'[t] = Idle /\ \A u \in Task \ {t} : call'[u] = call[u]
      /\ found' \in [Task -> Nodes \cup Errors \cup {Null}] /\ found'[t] = Null
      /\ \A u \in Task \ {t} : found'[u] = found[u]
  BY <1>0, FinishEffect
<1>6. Shape'
  BY <1>0, <1>4, <1>5 DEF IInv, Shape
<1>7. CallsFit'
  BY <1>0, <1>5 DEF IInv, CallsFit
<1>8. /\ KeepOthers(t) /\ ~IsMount(t)'
      /\ \A u \in Task \ {t} : (IsMount(u)' <=> IsMount(u)) /\ call'[u].fs = call[u].fs
  BY <1>0, <1>5, CallKinds DEF KeepOthers, IsMount
<1>9. \A g : Mounting(g)' <=> Mounting(g) /\ g # f
  BY <1>3, <1>8, <1>a DEF Mounting, IsMount
<1>10. /\ Attached(f)' /\ \A g \in VNodeFs : Attached(g) => Attached(g)'
       /\ \A g \in VNodeFs : Attached(g)' => Attached(g) \/ g = f
  BY <1>0, <1>1, <1>9, RootFacts DEF Attached
<1>11. \A g, n : Reach(g, n) => Reach(g, n)'
  BY <1>0, <1>10 DEF Reach, Entered
<1> HIDE DEF r, p
<1>12. NodesMade'
  <2>1. ASSUME NEW x \in Nodes, NEW c \in Names, f_children'[x][c] # Null
        PROVE  kind[x] # Null /\ kind[f_children'[x][c]] # Null
    BY <1>1, <1>3, <1>4, <2>1, EntryFacts
  <2>2. QED
    BY <1>0, <2>1 DEF IInv, NodesMade
<1>13. FsStays'
  <2>1. ASSUME NEW x \in Nodes, NEW c \in Names, f_children'[x][c] # Null
        PROVE  \/ f_children'[x][c] \notin VRoots /\ filesystem[f_children'[x][c]] = filesystem[x]
               \/ \E g \in VNodeFs : f_children'[x][c] = RootOf[g] /\ Attached(g)'
    <3>1. CASE f_children'[x][c] = f_children[x][c]
      BY <2>1, <3>1, <1>10 DEF IInv, FsStays
    <3>2. CASE f_children'[x][c] # f_children[x][c]
      BY <1>3, <1>4, <1>10, <3>2 DEF r
    <3>3. QED
      BY <3>1, <3>2
  <2>2. QED
    BY <1>0, <2>1 DEF IInv, FsStays
<1>14. EntriesConsistent'
  <2> SUFFICES ASSUME NEW x \in Nodes, NEW c \in Names, f_children'[x][c] # Null
               PROVE  /\ name[f_children'[x][c]] = c
                      /\ \/ f_parent[f_children'[x][c]] = x
                         \/ \E u \in Task : pc'[u] = "adopt" /\ call'[u].new = f_children'[x][c]
                                             /\ call'[u].dir = x
    BY <1>0 DEF EntriesConsistent
  <2>1. CASE f_children'[x][c] = f_children[x][c]
    <3>1. /\ name[f_children[x][c]] = c
          /\ \/ f_parent[f_children[x][c]] = x
             \/ \E u \in Task : pc[u] = "adopt" /\ call[u].new = f_children[x][c] /\ call[u].dir = x
      BY <2>1 DEF IInv, EntriesConsistent
    <3>2. \A u \in Task : pc[u] = "adopt" => pc'[u] = "adopt" /\ call'[u] = call[u]
      BY <1>0, <1>5
    <3>3. QED
      BY <2>1, <3>1, <3>2
  <2>2. CASE f_children'[x][c] # f_children[x][c]
    BY <1>4, <2>2 DEF p
  <2>3. QED
    BY <2>1, <2>2
<1>15. Creators'
  <2>1. \A u \in Task : Creating(u)' => Creating(u) /\ call'[u] = call[u]
    BY <1>5 DEF Creating
  <2>2. \A u \in Task : pc'[u] \in {"make", "create"} => pc[u] \in {"make", "create"} /\ call'[u] = call[u]
    BY <1>5
  <2>3. QED
    BY <1>0, <2>1, <2>2 DEF IInv, Creators
<1>16. Mounters'
  <2>1. \A u \in Task : IsMount(u)' => u # t /\ IsMount(u) /\ call'[u] = call[u] /\ pc'[u] = pc[u]
    BY <1>5, <1>8
  <2>2. QED
    BY <1>0, <2>1 DEF IInv, Mounters
<1>17. MountWalks'
  <2> SUFFICES ASSUME NEW u \in Task, NEW g \in VNodeFs, NEW n \in Nodes,
                      IsMount(u)', call'[u].fs = g, Holds(u, n)'
               PROVE  Reach(g, n)'
    BY DEF MountWalks
  <2>1. u # t /\ IsMount(u) /\ call[u].fs = g /\ Holds(u, n)
    BY <1>8, OthersHold
  <2>2. QED
    BY <2>1, <1>11 DEF IInv, MountWalks
<1>18. MountedWithin'
  BY <1>0, <1>11 DEF IInv, MountedWithin
<1>19. filesystem[p] = "initrd" => f_children'[p][name[r]] \in VRoots
  <2>1. filesystem[p] = "initrd" => f_children[p][name[r]] \in VRoots \cup {Null}
    BY <1>0, <1>2, <1>a DEF IInv, MountsReplace, p, r
  <2>2. QED
    BY <2>1, <1>1, <1>2, <1>3, <1>4
<1>20. MountsReplace'
  <2>1. ASSUME NEW u \in Task, pc'[u] \in {"erase", "rename", "attach"}
        PROVE  /\ name[found'[u]] \in Names
               /\ pc'[u] # "erase" /\ filesystem[f_parent[RootOf[call'[u].fs]]] = "initrd" =>
                     f_children'[f_parent[RootOf[call'[u].fs]]][name[found'[u]]] \in VRoots \cup {Null}
               /\ pc'[u] = "attach" => name[RootOf[call'[u].fs]] = name[found'[u]]
    <3>1. /\ pc[u] = pc'[u] /\ pc[u] \in {"erase", "rename", "attach"}
          /\ call'[u] = call[u] /\ found'[u] = found[u]
      BY <2>1, <1>5
    <3>2. f_parent[RootOf[call[u].fs]] \in Nodes /\ name[found[u]] \in Names
      BY <3>1, ReplacerFacts
    <3>3. /\ pc[u] # "erase" /\ filesystem[f_parent[RootOf[call[u].fs]]] = "initrd" =>
                f_children[f_parent[RootOf[call[u].fs]]][name[found[u]]] \in VRoots \cup {Null}
          /\ pc[u] = "attach" => name[RootOf[call[u].fs]] = name[found[u]]
      BY <3>1 DEF IInv, MountsReplace
    <3>4. QED
      BY <3>1, <3>2, <3>3, <1>3, <1>4
  <2>2. \A g \in VNodeFs : Attached(g)' => name[RootOf[g]] \in Names
    BY <1>2, <1>10 DEF IInv, MountsReplace, r
  <2>3. QED
    BY <1>0, <2>1, <2>2 DEF MountsReplace
<1>21. RootsStay'
  <2> SUFFICES ASSUME NEW g \in VNodeFs, NEW q \in Nodes, NEW c \in Names,
                      f_parent[RootOf[g]] = q, name[RootOf[g]] = c, filesystem[q] = "initrd", ~Mounting(g)'
               PROVE  f_children'[q][c] \in VRoots \/ Replacing(q, c)'
    BY <1>0 DEF RootsStay
  <2>1. CASE q = p /\ c = name[r]
    BY <2>1, <1>19
  <2>2. CASE ~(q = p /\ c = name[r])
    <3>1. g # f
      BY <2>2 DEF p, r
    <3>2. ~Mounting(g)
      BY <3>1, <1>9
    <3>3. f_children[q][c] \in VRoots \/ Replacing(q, c)
      BY <3>2 DEF IInv, RootsStay
    <3>4. f_children'[q][c] = f_children[q][c]
      BY <2>2, <1>4
    <3>5. ASSUME Replacing(q, c) PROVE Replacing(q, c)'
      <4>1. PICK u \in Task : /\ pc[u] \in {"rename", "attach"}
                              /\ f_parent[RootOf[call[u].fs]] = q /\ name[found[u]] = c
        BY <3>5 DEF Replacing
      <4>2. u # t
        BY <4>1, <2>2, <1>2, <1>a DEF p, r
      <4>3. pc'[u] = pc[u] /\ call'[u] = call[u] /\ found'[u] = found[u]
        BY <4>2, <1>5
      <4>4. QED
        BY <1>0, <4>1, <4>3 DEF Replacing
    <3>6. QED
      BY <3>3, <3>4, <3>5
  <2>3. QED
    BY <2>1, <2>2
<1>22. QED
  BY <1>6, <1>7, <1>12, <1>13, <1>14, <1>15, <1>16, <1>17, <1>18, <1>20, <1>21 DEF IInv

-----------------------------------------------------------------------------
(* The invariant and the theorem *)

\* The tree of the initrd, and the roots of devfs and sysfs that are nowhere yet.
LEMMA InitIInv == Init => IInv
<1> SUFFICES ASSUME Init PROVE IInv
  OBVIOUS
<1> DEFINE given == DOMAIN InitrdTree
           roots == {RootOf[f] : f \in Fs}
<1>0. /\ f_rootNode = RootOf["initrd"]
      /\ kind = [n \in Nodes |-> IF n \in roots THEN "dir"
                                 ELSE IF n \in given THEN InitrdTree[n].kind ELSE Null]
      /\ filesystem = [n \in Nodes |->
                IF n \in roots THEN CHOOSE f \in Fs : RootOf[f] = n
                ELSE IF n \in given THEN "initrd" ELSE Null]
      /\ name = [n \in Nodes |-> IF n \in given THEN InitrdTree[n].name ELSE ""]
      /\ f_parent = [n \in Nodes |-> IF n \in given THEN InitrdTree[n].parent ELSE Null]
      /\ f_children = [n \in Nodes |-> [c \in Names |->
                LET here == {m \in given : InitrdTree[m].name = c /\ InitrdTree[m].parent = n}
                IN  IF here = {} THEN Null ELSE CHOOSE m \in here : TRUE]]
      /\ dest = [n \in Nodes |-> <<>>] /\ pc = [t \in Task |-> "idle"] /\ call = [t \in Task |-> Idle]
      /\ stack = [t \in Task |-> <<>>] /\ found = [t \in Task |-> Null]
  BY DEF Init
<1>1. /\ given \subseteq Nodes \ roots
      /\ \A n \in given : /\ InitrdTree[n].name \in Names /\ InitrdTree[n].kind \in Kinds
                          /\ InitrdTree[n].parent \in given \cup {RootOf["initrd"]}
  BY VfsAssumption
<1>2. roots = Roots /\ Roots \subseteq Nodes
  BY RootFacts
<1> HIDE DEF given, roots
<1>3. ASSUME NEW n \in Nodes, NEW c \in Names
      PROVE  /\ f_children[n][c] \in Nodes \cup {Null}
             /\ f_children[n][c] # Null => /\ f_children[n][c] \in given
                                           /\ InitrdTree[f_children[n][c]].name = c
                                           /\ InitrdTree[f_children[n][c]].parent = n
  <2> DEFINE here == {m \in given : InitrdTree[m].name = c /\ InitrdTree[m].parent = n}
  <2>1. f_children[n][c] = IF here = {} THEN Null ELSE CHOOSE m \in here : TRUE
    BY <1>0
  <2>2. here # {} => (CHOOSE m \in here : TRUE) \in here
    OBVIOUS
  <2>3. QED
    BY <2>1, <2>2, <1>1
<1>4. /\ \A n \in Nodes : kind[n] \in Kinds \cup {Null}
      /\ \A n \in given : kind[n] # Null /\ filesystem[n] = "initrd" /\ name[n] = InitrdTree[n].name
                          /\ f_parent[n] = InitrdTree[n].parent
      /\ \A n \in Nodes \ given : f_parent[n] = Null /\ name[n] = ""
      /\ \A n \in Nodes : n \notin given /\ n \notin roots => kind[n] = Null /\ filesystem[n] = Null
  BY <1>0, <1>1, RootFacts DEF Kinds
<1>5. ASSUME NEW f \in Fs PROVE kind[RootOf[f]] = "dir" /\ filesystem[RootOf[f]] = f
  <2>1. RootOf[f] \in Nodes /\ RootOf[f] \in roots
    BY <1>2, RootFacts
  <2>2. \A g \in Fs : RootOf[g] = RootOf[f] => g = f
    BY RootFacts
  <2>3. (CHOOSE g \in Fs : RootOf[g] = RootOf[f]) = f
    BY <2>2
  <2>4. QED
    BY <1>0, <2>1, <2>3
<1>6. ASSUME NEW n \in Nodes PROVE (kind[n] = Null <=> filesystem[n] = Null) /\ filesystem[n] \in Fs \cup {Null}
  <2>1. CASE n \in roots
    <3>1. PICK f \in Fs : n = RootOf[f]
      BY <2>1, <1>2, RootFacts
    <3>2. QED
      BY <3>1, <1>5, RootFacts DEF Kinds
  <2>2. CASE n \in given
    BY <2>2, <1>4, RootFacts
  <2>3. CASE n \notin given /\ n \notin roots
    BY <2>3, <1>4
  <2>4. QED
    BY <2>1, <2>2, <2>3
<1>7. Shape
  <2>1. kind \in [Nodes -> Kinds \cup {Null}] /\ filesystem \in [Nodes -> Fs \cup {Null}]
    BY <1>0, <1>4, <1>6
  <2>2. name \in [Nodes -> Names \cup {""}] /\ f_parent \in [Nodes -> Nodes \cup {Null}]
    BY <1>0, <1>1, <1>2, RootFacts
  <2>3. f_children \in [Nodes -> [Names -> Nodes \cup {Null}]]
    <3> DEFINE Cell(n, c) ==
                LET here == {m \in given : InitrdTree[m].name = c /\ InitrdTree[m].parent = n}
                IN  IF here = {} THEN Null ELSE CHOOSE m \in here : TRUE
    <3>1. f_children = [n \in Nodes |-> [c \in Names |-> Cell(n, c)]]
      BY <1>0
    <3> HIDE DEF Cell
    <3>2. ASSUME NEW n \in Nodes, NEW c \in Names PROVE Cell(n, c) \in Nodes \cup {Null}
      <4>1. f_children[n][c] = Cell(n, c)
        BY <3>1
      <4>2. QED
        BY <4>1, <1>3
    <3>3. QED
      BY <3>1, <3>2
  <2>4. <<>> \in Seq(Comps) /\ <<>> \in Seq(Frames) /\ Idle \in Calls /\ "idle" \in Places
    BY DEF Calls, Places
  <2>5. f_rootNode \in Roots
    BY <1>0, RootFacts
  <2>6. /\ dest \in [Nodes -> Seq(Comps)] /\ pc \in [Task -> Places] /\ call \in [Task -> Calls]
        /\ stack \in [Task -> Seq(Frames)] /\ found \in [Task -> Nodes \cup Errors \cup {Null}]
    BY <1>0, <2>4
  <2>7. QED
    BY <2>1, <2>2, <2>3, <2>5, <2>6 DEF Shape
<1>8. CallsFit
  BY <1>0 DEF CallsFit
<1>9. NodesMade
  <2>1. ASSUME NEW n \in Nodes, f_parent[n] # Null PROVE kind[n] # Null /\ kind[f_parent[n]] # Null
    <3>1. n \in given /\ f_parent[n] \in given \cup {RootOf["initrd"]}
      BY <2>1, <1>1, <1>4
    <3>2. kind[RootOf["initrd"]] # Null
      BY <1>5, RootFacts DEF Kinds
    <3>3. QED
      BY <3>1, <3>2, <1>4
  <2>2. ASSUME NEW n \in Nodes, NEW c \in Names, f_children[n][c] # Null
        PROVE  kind[n] # Null /\ kind[f_children[n][c]] # Null
    <3>1. f_children[n][c] \in given /\ n \in given \cup {RootOf["initrd"]}
      BY <2>2, <1>1, <1>3
    <3>2. kind[RootOf["initrd"]] # Null
      BY <1>5, RootFacts DEF Kinds
    <3>3. QED
      BY <3>1, <3>2, <1>4
  <2>3. QED
    BY <1>5, <1>6, <2>1, <2>2 DEF NodesMade
<1>10. filesystem[RootOf["initrd"]] = "initrd"
  BY <1>5, RootFacts
<1>11. FsStays
  <2>1. ASSUME NEW n \in Nodes \ VRoots, f_parent[n] # Null
        PROVE  name[n] \in Names /\ filesystem[f_parent[n]] = filesystem[n]
    <3>1. n \in given
      BY <2>1, <1>4
    <3>2. name[n] \in Names /\ filesystem[n] = "initrd" /\ f_parent[n] \in given \cup {RootOf["initrd"]}
      BY <3>1, <1>1, <1>4
    <3>3. QED
      BY <3>2, <1>4, <1>10
  <2>2. ASSUME NEW n \in Nodes, NEW c \in Names, f_children[n][c] # Null
        PROVE  f_children[n][c] \notin VRoots /\ filesystem[f_children[n][c]] = filesystem[n]
    <3>1. f_children[n][c] \in given /\ n \in given \cup {RootOf["initrd"]}
      BY <2>2, <1>1, <1>3
    <3>2. QED
      BY <3>1, <1>1, <1>2, <1>4, <1>10, RootFacts
  <2>3. QED
    BY <2>1, <2>2 DEF FsStays
<1>12. \A t \in Task : pc[t] = "idle" /\ call[t].op # "mount"
  BY <1>0 DEF Idle
<1>13. \A g \in VNodeFs : RootOf[g] \in Nodes /\ f_parent[RootOf[g]] = Null
  <2>1. ASSUME NEW g \in VNodeFs PROVE RootOf[g] \in Nodes \ given
    BY <1>1, <1>2, RootFacts
  <2>2. QED
    BY <2>1, <1>4
<1>14. f_rootNode \notin VRoots
  BY <1>0, RootFacts
<1>15. Creators
  BY <1>12 DEF Creators, Creating
<1>16. Mounters
  BY <1>12, <1>14, RootFacts DEF Mounters, IsMount
<1>17. MountWalks /\ MountedWithin /\ RootsStay
  BY <1>12, <1>13, RootFacts DEF MountWalks, MountedWithin, RootsStay, IsMount
<1>18. MountsReplace
  BY <1>12, <1>13 DEF MountsReplace, Attached
<1>19. EntriesConsistent
  <2>1. ASSUME NEW n \in Nodes, NEW c \in Names, f_children[n][c] # Null
        PROVE  name[f_children[n][c]] = c /\ f_parent[f_children[n][c]] = n
    <3> DEFINE m == f_children[n][c]
    <3>1. m \in given /\ InitrdTree[m].name = c /\ InitrdTree[m].parent = n
      BY <2>1, <1>3
    <3> HIDE DEF m
    <3>2. name[m] = c /\ f_parent[m] = n
      BY <3>1, <1>4
    <3>3. QED
      BY <3>2 DEF m
  <2>2. QED
    BY <2>1 DEF EntriesConsistent
<1>20. QED
  BY <1>7, <1>8, <1>9, <1>11, <1>15, <1>16, <1>17, <1>18, <1>19 DEF IInv

\* Nothing changes.
LEMMA StutterIInv == ASSUME IInv, UNCHANGED vars PROVE IInv'
<1>1. UNCHANGED <<tree, pc, call, stack, found>>
  BY DEF vars
<1>2. \A g : (Mounting(g)' <=> Mounting(g)) /\ (Attached(g)' <=> Attached(g))
  BY <1>1 DEF Mounting, Attached, tree
<1>3. \A g, n : Reach(g, n)' <=> Reach(g, n)
  BY <1>1, <1>2 DEF Reach, Entered, tree
<1>4. Shape' /\ CallsFit' /\ NodesMade' /\ EntriesConsistent'
  <2>1. Shape'
    BY <1>1 DEF IInv, Shape, tree
  <2>2. CallsFit' /\ NodesMade'
    BY <1>1 DEF IInv, CallsFit, NodesMade, tree
  <2>3. EntriesConsistent'
    BY <1>1 DEF IInv, EntriesConsistent, tree
  <2>4. QED
    BY <2>1, <2>2, <2>3
<1>5. FsStays' /\ MountsReplace'
  BY <1>1, <1>2 DEF IInv, FsStays, MountsReplace, tree
<1>6. Creators'
  BY <1>1 DEF IInv, Creators, Creating, tree
<1>7. Mounters'
  BY <1>1 DEF IInv, Mounters, IsMount, tree
<1>8. MountWalks'
  BY <1>1, <1>3 DEF IInv, MountWalks, IsMount, Holds
<1>9. MountedWithin'
  BY <1>1, <1>3 DEF IInv, MountedWithin, tree
<1>10. RootsStay'
  BY <1>1, <1>2 DEF IInv, RootsStay, Replacing, tree
<1>11. QED
  BY <1>4, <1>5, <1>6, <1>7, <1>8, <1>9, <1>10 DEF IInv

\* The invariant holds in every state.
LEMMA IInvAlways == Spec => []IInv
<1>1. IInv /\ [Next]_vars => IInv'
  BY OpenatIInv, WalkIInv, OpenReturnIInv, SymlinkatIInv, SymlinkReturnIInv, InsertIInv, AdoptIInv,
     AddIInv, MakePathIInv, CreateIInv, MountIInv, MountParentIInv, MountEraseIInv, MountRenameIInv,
     MountAttachIInv, StutterIInv DEF Next
<1>2. QED
  BY <1>1, InitIInv, PTL DEF Spec

\* The tree of nodes stays one, for any number of tasks, nodes, names and paths: entries
\* and parents agree, and a mounted root keeps its place (VNode::mount, add_child).
THEOREM TreeStaysConsistent == Spec => []TreeConsistent
<1>1. IInv => TreeConsistent
  <2> SUFFICES ASSUME IInv PROVE EntriesConsistent /\ MountsStay
    BY DEF TreeConsistent
  <2>1. ASSUME NEW f \in VNodeFs, f_parent[RootOf[f]] # Null,
               filesystem[f_parent[RootOf[f]]] = "initrd", ~Mounting(f)
        PROVE  \/ f_children[f_parent[RootOf[f]]][name[RootOf[f]]] \in {RootOf[g] : g \in VNodeFs}
               \/ Replacing(f_parent[RootOf[f]], name[RootOf[f]])
    <3>1. Attached(f)
      BY <2>1 DEF Attached
    <3>2. name[RootOf[f]] \in Names
      BY <3>1 DEF IInv, MountsReplace
    <3>3. f_parent[RootOf[f]] \in Nodes
      BY <2>1, RootFacts, ParentFacts
    <3>4. QED
      BY <2>1, <3>2, <3>3 DEF IInv, RootsStay, VRoots
  <2>2. QED
    BY <2>1 DEF IInv, MountsStay
<1>2. QED
  BY <1>1, IInvAlways, PTL

-----------------------------------------------------------------------------
(* The walk descends.  A level that waits for another stands at a link,    *)
(* and the levels below the first resolve a link at their end: what is     *)
(* returned to a level is not a link, which is less than what it had.      *)

LevelsFit ==
    \A t \in Task : pc[t] = "walk" =>
        /\ Len(stack[t]) <= MaxDepth + 1
        /\ \A i \in 1..(Len(stack[t]) - 1) : kind[stack[t][i].root] = "link"
        /\ \A i \in 2..Len(stack[t]) : stack[t][i].resolve_link

\* One step of the walk of t: the levels s become the levels z.
Descends(s, z) ==
    /\ Len(z) <= MaxDepth + 1
    /\ \/ Len(z) = Len(s) + 1 /\ Front(z) = s
       \/ /\ Len(z) <= Len(s) /\ Front(z) = SubSeq(s, 1, Len(z) - 1)
          /\ Left(Last(z)) < Left(s[Len(z)])

\* What LevelsFit says of the levels z.
Fits(z) ==
    /\ Len(z) <= MaxDepth + 1
    /\ \A i \in 1..(Len(z) - 1) : kind[z[i].root] = "link"
    /\ \A i \in 2..Len(z) : z[i].resolve_link

\* The top of the levels is replaced by q, with less left.
LEMMA ReplaceTop ==
    ASSUME NEW s \in Seq(Frames), Fits(s), NEW k \in 1..Len(s), NEW q \in Frames,
           Left(q) < Left(s[k]), q.resolve_link = s[k].resolve_link
    PROVE  LET z == Append(SubSeq(s, 1, k - 1), q) IN Descends(s, z) /\ Fits(z) /\ z # <<>>
<1> DEFINE low == SubSeq(s, 1, k - 1)
           z == Append(low, q)
<1>1. k \in Nat /\ k >= 1 /\ k <= Len(s) /\ Len(s) \in Nat
  OBVIOUS
<1>a. MaxDepth \in Nat
  BY VfsAssumption
<1>b. Len(s) <= MaxDepth + 1
  BY DEF Fits
<1>c. k <= MaxDepth + 1
  BY <1>1, <1>a, <1>b
<1>2. low \in Seq(Frames) /\ Len(low) = k - 1 /\ \A i \in 1..(k - 1) : low[i] = s[i]
  BY <1>1
<1> HIDE DEF low
<1>3. z \in Seq(Frames) /\ Len(z) = k /\ z[k] = q /\ \A i \in 1..(k - 1) : z[i] = s[i]
  BY <1>1, <1>2
<1>4. SubSeq(z, 1, k - 1) = low
  <2>1. SubSeq(z, 1, k - 1) \in Seq(Frames) /\ Len(SubSeq(z, 1, k - 1)) = k - 1
        /\ \A i \in 1..(k - 1) : SubSeq(z, 1, k - 1)[i] = z[i]
    BY <1>1, <1>3
  <2>2. QED
    BY <2>1, <1>1, <1>2, <1>3, SeqEqual
<1> HIDE DEF z
<1>5. Front(z) = SubSeq(s, 1, Len(z) - 1) /\ Last(z) = q
  BY <1>3, <1>4 DEF Front, Last, low
<1>6. Descends(s, z)
  <2>1. Len(z) <= MaxDepth + 1 /\ Len(z) <= Len(s)
    BY <1>1, <1>c, <1>3
  <2>2. Left(Last(z)) < Left(s[Len(z)])
    BY <1>3, <1>5
  <2>3. QED
    BY <2>1, <2>2, <1>5 DEF Descends
<1>7. Fits(z)
  <2>1. Len(z) <= MaxDepth + 1
    BY <1>c, <1>3
  <2>2. ASSUME NEW i \in 1..(Len(z) - 1) PROVE kind[z[i].root] = "link"
    BY <1>1, <1>3 DEF Fits
  <2>3. ASSUME NEW i \in 2..Len(z) PROVE z[i].resolve_link
    <3>1. CASE i = k
      BY <3>1, <1>1, <1>3 DEF Fits
    <3>2. CASE i # k
      <4>1. i \in 2..Len(s) /\ i \in 1..(k - 1)
        BY <3>2, <1>1, <1>3
      <4>2. QED
        BY <4>1, <1>3 DEF Fits
    <3>3. QED
      BY <3>1, <3>2
  <2>4. QED
    BY <2>1, <2>2, <2>3 DEF Fits
<1>8. z # <<>>
  BY <1>1, <1>3
<1>9. QED
  BY <1>6, <1>7, <1>8 DEF z, low

\* What is left of a level, as a number.
LEMMA LeftBounds ==
    ASSUME NEW q \in Frames
    PROVE  /\ Len(q.path) \in Nat
           /\ kind[q.root] = "link" => Left(q) = 2 * Len(q.path) + 1
           /\ kind[q.root] # "link" => Left(q) = 2 * Len(q.path)
<1>1. Len(q.path) \in Nat
  BY DEF Frames
<1>2. CASE kind[q.root] = "link"
  <2>1. Left(q) = 2 * Len(q.path) + 1
    BY <1>2 DEF Left
  <2>2. QED
    BY <1>1, <1>2, <2>1
<1>3. CASE kind[q.root] # "link"
  <2>1. Left(q) = 2 * Len(q.path) + 0
    BY <1>3 DEF Left
  <2>2. QED
    BY <1>1, <1>3, <2>1
<1>4. QED
  BY <1>2, <1>3

\* One step of a walk descends, and leaves its levels in shape.
LEMMA WalkFits ==
    ASSUME IInv, LevelsFit, NEW t \in Task, Walk(t)
    PROVE  /\ stack'[t] # <<>> /\ stack'[t] # stack[t] => Descends(stack[t], stack'[t])
           /\ pc'[t] = "walk" => Fits(stack'[t])
<1> DEFINE s == stack[t]
           q == Top(t)
           k == Len(stack[t])
<1>0. pc[t] = "walk" /\ kind' = kind
  BY DEF Walk, tree
<1>1. /\ s \in Seq(Frames) /\ k \in Nat \ {0} /\ q = s[k] /\ q \in Frames
      /\ q.root \in Nodes /\ q.path \in Seq(Comps)
      /\ q.resolve_link \in BOOLEAN /\ q.follow_links \in BOOLEAN
  BY <1>0, TopFrame
<1>2. Fits(s)
  BY <1>0 DEF LevelsFit, Fits
<1>3. stack \in [Task -> Seq(Frames)] /\ pc \in [Task -> Places]
  BY DEF IInv, Shape
<1>4. ASSUME NEW e, Fail(t, e) PROVE stack'[t] = <<>> /\ pc'[t] # "walk"
  BY <1>3, <1>4 DEF Fail
<1>5. ASSUME NEW n \in Nodes, NEW path, path = Tail(q.path), q.path # <<>>, kind[q.root] # "link",
             GoOn(t, n, path)
      PROVE  Descends(s, stack'[t]) /\ Fits(stack'[t])
  <2> DEFINE w == [q EXCEPT !.root = n, !.path = path]
  <2>1. path \in Seq(Comps) /\ Len(path) = Len(q.path) - 1 /\ Len(q.path) \in Nat
    BY <1>1, <1>5
  <2>2. w \in Frames /\ w.root = n /\ w.path = path /\ w.resolve_link = q.resolve_link
    BY <1>1, <2>1 DEF Frames
  <2>3. stack'[t] = Append(SubSeq(s, 1, k - 1), w)
    BY <1>3, <1>5 DEF GoOn, Front, Last, Top
  <2> HIDE DEF w, s, q, k
  <2>4. Left(w) < Left(q)
    <3>1. Left(q) = 2 * Len(q.path)
      BY <1>1, <1>5, LeftBounds
    <3>2. Left(w) = 2 * Len(path) + 1 \/ Left(w) = 2 * Len(path)
      BY <2>2, LeftBounds
    <3>3. QED
      BY <2>1, <3>1, <3>2
  <2>5. k \in 1..Len(s)
    BY <1>1 DEF s, k
  <2>6. QED
    BY <1>1, <1>2, <2>2, <2>3, <2>4, <2>5, ReplaceTop
<1>6. CASE WalkComponent(t)
  <2>1. q.path # <<>> /\ kind[q.root] # "link"
    BY <1>6 DEF WalkComponent
  <2>2. Head(q.path) \in Comps
    BY <1>1, <2>1
  <2>3. \/ \E e : Fail(t, e)
        \/ GoOn(t, q.root, Tail(q.path))
        \/ f_parent[q.root] # Null /\ GoOn(t, f_parent[q.root], Tail(q.path))
        \/ Head(q.path) \notin {"", ".", ".."} /\ f_children[q.root][Head(q.path)] # Null
           /\ GoOn(t, f_children[q.root][Head(q.path)], Tail(q.path))
    BY <1>6 DEF WalkComponent
  <2> HIDE DEF q, s, k
  <2>4. CASE \E e : Fail(t, e)
    BY <2>4, <1>4
  <2>5. CASE GoOn(t, q.root, Tail(q.path))
    BY <2>1, <2>5, <1>1, <1>5 DEF s
  <2>6. CASE f_parent[q.root] # Null /\ GoOn(t, f_parent[q.root], Tail(q.path))
    <3>1. f_parent[q.root] \in Nodes
      BY <2>6, <1>1, ParentFacts
    <3>2. QED
      BY <2>1, <2>6, <3>1, <1>5 DEF s
  <2>7. CASE Head(q.path) \notin {"", ".", ".."} /\ f_children[q.root][Head(q.path)] # Null
           /\ GoOn(t, f_children[q.root][Head(q.path)], Tail(q.path))
    <3>1. Head(q.path) \in Names
      BY <2>2, <2>7 DEF Comps
    <3>2. f_children[q.root][Head(q.path)] \in Nodes
      BY <2>7, <3>1, <1>1, EntryFacts
    <3>3. QED
      BY <2>1, <2>7, <3>2, <1>5 DEF s
  <2>8. QED
    BY <2>3, <2>4, <2>5, <2>6, <2>7
<1>7. CASE WalkLink(t)
  <2>1. kind[q.root] = "link" /\ (Fail(t, "ELOOP") \/ ResolveLink(t, q.root))
    BY <1>7 DEF WalkLink
  <2>2. CASE \E e : Fail(t, e)
    BY <2>2, <1>4
  <2>3. CASE ~\E e : Fail(t, e)
    <3> DEFINE w == Frame(f_parent[q.root], dest[q.root], TRUE, TRUE)
    <3>1. stack'[t] = Append(s, w) /\ ~(k - 1 >= MaxDepth)
      BY <2>1, <2>3, <1>3 DEF ResolveLink
    <3>2. w.resolve_link = TRUE
      BY DEF Frame
    <3> HIDE DEF w, q
    <3> DEFINE z == Append(s, w)
    <3>3. Len(z) = k + 1 /\ z[k + 1] = w /\ (\A i \in 1..k : z[i] = s[i]) /\ Len(s) = k
      BY <1>1
    <3>4. Front(z) = s
      <4>1. Front(z) = SubSeq(z, 1, k)
        BY <1>1, <3>3 DEF Front
      <4>2. QED
        BY <4>1, <1>1, AppendProperties
    <3> HIDE DEF s, z, k
    <3>5. k + 1 <= MaxDepth + 1
      <4>1. MaxDepth \in Nat
        BY VfsAssumption
      <4>2. QED
        BY <4>1, <3>1, <1>1
    <3>6. Descends(s, z)
      BY <3>3, <3>4, <3>5 DEF Descends
    <3>7. Fits(z)
      <4>1. ASSUME NEW i \in 1..(Len(z) - 1) PROVE kind[z[i].root] = "link"
        <5>1. i \in 1..k /\ z[i] = s[i]
          BY <1>1, <3>3
        <5>2. CASE i = k
          BY <5>1, <5>2, <1>1, <2>1
        <5>3. CASE i # k
          BY <5>1, <5>3, <1>1, <1>2, <3>3 DEF Fits
        <5>4. QED
          BY <5>2, <5>3
      <4>2. ASSUME NEW i \in 2..Len(z) PROVE z[i].resolve_link
        <5>1. CASE i = k + 1
          BY <5>1, <3>2, <3>3
        <5>2. CASE i # k + 1
          <6>1. i \in 1..k /\ i \in 2..Len(s)
            BY <5>2, <1>1, <3>3
          <6>2. QED
            BY <6>1, <1>2, <3>3 DEF Fits
        <5>3. QED
          BY <5>1, <5>2
      <4>3. QED
        BY <4>1, <4>2, <3>3, <3>5 DEF Fits
    <3>8. QED
      BY <3>1, <3>6, <3>7 DEF s, z
  <2>4. QED
    BY <2>2, <2>3
<1>8. CASE WalkEnd(t)
  <2>1. q.path = <<>> /\ (kind[q.root] # "link" \/ ~q.resolve_link)
    BY <1>8 DEF WalkEnd
  <2>2. CASE k = 1
    BY <2>2, <1>3, <1>8 DEF WalkEnd
  <2>3. CASE k # 1
    <3> DEFINE outer == Front(s)
               w == [Last(outer) EXCEPT !.root = q.root]
    <3>1. stack'[t] = Append(Front(outer), w)
      BY <2>3, <1>3, <1>8 DEF WalkEnd
    <3>2. k - 1 \in Nat \ {0} /\ k - 1 \in 1..Len(s) /\ k \in 2..Len(s) /\ k - 1 \in 1..(Len(s) - 1)
      <4>1. Len(s) = k
        OBVIOUS
      <4> HIDE DEF s, k, q
      <4>2. QED
        BY <4>1, <1>1, <2>3
    <3>3. outer \in Seq(Frames) /\ Len(outer) = k - 1 /\ \A i \in 1..(k - 1) : outer[i] = s[i]
      BY <1>1, <3>2 DEF Front
    <3>4. Last(outer) = s[k - 1] /\ s[k - 1] \in Frames
      BY <1>1, <3>2, <3>3 DEF Last
    <3>5. Front(outer) = SubSeq(s, 1, k - 2)
      <4>1. Front(outer) = SubSeq(outer, 1, k - 2)
        BY <3>2, <3>3 DEF Front
      <4>2. SubSeq(outer, 1, k - 2) \in Seq(Frames) /\ Len(SubSeq(outer, 1, k - 2)) = k - 2
            /\ \A i \in 1..(k - 2) : SubSeq(outer, 1, k - 2)[i] = outer[i]
        BY <3>2, <3>3
      <4>3. SubSeq(s, 1, k - 2) \in Seq(Frames) /\ Len(SubSeq(s, 1, k - 2)) = k - 2
            /\ \A i \in 1..(k - 2) : SubSeq(s, 1, k - 2)[i] = s[i]
        BY <3>2, <1>1
      <4> HIDE DEF outer, s, k
      <4>4. QED
        BY <4>1, <4>2, <4>3, <3>2, <3>3, SeqEqual
    <3> HIDE DEF outer, s, q
    <3>6. w \in Frames /\ w.root = q.root /\ w.path = s[k - 1].path /\ w.resolve_link = s[k - 1].resolve_link
      BY <1>1, <3>4 DEF Frames
    <3>7. kind[q.root] # "link"
      BY <2>1, <1>1, <1>2, <3>2 DEF Fits
    <3>8. kind[s[k - 1].root] = "link"
      BY <1>2, <3>2 DEF Fits
    <3> HIDE DEF w, k
    <3>9. Left(w) < Left(s[k - 1])
      <4>1. Left(w) = 2 * Len(w.path) /\ Len(w.path) \in Nat
        BY <3>6, <3>7, LeftBounds
      <4>2. Left(s[k - 1]) = 2 * Len(s[k - 1].path) + 1
        BY <3>4, <3>8, LeftBounds
      <4>3. QED
        BY <4>1, <4>2, <3>6
    <3>10. SubSeq(s, 1, k - 2) = SubSeq(s, 1, (k - 1) - 1)
      BY <3>2
    <3>11. QED
      BY <1>1, <1>2, <3>1, <3>2, <3>5, <3>6, <3>9, <3>10, ReplaceTop DEF s
  <2>4. QED
    BY <2>2, <2>3
<1>9. QED
  BY <1>6, <1>7, <1>8 DEF Walk

\* A step of another call leaves the walks of the tasks, and the kinds of the nodes that
\* they stand at, alone; a walk begins with one level.
LEMMA OthersFit ==
    ASSUME IInv, LevelsFit, NEW t \in Task, NEW u \in Task, pc'[u] = "walk",
           \A n \in Nodes : kind[n] # Null => kind'[n] = kind[n],
           u # t => stack'[u] = stack[u] /\ pc[u] = "walk",
           u = t => Len(stack'[u]) = 1
    PROVE  /\ Len(stack'[u]) <= MaxDepth + 1
           /\ \A i \in 1..(Len(stack'[u]) - 1) : kind'[stack'[u][i].root] = "link"
           /\ \A i \in 2..Len(stack'[u]) : stack'[u][i].resolve_link
<1>a. MaxDepth \in Nat
  BY VfsAssumption
<1>1. CASE u = t
  <2>1. Len(stack'[u]) = 1
    BY <1>1
  <2>2. Len(stack'[u]) <= MaxDepth + 1 /\ 1..(Len(stack'[u]) - 1) = {} /\ 2..Len(stack'[u]) = {}
    BY <2>1, <1>a
  <2>3. QED
    BY <2>2
<1>2. CASE u # t
  <2>1. stack'[u] = stack[u] /\ pc[u] = "walk"
    BY <1>2
  <2>2. Fits(stack[u])
    BY <2>1 DEF LevelsFit, Fits
  <2>3. stack[u] \in Seq(Frames)
    BY DEF IInv, Shape
  <2> DEFINE s == stack[u]
  <2>4. ASSUME NEW i \in 1..(Len(s) - 1) PROVE kind'[s[i].root] = "link"
    <3>1. kind[s[i].root] = "link"
      BY <2>2 DEF Fits
    <3>2. s[i] \in Frames
      BY <2>3
    <3>3. s[i].root \in Nodes
      BY <3>2 DEF Frames
    <3>4. kind[s[i].root] # Null
      BY <3>1, VfsAssumption DEF Kinds
    <3>5. QED
      BY <3>1, <3>3, <3>4
  <2> HIDE DEF s
  <2>5. Len(s) <= MaxDepth + 1 /\ \A i \in 2..Len(s) : s[i].resolve_link
    BY <2>2 DEF Fits, s
  <2>6. QED
    BY <2>1, <2>4, <2>5 DEF s
<1>3. QED
  BY <1>1, <1>2

\* The steps that are not steps of a walk.
Beside(t) ==
    \/ Openat(t) \/ OpenReturn(t) \/ Symlinkat(t) \/ SymlinkReturn(t) \/ Insert(t) \/ Adopt(t)
    \/ Add(t) \/ MakePath(t) \/ Create(t)
    \/ Mount(t) \/ MountParent(t) \/ MountErase(t) \/ MountRename(t) \/ MountAttach(t)

\* Such a step changes no level of a walk and no kind of a node that was made.
LEMMA BesideKeeps ==
    ASSUME IInv, NEW t \in Task, Beside(t)
    PROVE  /\ \A n \in Nodes : kind[n] # Null => kind'[n] = kind[n]
           /\ \A u \in Task : pc[u] = "walk" => stack'[u] = stack[u]
           /\ \A u \in Task : pc'[u] = "walk" /\ u # t => stack'[u] = stack[u] /\ pc[u] = "walk"
           /\ pc'[t] = "walk" => Len(stack'[t]) = 1
<1>0. /\ stack \in [Task -> Seq(Frames)] /\ pc \in [Task -> Places]
      /\ kind \in [Nodes -> Kinds \cup {Null}]
  BY DEF IInv, Shape
<1> DEFINE Kept == /\ \A n \in Nodes : kind[n] # Null => kind'[n] = kind[n]
                   /\ \A u \in Task : pc[u] = "walk" => stack'[u] = stack[u]
                   /\ \A u \in Task : pc'[u] = "walk" /\ u # t => stack'[u] = stack[u] /\ pc[u] = "walk"
                   /\ pc'[t] = "walk" => Len(stack'[t]) = 1
<1>1. ASSUME pc[t] = "idle", NEW q, stack' = [stack EXCEPT ![t] = <<q>>],
             pc' = [pc EXCEPT ![t] = "walk"], kind' = kind
      PROVE  Kept
  <2>1. stack'[t] = <<q>> /\ \A u \in Task \ {t} : stack'[u] = stack[u] /\ pc'[u] = pc[u]
    BY <1>0, <1>1
  <2>2. Len(<<q>>) = 1
    OBVIOUS
  <2>3. QED
    BY <2>1, <2>2, <1>1
<1>2. ASSUME NEW place, place # "walk", stack' = stack, pc' = [pc EXCEPT ![t] = place], pc[t] # "walk",
             \A n \in Nodes : kind[n] # Null => kind'[n] = kind[n]
      PROVE  Kept
  BY <1>0, <1>2
<1>3. ASSUME stack' = stack, pc' = pc, pc[t] # "walk", kind' = kind
      PROVE  Kept
  BY <1>0, <1>3
<1>4. ASSUME NEW n, n \in Fresh, NEW k, kind' = [kind EXCEPT ![n] = k]
      PROVE  \A m \in Nodes : kind[m] # Null => kind'[m] = kind[m]
  BY <1>0, <1>4 DEF Fresh
<1> SUFFICES Kept
  OBVIOUS
<1> HIDE DEF Kept
<1>5. CASE Openat(t) \/ Symlinkat(t)
  <2>1. PICK q : stack' = [stack EXCEPT ![t] = <<q>>]
    BY <1>5 DEF Openat, Symlinkat, GetFile
  <2>2. pc[t] = "idle" /\ pc' = [pc EXCEPT ![t] = "walk"] /\ kind' = kind
    BY <1>5 DEF Openat, Symlinkat, GetFile, tree
  <2>3. QED
    BY <2>1, <2>2, <1>1
<1>6. CASE OpenReturn(t)
  BY <1>2, <1>6 DEF OpenReturn, Finish, tree
<1>7. CASE SymlinkReturn(t) \/ Create(t)
  <2>1. stack' = stack /\ pc[t] # "walk"
    BY <1>7 DEF SymlinkReturn, Create
  <2>2. CASE Fresh # {} /\ \E f, k, nm, d : MakeNode(t, CHOOSE m \in Fresh : TRUE, f, k, nm, d)
    <3>1. (CHOOSE m \in Fresh : TRUE) \in Fresh
      BY <2>2
    <3>2. PICK k : kind' = [kind EXCEPT ![CHOOSE m \in Fresh : TRUE] = k]
      BY <2>2 DEF MakeNode
    <3>3. pc' = [pc EXCEPT ![t] = "insert"]
      BY <2>2 DEF MakeNode
    <3>4. \A m \in Nodes : kind[m] # Null => kind'[m] = kind[m]
      BY <3>1, <3>2, <1>4
    <3>5. QED
      BY <2>1, <3>3, <3>4, <1>2
  <2>3. CASE Finish(t) /\ UNCHANGED tree
    BY <2>1, <2>3, <1>2 DEF Finish, tree
  <2>4. QED
    BY <1>7, <2>2, <2>3 DEF SymlinkReturn, Create
<1>8. CASE Insert(t) \/ MountErase(t) \/ MountRename(t)
  <2>1. stack' = stack /\ pc[t] # "walk" /\ kind' = kind
    BY <1>8 DEF Insert, MountErase, MountRename
  <2>2. \/ pc' = [pc EXCEPT ![t] = "adopt"] \/ pc' = [pc EXCEPT ![t] = "rename"]
        \/ pc' = [pc EXCEPT ![t] = "attach"]
    BY <1>8 DEF Insert, MountErase, MountRename
  <2>3. QED
    BY <2>1, <2>2, <1>2
<1>9. CASE Adopt(t)
  <2>1. stack' = stack /\ pc[t] # "walk" /\ kind' = kind
    BY <1>9 DEF Adopt
  <2>2. pc' = [pc EXCEPT ![t] = "idle"] \/ pc' = [pc EXCEPT ![t] = "make"]
    BY <1>9 DEF Adopt, Finish
  <2>3. QED
    BY <2>1, <2>2, <1>2
<1>10. CASE Add(t)
  BY <1>2, <1>10 DEF Add, tree
<1>11. CASE MakePath(t)
  <2>1. stack' = stack /\ pc[t] # "walk" /\ kind' = kind
    BY <1>11 DEF MakePath, tree
  <2>2. pc' = [pc EXCEPT ![t] = "create"] \/ pc' = [pc EXCEPT ![t] = "idle"] \/ pc' = pc
    BY <1>11 DEF MakePath, Finish
  <2>3. QED
    BY <2>1, <2>2, <1>2, <1>3
<1>12. CASE Mount(t)
  <2>1. pc[t] = "idle" /\ kind' = kind
    BY <1>12 DEF Mount
  <2>2. \/ stack' = stack /\ pc' = pc
        \/ (\E q : stack' = [stack EXCEPT ![t] = <<q>>]) /\ pc' = [pc EXCEPT ![t] = "walk"]
    BY <1>12 DEF Mount, GetFile
  <2>3. QED
    <3>1. CASE stack' = stack /\ pc' = pc
      BY <2>1, <3>1, <1>3
    <3>2. CASE ~(stack' = stack /\ pc' = pc)
      <4>1. PICK q : stack' = [stack EXCEPT ![t] = <<q>>]
        BY <2>2, <3>2
      <4>2. pc' = [pc EXCEPT ![t] = "walk"]
        BY <2>2, <3>2
      <4>3. QED
        BY <4>1, <4>2, <2>1, <1>1
    <3>3. QED
      BY <3>1, <3>2
<1>13. CASE MountParent(t)
  <2>1. stack' = stack /\ pc[t] # "walk" /\ kind' = kind
    BY <1>13 DEF MountParent
  <2>2. \/ pc' = [pc EXCEPT ![t] = "idle"] \/ pc' = [pc EXCEPT ![t] = "halted"]
        \/ pc' = [pc EXCEPT ![t] = "erase"]
    BY <1>13 DEF MountParent, Finish
  <2>3. QED
    BY <2>1, <2>2, <1>2
<1>14. CASE MountAttach(t)
  BY <1>2, <1>14 DEF MountAttach, Finish
<1>15. QED
  BY <1>5, <1>6, <1>7, <1>8, <1>9, <1>10, <1>11, <1>12, <1>13, <1>14 DEF Beside

\* Every step keeps the levels in shape, and every step that changes the levels of a walk
\* descends.
LEMMA LevelsStep ==
    ASSUME IInv, LevelsFit, Next
    PROVE  /\ LevelsFit'
           /\ \A u \in Task : pc[u] = "walk" /\ stack'[u] # stack[u] /\ stack'[u] # <<>> =>
                  Descends(stack[u], stack'[u])
<1>1. PICK t \in Task : Walk(t) \/ Beside(t)
  BY DEF Next, Beside
<1>2. CASE Beside(t)
  <2>1. /\ \A n \in Nodes : kind[n] # Null => kind'[n] = kind[n]
        /\ \A u \in Task : pc[u] = "walk" => stack'[u] = stack[u]
        /\ \A u \in Task : pc'[u] = "walk" /\ u # t => stack'[u] = stack[u] /\ pc[u] = "walk"
        /\ pc'[t] = "walk" => Len(stack'[t]) = 1
    BY <1>2, BesideKeeps
  <2>2. ASSUME NEW u \in Task, pc'[u] = "walk"
        PROVE  /\ Len(stack'[u]) <= MaxDepth + 1
               /\ \A i \in 1..(Len(stack'[u]) - 1) : kind'[stack'[u][i].root] = "link"
               /\ \A i \in 2..Len(stack'[u]) : stack'[u][i].resolve_link
    BY <2>1, <2>2, OthersFit
  <2>3. LevelsFit'
    BY <2>2 DEF LevelsFit
  <2>4. QED
    BY <2>1, <2>3
<1>3. CASE Walk(t)
  <2>1. kind' = kind /\ pc[t] = "walk"
    BY <1>3 DEF Walk, tree
  <2>2. /\ stack'[t] # <<>> /\ stack'[t] # stack[t] => Descends(stack[t], stack'[t])
        /\ pc'[t] = "walk" => Fits(stack'[t])
    BY <1>3, WalkFits
  <2>3. \A u \in Task \ {t} : stack'[u] = stack[u] /\ pc'[u] = pc[u]
    <3>1. stack \in [Task -> Seq(Frames)] /\ pc \in [Task -> Places]
      BY DEF IInv, Shape
    <3>2. ASSUME WalkLink(t) \/ WalkComponent(t)
          PROVE  \A u \in Task \ {t} : stack'[u] = stack[u] /\ pc'[u] = pc[u]
      BY <3>1, <3>2 DEF WalkLink, WalkComponent, ResolveLink, GoOn, Fail
    <3>3. ASSUME WalkEnd(t)
          PROVE  \A u \in Task \ {t} : stack'[u] = stack[u] /\ pc'[u] = pc[u]
      BY <3>1, <3>3 DEF WalkEnd
    <3>4. QED
      BY <1>3, <3>2, <3>3 DEF Walk
  <2>4. ASSUME NEW u \in Task, pc'[u] = "walk" PROVE Fits(stack'[u])
    <3>1. CASE u = t
      BY <2>2, <2>4, <3>1
    <3>2. CASE u # t
      <4>1. stack'[u] = stack[u] /\ pc[u] = "walk"
        BY <2>3, <2>4, <3>2
      <4>2. QED
        BY <4>1 DEF LevelsFit, Fits
    <3>3. QED
      BY <3>1, <3>2
  <2>5. LevelsFit'
    BY <2>1, <2>4 DEF LevelsFit, Fits
  <2>6. QED
    BY <2>2, <2>3, <2>5
<1>4. QED
  BY <1>1, <1>2, <1>3

\* Every iteration of get_file() leaves less to do, for any tree that changes in any way
\* meanwhile: the components of its level shrink, a link is replaced by what it leads to,
\* or a level is added below MaxDepth + 1 (VFS::get_file and resolve_link).
THEOREM WalkAlwaysDescends == Spec => WalkDescends
<1>1. Init => LevelsFit
  BY DEF Init, LevelsFit
<1>2. LevelsFit /\ UNCHANGED vars => LevelsFit'
  BY DEF LevelsFit, vars, tree
<1>3. IInv /\ LevelsFit /\ [Next]_vars => LevelsFit'
  BY <1>2, LevelsStep
<1>4. IInv /\ LevelsFit /\ [Next]_vars =>
        [\A t \in Task : pc[t] = "walk" /\ stack'[t] # stack[t] /\ stack'[t] # <<>> =>
            Descends(stack[t], stack'[t])]_vars
  BY LevelsStep
<1>5. [\A t \in Task : pc[t] = "walk" /\ stack'[t] # stack[t] /\ stack'[t] # <<>> =>
            Descends(stack[t], stack'[t])]_vars =>
      [\A t \in Task :
        LET s == stack[t]
            z == stack'[t]
        IN  pc[t] = "walk" /\ z # s /\ z # <<>> =>
                /\ Len(z) <= MaxDepth + 1
                /\ \/ Len(z) = Len(s) + 1 /\ Front(z) = s
                   \/ /\ Len(z) <= Len(s) /\ Front(z) = SubSeq(s, 1, Len(z) - 1)
                      /\ Left(Last(z)) < Left(s[Len(z)])]_vars
  BY Zenon DEF Descends
<1>6. QED
  BY <1>1, <1>3, <1>4, <1>5, IInvAlways, PTL DEF Spec, WalkDescends

=============================================================================
