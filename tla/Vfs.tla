--------------------------------- MODULE Vfs -----------------------------------
(***************************************************************************)
(* The virtual file system: path resolution (VFS::get_file, a walk that    *)
(* calls itself for links), mounts (VFS::mount, VNode::mount) and the      *)
(* creation of nodes in the filesystems that exist only as nodes           *)
(* (VNodeFilesystem: devfs and sysfs).  src/kernel/src/fs holds them.      *)
(*                                                                         *)
(* No lock protects the tree and the system calls that use it are          *)
(* preemptible, so each component of a walk and each assignment to the     *)
(* tree is a step; one operation of a node's f_children map is atomic.     *)
(* A path is the sequence of its components, "" where two slashes meet or  *)
(* the path begins or ends with one.  The initrd is read only.  Each       *)
(* filesystem is mounted at most once, which is what init does: devfs and  *)
(* sysfs are single objects, and a second mount would move the node they   *)
(* were mounted with.                                                      *)
(***************************************************************************)
EXTENDS Integers, SequencesExt

CONSTANTS
    Task,       \* threads in system calls or in a module's init()
    Nodes,      \* every VNode of a behaviour: a bound on the nodes created
    Names,      \* file names, strings other than "", "." and ".."
    RootOf,     \* [filesystem -> its root node]; "initrd" is one of them
    InitrdTree, \* the initrd's other nodes: [node -> [name, parent, kind]]
    HeldDirs,   \* nodes of the initrd that programs hold open, to start a path from
    OpenPaths,  \* the paths that programs open
    DirPaths,   \* the directories they make links in
    MountPaths, \* the paths they mount at
    LinkDests,  \* the destinations of the links they make
    AddPaths,   \* the paths modules create in devfs and sysfs
    MaxDepth,   \* the nesting of links where resolve_link gives up: 128 in the code
    Null

Fs == DOMAIN RootOf
VNodeFs == Fs \ {"initrd"}
Comps == Names \cup {"", ".", ".."}
Kinds == {"dir", "file", "link"}
Errors == {"ENOTSUP", "ELOOP", "ENOTDIR", "ENOENT"}     \* what get_file() can fail with

ASSUME VfsAssumption ==
    /\ {"", ".", ".."} \cap Names = {}
    /\ "initrd" \in Fs
    /\ RootOf \in [Fs -> Nodes] /\ \A f, g \in Fs : RootOf[f] = RootOf[g] => f = g
    /\ \A f, g, h \in VNodeFs : f = g \/ g = h \/ f = h       \* devfs and sysfs
    /\ DOMAIN InitrdTree \subseteq Nodes \ {RootOf[f] : f \in Fs}
    /\ \A n \in DOMAIN InitrdTree :
          /\ InitrdTree[n].name \in Names /\ InitrdTree[n].kind \in Kinds
          /\ InitrdTree[n].parent \in DOMAIN InitrdTree \cup {RootOf["initrd"]}
    /\ HeldDirs \subseteq DOMAIN InitrdTree
    /\ OpenPaths \cup DirPaths \cup MountPaths \cup LinkDests \subseteq Seq(Comps)
    /\ AddPaths \subseteq Seq(Names) \ {<<>>}
    /\ MaxDepth \in Nat
    /\ Null \notin Nodes \cup Kinds \cup Fs \cup Errors
    /\ Errors \cap Nodes = {}

VARIABLES
    f_rootNode, \* the node of "/"
    kind,       \* [Nodes -> Kinds or Null for a node not made yet]
    filesystem, \* [Nodes -> Fs or Null]
    name,       \* f_name
    dest,       \* the destination of a link
    f_parent,   \* [Nodes -> node or Null]
    f_children, \* [Nodes -> [Names -> node or Null]]
    pc,         \* where each task is
    call,       \* its call: a record with its arguments
    stack,      \* its nested get_file calls: [root, path, resolve_link, follow_links]
    found,      \* what the outermost get_file returned: a node or an error
    quiet       \* history: the tree has not changed since its walk began

tree == <<f_rootNode, kind, filesystem, name, dest, f_parent, f_children>>
vars == <<tree, pc, call, stack, found, quiet>>

Idle == [op |-> "none"]

Init ==
    /\ f_rootNode = RootOf["initrd"]
    /\ LET given == DOMAIN InitrdTree
           roots == {RootOf[f] : f \in Fs}
       IN  /\ kind = [n \in Nodes |-> IF n \in roots THEN "dir"
                                      ELSE IF n \in given THEN InitrdTree[n].kind ELSE Null]
           /\ filesystem = [n \in Nodes |->
                IF n \in roots THEN CHOOSE f \in Fs : RootOf[f] = n
                ELSE IF n \in given THEN "initrd" ELSE Null]
           /\ name = [n \in Nodes |-> IF n \in given THEN InitrdTree[n].name ELSE ""]
           /\ f_parent = [n \in Nodes |-> IF n \in given THEN InitrdTree[n].parent ELSE Null]
           /\ f_children = [n \in Nodes |-> [c \in Names |->
                LET here == {m \in given : InitrdTree[m].name = c /\ InitrdTree[m].parent = n}
                IN  IF here = {} THEN Null ELSE CHOOSE m \in here : TRUE]]
    /\ dest = [n \in Nodes |-> <<>>]
    /\ pc = [t \in Task |-> "idle"]
    /\ call = [t \in Task |-> Idle]
    /\ stack = [t \in Task |-> <<>>]
    /\ found = [t \in Task |-> Null]
    /\ quiet = [t \in Task |-> FALSE]

-----------------------------------------------------------------------------
(* The walk *)

\* get_file() without a starting node starts at f_rootNode.
StartAt(n) == IF n = Null THEN f_rootNode ELSE n

Frame(n, path, resolve, follow) ==
    [root |-> StartAt(n), path |-> path, resolve_link |-> resolve, follow_links |-> follow]

\* The outermost call of get_file.
GetFile(t, n, path, resolve, follow) ==
    /\ stack' = [stack EXCEPT ![t] = <<Frame(n, path, resolve, follow)>>]
    /\ quiet' = [quiet EXCEPT ![t] = TRUE]
    /\ pc' = [pc EXCEPT ![t] = "walk"]

Top(t) == Last(stack[t])

\* An error is returned through every nested call.
Fail(t, e) ==
    /\ found' = [found EXCEPT ![t] = e]
    /\ stack' = [stack EXCEPT ![t] = <<>>]
    /\ pc' = [pc EXCEPT ![t] = "return"]

\* The walk goes on from node n with the components path.
GoOn(t, n, path) ==
    /\ stack' = [stack EXCEPT ![t] =
            Append(Front(@), [Last(@) EXCEPT !.root = n, !.path = path])]
    /\ UNCHANGED <<pc, found>>

MutResolveLink(t, link) ==      \* Variant: from "/", not the link's directory
    IF filesystem[link] \notin VNodeFs THEN Fail(t, "ENOTSUP")
    ELSE IF Len(stack[t]) - 1 >= MaxDepth THEN Fail(t, "ELOOP")
    ELSE /\ stack' = [stack EXCEPT ![t] = Append(@, Frame(Null, dest[link], TRUE, TRUE))]
         /\ UNCHANGED <<pc, found>>

\* resolve_link() of the link's filesystem: get_file() from the directory of the link,
\* one level deeper.  The initrd does not resolve links.
ResolveLink(t, link) ==
    IF filesystem[link] \notin VNodeFs THEN Fail(t, "ENOTSUP")
    ELSE IF Len(stack[t]) - 1 >= MaxDepth THEN Fail(t, "ELOOP")
    ELSE /\ stack' = [stack EXCEPT ![t] = Append(@, Frame(f_parent[link], dest[link], TRUE, TRUE))]
         /\ UNCHANGED <<pc, found>>

\* A link in the middle of a path, or at its end when it is to be resolved.
WalkLink(t) ==
    LET f == Top(t) IN
    /\ kind[f.root] = "link"
    /\ f.path # <<>> \/ f.resolve_link
    /\ IF f.path # <<>> /\ ~f.follow_links THEN Fail(t, "ELOOP") ELSE ResolveLink(t, f.root)

\* One component of a path.
WalkComponent(t) ==
    LET f == Top(t)
        part == Head(f.path)
    IN  /\ f.path # <<>>
        /\ kind[f.root] # "link"
        /\ IF kind[f.root] # "dir" THEN Fail(t, "ENOTDIR")
           ELSE IF part \in {"", "."} THEN GoOn(t, f.root, Tail(f.path))
           ELSE IF part = ".."
                THEN GoOn(t, IF f_parent[f.root] # Null THEN f_parent[f.root] ELSE f.root, Tail(f.path))
           ELSE IF f_children[f.root][part] = Null THEN Fail(t, "ENOENT")
           ELSE GoOn(t, f_children[f.root][part], Tail(f.path))

\* The end of a path: the node is returned to the caller or to the walk one level up,
\* which goes on from it.
WalkEnd(t) ==
    LET f == Top(t) IN
    /\ f.path = <<>>
    /\ kind[f.root] # "link" \/ ~f.resolve_link
    /\ IF Len(stack[t]) = 1
       THEN /\ found' = [found EXCEPT ![t] = f.root]
            /\ stack' = [stack EXCEPT ![t] = <<>>]
            /\ pc' = [pc EXCEPT ![t] = "return"]
       ELSE /\ stack' = [stack EXCEPT ![t] =
                    LET outer == Front(@) IN Append(Front(outer), [Last(outer) EXCEPT !.root = f.root])]
            /\ UNCHANGED <<pc, found>>

Walk(t) ==
    /\ pc[t] = "walk"
    /\ WalkLink(t) \/ WalkComponent(t) \/ WalkEnd(t)
    /\ UNCHANGED <<tree, call, quiet>>

-----------------------------------------------------------------------------
(* System calls *)

Finish(t) ==
    /\ pc' = [pc EXCEPT ![t] = "idle"]
    /\ call' = [call EXCEPT ![t] = Idle]
    /\ found' = [found EXCEPT ![t] = Null]

\* The tree changes under every walk.
Change == quiet' = [t \in Task |-> FALSE]

\* openat(), from "/" or from the node of an open stream, with or without O_NOFOLLOW;
\* execve() and the source of mount() resolve with neither flag.
Openat(t) ==
    /\ pc[t] = "idle"
    /\ \E path \in OpenPaths, start \in {Null} \cup HeldDirs,
          flags \in {<<TRUE, TRUE>>, <<FALSE, TRUE>>, <<FALSE, FALSE>>} :
            /\ call' = [call EXCEPT ![t] = [op |-> "open", path |-> path, start |-> StartAt(start),
                                            resolve |-> flags[1], follow |-> flags[2]]]
            /\ GetFile(t, start, path, flags[1], flags[2])
    /\ UNCHANGED <<tree, found>>

\* The stream of the node, if any, goes into the descriptors of the process (StreamTable).
OpenReturn(t) ==
    /\ pc[t] = "return" /\ call[t].op = "open"
    /\ Finish(t)
    /\ UNCHANGED <<tree, stack, quiet>>

\* symlinkat(): VFS::resolve_path() walks to the directory of the new link.
Symlinkat(t) ==
    /\ pc[t] = "idle"
    /\ \E path \in DirPaths, start \in {Null} \cup HeldDirs :
            /\ call' = [call EXCEPT ![t] = [op |-> "symlink", path |-> path, start |-> StartAt(start),
                                            resolve |-> TRUE, follow |-> TRUE]]
            /\ GetFile(t, start, path, TRUE, TRUE)
    /\ UNCHANGED <<tree, found>>

Fresh == {n \in Nodes : kind[n] = Null}

\* A new node n: it is not in the tree and has no parent yet.
MakeNode(t, n, f, k, nm, d) ==
    /\ kind' = [kind EXCEPT ![n] = k]
    /\ filesystem' = [filesystem EXCEPT ![n] = f]
    /\ name' = [name EXCEPT ![n] = nm]
    /\ dest' = [dest EXCEPT ![n] = d]
    /\ pc' = [pc EXCEPT ![t] = "insert"]
    /\ UNCHANGED <<f_rootNode, f_parent, f_children>>

\* VNodeFilesystem::symlink() makes the node; other filesystems have no links.  (The name
\* and the destination are arguments of the call, chosen where they are first used.)
SymlinkReturn(t) ==
    /\ pc[t] = "return" /\ call[t].op = "symlink"
    /\ IF found[t] \in Nodes /\ filesystem[found[t]] \in VNodeFs
       THEN /\ Fresh # {}
            /\ LET n == CHOOSE m \in Fresh : TRUE IN
                /\ \E nm \in Names, d \in LinkDests : MakeNode(t, n, filesystem[found[t]], "link", nm, d)
                /\ call' = [call EXCEPT ![t] = [op |-> "create", dir |-> found[t], new |-> n, rest |-> <<>>]]
            /\ found' = [found EXCEPT ![t] = Null]
       ELSE /\ Finish(t)
            /\ UNCHANGED tree
    /\ UNCHANGED <<stack, quiet>>

\* add_child(): insert() into f_children keeps the entry a name already has.
AddChild(dir, n) ==
    f_children' = [f_children EXCEPT ![dir][name[n]] = IF @ = Null THEN n ELSE @]

Insert(t) ==
    /\ pc[t] = "insert"
    /\ AddChild(call[t].dir, call[t].new)
    /\ Change
    /\ pc' = [pc EXCEPT ![t] = "adopt"]
    /\ UNCHANGED <<f_rootNode, kind, filesystem, name, dest, f_parent, call, stack, found>>

MutAdopt(t) ==                  \* Variant: the parent is the filesystem's root
    /\ pc[t] = "adopt"
    /\ f_parent' = [f_parent EXCEPT ![call[t].new] = RootOf[filesystem[call[t].new]]]
    /\ Change
    /\ IF call[t].rest = <<>> THEN Finish(t)
       ELSE /\ pc' = [pc EXCEPT ![t] = "make"]
            /\ call' = [call EXCEPT ![t] = [op |-> "add", dir |-> @.new, rest |-> @.rest]]
            /\ UNCHANGED found
    /\ UNCHANGED <<f_rootNode, kind, filesystem, name, dest, f_children, stack>>

\* f_parent is set last; a directory made on the way to a file is then descended into.
Adopt(t) ==
    /\ pc[t] = "adopt"
    /\ f_parent' = [f_parent EXCEPT ![call[t].new] = call[t].dir]
    /\ Change
    /\ IF call[t].rest = <<>> THEN Finish(t)
       ELSE /\ pc' = [pc EXCEPT ![t] = "make"]
            /\ call' = [call EXCEPT ![t] = [op |-> "add", dir |-> @.new, rest |-> @.rest]]
            /\ UNCHANGED found
    /\ UNCHANGED <<f_rootNode, kind, filesystem, name, dest, f_children, stack>>

-----------------------------------------------------------------------------
(* Modules: add_directory(), add_dev(), add_node(), and resolve_path() with symlink() *)

Add(t) ==
    /\ pc[t] = "idle"
    /\ \E f \in VNodeFs, path \in AddPaths :
            call' = [call EXCEPT ![t] = [op |-> "add", dir |-> RootOf[f], rest |-> path]]
    /\ pc' = [pc EXCEPT ![t] = "make"]
    /\ UNCHANGED <<tree, stack, found, quiet>>

\* VNodeFilesystem::resolve_path(): the directories before the file name.
MakePath(t) ==
    /\ pc[t] = "make"
    /\ LET dir == call[t].dir
           next == f_children[dir][Head(call[t].rest)]
       IN  IF Len(call[t].rest) = 1 \/ (kind[dir] = "dir" /\ next = Null)
           THEN /\ pc' = [pc EXCEPT ![t] = "create"]
                /\ UNCHANGED <<call, found>>
           ELSE IF kind[dir] # "dir" THEN Finish(t)       \* ENOTDIR
           ELSE /\ call' = [call EXCEPT ![t] = [op |-> "add", dir |-> next, rest |-> Tail(@.rest)]]
                /\ UNCHANGED <<pc, found>>
    /\ UNCHANGED <<tree, stack, quiet>>

\* mkdir(), add_dev() and add_node() give up when the name exists, symlink() does not look.
\* A missing directory on the way is made by mkdir().
Create(t) ==
    /\ pc[t] = "create"
    /\ LET dir == call[t].dir
           nm == Head(call[t].rest)
           rest == Tail(call[t].rest)
       IN  \E k \in IF rest = <<>> THEN Kinds ELSE {"dir"} :
            IF k # "link" /\ f_children[dir][nm] # Null
            THEN /\ Finish(t)                             \* EEXIST
                 /\ UNCHANGED tree
            ELSE /\ Fresh # {}
                 /\ LET n == CHOOSE m \in Fresh : TRUE IN
                     /\ \E d \in IF k = "link" THEN LinkDests ELSE {<<>>} :
                            MakeNode(t, n, filesystem[dir], k, nm, d)
                     /\ call' = [call EXCEPT ![t] = [op |-> "create", dir |-> dir, new |-> n, rest |-> rest]]
                 /\ UNCHANGED found
    /\ UNCHANGED <<stack, quiet>>

-----------------------------------------------------------------------------
(* Mounts *)

\* Being mounted at "/", or on its way to be mounted or mounted elsewhere.
Mounting(f) == \E t \in Task : call[t].op = "mount" /\ call[t].fs = f
Mounted(f) == f_rootNode = RootOf[f] \/ f_parent[RootOf[f]] # Null

Mount(t) ==
    /\ pc[t] = "idle"
    /\ \E f \in VNodeFs, path \in MountPaths :
        /\ ~Mounting(f) /\ ~Mounted(f)
        /\ IF path \in {<<>>, <<"", "">>}
           THEN /\ f_rootNode' = RootOf[f]
                /\ Change
                /\ UNCHANGED <<pc, call, stack>>
           ELSE /\ call' = [call EXCEPT ![t] = [op |-> "mount", fs |-> f, path |-> path, start |-> f_rootNode,
                                                resolve |-> TRUE, follow |-> TRUE]]
                /\ GetFile(t, Null, path, TRUE, TRUE)
                /\ UNCHANGED f_rootNode
    /\ UNCHANGED <<kind, filesystem, name, dest, f_parent, f_children, found>>

\* VNode::mount() takes the parent of the location; a location without a parent is
\* dereferenced all the same, and the core halts in the exception handler.
MountParent(t) ==
    /\ pc[t] = "return" /\ call[t].op = "mount"
    /\ LET r == RootOf[call[t].fs] IN
       IF found[t] \notin Nodes
       THEN /\ Finish(t)
            /\ UNCHANGED <<f_parent, quiet>>
       ELSE IF f_parent[found[t]] = Null
       THEN /\ pc' = [pc EXCEPT ![t] = "halted"]
            /\ UNCHANGED <<f_parent, call, found, quiet>>
       ELSE /\ f_parent' = [f_parent EXCEPT ![r] = f_parent[found[t]]]
            /\ Change
            /\ pc' = [pc EXCEPT ![t] = "erase"]
            /\ UNCHANGED <<call, found>>
    /\ UNCHANGED <<f_rootNode, kind, filesystem, name, dest, f_children, stack>>

\* The name of the location is taken out of the parent of the mounted root.
MountErase(t) ==
    /\ pc[t] = "erase"
    /\ f_children' = [f_children EXCEPT ![f_parent[RootOf[call[t].fs]]][name[found[t]]] = Null]
    /\ Change
    /\ pc' = [pc EXCEPT ![t] = "rename"]
    /\ UNCHANGED <<f_rootNode, kind, filesystem, name, dest, f_parent, call, stack, found>>

MountRename(t) ==
    /\ pc[t] = "rename"
    /\ name' = [name EXCEPT ![RootOf[call[t].fs]] = name[found[t]]]
    /\ pc' = [pc EXCEPT ![t] = "attach"]
    /\ UNCHANGED <<f_rootNode, kind, filesystem, dest, f_parent, f_children, call, stack, found, quiet>>

MountAttach(t) ==
    /\ pc[t] = "attach"
    /\ AddChild(f_parent[RootOf[call[t].fs]], RootOf[call[t].fs])
    /\ Change
    /\ Finish(t)
    /\ UNCHANGED <<f_rootNode, kind, filesystem, name, dest, f_parent, stack>>

-----------------------------------------------------------------------------
Next == \E t \in Task :
    \/ Openat(t) \/ Walk(t) \/ OpenReturn(t)
    \/ Symlinkat(t) \/ SymlinkReturn(t)
    \/ Insert(t) \/ Adopt(t)
    \/ Add(t) \/ MakePath(t) \/ Create(t)
    \/ Mount(t) \/ MountParent(t) \/ MountErase(t) \/ MountRename(t) \/ MountAttach(t)

Spec == Init /\ [][Next]_vars

-----------------------------------------------------------------------------
(* Properties *)

\* add_child(), f_parent = root and the four assignments of a mount are separate steps
\* of threads that do not lock: still every entry of a directory has the name of the
\* node it leads to, and the node's ".." leads back, unless its creator has not come to
\* set f_parent yet.
EntriesConsistent ==
    \A d \in Nodes, c \in Names :
        LET n == f_children[d][c] IN
        n # Null =>
            /\ name[n] = c
            /\ \/ f_parent[n] = d
               \/ \E t \in Task : pc[t] = "adopt" /\ call[t].new = n /\ call[t].dir = d

\* A task between taking name c out of directory d and putting its root there.
Replacing(d, c) ==
    \E t \in Task : /\ pc[t] \in {"rename", "attach"}
                   /\ f_parent[RootOf[call[t].fs]] = d
                   /\ name[found[t]] = c

\* Once mount() has returned, the location in the initrd leads to a mounted root, its
\* own or that of a filesystem mounted there too, never again to the covered directory:
\* whatever two mounts of one location do to each other, add_child() finds the name free
\* or taken by the other mount.
MountsStay ==
    \A f \in VNodeFs :
        LET r == RootOf[f]
            p == f_parent[r]
        IN  p # Null /\ filesystem[p] = "initrd" /\ ~Mounting(f) =>
                \/ f_children[p][name[r]] \in {RootOf[g] : g \in VNodeFs}
                \/ Replacing(p, name[r])

\* What is left of one nested walk: its components, and a link to be resolved first.
Left(f) == 2 * Len(f.path) + IF kind[f.root] = "link" THEN 1 ELSE 0

\* Each iteration of get_file() leaves less to do at its level, or at the level above
\* when it returns there, or starts a level deeper, and there are at most MaxDepth + 1
\* levels.
WalkDescends ==
    [][\A t \in Task :
        LET s == stack[t]
            z == stack'[t]
        IN  pc[t] = "walk" /\ z # s /\ z # <<>> =>
                /\ Len(z) <= MaxDepth + 1
                /\ \/ Len(z) = Len(s) + 1 /\ Front(z) = s
                   \/ /\ Len(z) <= Len(s) /\ Front(z) = SubSeq(s, 1, Len(z) - 1)
                      /\ Left(Last(z)) < Left(s[Len(z)])]_vars

\* Every path resolution returns, whatever links and ".." the path runs through and
\* however the tree changes meanwhile: get_file() is never stuck, and its iterations
\* descend.
WalkProgress ==
    /\ [](\A t \in Task : pc[t] = "walk" => ENABLED <<Walk(t)>>_vars)
    /\ WalkDescends

\* The tree of nodes stays one: entries and parents agree, and a mounted root keeps its
\* place, although nothing is locked (vnode.cpp, vnodefs.cpp).
TreeConsistent == EntriesConsistent /\ MountsStay

=============================================================================
