---------------------------- MODULE PathResolution -----------------------------
(***************************************************************************)
(* What a path means, without the nested calls of VFS::get_file: a link on *)
(* the way is replaced, in the text of the path, by its destination, read  *)
(* from the directory the link is in.  The walk of module Vfs is compared  *)
(* with it.                                                                *)
(***************************************************************************)
EXTENDS Vfs

\* The node, or the error, that path leads to from n when at most links links are
\* replaced.
RECURSIVE Meaning(_, _, _, _, _)
Meaning(n, path, resolve, follow, links) ==
    IF kind[n] = "link" /\ (path # <<>> \/ resolve)
    THEN IF path # <<>> /\ ~follow THEN "ELOOP"
         ELSE IF filesystem[n] = "initrd" THEN "ENOTSUP"
         ELSE IF links = 0 THEN "ELOOP"
         ELSE Meaning(StartAt(f_parent[n]), dest[n] \o path, resolve, follow, links - 1)
    ELSE IF path = <<>> THEN n
    ELSE IF kind[n] # "dir" THEN "ENOTDIR"
    ELSE LET c == Head(path)
             next == IF c \in Names THEN f_children[n][c]
                     ELSE IF c = ".." /\ f_parent[n] # Null THEN f_parent[n]
                     ELSE n
         IN  IF next = Null THEN "ENOENT"
             ELSE Meaning(next, Tail(path), resolve, follow, links)

\* More replacements than any walk of MaxDepth levels over the paths of the instance
\* makes.
Enough == 30

\* A walk during which the tree did not change returns the node or the error that
\* the path means, and reports ELOOP only when more than MaxDepth links lie on the way.
LookupCorrect == [][
    \A t \in Task :
        (pc[t] = "walk" /\ pc'[t] = "return" /\ quiet[t]) =>
            LET c == call[t]
                Means(links) == Meaning(c.start, c.path, c.resolve, c.follow, links)
            IN  IF found'[t] = "ELOOP" THEN Means(MaxDepth) = "ELOOP"
                ELSE found'[t] = Means(Enough) ]_vars

\* A path resolution ends, and finds what the path means (VFS::get_file).
WalksCorrect == LookupCorrect /\ WalkProgress

=============================================================================
