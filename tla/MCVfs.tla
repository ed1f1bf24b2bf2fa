--------------------------------- MODULE MCVfs ---------------------------------
\* An initrd with a directory "d" and a link "b"; devfs and sysfs, which are mounted at
\* "/d", at "/d/x" or at "/"; room for two more nodes.
EXTENDS PathResolution

CONSTANTS R, D, B, V, S, n1, n2

MCRootOf == [f \in {"initrd", "devfs", "sysfs"} |->
                CASE f = "initrd" -> R [] f = "devfs" -> V [] f = "sysfs" -> S]
MCInitrdTree == [n \in {D, B} |->
                IF n = D THEN [name |-> "d", parent |-> R, kind |-> "dir"]
                         ELSE [name |-> "b", parent |-> R, kind |-> "link"]]
MCOpenPaths == {<<"d", "x", "b", "..">>}
MCDirPaths == {<<"", "d">>, <<"d", "x">>}
MCMountPaths == MCDirPaths \cup {<<"", "">>}
MCLinkDests == {<<"x">>, <<"..", "b">>}
MCAddPaths == {<<"x", "b">>}

TaskSymmetry == Permutations(Task)
=============================================================================
