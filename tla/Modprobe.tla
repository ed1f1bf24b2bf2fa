-------------------------------- MODULE Modprobe -------------------------------
(***************************************************************************)
(* modprobe (src/userspace/programs/system/modprobe/main.cpp): which       *)
(* modules a request stands for, and the order in which they and their     *)
(* dependencies go to init_module.  Names are sequences of characters; the *)
(* files modules.dep and modules.alias are given by Deps and the aliases.  *)
(***************************************************************************)
EXTENDS Integers, SequencesExt

CONSTANTS
    Names,              \* the modules of module_map
    HashedAliases,      \* [alias |-> name] as a set of <<alias, name>>
    PatternAliases      \* a sequence of <<pattern, name>>

-----------------------------------------------------------------------------
\* Variant: the star does not take in one more character after a mismatch.
MutStrmatch(w, s) ==
    LET RECURSIVE At(_, _, _, _)
        At(i, j, text, wild) ==
            IF j > Len(s) THEN \A k \in i..Len(w) : w[k] = "*"
            ELSE IF i <= Len(w) /\ w[i] = "*" THEN At(i + 1, j, j, i + 1)
            ELSE IF i <= Len(w) /\ (w[i] = "?" \/ w[i] = s[j]) THEN At(i + 1, j + 1, text, wild)
            ELSE IF wild = 0 THEN FALSE ELSE At(wild, j + 1, text, wild)
    IN  At(1, 1, 0, 0)

\* strmatch(): one pass with a single point of return, the last star.
\* `text` and `wild` are the backups, 0 when no star has been met.
Strmatch(w, s) ==
    LET RECURSIVE At(_, _, _, _)
        At(i, j, text, wild) ==
            IF j > Len(s) THEN \A k \in i..Len(w) : w[k] = "*"
            ELSE IF i <= Len(w) /\ w[i] = "*" THEN At(i + 1, j, j, i + 1)
            ELSE IF i <= Len(w) /\ (w[i] = "?" \/ w[i] = s[j]) THEN At(i + 1, j + 1, text, wild)
            ELSE IF wild = 0 THEN FALSE ELSE At(wild, text + 1, text + 1, wild)
    IN  At(1, 1, 0, 0)

\* What a wildcard means: a star stands for any string, a question mark for one character.
RECURSIVE Matches(_, _)
Matches(w, s) ==
    IF w = <<>> THEN s = <<>>
    ELSE IF Head(w) = "*" THEN \E k \in 0..Len(s) : Matches(Tail(w), SubSeq(s, k + 1, Len(s)))
    ELSE s # <<>> /\ (Head(w) = "?" \/ Head(w) = Head(s)) /\ Matches(Tail(w), Tail(s))

\* probe(): the module itself, else what its alias or the first matching pattern names.
NotFound == <<>>
RECURSIVE Probe(_)
Probe(name) ==
    LET exact == {a \in HashedAliases : a[1] = name}
        k == SelectInSeq(PatternAliases, LAMBDA a : Strmatch(a[1], name))
    IN  IF name \in Names THEN name
        ELSE IF exact # {} THEN Probe((CHOOSE a \in exact : TRUE)[2])
        ELSE IF k # 0 THEN Probe(PatternAliases[k][2]) ELSE NotFound

-----------------------------------------------------------------------------
\* handle_dependencies(): acc is the list, the place of the module in it and whether
\* some dependency was not found, which ends the program.  A dependency that is not
\* listed, or is listed behind the module, goes right in front of it, and its own
\* dependencies in front of that.
RECURSIVE HandleDependencies(_, _)
\* Variant: a dependency that is listed, wherever, is left alone.
MutHandleDependencies(deps, acc) ==
    LET Add(a, dep) ==
            LET modDep == Probe(dep)
                sub == HandleDependencies(deps, [a EXCEPT !.list = InsertAt(@, a.at, modDep)])
            IN  IF a.missing \/ modDep = NotFound THEN [a EXCEPT !.missing = TRUE]
                ELSE IF modDep \in ToSet(a.list) THEN a ELSE [sub EXCEPT !.at = @ + 1]
    IN  FoldLeft(Add, acc, deps[acc.list[acc.at]])

HandleDependencies(deps, acc) ==
    LET Add(a, dep) ==
            LET modDep == Probe(dep)
                others == {i \in DOMAIN a.list : i # a.at /\ a.list[i] = modDep}
                k == CHOOSE i \in others : \A j \in others : i <= j
                rest == IF others = {} THEN a.list ELSE RemoveAt(a.list, k)
                sub == HandleDependencies(deps, [a EXCEPT !.list = InsertAt(rest, a.at, modDep)])
            IN  IF a.missing \/ modDep = NotFound THEN [a EXCEPT !.missing = TRUE]
                ELSE IF others # {} /\ k < a.at THEN a ELSE [sub EXCEPT !.at = @ + 1]
    IN  FoldLeft(Add, acc, deps[acc.list[acc.at]])

\* main(): every request is resolved, then each listed module is handled in turn; the
\* list is what is passed to init_module one after the other, nothing if the program
\* gave up before.
OrderedModules(deps, requests) ==
    LET RECURSIVE From(_)
        From(acc) == IF acc.missing THEN <<>>
                     ELSE IF acc.at > Len(acc.list) THEN acc.list
                     ELSE LET a == HandleDependencies(deps, acc)
                          IN  From([a EXCEPT !.at = @ + 1])
        resolved == [i \in DOMAIN requests |-> Probe(requests[i])]
    IN  From([list |-> resolved, at |-> 1, missing |-> NotFound \in ToSet(resolved)])

=============================================================================
