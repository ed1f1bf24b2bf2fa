------------------------------- MODULE LinkedList ------------------------------
(***************************************************************************)
(* std::List (src/kernel/std/include/list.hpp): two lists, the second made *)
(* from the first by copy or move, as doubly linked entries between two    *)
(* sentinels each.  Entries are numbers; the value of entry e is           *)
(* e % Values, so equal values can be told apart.                          *)
(***************************************************************************)
EXTENDS Integers, SequencesExt, FiniteSetsExt

CONSTANTS Nodes,    \* entries 1..Nodes
          Values    \* number of different values

Lists == {"a", "b"}
Head_(l) == IF l = "a" THEN -1 ELSE -2
Tail_(l) == IF l = "a" THEN -3 ELSE -4
Cells == 1..Nodes \cup {-1, -2, -3, -4}
Value(e) == e % Values

VARIABLES next, prev,   \* [Cells -> Cells or 0]
          length,       \* [Lists -> Nat]
          abstract,     \* history: the entries each list should hold
          backwards,    \* history: the copy in "b" was made the other way round
          damaged       \* history: an empty list was sorted or moved from

listVars == <<next, prev, length, abstract, backwards, damaged>>
Init ==
    /\ next = [c \in Cells |-> IF c = -1 THEN -3 ELSE IF c = -2 THEN -4 ELSE 0]
    /\ prev = [c \in Cells |-> IF c = -3 THEN -1 ELSE IF c = -4 THEN -2 ELSE 0]
    /\ length = [l \in Lists |-> 0]
    /\ abstract = [l \in Lists |-> <<>>]
    /\ backwards = FALSE
    /\ damaged = FALSE

\* The cells from c to the end cell, which is left out.
RECURSIVE Forward(_, _)
Forward(c, end) == IF c = end \/ c = 0 THEN <<>> ELSE <<c>> \o Forward(next[c], end)
RECURSIVE Backward(_, _)
Backward(c, end) == IF c = end \/ c = 0 THEN <<>> ELSE Backward(prev[c], end) \o <<c>>

\* The entries of a list as its iterators see them.
Entries(l) == Forward(next[Head_(l)], Tail_(l))

Used == ToSet(abstract["a"]) \cup ToSet(abstract["b"])
Free == 1..Nodes \ Used

\* A list is linked anew as the sequence s.
Linked(l, s, n, p) ==
    LET full == <<Head_(l)>> \o s \o <<Tail_(l)>> IN
    <<[c \in Cells |-> IF \E i \in 1..(Len(full) - 1) : full[i] = c
                       THEN full[(CHOOSE i \in 1..(Len(full) - 1) : full[i] = c) + 1] ELSE n[c]],
      [c \in Cells |-> IF \E i \in 2..Len(full) : full[i] = c
                       THEN full[(CHOOSE i \in 2..Len(full) : full[i] = c) - 1] ELSE p[c]]>>

\* insert() of a new entry in front of the cell an iterator points to.
Insert(l, e, cur) ==
    /\ next' = [next EXCEPT ![e] = cur, ![prev[cur]] = e]
    /\ prev' = [prev EXCEPT ![e] = prev[cur], ![cur] = e]
    /\ length' = [length EXCEPT ![l] = @ + 1]
    /\ abstract' = [abstract EXCEPT ![l] =
            InsertAt(@, IF cur = Tail_(l) THEN Len(@) + 1 ELSE SelectInSeq(@, LAMBDA x : x = cur), e)]
    /\ UNCHANGED <<backwards, damaged>>

\* erase(), pop_front() and pop_back().
Erase(l, cur) ==
    /\ next' = [next EXCEPT ![prev[cur]] = next[cur], ![cur] = 0]
    /\ prev' = [prev EXCEPT ![next[cur]] = prev[cur], ![cur] = 0]
    /\ length' = [length EXCEPT ![l] = @ - 1]
    /\ abstract' = [abstract EXCEPT ![l] = SelectSeq(@, LAMBDA x : x # cur)]
    /\ UNCHANGED <<backwards, damaged>>

\* The place sort() gives an entry among those placed: before the first larger one.
Place(s, e) ==
    LET k == SelectInSeq(s, LAMBDA x : Value(e) < Value(x)) IN
    IF k = 0 THEN Append(s, e) ELSE InsertAt(s, k, e)

\* What sort() should give: ordered, and equal values in the order they had.
Sorted(s) ==
    LET before(x, y) ==
            \/ Value(x) < Value(y)
            \/ /\ Value(x) = Value(y)
               /\ SelectInSeq(s, LAMBDA z : z = x) < SelectInSeq(s, LAMBDA z : z = y)
    IN  SetToSortSeq(ToSet(s), before)

\* sort(): the entries are taken in order and placed.  The loop takes the tail of
\* an empty list for its first entry and links the tail to itself.
Sort(l) ==
    LET taken == Entries(l)
        new == Linked(l, FoldLeft(Place, <<>>, taken), next, prev)
    IN  /\ IF taken = <<>>
           THEN /\ next' = [next EXCEPT ![Tail_(l)] = Tail_(l)]
                /\ prev' = [prev EXCEPT ![Tail_(l)] = Tail_(l)]
                /\ damaged' = TRUE
           ELSE next' = new[1] /\ prev' = new[2] /\ UNCHANGED damaged
        /\ abstract' = [abstract EXCEPT ![l] = Sorted(@)]
        /\ UNCHANGED <<length, backwards>>

\* The copy constructor and assignment.  `last` stays at the head, so each new entry is
\* linked in front of the ones before it; what a copy should hold is the order of the source.
Copy ==
    LET src == Entries("a") IN
    /\ abstract["b"] = <<>>
    /\ \E new \in [DOMAIN src -> Free] :
        /\ IsInjective(new) /\ \A i \in DOMAIN src : Value(new[i]) = Value(src[i])
        /\ LET copied == FoldLeft(LAMBDA np, e :
                            LET n == np[1]  p == np[2]  first == n[-2] IN
                            <<[n EXCEPT ![e] = first, ![-2] = e], [p EXCEPT ![e] = -2, ![first] = e]>>,
                         <<next, prev>>, new)
           IN next' = copied[1] /\ prev' = copied[2]
        /\ abstract' = [abstract EXCEPT !["b"] = new]
    /\ length' = [length EXCEPT !["b"] = length["a"]]
    /\ backwards' = (Len(src) > 1)
    /\ UNCHANGED damaged

\* The move constructor and assignment.  A list made from an empty one keeps the
\* sentinels of the other as its first and last entry.
Move ==
    /\ abstract["b"] = <<>>
    /\ IF abstract["a"] = <<>>
       THEN /\ next' = [next EXCEPT ![-2] = -3] /\ prev' = [prev EXCEPT ![-4] = -1]
            /\ damaged' = TRUE
       ELSE /\ next' = [next EXCEPT ![-2] = next[-1], ![-1] = -3, ![prev[-3]] = -4]
            /\ prev' = [prev EXCEPT ![-4] = prev[-3], ![-3] = -1, ![next[-1]] = -2]
            /\ UNCHANGED damaged
    /\ length' = [length EXCEPT !["b"] = length["a"], !["a"] = 0]
    /\ abstract' = [a |-> <<>>, b |-> abstract["a"]]
    /\ backwards' = FALSE

\* clear() and the destructor's loop.
Clear(l) ==
    LET freed == ToSet(abstract[l]) IN
    /\ next' = [c \in Cells |-> IF c = Head_(l) THEN Tail_(l) ELSE IF c \in freed THEN 0 ELSE next[c]]
    /\ prev' = [c \in Cells |-> IF c = Tail_(l) THEN Head_(l) ELSE IF c \in freed THEN 0 ELSE prev[c]]
    /\ length' = [length EXCEPT ![l] = 0]
    /\ abstract' = [abstract EXCEPT ![l] = <<>>]
    /\ backwards' = (backwards /\ l # "b")
    /\ UNCHANGED damaged

\* What a damaged list does next is left open.
Next ==
  /\ ~damaged
  /\ \/ \E l \in Lists :
          \/ \E e \in Free, cur \in ToSet(Entries(l)) \cup {Tail_(l)} : Insert(l, e, cur)
          \/ \E cur \in ToSet(Entries(l)) : Erase(l, cur)
          \/ Sort(l) \/ Clear(l)
     \/ Copy \/ Move

-----------------------------------------------------------------------------
\* Walked forwards or backwards, a list holds the entries it should, in order, and
\* `length` counts them; sort() is stable.  A copy of more than one entry (list.hpp:122, 148)
\* holds the entries of its source, but not in their order.  (Until an empty list is sorted
\* or moved from, list.hpp:154, 260: its links then leave the list.)
ListsExact ==
    ~damaged => \A l \in Lists :
        /\ IF l = "b" /\ backwards THEN ToSet(Entries(l)) = ToSet(abstract[l])
                                   ELSE Entries(l) = abstract[l]
        /\ Backward(prev[Tail_(l)], Head_(l)) = Entries(l)
        /\ length[l] = Len(Entries(l)) /\ length[l] = Len(abstract[l])

=============================================================================
