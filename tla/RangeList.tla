------------------------------- MODULE RangeList -------------------------------
(***************************************************************************)
(* std::RangeList (src/kernel/std/include/range_list.hpp), in which        *)
(* physical.cpp gathers the memory it frees after start-up: a list of      *)
(* half-open ranges that add() keeps merged.                               *)
(***************************************************************************)
EXTENDS Integers, SequencesExt

CONSTANTS MaxValue, MaxRanges   \* ends of ranges are 0..MaxValue

VARIABLES ranges, members       \* the list, and the values it should cover

rangeVars == <<ranges, members>>
Points == 0..(MaxValue - 1)
Init == ranges = <<>> /\ members = {}

\* The three merging cases of add(): the ranges meet, and the result is their hull.
Meet(r, m) == m.start <= r.end /\ m.end >= r.start
Hull(r, m) == [start |-> IF m.start < r.start THEN m.start ELSE r.start,
               end |-> IF m.end > r.end THEN m.end ELSE r.end]

\* The inner loop of add(): range i takes in every other range j it meets.
RECURSIVE Absorb(_, _, _)
Absorb(s, i, j) ==
    IF j > Len(s) THEN <<s, i>>
    ELSE IF j # i /\ Meet(s[i], s[j])
    THEN Absorb(RemoveAt([s EXCEPT ![i] = Hull(s[i], s[j])], j), IF j < i THEN i - 1 ELSE i, j)
    ELSE Absorb(s, i, j + 1)

\* The outer loop: every range in turn.
Merge(s) ==
    LET RECURSIVE From(_, _)
        From(t, i) == IF i > Len(t) THEN t
                      ELSE LET a == Absorb(t, i, 1) IN From(a[1], a[2] + 1)
    IN From(s, 1)

Covered(s, e) == {v \in Points : s <= v /\ v < e}

Add(s, e) ==
    /\ Len(ranges) < MaxRanges
    /\ ranges' = Merge(Append(ranges, [start |-> s, end |-> e]))
    /\ members' = members \cup Covered(s, e)

\* remove() on one range: nothing is left, one end is cut, or it falls in two.  A
\* range cut at its very start leaves an empty half.  After a range that falls in two
\* the loop stops; the ranges are disjoint, so the others would stay as they are.
Cut(r, s, e) ==
    LET startBound == s >= r.start /\ s < r.end
        endBound == e >= r.start /\ e < r.end
    IN  IF s <= r.start /\ e >= r.end THEN <<>>
        ELSE IF startBound /\ endBound
        THEN <<[start |-> r.start, end |-> s], [start |-> e, end |-> r.end]>>
        ELSE IF startBound THEN <<[start |-> r.start, end |-> s]>>
        ELSE IF endBound THEN <<[start |-> e, end |-> r.end]>>
        ELSE <<r>>

RemoveRange(s, e) ==
    /\ Len(ranges) < MaxRanges
    /\ ranges' = FoldLeft(LAMBDA acc, r : acc \o Cut(r, s, e), <<>>, ranges)
    /\ members' = members \ Covered(s, e)

Clear == ranges' = <<>> /\ members' = {}

IsBound(v) == \E i \in DOMAIN ranges : v >= ranges[i].start /\ v < ranges[i].end

Next ==
    \/ \E s \in 0..(MaxValue - 1) : \E e \in (s + 1)..MaxValue : Add(s, e) \/ RemoveRange(s, e)
    \/ Clear

-----------------------------------------------------------------------------
\* is_bound() answers for exactly the values that were added and not removed, and
\* no value is in two ranges, so that pages are freed once: one pass of merging is
\* enough whatever the order of the ranges (range_list.hpp:97).
RangesExact ==
    /\ \A v \in Points : IsBound(v) <=> v \in members
    /\ \A i, j \in DOMAIN ranges : i # j =>
        Covered(ranges[i].start, ranges[i].end) \cap Covered(ranges[j].start, ranges[j].end) = {}

=============================================================================
