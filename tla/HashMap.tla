-------------------------------- MODULE HashMap --------------------------------
(***************************************************************************)
(* std::UnorderedMap (src/kernel/std/include/unordered_map.hpp): chained   *)
(* buckets that are rehashed as the map grows.  A key hashes to itself.    *)
(* operator[] adds an entry without counting it, so f_size, a size_t, can  *)
(* fall below zero; a rehash to zero buckets then divides by zero.         *)
(***************************************************************************)
EXTENDS Integers, SequencesExt, FiniteSetsExt

CONSTANTS
    Keys, Values,
    InitialBuckets,     \* initial_bucket_size
    Granule,            \* rehash() rounds up to a multiple of it: 64
    Word                \* 2^64, the range of f_size

VARIABLES
    f_bucket,       \* a function from 0..f_capacity - 1 to chains of [key, value]
    f_capacity, f_size,
    content,        \* history: what the map should hold, a set of <<key, value>>
    uncounted,      \* history: entries made by operator[] since the last clear()
    dead            \* a rehash divided by zero

mapVars == <<f_bucket, f_capacity, f_size, content, uncounted, dead>>

EmptyBuckets(n) == [b \in 0..(n - 1) |-> <<>>]
Init ==
    /\ f_bucket = EmptyBuckets(InitialBuckets)
    /\ f_capacity = InitialBuckets /\ f_size = 0
    /\ content = {} /\ uncounted = 0 /\ dead = FALSE

BucketOf(key) == key % f_capacity
Position(key) == SelectInSeq(f_bucket[BucketOf(key)], LAMBDA e : e.key = key)
Has(key) == Position(key) # 0

\* find() and at(): the value the chain of the key holds.
Lookup(key) == IF Has(key) THEN {f_bucket[BucketOf(key)][Position(key)].value} ELSE {}

\* Variant: an entry is moved to the bucket it had before.
MutRehash(buckets, cap, size) ==
    [b \in 0..(cap - 1) |-> IF b < f_capacity THEN buckets[b] ELSE <<>>]

\* rehash(): the chains, bucket after bucket, are appended to the new ones.
Rehash(buckets, cap, size) ==
    FoldLeft(LAMBDA acc, e : [acc EXCEPT ![e.key % cap] = Append(@, e)],
             EmptyBuckets(cap),
             FoldLeft(LAMBDA s, b : s \o buckets[b], <<>>, [i \in 1..f_capacity |-> i - 1]))

NewCapacity(size) ==
    IF size % Granule = 0 THEN size ELSE ((size - (size % Granule)) + Granule) % Word

\* insert(): a duplicate is refused.
Insert(key, value) ==
    /\ ~dead
    /\ \/ Has(key) /\ UNCHANGED mapVars
       \/ /\ ~Has(key)
          /\ content' = content \cup {<<key, value>>}
          /\ f_size' = (f_size + 1) % Word
          /\ LET buckets == [f_bucket EXCEPT ![BucketOf(key)] = Append(@, [key |-> key, value |-> value])]
                 cap == NewCapacity(f_size')
             IN IF f_size' < f_capacity * 2
                THEN f_bucket' = buckets /\ UNCHANGED <<f_capacity, dead>>
                ELSE IF cap = 0
                THEN dead' = TRUE /\ UNCHANGED <<f_bucket, f_capacity>>
                ELSE /\ f_bucket' = Rehash(buckets, cap, f_size')
                     /\ f_capacity' = cap
                     /\ UNCHANGED dead
          /\ UNCHANGED uncounted

\* operator[] with the assignment its callers make.
Index(key, value) ==
    /\ ~dead
    /\ content' = {c \in content : c[1] # key} \cup {<<key, value>>}
    /\ \/ /\ Has(key)
          /\ f_bucket' = [f_bucket EXCEPT ![BucketOf(key)][Position(key)].value = value]
          /\ UNCHANGED uncounted
       \/ /\ ~Has(key) /\ uncounted < 2
          /\ f_bucket' = [f_bucket EXCEPT ![BucketOf(key)] = Append(@, [key |-> key, value |-> value])]
          /\ uncounted' = uncounted + 1
    /\ UNCHANGED <<f_capacity, f_size, dead>>

\* erase() takes the first entry with the key out of its bucket's chain.
Erase(key) ==
    /\ ~dead /\ Has(key)
    /\ f_bucket' = [f_bucket EXCEPT ![BucketOf(key)] = RemoveAt(@, Position(key))]
    /\ f_size' = (f_size - 1) % Word
    /\ content' = {c \in content : c[1] # key}
    /\ UNCHANGED <<f_capacity, uncounted, dead>>

Clear ==
    /\ ~dead
    /\ f_bucket' = EmptyBuckets(InitialBuckets) /\ f_capacity' = InitialBuckets
    /\ f_size' = 0 /\ content' = {} /\ uncounted' = 0
    /\ UNCHANGED dead

Next ==
    \/ \E key \in Keys, value \in Values : Insert(key, value) \/ Index(key, value)
    \/ \E key \in Keys : Erase(key)
    \/ Clear

-----------------------------------------------------------------------------
\* Whatever was inserted, erased and rehashed, a lookup gives the value stored
\* last, in a chain that holds each key once; and f_size is the number of entries
\* less those operator[] has made (unordered_map.hpp:232, 243).
MapExact ==
    ~dead =>
        /\ \A key \in Keys : Lookup(key) = {c[2] : c \in {d \in content : d[1] = key}}
        /\ \A b \in DOMAIN f_bucket : \A i, j \in DOMAIN f_bucket[b] :
            f_bucket[b][i].key = f_bucket[b][j].key => i = j
        /\ f_size = (Cardinality(content) - uncounted) % Word

=============================================================================
