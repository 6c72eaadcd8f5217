------------------------------- MODULE PoolSet -------------------------------
(***************************************************************************)
(* What the buffer pool of a fifo promises: the array of be_ei_t elements   *)
(* is partitioned into free elements and chunks of contiguous elements      *)
(* that are out with a user of the pool.  A chunk is named by its first     *)
(* element, as a buf_element_t pointer names it in the code.                *)
(* The free list that implements this is PoolList; blocking allocation and  *)
(* the waiters are BufferPool.                                              *)
(***************************************************************************)
EXTENDS Integers, FiniteSets

CONSTANTS Capacity,    \* buffer_pool_capacity: number of elements
          AllocLimit,  \* largest chunk of one size_alloc (capacity >> 2)
          GrowLimit    \* largest chunk realloc aims at (capacity >> 3)

ASSUME PoolAssumption ==
    /\ Capacity \in Nat
    /\ AllocLimit \in Nat \ {0}
    /\ AllocLimit + 2 <= Capacity
    /\ GrowLimit \in 0 .. AllocLimit

VARIABLES free,      \* the free elements
          nbufs,     \* nbufs[h]: elements of the chunk that is out at h, or 0
          num_free   \* buffer_pool_num_free

poolVars == <<free, nbufs, num_free>>

Elems == 1 .. Capacity

Out == {h \in Elems : nbufs[h] > 0}

Chunk(h) == h .. h + nbufs[h] - 1

\* The maximal runs of free elements, as <<first, last>>.
Runs(F) == {r \in F \X F : /\ r[1] .. r[2] \subseteq F
                           /\ r[1] <= r[2]
                           /\ r[1] - 1 \notin F
                           /\ r[2] + 1 \notin F}

RunLen(r) == r[2] - r[1] + 1

\* The run a request for n elements is served from: the first that is large
\* enough, or the first of the longest ones when none is.
Serves(F, n, r) ==
    \/ /\ RunLen(r) >= n
       /\ \A q \in Runs(F) : RunLen(q) >= n => r[1] <= q[1]
    \/ /\ \A q \in Runs(F) : RunLen(q) < n
       /\ \A q \in Runs(F) : \/ RunLen(q) < RunLen(r)
                             \/ RunLen(q) = RunLen(r) /\ r[1] <= q[1]

MinOf(a, b) == IF a <= b THEN a ELSE b

\* Negative control: take the length asked for, whatever the run's length.
Got_Asked(n, r) == n

\* The elements a request for n gets from the run r.
Got(n, r) == MinOf(n, RunLen(r))

\* Hand out one chunk of n elements, fewer when no run is that long.
Take(n) ==
    \E r \in Runs(free) :
        /\ Serves(free, n, r)
        /\ LET got == Got(n, r)
           IN  /\ free' = free \ (r[1] .. r[1] + got - 1)
               /\ nbufs' = [nbufs EXCEPT ![r[1]] = got]
               /\ num_free' = num_free - got

\* Give the chunk at h back.
GiveBack(h) ==
    /\ h \in Out
    /\ free' = free \cup Chunk(h)
    /\ nbufs' = [nbufs EXCEPT ![h] = 0]
    /\ num_free' = num_free + nbufs[h]

\* Negative control: forget the emergency buffer.
GrowWanted_All(n) == MinOf(n, num_free)

\* "save emergecy buf"
GrowWanted(n) == MinOf(n, num_free - 1)

\* Negative control: the enlargement is not subtracted from the count.
CountAfterGrow_Same(got) == num_free

CountAfterGrow(got) == num_free - got

\* What buffer_pool_realloc may add in place to the chunk at h when n more
\* elements are wanted: it always leaves one element in the pool.
GrowBy(h, n) ==
    /\ h \in Out
    /\ \E r \in Runs(free) :
        /\ r[1] = h + nbufs[h]
        /\ GrowWanted(n) >= 1
        /\ LET got == Got(GrowWanted(n), r)
           IN  /\ free' = free \ (r[1] .. r[1] + got - 1)
               /\ nbufs' = [nbufs EXCEPT ![h] = @ + got]
               /\ num_free' = CountAfterGrow(got)

PoolInit ==
    /\ free = Elems
    /\ nbufs = [h \in Elems |-> 0]
    /\ num_free = Capacity

PoolNext ==
    \/ free # {} /\ Take(1)
    \/ \E n \in 1 .. AllocLimit : num_free >= n + 2 /\ Take(n)
    \/ \E h \in Elems : GiveBack(h)
    \/ \E h \in Elems, n \in 1 .. GrowLimit : GrowBy(h, n - nbufs[h])

PoolSpec == PoolInit /\ [][PoolNext]_poolVars

-----------------------------------------------------------------------------
\* Every element is in exactly one place: in the free list or in one chunk
\* that is out, and the chunks never overlap.
Partition ==
    /\ \A h \in Out : Chunk(h) \subseteq Elems \ free
    /\ \A g, h \in Out : g # h => Chunk(g) \cap Chunk(h) = {}
    /\ \A e \in Elems \ free : \E h \in Out : e \in Chunk(h)

\* The count that decides about waiting agrees with the list.
CountExact == num_free = Cardinality(free)

\* buffer_pool_free would abort the program ("TOO MANY FREE's"): no chunk
\* that is out can ever bring it there.
NeverTooMany == \A h \in Out : num_free + nbufs[h] <= Capacity
=============================================================================
