------------------------------- MODULE PoolList -------------------------------
(***************************************************************************)
(* The free list behind a fifo's buffer pool.  The free elements are linked *)
(* in address order; the first element of a run of contiguous free          *)
(* elements holds the length of the run in its nbufs field, so the code     *)
(* walks from run to run: it follows next only at the last element of one.  *)
(* The same nbufs field holds the length of a chunk that is out.            *)
(* Elements are numbered by address; 0 is the NULL pointer.                 *)
(***************************************************************************)
EXTENDS Integers, Sequences, SequencesExt

CONSTANTS Capacity, AllocLimit, GrowLimit

VARIABLES top,       \* buffer_pool_top
          next,      \* elem.next of every element
          cnt,       \* nbufs of every element (stale inside a run or a chunk)
          num_free,  \* buffer_pool_num_free
          out        \* the chunks that were handed out (the users' pointers)

listVars == <<top, next, cnt, num_free, out>>

Elem == 1 .. Capacity

Tail1(p) == p + cnt[p] - 1        \* last element of the run or chunk at p

\* The heads of the free runs, as the code's loops meet them.
HeadsFrom[p \in 0 .. Capacity] ==
    IF p = 0 THEN <<>> ELSE <<p>> \o HeadsFrom[next[Tail1(p)]]

Heads == HeadsFrom[top]

\* Links: the pool top (0) and the next field of the last element of a run.
LinkBefore(i) == IF i = 1 THEN 0 ELSE Tail1(Heads[i - 1])

SetLink(link, p) ==
    /\ top'  = IF link = 0 THEN p ELSE top
    /\ next' = IF link = 0 THEN next ELSE [next EXCEPT ![link] = p]

\* Take the first n elements of the i-th run out of the list.
Unlink(i, n) ==
    LET h == Heads[i] IN
    IF cnt[h] > n
    THEN /\ SetLink(LinkBefore(i), h + n)
         /\ cnt' = [cnt EXCEPT ![h + n] = cnt[h] - n, ![h] = n]
    ELSE /\ SetLink(LinkBefore(i), next[Tail1(h)])
         /\ cnt' = [cnt EXCEPT ![h] = n]

\* buffer_pool_alloc and buffer_pool_try_alloc: the first element of the list.
TakeFirst ==
    /\ top # 0
    /\ top' = next[top]
    /\ cnt' = IF cnt[top] > 1
              THEN [cnt EXCEPT ![top + 1] = cnt[top] - 1, ![top] = 1]
              ELSE [cnt EXCEPT ![top] = 1]
    /\ num_free' = num_free - 1
    /\ out' = out \cup {top}
    /\ UNCHANGED next

\* buffer_pool_size_alloc_int, for n >= 2: first fit, else the first of the
\* longest runs, whole.
TakeSized(n) ==
    /\ num_free >= n + 2
    /\ LET len(i) == cnt[Heads[i]]
           fits   == {i \in 1 .. Len(Heads) : len(i) >= n}
           best   == {i \in 1 .. Len(Heads) :
                        \A j \in 1 .. Len(Heads) : len(j) <= len(i)}
           first(S) == CHOOSE i \in S : \A j \in S : i <= j
           i   == IF fits # {} THEN first(fits) ELSE first(best)
           got == IF fits # {} THEN n ELSE len(i)
       IN  /\ Unlink(i, got)
           /\ num_free' = num_free - got
           /\ out' = out \cup {Heads[i]}

\* buffer_pool_realloc, the enlargement in place.
GrowInPlace(h, aim) ==
    /\ h \in out
    /\ \E i \in 1 .. Len(Heads) :
        /\ Heads[i] = h + cnt[h]
        /\ LET p    == Heads[i]
               want == IF aim - cnt[h] > num_free - 1
                       THEN num_free - 1 ELSE aim - cnt[h]
               rest == cnt[p] - want
               got  == IF rest > 0 THEN want ELSE cnt[p]
           IN  /\ want >= 1
               /\ SetLink(LinkBefore(i), IF rest > 0 THEN p + got ELSE next[Tail1(p)])
               /\ cnt' = IF rest > 0
                         THEN [cnt EXCEPT ![p + got] = rest, ![h] = @ + got]
                         ELSE [cnt EXCEPT ![h] = @ + got]
               /\ num_free' = num_free - got
    /\ UNCHANGED out

\* Negative control: stop at a strictly greater address.
Behind_Strictly(p, newtail) == p > newtail

\* The walk of buffer_pool_free stops at the first run behind the chunk.
Behind(p, newtail) == p >= newtail

Touches(p, h) == p + cnt[p] = h

\* "we might be a new chunk": link the elements of the chunk at h.
Chained(h) == [e \in Elem |-> IF e \in h .. Tail1(h) - 1 THEN e + 1 ELSE next[e]]

Returned(h) == cnt[h]

\* buffer_pool_free: insert the chunk in address order, merge it with the next
\* run and with the previous run when there is no gap.
Insert(h) ==
    /\ h \in out
    /\ LET newtail == h + cnt[h]
           k       == SelectInSeq(Heads, LAMBDA p : Behind(p, newtail))
           after   == IF k = 0 THEN 0 ELSE Heads[k]
           before  == IF k = 0 THEN Heads ELSE SubSeq(Heads, 1, k - 1)
           size    == IF after = newtail THEN cnt[h] + cnt[after] ELSE cnt[h]
       IN  IF before = <<>>
           THEN /\ top' = h
                /\ next' = [Chained(h) EXCEPT ![newtail - 1] = after]
                /\ cnt' = [cnt EXCEPT ![h] = size]
           ELSE LET prev == Last(before) IN
                /\ UNCHANGED top
                /\ next' = [Chained(h) EXCEPT ![Tail1(prev)] = h,
                                              ![newtail - 1] = after]
                /\ cnt' = IF Touches(prev, h)
                          THEN [cnt EXCEPT ![h] = size, ![prev] = @ + size]
                          ELSE [cnt EXCEPT ![h] = size]
    /\ num_free' = num_free + Returned(h)
    /\ out' = out \ {h}

Init ==
    /\ top = 1
    /\ next = [e \in Elem |-> IF e = Capacity THEN 0 ELSE e + 1]
    /\ cnt = [e \in Elem |-> IF e = 1 THEN Capacity ELSE 0]
    /\ num_free = Capacity
    /\ out = {}

Next ==
    \/ TakeFirst
    \/ \E n \in 2 .. AllocLimit : TakeSized(n)
    \/ \E h \in Elem, aim \in 1 .. GrowLimit : GrowInPlace(h, aim)
    \/ \E h \in Elem : Insert(h)

Spec == Init /\ [][Next]_listVars

-----------------------------------------------------------------------------
\* The elements a walk of the list reaches.
Listed == UNION {Heads[i] .. Tail1(Heads[i]) : i \in 1 .. Len(Heads)}

Abstract == INSTANCE PoolSet WITH
    free  <- Listed,
    nbufs <- [h \in Elem |-> IF h \in out THEN cnt[h] ELSE 0]

\* Every operation on the list is an operation on the set of free elements:
\* the same chunk comes out, and a chunk that is given back is neither lost
\* nor shared (buffer.c, "The large buffer feature").
ImplementsPool == Abstract!PoolSpec

=============================================================================
