--------------------------- MODULE BufferPoolProofs ---------------------------
(***************************************************************************)
(* Proofs about BufferPool, for every capacity, limit and set of threads.   *)
(* The pool part (PoolInv) is preserved by the three ways the pool changes; *)
(* the waiter part (WaitInv) ties the registered waiters to the threads.    *)
(***************************************************************************)
EXTENDS BufferPool, FiniteSetTheorems, TLAPS

PoolType ==
    /\ free \subseteq Elems
    /\ nbufs \in [Elems -> 0 .. Capacity]
    /\ num_free \in 0 .. Capacity

PoolInv == PoolType /\ Partition /\ CountExact

-----------------------------------------------------------------------------
LEMMA ElemsFinite ==
    IsFiniteSet(Elems) /\ Cardinality(Elems) = Capacity
BY FS_Interval, PoolAssumption DEF Elems

\* Removing an interval of free elements lowers the count by its length.
LEMMA RemoveInterval ==
    ASSUME NEW F \in SUBSET Elems, NEW a \in Int, NEW b \in Int,
           a <= b, a .. b \subseteq F
    PROVE  Cardinality(F \ (a .. b)) = Cardinality(F) - (b - a + 1)
<1>1. IsFiniteSet(F)
  BY ElemsFinite, FS_Subset
<1>2. IsFiniteSet(F \ (a .. b))
  BY <1>1, FS_Subset
<1>3. IsFiniteSet(a .. b) /\ Cardinality(a .. b) = b - a + 1
  BY FS_Interval
<1>4. /\ F = (F \ (a .. b)) \cup (a .. b)
      /\ (F \ (a .. b)) \cap (a .. b) = {}
  OBVIOUS
<1>5. Cardinality({}) = 0
  BY FS_EmptySet
<1>6. Cardinality(F) = Cardinality(F \ (a .. b)) + Cardinality(a .. b)
                       - Cardinality({})
  <2>1. Cardinality((F \ (a .. b)) \cup (a .. b)) =
          Cardinality(F \ (a .. b)) + Cardinality(a .. b)
          - Cardinality((F \ (a .. b)) \cap (a .. b))
    BY <1>2, <1>3, FS_Union
  <2> QED
    BY <1>4, <2>1
<1>7. Cardinality(F \ (a .. b)) \in Nat
  BY <1>2, FS_CardinalityType
<1> QED
  BY <1>3, <1>5, <1>6, <1>7

\* Adding an interval of elements that are not free raises it by its length.
LEMMA AddInterval ==
    ASSUME NEW F \in SUBSET Elems, NEW a \in Int, NEW b \in Int,
           a <= b, a .. b \subseteq Elems, F \cap (a .. b) = {}
    PROVE  Cardinality(F \cup (a .. b)) = Cardinality(F) + (b - a + 1)
<1> DEFINE G == F \cup (a .. b)
<1>1. G \in SUBSET Elems /\ a .. b \subseteq G /\ G \ (a .. b) = F
  OBVIOUS
<1>2. Cardinality(G) \in Nat
  BY <1>1, ElemsFinite, FS_Subset, FS_CardinalityType
<1> HIDE DEF G
<1>3. Cardinality(G \ (a .. b)) = Cardinality(G) - (b - a + 1)
  BY <1>1, RemoveInterval
<1>4. Cardinality(G) = Cardinality(F) + (b - a + 1)
  BY <1>1, <1>2, <1>3
<1> QED
  BY <1>4 DEF G

\* The count of a set of elements is between 0 and the capacity.
LEMMA CountRange ==
    ASSUME NEW F \in SUBSET Elems
    PROVE  Cardinality(F) \in 0 .. Capacity
<1>1. Cardinality(F) \in Nat /\ Cardinality(F) <= Capacity
  BY ElemsFinite, FS_Subset, FS_CardinalityType
<1> QED
  BY <1>1, PoolAssumption

-----------------------------------------------------------------------------
(* Any interval of free elements may become a chunk. *)
LEMMA ChunkOut ==
    ASSUME PoolInv, NEW a \in Int, NEW b \in Int, a <= b, a .. b \subseteq free,
           free' = free \ (a .. b),
           nbufs' = [nbufs EXCEPT ![a] = b - a + 1],
           num_free' = num_free - (b - a + 1)
    PROVE  PoolInv'
<1>1. /\ free \in SUBSET Elems /\ nbufs \in [Elems -> 0 .. Capacity]
      /\ Partition /\ num_free = Cardinality(free)
  BY DEF PoolInv, PoolType, CountExact
<1>2. a \in Elems /\ b \in Elems /\ a \in free
  BY <1>1
<1>3. b - a + 1 \in 1 .. Capacity
  BY <1>2, PoolAssumption DEF Elems
<1>4. free' \in SUBSET Elems /\ nbufs' \in [Elems -> 0 .. Capacity]
  BY <1>1, <1>3
<1>5. num_free' = Cardinality(free')
  <2>1. Cardinality(free \ (a .. b)) = Cardinality(free) - (b - a + 1)
    BY <1>1, RemoveInterval
  <2> QED
    BY <1>1, <2>1
<1>6. num_free' \in 0 .. Capacity
  BY <1>4, <1>5, CountRange
<1>7. a \notin Out
  <2>1. ASSUME a \in Out PROVE FALSE
    <3>1. a \in Chunk(a)
      BY <1>1, <1>2, <2>1, PoolAssumption DEF Out, Elems, Chunk
    <3> QED
      BY <1>1, <1>2, <2>1, <3>1 DEF Partition
  <2> QED
    BY <2>1
<1>8. Out' = Out \cup {a}
  BY <1>1, <1>2, <1>3 DEF Out
<1>9. Chunk(a)' = a .. b
  <2>1. nbufs'[a] = b - a + 1
    BY <1>1, <1>2
  <2> QED
    BY <2>1 DEF Chunk
<1>10. \A h \in Out : h # a /\ h \in Elems /\ Chunk(h)' = Chunk(h)
  BY <1>1, <1>7 DEF Out, Chunk
<1>11. Partition'
  BY <1>1, <1>2, <1>8, <1>9, <1>10 DEF Partition
<1> QED
  BY <1>4, <1>5, <1>6, <1>11 DEF PoolInv, PoolType, CountExact

(* A chunk may grow over the free elements that follow it. *)
LEMMA ChunkGrown ==
    ASSUME PoolInv, NEW h \in Out, NEW k \in Int, k >= 1,
           h + nbufs[h] .. h + nbufs[h] + k - 1 \subseteq free,
           free' = free \ (h + nbufs[h] .. h + nbufs[h] + k - 1),
           nbufs' = [nbufs EXCEPT ![h] = @ + k],
           num_free' = num_free - k
    PROVE  PoolInv'
<1> DEFINE a == h + nbufs[h]
           b == h + nbufs[h] + k - 1
<1>0. /\ free \in SUBSET Elems /\ nbufs \in [Elems -> 0 .. Capacity]
      /\ Partition /\ num_free = Cardinality(free)
  BY DEF PoolInv, PoolType, CountExact
<1>1. h \in Elems /\ nbufs[h] \in 1 .. Capacity /\ a \in Int /\ b \in Int /\ a <= b
  BY <1>0, PoolAssumption DEF Out, Elems
<1>2. b - a + 1 = k
  BY <1>1
<1>3. a \in Elems /\ b \in Elems
  BY <1>0, <1>1
<1>4. nbufs[h] + k \in 1 .. Capacity
  BY <1>1, <1>3, PoolAssumption DEF Elems
<1>5. free' \in SUBSET Elems /\ nbufs' \in [Elems -> 0 .. Capacity]
  BY <1>0, <1>1, <1>4
<1>6. num_free' = Cardinality(free')
  <2>1. a .. b \subseteq free /\ free' = free \ (a .. b)
    OBVIOUS
  <2> HIDE DEF a, b
  <2>2. Cardinality(free \ (a .. b)) = Cardinality(free) - (b - a + 1)
    BY <1>0, <1>1, <2>1, RemoveInterval
  <2> QED
    BY <1>0, <1>2, <2>1, <2>2
<1>7. num_free' \in 0 .. Capacity
  BY <1>5, <1>6, CountRange
<1>8. Out' = Out
  BY <1>0, <1>1, <1>4 DEF Out
<1>9. Chunk(h)' = Chunk(h) \cup (a .. b)
  <2>1. nbufs'[h] = nbufs[h] + k
    BY <1>0, <1>1
  <2>2. Chunk(h)' = h .. h + (nbufs[h] + k) - 1
    BY <2>1 DEF Chunk
  <2>3. h \in Int /\ nbufs[h] \in Nat /\ nbufs[h] >= 1
    BY <1>1, PoolAssumption DEF Elems
  <2> QED
    BY <2>2, <2>3 DEF Chunk
<1>10. \A g \in Out : g # h => Chunk(g)' = Chunk(g)
  BY <1>0 DEF Out, Chunk
<1>11. Partition'
  <2>1. \A g \in Out' : Chunk(g)' \subseteq Elems \ free'
    BY <1>0, <1>8, <1>9, <1>10 DEF Partition
  <2>2. \A f, g \in Out' : f # g => Chunk(f)' \cap Chunk(g)' = {}
    BY <1>0, <1>8, <1>9, <1>10 DEF Partition
  <2>3. \A e \in Elems \ free' : \E g \in Out' : e \in Chunk(g)'
    <3> SUFFICES ASSUME NEW e \in Elems \ free'
                 PROVE  \E g \in Out' : e \in Chunk(g)'
      OBVIOUS
    <3>1. CASE e \in a .. b
      BY <3>1, <1>8, <1>9
    <3>2. CASE e \notin free
      BY <3>2, <1>0, <1>8, <1>9, <1>10 DEF Partition
    <3> QED
      BY <3>1, <3>2
  <2> QED
    BY <2>1, <2>2, <2>3 DEF Partition
<1> QED
  BY <1>5, <1>6, <1>7, <1>11 DEF PoolInv, PoolType, CountExact

-----------------------------------------------------------------------------
LEMMA RunFacts ==
    ASSUME PoolInv, NEW r \in Runs(free), NEW n \in Int, n >= 1
    PROVE  /\ r[1] \in Int /\ r[2] \in Int
           /\ Got(n, r) \in Int /\ Got(n, r) >= 1
           /\ r[1] .. r[1] + Got(n, r) - 1 \subseteq free
<1>1. r[1] \in Elems /\ r[2] \in Elems /\ r[1] <= r[2] /\ r[1] .. r[2] \subseteq free
  BY DEF PoolInv, PoolType, Runs
<1> QED
  BY <1>1, PoolAssumption DEF Got, MinOf, RunLen, Elems

LEMMA TakeStep ==
    ASSUME PoolInv, NEW n \in Int, n >= 1, Take(n)
    PROVE  PoolInv' /\ Out' # {}
<1>1. PICK r \in Runs(free) :
        /\ free' = free \ (r[1] .. r[1] + Got(n, r) - 1)
        /\ nbufs' = [nbufs EXCEPT ![r[1]] = Got(n, r)]
        /\ num_free' = num_free - Got(n, r)
  BY DEF Take
<1> DEFINE a == r[1]
           b == r[1] + Got(n, r) - 1
<1>2. /\ a \in Int /\ b \in Int /\ a <= b
      /\ a .. b \subseteq free
      /\ b - a + 1 = Got(n, r)
  BY RunFacts
<1>3. PoolInv'
  <2> HIDE DEF a, b
  <2>1. /\ free' = free \ (a .. b)
        /\ nbufs' = [nbufs EXCEPT ![a] = b - a + 1]
        /\ num_free' = num_free - (b - a + 1)
    BY <1>1, <1>2 DEF a, b
  <2> QED
    BY <1>2, <2>1, ChunkOut
<1>4. a \in Elems /\ nbufs'[a] > 0
  BY <1>1, <1>2, RunFacts DEF PoolInv, PoolType
<1> QED
  BY <1>3, <1>4 DEF Out

LEMMA GiveBackStep ==
    ASSUME PoolInv, NEW h \in Elems, GiveBack(h)
    PROVE  PoolInv'
<1> DEFINE a == h
           b == h + nbufs[h] - 1
<1> USE PoolAssumption DEF PoolInv, PoolType
<1>1. h \in Out /\ nbufs[h] \in 1 .. Capacity /\ h \in Int
  BY DEF GiveBack, Out, Elems
<1>2. a .. b \subseteq Elems /\ free \cap (a .. b) = {}
  BY <1>1 DEF Partition, Chunk
<1>3. free' = free \cup (a .. b) /\ num_free' = num_free + nbufs[h]
      /\ nbufs' = [nbufs EXCEPT ![h] = 0]
  BY DEF GiveBack, Chunk
<1>4. num_free' = Cardinality(free')
  <2>1. a \in Int /\ b \in Int /\ a <= b /\ b - a + 1 = nbufs[h]
    BY <1>1
  <2>2. Cardinality(free \cup (a .. b)) = Cardinality(free) + (b - a + 1)
    BY <1>2, <2>1, AddInterval
  <2> QED
    BY <1>3, <2>1, <2>2 DEF CountExact
<1>5. free' \subseteq Elems /\ nbufs' \in [Elems -> 0 .. Capacity]
  BY <1>2, <1>3
<1>6. num_free' \in 0 .. Capacity
  BY <1>4, <1>5, CountRange
<1>7. Out' = Out \ {h}
  BY <1>3 DEF Out
<1>8. \A g \in Out' : Chunk(g)' = Chunk(g)
  BY <1>3, <1>7 DEF Out, Chunk
<1>9. Chunk(h) = a .. b
  BY DEF Chunk
<1>10. Partition'
  BY <1>1, <1>2, <1>3, <1>7, <1>8, <1>9 DEF Partition
<1> QED
  BY <1>4, <1>5, <1>6, <1>10 DEF CountExact

LEMMA GrowStep ==
    ASSUME PoolInv, NEW h \in Elems, NEW n \in Int, GrowBy(h, n)
    PROVE  PoolInv' /\ Out' # {} /\ num_free' >= 1
<1>1. h \in Out
  BY DEF GrowBy
<1>2. PICK r \in Runs(free) :
        /\ r[1] = h + nbufs[h]
        /\ GrowWanted(n) >= 1
        /\ free' = free \ (r[1] .. r[1] + Got(GrowWanted(n), r) - 1)
        /\ nbufs' = [nbufs EXCEPT ![h] = @ + Got(GrowWanted(n), r)]
        /\ num_free' = num_free - Got(GrowWanted(n), r)
  BY DEF GrowBy, CountAfterGrow
<1> DEFINE k == Got(GrowWanted(n), r)
<1>3. GrowWanted(n) \in Int /\ GrowWanted(n) <= num_free - 1
  BY PoolAssumption DEF GrowWanted, MinOf, PoolInv, PoolType
<1>4. k \in Int /\ k >= 1 /\ r[1] .. r[1] + k - 1 \subseteq free
  BY <1>2, <1>3, RunFacts
<1>5. k <= GrowWanted(n)
  <2>1. r[1] \in Int /\ r[2] \in Int
    BY <1>2, <1>3, RunFacts
  <2> QED
    BY <1>3, <2>1 DEF Got, MinOf, RunLen
<1>6. PoolInv'
  <2> HIDE DEF k
  <2>1. /\ h + nbufs[h] .. h + nbufs[h] + k - 1 \subseteq free
        /\ free' = free \ (h + nbufs[h] .. h + nbufs[h] + k - 1)
        /\ nbufs' = [nbufs EXCEPT ![h] = @ + k]
        /\ num_free' = num_free - k
    BY <1>2, <1>4 DEF k
  <2> QED
    BY <1>1, <1>4, <2>1, ChunkGrown
<1>7. nbufs'[h] > 0
  BY <1>1, <1>2, <1>4, PoolAssumption DEF PoolInv, PoolType, Out
<1>8. num_free' >= 1
  BY <1>2, <1>3, <1>4, <1>5, PoolAssumption DEF PoolInv, PoolType
<1> QED
  BY <1>6, <1>7, <1>8 DEF Out

-----------------------------------------------------------------------------
WaitType ==
    /\ soft \in BOOLEAN
    /\ reserve \in 0 .. SoftStart
    /\ num_waiters \in 0 .. Cardinality(Threads)
    /\ large_wait \in 3 .. LargeNum
    /\ role \in [Threads -> Roles]
    /\ need \in [Threads -> 0 .. AllocLimit + 2]
    /\ asleep \subseteq Threads

\* A waiting thread waits for something size_alloc can be asked for.
NeedKnown ==
    /\ \A t \in Threads : Waiting(t) => need[t] >= 2
    /\ \A t \in Threads : role[t] = "large" => need[t] >= 3
    /\ \A t \in asleep : Waiting(t)

WaitInv == WaitType /\ NeedKnown /\ WaitersCounted

IInv == PoolInv /\ WaitInv

LEMMA CountedRange ==
    ASSUME NEW S \in SUBSET Threads
    PROVE  IsFiniteSet(S) /\ Cardinality(S) \in 0 .. Cardinality(Threads)
<1>1. IsFiniteSet(S) /\ Cardinality(S) <= Cardinality(Threads)
  BY WaitAssumption, FS_Subset
<1>2. Cardinality(S) \in Nat /\ Cardinality(Threads) \in Nat
  BY <1>1, WaitAssumption, FS_CardinalityType
<1> QED
  BY <1>1, <1>2

(* A thread that goes to sleep for the first time is registered. *)
LEMMA SleepStep ==
    ASSUME IInv, NEW t \in Threads, ~Waiting(t),
           NEW nd \in 2 .. AllocLimit + 2, NEW r \in {"counted", "large"},
           r = "large" => large_wait = LargeNum /\ nd >= 3,
           Sleep(t, r, nd), UNCHANGED softVars
    PROVE  IInv'
<1> USE PoolAssumption DEF IInv, WaitInv, WaitType
<1>1. PoolInv'
  BY DEF Sleep, PoolInv, PoolType, Partition, CountExact, Chunk, Out
<1>2. /\ role' \in [Threads -> Roles]
      /\ need' \in [Threads -> 0 .. AllocLimit + 2]
      /\ asleep' \subseteq Threads
      /\ soft' \in BOOLEAN /\ reserve' \in 0 .. SoftStart
  BY DEF Sleep, softVars, Roles
<1>3. large_wait' \in 3 .. LargeNum
  BY DEF Sleep, LargeNum
<1>4. num_waiters' = Cardinality(Counted')
  <2>1. num_waiters = Cardinality(Counted) /\ IsFiniteSet(Counted)
    BY CountedRange DEF WaitersCounted, Counted
  <2>2. t \notin Counted
    BY DEF Counted, Waiting
  <2>3. CASE r = "counted"
    <3>1. Counted' = Counted \cup {t}
      BY <2>3 DEF Counted, Sleep
    <3>2. Cardinality(Counted') = Cardinality(Counted) + 1
      BY <2>1, <2>2, <3>1, FS_AddElement
    <3> QED
      BY <2>1, <2>3, <3>2 DEF Sleep
  <2>4. CASE r = "large"
    <3>1. Counted' = Counted
      BY <2>2, <2>4 DEF Counted, Sleep
    <3> QED
      BY <2>1, <2>4, <3>1 DEF Sleep
  <2> QED
    BY <2>3, <2>4
<1>5. num_waiters' \in 0 .. Cardinality(Threads)
  <2>1. Counted' \in SUBSET Threads
    BY DEF Counted
  <2> QED
    BY <1>4, <2>1, CountedRange
<1>6. NeedKnown'
  BY DEF NeedKnown, Waiting, Sleep
<1>7. WaitersCounted'
  <2>1. CASE r = "counted"
    BY <1>4, <2>1 DEF WaitersCounted, Sleep, Waiting
  <2>2. CASE r = "large"
    BY <1>4, <2>2 DEF WaitersCounted, Sleep, Waiting, LargeNum
  <2> QED
    BY <2>1, <2>2
<1> QED
  BY <1>1, <1>2, <1>3, <1>5, <1>6, <1>7

(* A thread whose wait is over is no longer registered. *)
LEMMA WakeStep ==
    ASSUME IInv, NEW t \in Threads, Wake(t)
    PROVE  IInv'
<1> USE PoolAssumption DEF IInv, WaitInv, WaitType
<1>1. Waiting(t) /\ UNCHANGED softVars
  BY DEF Wake
<1>2. CASE /\ asleep' = asleep \cup {t}
           /\ UNCHANGED <<poolVars, waitVars>>
  <2>1. PoolInv'
    BY <1>2 DEF PoolInv, PoolType, Partition, CountExact, Chunk, Out, poolVars
  <2>2. WaitInv'
    BY <1>1, <1>2 DEF NeedKnown, WaitersCounted, Counted, Waiting, waitVars, softVars
  <2> QED
    BY <2>1, <2>2
<1>3. CASE /\ Take(Wanted(need[t]))
           /\ num_waiters' = IF role[t] = "counted" THEN num_waiters - 1
                                                    ELSE num_waiters
           /\ large_wait' = LargeAfter(t)
           /\ role' = [role EXCEPT ![t] = "none"]
           /\ need' = [need EXCEPT ![t] = 0]
           /\ t \notin asleep /\ UNCHANGED asleep
  <2>1. need[t] \in 2 .. AllocLimit + 2
    BY <1>1 DEF NeedKnown
  <2>2. Wanted(need[t]) \in Int /\ Wanted(need[t]) >= 1
    BY <2>1 DEF Wanted
  <2>3. PoolInv'
    BY <1>3, <2>2, TakeStep
  <2>4. num_waiters' = Cardinality(Counted')
    <3>1. num_waiters = Cardinality(Counted) /\ IsFiniteSet(Counted)
      BY CountedRange DEF WaitersCounted, Counted
    <3>2. CASE role[t] = "counted"
      <4>1. Counted' = Counted \ {t} /\ t \in Counted
        BY <1>3, <3>2 DEF Counted
      <4>2. Cardinality(Counted') = Cardinality(Counted) - 1
        BY <3>1, <4>1, FS_RemoveElement
      <4> QED
        BY <1>3, <3>1, <3>2, <4>2
    <3>3. CASE role[t] # "counted"
      <4>1. Counted' = Counted
        BY <1>3, <3>3 DEF Counted
      <4> QED
        BY <1>3, <3>1, <3>3, <4>1
    <3> QED
      BY <3>2, <3>3
  <2>5. num_waiters' \in 0 .. Cardinality(Threads)
    <3>1. Counted' \in SUBSET Threads
      BY DEF Counted
    <3> QED
      BY <2>4, <3>1, CountedRange
  <2>6. /\ role' \in [Threads -> Roles]
        /\ need' \in [Threads -> 0 .. AllocLimit + 2]
        /\ large_wait' \in 3 .. LargeNum
        /\ asleep' \subseteq Threads
        /\ soft' \in BOOLEAN /\ reserve' \in 0 .. SoftStart
    BY <1>1, <1>3 DEF Roles, LargeNum, LargeAfter, softVars
  <2>7. NeedKnown'
    BY <1>3 DEF NeedKnown, Waiting
  <2>8. WaitersCounted'
    <3>1. CASE role[t] = "large"
      BY <1>3, <2>4, <3>1 DEF WaitersCounted, Waiting, LargeAfter
    <3>2. CASE role[t] # "large"
      BY <1>3, <2>4, <3>2 DEF WaitersCounted, Waiting, LargeAfter
    <3> QED
      BY <3>1, <3>2
  <2> QED
    BY <2>3, <2>5, <2>6, <2>7, <2>8
<1> QED
  BY <1>2, <1>3 DEF Wake

(* Steps that leave the registered waiters alone. *)
LEMMA PoolOnlyStep ==
    ASSUME IInv, PoolInv', UNCHANGED waitVars, asleep' \subseteq asleep,
           soft' \in BOOLEAN, reserve' \in 0 .. SoftStart
    PROVE  IInv'
BY DEF IInv, WaitInv, WaitType, NeedKnown, WaitersCounted, Counted, Waiting, waitVars

LEMMA ObtainStep ==
    ASSUME IInv, NEW t \in Threads, ~Waiting(t),
           NEW nd \in 2 .. AllocLimit + 2, NEW r \in {"counted", "large"},
           r = "large" => large_wait = LargeNum /\ nd >= 3,
           Obtain(t, nd, r), UNCHANGED softVars
    PROVE  IInv'
<1>1. CASE Take(Wanted(nd)) /\ UNCHANGED <<waitVars, asleep>>
  <2>1. Wanted(nd) \in Int /\ Wanted(nd) >= 1
    BY PoolAssumption DEF Wanted
  <2>2. PoolInv'
    BY <1>1, <2>1, TakeStep DEF IInv
  <2>3. soft' \in BOOLEAN /\ reserve' \in 0 .. SoftStart
    BY DEF IInv, WaitInv, WaitType, softVars
  <2> QED
    BY <1>1, <2>2, <2>3, PoolOnlyStep
<1>2. CASE Sleep(t, r, nd)
  BY <1>2, SleepStep
<1> QED
  BY <1>1, <1>2 DEF Obtain

LEMMA SizeAllocStep ==
    ASSUME IInv, NEW t \in Threads, ~Waiting(t), NEW n \in 1 .. AllocLimit,
           SizeAllocInt(t, n), UNCHANGED softVars
    PROVE  IInv'
<1> DEFINE r == IF large_wait # LargeNum THEN "counted" ELSE "large"
<1>1. /\ n + 2 \in 2 .. AllocLimit + 2
      /\ r \in {"counted", "large"}
      /\ r = "large" => large_wait = LargeNum /\ n + 2 >= 3
  BY PoolAssumption
<1>2. Obtain(t, n + 2, r)
  BY DEF SizeAllocInt
<1> HIDE DEF r
<1> QED
  BY <1>1, <1>2, ObtainStep

(* Realloc enlarges the chunk, or is an allocation within size_alloc's limit. *)
LEMMA ReallocCases ==
    ASSUME IInv, NEW t \in Threads, NEW h \in Elems, NEW aim \in 0 .. GrowLimit,
           Realloc(t, h, aim)
    PROVE  /\ ~Waiting(t) /\ UNCHANGED softVars
           /\ nbufs[h] \in 1 .. Capacity
           /\ aim - nbufs[h] \in Int /\ aim - nbufs[h] <= AllocLimit
           /\ \/ GrowBy(h, aim - nbufs[h]) /\ UNCHANGED <<waitVars, asleep>>
              \/ \E m \in 1 .. AllocLimit : SizeAllocInt(t, m)
<1> DEFINE n == aim - nbufs[h]
           left == IF h + nbufs[h] \in free THEN GrowWanted(n) ELSE n
<1>1. ~Waiting(t) /\ UNCHANGED softVars
  BY DEF Realloc
<1>2. nbufs[h] \in 1 .. Capacity /\ n \in Int /\ n <= AllocLimit
  BY PoolAssumption DEF Realloc, Out, IInv, PoolInv, PoolType
<1>3. left \in Int /\ left <= n
  BY <1>2, PoolAssumption DEF GrowWanted, MinOf, IInv, PoolInv, PoolType
<1>4. \/ GrowBy(h, n) /\ UNCHANGED <<waitVars, asleep>>
      \/ SizeAllocInt(t, IF left < 1 THEN 1 ELSE left)
  BY DEF Realloc
<1>5. (IF left < 1 THEN 1 ELSE left) \in 1 .. AllocLimit
  BY <1>2, <1>3, PoolAssumption
<1> QED
  BY <1>1, <1>2, <1>4, <1>5

LEMMA ReallocStep ==
    ASSUME IInv, NEW t \in Threads, NEW h \in Elems, NEW aim \in 0 .. GrowLimit,
           Realloc(t, h, aim)
    PROVE  IInv'
<1> DEFINE n == aim - nbufs[h]
<1>1. ~Waiting(t) /\ UNCHANGED softVars
  BY ReallocCases
<1>2. nbufs[h] \in 1 .. Capacity /\ n \in Int /\ n <= AllocLimit
  BY ReallocCases
<1>3. CASE GrowBy(h, n) /\ UNCHANGED <<waitVars, asleep>>
  <2>1. PoolInv'
    BY <1>2, <1>3, GrowStep DEF IInv
  <2>2. soft' \in BOOLEAN /\ reserve' \in 0 .. SoftStart
    BY <1>1 DEF IInv, WaitInv, WaitType, softVars
  <2> QED
    BY <1>3, <2>1, <2>2, PoolOnlyStep
<1>4. ASSUME NEW m \in 1 .. AllocLimit, SizeAllocInt(t, m) PROVE IInv'
  BY <1>1, <1>4, SizeAllocStep
<1> QED
  BY <1>3, <1>4, ReallocCases

LEMMA FreeStep ==
    ASSUME IInv, NEW h \in Elems, Free(h)
    PROVE  IInv'
<1>1. PoolInv'
  BY GiveBackStep DEF Free, IInv
<1>2. UNCHANGED waitVars /\ soft' \in BOOLEAN
  BY DEF Free, IInv, WaitInv, WaitType
<1>3. asleep' \subseteq asleep
  BY DEF Free, Signalled
<1>4. reserve' \in 0 .. SoftStart
  BY WaitAssumption, PoolAssumption
     DEF Free, FbcSub, IInv, WaitInv, WaitType, PoolInv, PoolType, GiveBack, Out
<1> QED
  BY <1>1, <1>2, <1>3, <1>4, PoolOnlyStep

-----------------------------------------------------------------------------
LEMMA Initially == Init => IInv
<1> SUFFICES ASSUME Init PROVE IInv
  OBVIOUS
<1> USE PoolAssumption, WaitAssumption DEF Init, PoolInit
<1>1. PoolInv
  BY ElemsFinite DEF PoolInv, PoolType, Partition, CountExact, Out, Elems
<1>2. Cardinality(Counted) = 0
  <2>1. Counted = {}
    BY DEF Counted
  <2> QED
    BY <2>1, FS_EmptySet
<1>3. 0 \in 0 .. Cardinality(Threads)
  <2>1. Cardinality(Threads) \in Nat
    BY FS_CardinalityType
  <2> QED
    BY <2>1
<1>4. WaitType
  <2>1. reserve \in 0 .. SoftStart /\ large_wait \in 3 .. LargeNum
    BY DEF LargeNum
  <2>2. need \in [Threads -> 0 .. AllocLimit + 2] /\ role \in [Threads -> Roles]
    BY DEF Roles
  <2> QED
    BY <1>3, <2>1, <2>2 DEF WaitType
<1>5. NeedKnown /\ WaitersCounted
  BY <1>2 DEF NeedKnown, WaitersCounted, Waiting
<1> QED
  BY <1>1, <1>4, <1>5 DEF IInv, WaitInv

LEMMA Inductive == IInv /\ [Next]_vars => IInv'
<1> SUFFICES ASSUME IInv, [Next]_vars PROVE IInv'
  OBVIOUS
<1>0. soft \in BOOLEAN /\ reserve \in 0 .. SoftStart
  BY DEF IInv, WaitInv, WaitType
<1>1. ASSUME NEW t \in Threads, Alloc(t) PROVE IInv'
  <2>1. ~Waiting(t) /\ Obtain(t, 2, "counted") /\ UNCHANGED softVars
    BY <1>1 DEF Alloc
  <2>2. 2 \in 2 .. AllocLimit + 2 /\ "counted" \in {"counted", "large"}
    BY PoolAssumption
  <2> QED
    BY <2>1, <2>2, ObtainStep
<1>2. ASSUME NEW t \in Threads, NEW n \in 1 .. AllocLimit, SizeAlloc(t, n)
      PROVE  IInv'
  BY <1>2, SizeAllocStep DEF SizeAlloc
<1>3. ASSUME NEW t \in Threads, NEW h \in Elems, NEW aim \in 0 .. GrowLimit,
             Realloc(t, h, aim)
      PROVE  IInv'
  BY <1>3, ReallocStep
<1>4. CASE TryAlloc
  <2>1. PoolInv'
    BY <1>4, TakeStep DEF TryAlloc, IInv
  <2>2. UNCHANGED waitVars /\ asleep' \subseteq asleep /\ UNCHANGED softVars
    BY <1>4 DEF TryAlloc
  <2> QED
    BY <1>0, <2>1, <2>2, PoolOnlyStep DEF softVars
<1>5. ASSUME NEW t \in Threads, Wake(t) PROVE IInv'
  BY <1>5, WakeStep
<1>6. ASSUME NEW h \in Elems, Free(h) PROVE IInv'
  BY <1>6, FreeStep
<1>7. ASSUME UNCHANGED <<poolVars, waitVars, asleep>>,
             soft' \in BOOLEAN, reserve' \in 0 .. SoftStart
      PROVE  IInv'
  <2>1. PoolInv'
    BY <1>7 DEF IInv, PoolInv, PoolType, Partition, CountExact, Chunk, Out, poolVars
  <2> QED
    BY <1>7, <2>1, PoolOnlyStep
<1>8. ASSUME NEW on \in BOOLEAN, FbcSet(on) PROVE  IInv'
  BY <1>7, <1>8, WaitAssumption DEF FbcSet
<1>9. CASE FbcReset
  BY <1>0, <1>7, <1>9, WaitAssumption DEF FbcReset
<1>10. CASE UNCHANGED vars
  BY <1>0, <1>7, <1>10 DEF vars, poolVars, waitVars
<1> QED
  BY <1>1, <1>2, <1>3, <1>4, <1>5, <1>6, <1>8, <1>9, <1>10 DEF Next

THEOREM Invariance == Spec => []IInv
BY Initially, Inductive, PTL DEF Spec

(* The variables stay in their types: the reserve never goes below zero and  *)
(* the count of free elements never exceeds the capacity.                    *)
THEOREM TypeCorrect == Spec => []TypeOK
<1>1. IInv => TypeOK
  BY DEF IInv, PoolInv, PoolType, WaitInv, WaitType, TypeOK
<1> QED
  BY <1>1, Invariance, PTL

(* No element is lost or handed out twice, through any interleaving of       *)
(* allocation, growth in place and freeing in buffer.c.                       *)
THEOREM PartitionHolds == Spec => []Partition
<1>1. IInv => Partition
  BY DEF IInv, PoolInv
<1> QED
  BY <1>1, Invariance, PTL

(* buffer_pool_num_free is the number of free elements.                      *)
THEOREM CountHolds == Spec => []CountExact
<1>1. IInv => CountExact
  BY DEF IInv, PoolInv
<1> QED
  BY <1>1, Invariance, PTL

(* The registered waiters are the threads that wait.                         *)
THEOREM WaitersHold == Spec => []WaitersCounted
<1>1. IInv => WaitersCounted
  BY DEF IInv, WaitInv
<1> QED
  BY <1>1, Invariance, PTL

(* "TOO MANY FREE's": giving back a chunk never brings the count above the   *)
(* capacity, so buffer_pool_free never aborts the program.                   *)
THEOREM NeverAborts == Spec => []NeverTooMany
<1>1. IInv => NeverTooMany
  <2> SUFFICES ASSUME IInv, NEW h \in Out PROVE num_free + nbufs[h] <= Capacity
    BY DEF NeverTooMany
  <2>1. /\ h \in Int /\ nbufs[h] \in 1 .. Capacity
        /\ free \in SUBSET Elems /\ num_free = Cardinality(free)
    BY PoolAssumption DEF IInv, PoolInv, PoolType, Out, Elems, CountExact
  <2>2. Chunk(h) \subseteq Elems /\ free \cap Chunk(h) = {}
    BY DEF IInv, PoolInv, Partition
  <2>3. PICK b \in Int : b = h + nbufs[h] - 1
    BY <2>1
  <2>4. h <= b /\ b - h + 1 = nbufs[h] /\ Chunk(h) = h .. b
    BY <2>1, <2>3 DEF Chunk
  <2>5. Cardinality(free \cup (h .. b)) = Cardinality(free) + (b - h + 1)
    BY <2>1, <2>2, <2>4, AddInterval
  <2>6. Cardinality(free \cup Chunk(h)) \in 0 .. Capacity
    BY <2>1, <2>2, CountRange
  <2> QED
    BY <2>1, <2>4, <2>5, <2>6, PoolAssumption
<1> QED
  BY <1>1, Invariance, PTL

-----------------------------------------------------------------------------
(* What an allocation takes is at most what was asked for. *)
LEMMA TakeCount ==
    ASSUME PoolInv, NEW n \in Int, n >= 1, Take(n)
    PROVE  num_free' >= num_free - n
<1>1. PICK r \in Runs(free) : num_free' = num_free - Got(n, r)
  BY DEF Take
<1>2. r[1] \in Int /\ r[2] \in Int
  BY RunFacts
<1> QED
  BY <1>1, <1>2, PoolAssumption DEF Got, MinOf, RunLen, PoolInv, PoolType

LEMMA AvailAtMostFree == IInv => Avail \in Int /\ Avail <= num_free
BY PoolAssumption, WaitAssumption DEF Avail, IInv, PoolInv, PoolType, WaitInv, WaitType

(* An allocation that waits for nd available elements leaves one at least. *)
LEMMA GrantedLeavesOne ==
    ASSUME IInv, NEW nd \in 2 .. AllocLimit + 2, Avail >= nd, Take(Wanted(nd))
    PROVE  num_free' >= 1
<1>1. Wanted(nd) \in Int /\ Wanted(nd) >= 1 /\ Wanted(nd) <= nd - 1
  BY PoolAssumption DEF Wanted
<1>2. PoolInv /\ PoolInv'
  BY <1>1, TakeStep DEF IInv
<1>3. num_free' >= num_free - Wanted(nd)
  BY <1>1, <1>2, TakeCount
<1>4. num_free \in Int /\ num_free' \in Int
  BY <1>2, PoolAssumption DEF PoolInv, PoolType
<1> QED
  BY <1>1, <1>3, <1>4, AvailAtMostFree, PoolAssumption

(* "we always keep one free buffer for emergency situations like decoder     *)
(* flushes": no allocation but try_alloc takes the last free element.        *)
THEOREM EmergencyHolds == Spec => EmergencyKept
<1> DEFINE A == num_free > 0 /\ num_free' = 0 => TryAlloc
<1>1. IInv /\ [Next]_vars => [A]_vars
  <2> SUFFICES ASSUME IInv, Next PROVE A
    OBVIOUS
  <2> SUFFICES ASSUME ~TryAlloc, num_free > 0 PROVE num_free' # 0
    OBVIOUS
  <2>0. ASSUME NEW t \in Threads, NEW nd \in 2 .. AllocLimit + 2, NEW r,
               Obtain(t, nd, r)
        PROVE  num_free' # 0
    BY <2>0, GrantedLeavesOne DEF Obtain, Sleep
  <2>1. ASSUME NEW t \in Threads, NEW n \in 1 .. AllocLimit, SizeAllocInt(t, n)
        PROVE  num_free' # 0
    BY <2>0, <2>1, PoolAssumption DEF SizeAllocInt
  <2>2. ASSUME NEW t \in Threads, Alloc(t) PROVE num_free' # 0
    BY <2>0, <2>2, PoolAssumption DEF Alloc
  <2>3. ASSUME NEW t \in Threads, NEW h \in Elems, NEW aim \in 0 .. GrowLimit,
               Realloc(t, h, aim)
        PROVE  num_free' # 0
    <3> DEFINE n == aim - nbufs[h]
    <3>1. n \in Int /\ n <= AllocLimit
      BY <2>3, ReallocCases
    <3>2. CASE GrowBy(h, n)
      BY <3>1, <3>2, GrowStep DEF IInv
    <3> QED
      BY <2>1, <2>3, <3>2, ReallocCases
  <2>4. ASSUME NEW t \in Threads, Wake(t) PROVE num_free' # 0
    <3>1. need[t] \in 2 .. AllocLimit + 2
      BY <2>4, PoolAssumption DEF Wake, IInv, WaitInv, WaitType, NeedKnown
    <3>2. CASE Avail >= need[t] /\ Take(Wanted(need[t]))
      BY <3>1, <3>2, GrantedLeavesOne
    <3>3. CASE UNCHANGED poolVars
      BY <3>3 DEF poolVars
    <3> QED
      BY <2>4, <3>2, <3>3 DEF Wake
  <2>5. ASSUME NEW h \in Elems, Free(h) PROVE num_free' # 0
    BY <2>5, PoolAssumption DEF Free, GiveBack, Out, IInv, PoolInv, PoolType
  <2>6. ASSUME UNCHANGED poolVars PROVE num_free' # 0
    BY <2>6 DEF poolVars
  <2> QED
    BY <2>1, <2>2, <2>3, <2>4, <2>5, <2>6 DEF Next, SizeAlloc, FbcSet, FbcReset
<1> QED
  BY <1>1, Invariance, PTL DEF Spec, EmergencyKept

-----------------------------------------------------------------------------
(* BufferPool implements the pool it extends: waiting and soft start never   *)
(* hand out anything PoolSet would not.                                      *)
THEOREM PoolImplemented == Spec => PoolSpec
<1>1. Init => PoolInit
  BY DEF Init
<1>2. IInv /\ [Next]_vars => [PoolNext]_poolVars
  <2> SUFFICES ASSUME IInv, [Next]_vars, ~ UNCHANGED poolVars PROVE PoolNext
    OBVIOUS
  <2>0. ASSUME NEW nd \in 2 .. AllocLimit + 2, Avail >= nd, Take(Wanted(nd))
        PROVE  PoolNext
    <3>1. num_free \in Int /\ num_free >= nd
      BY <2>0, AvailAtMostFree, PoolAssumption DEF IInv, PoolInv, PoolType
    <3>2. CASE nd = 2
      <4>1. free # {}
        BY <3>1, <3>2, FS_EmptySet DEF IInv, PoolInv, CountExact
      <4> QED
        BY <2>0, <3>2, <4>1 DEF Wanted, PoolNext
    <3>3. CASE nd # 2
      <4>1. nd - 2 \in 1 .. AllocLimit /\ num_free >= (nd - 2) + 2
        BY <3>1, <3>3, PoolAssumption
      <4> QED
        BY <2>0, <3>3, <4>1 DEF Wanted, PoolNext
    <3> QED
      BY <3>2, <3>3
  <2>1. ASSUME NEW t \in Threads, NEW nd \in 2 .. AllocLimit + 2, NEW r,
               Obtain(t, nd, r)
        PROVE  PoolNext
    BY <2>0, <2>1 DEF Obtain, Sleep, poolVars
  <2>2. ASSUME NEW t \in Threads, NEW n \in 1 .. AllocLimit, SizeAllocInt(t, n)
        PROVE  PoolNext
    BY <2>1, <2>2, PoolAssumption DEF SizeAllocInt
  <2>3. ASSUME NEW t \in Threads, Alloc(t) PROVE PoolNext
    BY <2>1, <2>3, PoolAssumption DEF Alloc
  <2>4. ASSUME NEW t \in Threads, NEW h \in Elems, NEW aim \in 0 .. GrowLimit,
               Realloc(t, h, aim)
        PROVE  PoolNext
    <3> DEFINE n == aim - nbufs[h]
    <3>1. n \in Int /\ n <= AllocLimit /\ nbufs[h] >= 1 /\ nbufs[h] \in Int
      BY <2>4, ReallocCases, PoolAssumption
    <3>2. CASE GrowBy(h, n)
      <4>1. n >= 1
        BY <3>1, <3>2, PoolAssumption DEF GrowBy, GrowWanted, MinOf, IInv, PoolInv, PoolType
      <4>2. aim \in 1 .. GrowLimit
        BY <3>1, <4>1, PoolAssumption
      <4> QED
        BY <3>2, <4>2 DEF PoolNext
    <3> QED
      BY <2>2, <2>4, <3>2, ReallocCases
  <2>5. ASSUME NEW t \in Threads, Wake(t) PROVE PoolNext
    <3>1. need[t] \in 2 .. AllocLimit + 2
      BY <2>5, PoolAssumption DEF Wake, IInv, WaitInv, WaitType, NeedKnown
    <3> QED
      BY <2>0, <2>5, <3>1 DEF Wake
  <2>6. CASE Next
    BY <2>2, <2>3, <2>4, <2>5, <2>6
       DEF Next, SizeAlloc, TryAlloc, Free, FbcSet, FbcReset, PoolNext
  <2> QED
    BY <2>6 DEF vars, poolVars
<1> QED
  BY <1>1, <1>2, Invariance, PTL DEF Spec, PoolSpec

-----------------------------------------------------------------------------
(* With every element free only the reserve of a soft start is withheld. *)
LEMMA AllHome ==
    ASSUME IInv, Out = {}
    PROVE  Avail \in Int /\ Avail >= Capacity - SoftStart
<1>1. free = Elems
  BY DEF IInv, PoolInv, PoolType, Partition
<1>2. num_free = Capacity
  BY <1>1, ElemsFinite DEF IInv, PoolInv, CountExact
<1> QED
  BY <1>2, PoolAssumption, WaitAssumption DEF Avail, IInv, WaitInv, WaitType

(* A thread that asks for no more than a soft start leaves only goes to sleep *)
(* while some chunk is out.                                                   *)
LEMMA SleepsOnlyShort ==
    ASSUME IInv, NEW nd \in 2 .. AllocLimit + 2, Avail < nd,
           nd <= Capacity - SoftStart
    PROVE  Out # {}
BY AllHome, PoolAssumption, WaitAssumption

(* The conditional signal of buffer_pool_free loses no wakeup that matters:  *)
(* when all chunks are home and every waiter's request fits beside a fresh   *)
(* soft start, a sleeping thread is not alone.                               *)
THEOREM NoStrandedHolds == Spec => []NoStranded
<1>1. Init => NoStranded
  BY DEF Init, NoStranded
<1>2. IInv /\ IInv' /\ NoStranded /\ [Next]_vars => NoStranded'
  <2> SUFFICES ASSUME IInv, IInv', NoStranded, [Next]_vars, Modest', Out' = {},
                      asleep' # {}
               PROVE  \E t \in Threads : Waiting(t)' /\ t \notin asleep'
    BY DEF NoStranded
  <2>0. ASSUME NEW t \in Threads, NEW nd \in 2 .. AllocLimit + 2,
               NEW r \in {"counted", "large"}, Obtain(t, nd, r)
        PROVE  Out' # {}
    <3>1. CASE Take(Wanted(nd))
      <4>1. Wanted(nd) \in Int /\ Wanted(nd) >= 1
        BY PoolAssumption DEF Wanted
      <4> QED
        BY <3>1, <4>1, TakeStep DEF IInv
    <3>2. CASE Avail < nd /\ Sleep(t, r, nd)
      <4>1. need'[t] = nd /\ role'[t] = r
        BY <3>2 DEF Sleep, IInv, WaitInv, WaitType
      <4>2. nd <= Capacity - SoftStart
        BY <2>0, <4>1 DEF Modest, Waiting
      <4> QED
        BY <3>2, <4>2, SleepsOnlyShort DEF Sleep, Out
    <3> QED
      BY <2>0, <3>1, <3>2 DEF Obtain
  <2>1. ASSUME NEW t \in Threads, NEW n \in 1 .. AllocLimit, SizeAllocInt(t, n)
        PROVE  Out' # {}
    BY <2>0, <2>1, PoolAssumption DEF SizeAllocInt
  <2>2. ASSUME NEW t \in Threads, Alloc(t) PROVE Out' # {}
    BY <2>0, <2>2, PoolAssumption DEF Alloc
  <2>3. ASSUME NEW t \in Threads, NEW h \in Elems, NEW aim \in 0 .. GrowLimit,
               Realloc(t, h, aim)
        PROVE  Out' # {}
    <3> DEFINE n == aim - nbufs[h]
    <3>1. n \in Int /\ n <= AllocLimit
      BY <2>3, ReallocCases
    <3>2. CASE GrowBy(h, n)
      BY <3>1, <3>2, GrowStep DEF IInv
    <3> QED
      BY <2>1, <2>3, <3>2, ReallocCases
  <2>4. ASSUME TryAlloc PROVE Out' # {}
    BY <2>4, TakeStep DEF TryAlloc, IInv
  <2>5. ASSUME NEW t \in Threads, Wake(t) PROVE Out' # {}
    <3>1. need[t] \in 2 .. AllocLimit + 2
      BY <2>5, PoolAssumption DEF Wake, IInv, WaitInv, WaitType, NeedKnown
    <3>2. CASE Take(Wanted(need[t]))
      <4>1. Wanted(need[t]) \in Int /\ Wanted(need[t]) >= 1
        BY <3>1, PoolAssumption DEF Wanted
      <4> QED
        BY <3>2, <4>1, TakeStep DEF IInv
    <3>3. CASE Avail < need[t] /\ UNCHANGED <<poolVars, waitVars>>
      <4>1. need[t] <= Capacity - SoftStart
        BY <2>5, <3>3 DEF Wake, Modest, Waiting, waitVars
      <4> QED
        BY <3>1, <3>3, <4>1, SleepsOnlyShort DEF poolVars, Out
    <3> QED
      BY <2>5, <3>2, <3>3 DEF Wake
  <2>6. ASSUME NEW h \in Elems, Free(h)
        PROVE  \E t \in Threads : Waiting(t)' /\ t \notin asleep'
    <3>1. PICK s \in asleep : s \in Threads /\ Waiting(s)
      <4>1. asleep' \subseteq asleep
        BY <2>6 DEF Free, Signalled
      <4> QED
        BY <4>1 DEF IInv, WaitInv, WaitType, NeedKnown
    <3>2. Avail' \in Int /\ Avail' >= need[s]
      <4>1. free' = Elems
        BY DEF IInv, PoolInv, PoolType, Partition, Elems
      <4>2. num_free' = Capacity
        BY <4>1, ElemsFinite DEF IInv, PoolInv, CountExact
      <4>3. reserve' \in 0 .. SoftStart
        BY DEF IInv, WaitInv, WaitType
      <4>4. Avail' = IF soft' THEN num_free' - reserve' ELSE num_free'
        BY DEF Avail
      <4>5. need[s] \in Int /\ need[s] <= Capacity - SoftStart
        BY <2>6, <3>1, PoolAssumption
           DEF Free, Modest, Waiting, waitVars, IInv, WaitInv, WaitType
      <4>6. Avail' = Capacity - reserve' \/ Avail' = Capacity
        BY <4>2, <4>4
      <4> QED
        BY <4>3, <4>5, <4>6, PoolAssumption, WaitAssumption
    <3>3. MustSignal(Avail')
      <4>1. CASE role[s] = "counted"
        <5>1. IsFiniteSet(Counted) /\ s \in Counted
          BY <3>1, <4>1, CountedRange DEF Counted
        <5>2. Cardinality(Counted) # 0 /\ Cardinality(Counted) \in Nat
          BY <5>1, FS_EmptySet, FS_CardinalityType
        <5> QED
          BY <5>2 DEF MustSignal, IInv, WaitInv, WaitersCounted
      <4>2. CASE role[s] = "large"
        <5>1. large_wait = need[s]
          BY <3>1, <4>2 DEF IInv, WaitInv, WaitersCounted
        <5> QED
          BY <3>2, <5>1 DEF MustSignal
      <4> QED
        BY <3>1, <4>1, <4>2 DEF Waiting, Roles, IInv, WaitInv, WaitType
    <3>4. PICK t \in asleep : asleep' = asleep \ {t}
      BY <2>6, <3>1, <3>3 DEF Free, Signalled
    <3>5. t \in Threads /\ Waiting(t)' /\ t \notin asleep'
      BY <2>6, <3>4 DEF IInv, WaitInv, WaitType, NeedKnown, Waiting, Free, waitVars
    <3> QED
      BY <3>5
  <2>7. ASSUME UNCHANGED <<poolVars, waitVars, asleep>>
        PROVE  \E t \in Threads : Waiting(t)' /\ t \notin asleep'
    BY <2>7 DEF NoStranded, Modest, poolVars, waitVars, Out, Waiting
  <2>8. CASE UNCHANGED vars
    BY <2>7, <2>8 DEF vars, poolVars, waitVars
  <2>9. CASE Next
    BY <2>1, <2>2, <2>3, <2>4, <2>5, <2>6, <2>7, <2>9
       DEF Next, SizeAlloc, FbcSet, FbcReset
  <2> QED
    BY <2>8, <2>9
<1> QED
  BY <1>1, <1>2, Invariance, PTL DEF Spec
=============================================================================
