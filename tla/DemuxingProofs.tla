---------------------------- MODULE DemuxingProofs ----------------------------
(***************************************************************************)
(* What a demuxer works with, for any number of threads and any size of     *)
(* pools, window and input.  The fifo's queue and the input cache: getters  *)
(* do not sleep through buffers (Wakened), chunks are in one place each and *)
(* the sizes are exact (Chunked), and the cache delivers what its plugin    *)
(* would (WindowKnown).                                                     *)
(***************************************************************************)
EXTENDS MCDemuxing, SumLemmas, SequenceTheorems

-----------------------------------------------------------------------------
(* Waiting for data. *)

\* Getters are woken one at a time: a getter that sleeps is matched by
\* enough others, woken and not back yet, to take all there is.
Wakened ==
    /\ queue \in Seq(Queue!Elems) /\ clearing \in Seq(Queue!Elems)
    /\ cleared \in BOOLEAN
    /\ ~ cleared => clearing = <<>>
    /\ asleep_get \subseteq waiting /\ waiting \subseteq Getters
    /\ num_waiters = Cardinality(waiting)
    /\ asleep_get # {} => Len(queue) + Len(clearing) <= Cardinality(waiting \ asleep_get)

\* The steps of the queue.
LEMMA QueueSteps ==
    ASSUME Queue!Next
    PROVE  \/ \E n \in 1 .. AllocLimit : Queue!Alloc(n)
           \/ \E h \in Queue!Elems, k \in 1 .. Capacity, m \in BOOLEAN : Queue!Put(h, k, m)
           \/ \E h \in Queue!Elems : Queue!PutControl(h) \/ Queue!Insert(h)
           \/ \E g \in Getters : Queue!Get(g) \/ Queue!Awake(g) \/ Queue!Release(g)
           \/ Queue!ClearStart \/ Queue!ClearKeep \/ Queue!ClearEnd
           \/ \E i \in 1 .. Capacity : Queue!ClearFree(i)
  BY DEF Queue!Next

\* A signal wakes one of those who sleep.
LEMMA SignalWakes ==
    ASSUME Wakened, asleep_get' \in Queue!Signalled
    PROVE  /\ asleep_get' \subseteq asleep_get
           /\ asleep_get' # {} =>
                Cardinality(waiting \ asleep_get') = Cardinality(waiting \ asleep_get) + 1
<1>1. IsFiniteSet(waiting)
  BY QueueAssumption, FS_Subset DEF Wakened
<1>2. CASE asleep_get' = asleep_get /\ asleep_get = {}
  BY <1>2
<1>3. CASE asleep_get' = asleep_get /\ ~ Queue!Signal
  <2>1. Cardinality(waiting) \in Nat /\ (Cardinality(waiting) = 0 <=> waiting = {})
    BY <1>1, FS_CardinalityType, FS_EmptySet
  <2>2. ~ (Cardinality(waiting) > 0)
    BY <1>3 DEF Wakened, Queue!Signal
  <2>3. asleep_get = {}
    BY <2>1, <2>2 DEF Wakened
  <2> QED
    BY <1>3, <2>3
<1>4. ASSUME NEW g \in asleep_get, asleep_get' = asleep_get \ {g}
      PROVE  Cardinality(waiting \ asleep_get') = Cardinality(waiting \ asleep_get) + 1
  <2>1. PICK A : A = waiting \ asleep_get
    OBVIOUS
  <2>2. IsFiniteSet(A) /\ g \notin A /\ waiting \ asleep_get' = A \cup {g}
    <3>1. A \subseteq waiting
      BY <2>1
    <3> QED
      BY <1>1, <1>4, <2>1, <3>1, FS_Subset DEF Wakened
  <2> QED
    BY <2>1, <2>2, FS_AddElement
<1>5. \/ asleep_get' = asleep_get /\ (asleep_get = {} \/ ~ Queue!Signal)
      \/ \E g \in asleep_get : asleep_get' = asleep_get \ {g}
  BY DEF Queue!Signalled
<1> QED
  BY <1>2, <1>3, <1>4, <1>5

\* Nobody new sleeps, and a chunk goes to one more who is awake.
LEMMA OneMore ==
    ASSUME Wakened, ~ cleared, asleep_get' \in Queue!Signalled,
           NEW h \in Queue!Elems, queue' = Append(queue, h) \/ queue' = <<h>> \o queue,
           UNCHANGED <<clearing, cleared, waiting, num_waiters>>
    PROVE  Wakened'
<1>1. queue' \in Seq(Queue!Elems) /\ Len(queue') = Len(queue) + 1
  <2>1. queue \in Seq(Queue!Elems) /\ <<h>> \in Seq(Queue!Elems) /\ Len(<<h>>) = 1
    BY DEF Wakened
  <2>2. CASE queue' = Append(queue, h)
    BY ONLY <2>1, <2>2, AppendProperties, h \in Queue!Elems
  <2>3. CASE queue' = <<h>> \o queue
    <3>1. queue' \in Seq(Queue!Elems) /\ Len(queue') = Len(<<h>>) + Len(queue)
      BY ONLY <2>1, <2>3, ConcatProperties
    <3>2. Len(queue) \in Nat
      BY <2>1, LenProperties
    <3> QED
      BY ONLY <2>1, <3>1, <3>2
  <2> QED
    BY <2>2, <2>3
<1>2. /\ asleep_get' \subseteq asleep_get
      /\ asleep_get' # {} =>
           Cardinality(waiting \ asleep_get') = Cardinality(waiting \ asleep_get) + 1
  BY SignalWakes
<1>3. ASSUME asleep_get' # {}
      PROVE  Len(queue') + Len(clearing') <= Cardinality(waiting' \ asleep_get')
  <2>1. PICK a, b, c, d : /\ a = Len(queue) /\ b = Len(clearing)
                          /\ c = Cardinality(waiting \ asleep_get)
                          /\ d = Cardinality(waiting \ asleep_get')
    OBVIOUS
  <2>2. a \in Nat /\ b \in Nat
    BY <2>1, LenProperties DEF Wakened
  <2>3. c \in Nat
    BY <2>1, FS_CardinalityType, FS_Subset, QueueAssumption DEF Wakened
  <2>4. a + b <= c /\ d = c + 1
    BY <1>2, <1>3, <2>1 DEF Wakened
  <2>5. (a + 1) + b <= d
    BY ONLY <2>2, <2>3, <2>4
  <2> QED
    BY <1>1, <2>1, <2>5
<1> QED
  BY <1>1, <1>2, <1>3 DEF Wakened

\* A getter takes the first chunk, and is not one of those who are awake and
\* wait, or one of them that waits no more.
LEMMA OneTaken ==
    ASSUME Wakened, queue # <<>>, queue' = Tail(queue),
           UNCHANGED <<clearing, cleared, asleep_get>>,
           \/ UNCHANGED <<waiting, num_waiters>>
           \/ \E g \in waiting \ asleep_get :
                waiting' = waiting \ {g} /\ num_waiters' = num_waiters - 1
    PROVE  Wakened'
<1>1. queue' \in Seq(Queue!Elems) /\ Len(queue') = Len(queue) - 1
  BY HeadTailProperties DEF Wakened
<1>2. PICK a, b, c : a = Len(queue) /\ b = Len(clearing) /\ c = Cardinality(waiting \ asleep_get)
  OBVIOUS
<1>3. a \in Nat /\ b \in Nat
  BY <1>2, LenProperties DEF Wakened
<1>4. IsFiniteSet(waiting) /\ IsFiniteSet(waiting \ asleep_get)
  BY FS_Subset, QueueAssumption DEF Wakened
<1>5. c \in Nat
  BY <1>2, <1>4, FS_CardinalityType
<1>6. asleep_get # {} => a + b <= c
  BY <1>2 DEF Wakened
<1>7. CASE UNCHANGED <<waiting, num_waiters>>
  <2>1. asleep_get # {} => (a - 1) + b <= c
    BY ONLY <1>3, <1>5, <1>6
  <2> QED
    BY <1>1, <1>2, <1>7, <2>1 DEF Wakened
<1>8. ASSUME NEW g \in waiting \ asleep_get, waiting' = waiting \ {g}, num_waiters' = num_waiters - 1
      PROVE  Wakened'
  <2>1. Cardinality(waiting') = Cardinality(waiting) - 1
    BY <1>4, <1>8, FS_RemoveElement
  <2>2. waiting' \ asleep_get' = (waiting \ asleep_get) \ {g}
    BY <1>8
  <2>3. Cardinality(waiting' \ asleep_get') = c - 1
    BY <1>2, <1>4, <1>8, <2>2, FS_RemoveElement
  <2>4. asleep_get # {} => (a - 1) + b <= c - 1
    BY ONLY <1>3, <1>5, <1>6
  <2> QED
    BY <1>1, <1>2, <1>8, <2>1, <2>3, <2>4 DEF Wakened
<1> QED
  BY <1>7, <1>8

\* What is queued and being cleared gets no longer.
LEMMA NoMore ==
    ASSUME Wakened, UNCHANGED <<waiting, num_waiters, asleep_get>>, cleared' \in BOOLEAN,
           queue' \in Seq(Queue!Elems), clearing' \in Seq(Queue!Elems),
           Len(queue') + Len(clearing') <= Len(queue) + Len(clearing),
           ~ cleared' => clearing' = <<>>
    PROVE  Wakened'
<1>1. PICK a, b, c, d, e : /\ a = Len(queue) /\ b = Len(clearing)
                           /\ c = Len(queue') /\ d = Len(clearing')
                           /\ e = Cardinality(waiting \ asleep_get)
  OBVIOUS
<1>2. a \in Nat /\ b \in Nat /\ c \in Nat /\ d \in Nat
  BY <1>1, LenProperties DEF Wakened
<1>3. e \in Nat
  BY <1>1, FS_CardinalityType, FS_Subset, QueueAssumption DEF Wakened
<1>4. asleep_get # {} => a + b <= e
  BY <1>1 DEF Wakened
<1>5. c + d <= a + b
  BY <1>1
<1>6. asleep_get # {} => c + d <= e
  BY ONLY <1>2, <1>3, <1>4, <1>5
<1> QED
  BY <1>1, <1>6 DEF Wakened

\* The fifo is empty, and a getter goes to sleep.
LEMMA OneSleeps ==
    ASSUME Wakened, ~ cleared, queue = <<>>, UNCHANGED <<queue, clearing, cleared>>,
           NEW g \in Getters, asleep_get' = asleep_get \cup {g},
           \/ g \notin waiting /\ waiting' = waiting \cup {g} /\ num_waiters' = num_waiters + 1
           \/ g \in waiting /\ UNCHANGED <<waiting, num_waiters>>
    PROVE  Wakened'
<1>1. IsFiniteSet(waiting) /\ IsFiniteSet(waiting')
  BY FS_Subset, FS_AddElement, QueueAssumption DEF Wakened
<1>2. num_waiters' = Cardinality(waiting')
  BY <1>1, FS_AddElement DEF Wakened
<1>3. Len(queue') = 0 /\ Len(clearing') = 0
  BY DEF Wakened
<1>4. Cardinality(waiting' \ asleep_get') \in Nat
  BY <1>1, FS_Subset, FS_CardinalityType
<1>5. Len(queue') + Len(clearing') <= Cardinality(waiting' \ asleep_get')
  BY <1>3, <1>4
<1>6. /\ queue' \in Seq(Queue!Elems) /\ clearing' \in Seq(Queue!Elems)
      /\ cleared' \in BOOLEAN /\ (~ cleared' => clearing' = <<>>)
      /\ asleep_get' \subseteq waiting' /\ waiting' \subseteq Getters
  BY DEF Wakened
<1> QED
  BY <1>2, <1>5, <1>6 DEF Wakened

LEMMA WakenedNext ==
    ASSUME Wakened, Queue!Next
    PROVE  Wakened'
<1>1. ASSUME NEW n \in 1 .. AllocLimit, Queue!Alloc(n) PROVE Wakened'
  BY <1>1 DEF Queue!Alloc, Queue!getVars, Wakened
<1>2. ASSUME NEW h \in Queue!Elems, NEW k \in 1 .. Capacity, NEW m \in BOOLEAN, Queue!Put(h, k, m)
      PROVE  Wakened'
  <2>1. ~ cleared /\ UNCHANGED <<clearing, cleared, waiting, num_waiters>>
    BY <1>2 DEF Queue!Put, Queue!Unlocked
  <2>2. \/ UNCHANGED <<queue, asleep_get>>
        \/ queue' = Append(queue, h) /\ asleep_get' \in Queue!Signalled
    BY <1>2 DEF Queue!Put
  <2>3. CASE UNCHANGED <<queue, asleep_get>>
    BY <2>1, <2>3 DEF Wakened
  <2>4. CASE queue' = Append(queue, h) /\ asleep_get' \in Queue!Signalled
    BY <2>1, <2>4, OneMore
  <2> QED
    BY <2>2, <2>3, <2>4
<1>3. ASSUME NEW h \in Queue!Elems, Queue!PutControl(h) \/ Queue!Insert(h) PROVE Wakened'
  <2>1. /\ ~ cleared /\ UNCHANGED <<clearing, cleared, waiting, num_waiters>>
        /\ queue' = Append(queue, h) \/ queue' = <<h>> \o queue
        /\ asleep_get' \in Queue!Signalled
    BY <1>3 DEF Queue!PutControl, Queue!Insert, Queue!ControlReady, Queue!Unlocked
  <2> QED
    BY <2>1, OneMore
<1>4. ASSUME NEW g \in Getters, Queue!Get(g) PROVE Wakened'
  <2>1. CASE queue # <<>> /\ Queue!Unqueue(g) /\ UNCHANGED <<num_waiters, waiting, asleep_get>>
    <3>1. queue # <<>> /\ queue' = Tail(queue) /\ UNCHANGED <<clearing, cleared, asleep_get, waiting, num_waiters>>
      BY <2>1 DEF Queue!Unqueue
    <3> QED
      BY <3>1, OneTaken
  <2>2. CASE /\ queue = <<>>
             /\ num_waiters' = num_waiters + 1
             /\ waiting' = waiting \cup {g}
             /\ asleep_get' = asleep_get \cup {g}
             /\ UNCHANGED <<queue, clearing, cleared>>
    <3>1. ~ cleared /\ g \notin waiting
      BY <1>4 DEF Queue!Get, Queue!Idle, Queue!Unlocked
    <3> QED
      BY <2>2, <3>1, OneSleeps
  <2> QED
    BY <1>4, <2>1, <2>2 DEF Queue!Get
<1>5. ASSUME NEW g \in Getters, Queue!Awake(g) PROVE Wakened'
  <2>1. ~ cleared /\ g \in waiting \ asleep_get
    BY <1>5 DEF Queue!Awake, Queue!Idle, Queue!Unlocked
  <2>2. \/ /\ queue # <<>> /\ queue' = Tail(queue) /\ num_waiters' = num_waiters - 1
           /\ waiting' = waiting \ {g} /\ UNCHANGED <<clearing, cleared, asleep_get>>
        \/ /\ queue = <<>> /\ asleep_get' = asleep_get \cup {g}
           /\ UNCHANGED <<queue, clearing, cleared, num_waiters, waiting>>
    BY <1>5 DEF Queue!Awake, Queue!Unqueue, Queue!WaitersAfter
  <2> QED
    BY <2>1, <2>2, OneTaken, OneSleeps
<1>6. ASSUME NEW g \in Getters, Queue!Release(g) PROVE Wakened'
  BY <1>6 DEF Queue!Release, Wakened
<1>7. queue \in Seq(Queue!Elems) /\ clearing \in Seq(Queue!Elems) /\ Len(queue) \in Nat /\ Len(clearing) \in Nat
  BY LenProperties DEF Wakened
<1>8. <<>> \in Seq(Queue!Elems) /\ Len(<<>>) = 0
  BY EmptySeq
<1>9. ASSUME Queue!ClearStart PROVE Wakened'
  <2>1. /\ ~ cleared /\ cleared' = TRUE /\ clearing' = queue /\ queue' = <<>>
        /\ UNCHANGED <<num_waiters, waiting, asleep_get>>
    BY <1>9 DEF Queue!ClearStart, Queue!Unlocked, Queue!QueueTakenOut, Queue!getVars
  <2>2. Len(queue') + Len(clearing') <= Len(queue) + Len(clearing)
    BY <1>7, <1>8, <2>1
  <2> QED
    BY <1>7, <1>8, <2>1, <2>2, NoMore
<1>10. ASSUME Queue!ClearKeep PROVE Wakened'
  <2>1. /\ cleared' = cleared /\ cleared /\ clearing # <<>>
        /\ queue' = Append(queue, Head(clearing)) /\ clearing' = Tail(clearing)
        /\ UNCHANGED <<num_waiters, waiting, asleep_get>>
    BY <1>10 DEF Queue!ClearKeep, Queue!getVars
  <2>2. Head(clearing) \in Queue!Elems /\ clearing' \in Seq(Queue!Elems) /\ Len(clearing') = Len(clearing) - 1
    BY <1>7, <2>1, HeadTailProperties
  <2>3. queue' \in Seq(Queue!Elems) /\ Len(queue') = Len(queue) + 1
    BY <1>7, <2>1, <2>2, AppendProperties
  <2>4. Len(queue') + Len(clearing') <= Len(queue) + Len(clearing)
    BY ONLY <1>7, <2>2, <2>3
  <2> QED
    BY <2>1, <2>2, <2>3, <2>4, NoMore
<1>11. ASSUME NEW i \in 1 .. Capacity, Queue!ClearFree(i) PROVE Wakened'
  <2>1. /\ cleared' = cleared /\ cleared /\ i \in 1 .. Len(clearing) /\ queue' = queue
        /\ clearing' = SubSeq(clearing, i + 1, Len(clearing))
        /\ UNCHANGED <<num_waiters, waiting, asleep_get>>
    BY <1>11 DEF Queue!ClearFree, Queue!getVars
  <2>2. \A j \in i + 1 .. Len(clearing) : clearing[j] \in Queue!Elems
    BY <1>7, <2>1, ElementOfSeq
  <2>3. i + 1 \in Int /\ Len(clearing) \in Int
    BY <1>7
  <2>4. /\ clearing' \in Seq(Queue!Elems)
        /\ Len(clearing') = IF i + 1 <= Len(clearing) THEN Len(clearing) - (i + 1) + 1 ELSE 0
    BY ONLY <2>1, <2>2, <2>3, SubSeqProperties
  <2>5. Len(queue') + Len(clearing') <= Len(queue) + Len(clearing)
    BY ONLY <1>7, <2>1, <2>4
  <2>6. ~ cleared' => clearing' = <<>>
    BY <2>1
  <2>7. cleared' \in BOOLEAN /\ queue' \in Seq(Queue!Elems)
    BY <1>7, <2>1
  <2> QED
    BY <2>1, <2>4, <2>5, <2>6, <2>7, NoMore
<1>12. ASSUME Queue!ClearEnd PROVE Wakened'
  BY <1>12 DEF Queue!ClearEnd, Queue!getVars, Wakened
<1> QED
  BY QueueSteps, <1>1, <1>2, <1>3, <1>4, <1>5, <1>6, <1>9, <1>10, <1>11, <1>12

LEMMA WakenedInit ==
    ASSUME MCInit
    PROVE  Wakened
<1>1. /\ queue = <<>> /\ clearing = <<>> /\ cleared = FALSE
      /\ num_waiters = 0 /\ waiting = {} /\ asleep_get = {}
  BY DEF MCInit, Queue!Init
<1> QED
  BY <1>1, FS_EmptySet, EmptySeq DEF Wakened

\* The inductive invariant of the getters' sleep, in every behaviour of the run.
THEOREM WakenedInvariant == MCSpec => []Wakened
<1>1. ASSUME Wakened, [MCNext]_<<part, vars, queueOnly, listOnly, inputOnly>>
      PROVE  Wakened'
  <2>1. Queue!Next \/ UNCHANGED queueOnly
    BY <1>1 DEF MCNext
  <2>2. ASSUME UNCHANGED queueOnly PROVE Wakened'
    BY <1>1, <2>2 DEF Wakened, queueOnly
  <2> QED
    BY <1>1, <2>1, <2>2, WakenedNext
<1> QED
  BY <1>1, WakenedInit, PTL DEF MCSpec

\* No getter sleeps through a buffer: while the fifo has one, somebody who was
\* woken is on the way, however puts, getters and clears mix (buffer.c wakes
\* one getter for a buffer).
THEOREM NoSleepOnDataHolds == MCSpec => []NoSleepOnData
<1>1. ASSUME Wakened PROVE NoSleepOnData
  <2> SUFFICES ASSUME queue # <<>>, asleep_get # {}, ~ cleared, waiting = asleep_get
               PROVE  FALSE
    BY DEF NoSleepOnData, Queue!NoSleepOnData, Queue!Unlocked
  <2>1. waiting \ asleep_get = {}
    OBVIOUS
  <2>2. Len(queue) + Len(clearing) <= 0
    BY <1>1, <2>1, FS_EmptySet DEF Wakened
  <2>3. Len(queue) \in Nat \ {0} /\ Len(clearing) \in Nat
    BY <1>1, EmptySeq, LenProperties DEF Wakened
  <2> QED
    BY ONLY <2>2, <2>3
<1> QED
  BY <1>1, WakenedInvariant, PTL
-----------------------------------------------------------------------------
(* Chunks in their places, and what they add up to. *)

\* The elements of a sequence, and whether each is there once.
Members(q) == {q[i] : i \in 1 .. Len(q)}

Once(q) == \A i, j \in 1 .. Len(q) : q[i] = q[j] => i = j

\* A sequence with one more at its end.
LEMMA AtEnd ==
    ASSUME NEW S, NEW q \in Seq(S), NEW h \in S, h \notin Members(q), Once(q)
    PROVE  /\ Append(q, h) \in Seq(S)
           /\ Once(Append(q, h))
           /\ Members(Append(q, h)) = Members(q) \cup {h}
<1>1. PICK n \in Nat, a \in {Append(q, h)} : n = Len(q) /\ a = Append(q, h)
  BY LenProperties
<1>2. a \in Seq(S) /\ Len(a) = n + 1 /\ a[n + 1] = h /\ \A i \in 1 .. n : a[i] = q[i]
  BY <1>1, AppendProperties
<1>3. Once(a)
  <2> SUFFICES ASSUME NEW i \in 1 .. n + 1, NEW j \in 1 .. n + 1, a[i] = a[j] PROVE i = j
    BY <1>2 DEF Once
  <2>1. \A k \in 1 .. n : q[k] # h
    BY <1>1 DEF Members
  <2>2. \A k, l \in 1 .. n : q[k] = q[l] => k = l
    BY <1>1 DEF Once
  <2> QED
    BY ONLY <1>2, <2>1, <2>2, n \in Nat, i \in 1 .. n + 1, j \in 1 .. n + 1, a[i] = a[j]
<1>4. Members(a) = Members(q) \cup {h}
  <2>1. \A i \in 1 .. n + 1 : i = n + 1 \/ i \in 1 .. n
    OBVIOUS
  <2>2. n + 1 \in 1 .. n + 1 /\ \A i \in 1 .. n : i \in 1 .. n + 1
    OBVIOUS
  <2> QED
    BY ONLY <1>1, <1>2, <2>1, <2>2 DEF Members
<1> QED
  BY <1>1, <1>2, <1>3, <1>4

\* A sequence without its first element.
LEMMA AfterHead ==
    ASSUME NEW S, NEW q \in Seq(S), q # <<>>, Once(q)
    PROVE  /\ Head(q) \in Members(q)
           /\ Tail(q) \in Seq(S)
           /\ Once(Tail(q))
           /\ Members(Tail(q)) = Members(q) \ {Head(q)}
<1>1. PICK n \in Nat, t \in {Tail(q)} : n = Len(q) /\ t = Tail(q)
  BY LenProperties
<1>2. /\ n > 0 /\ t \in Seq(S) /\ Len(t) = n - 1 /\ Head(q) = q[1]
      /\ \A i \in 1 .. n - 1 : t[i] = q[i + 1]
  BY <1>1, HeadTailProperties, EmptySeq
<1>3. Head(q) \in Members(q)
  BY <1>1, <1>2 DEF Members
<1>4. \A i, j \in 1 .. n : q[i] = q[j] => i = j
  BY <1>1 DEF Once
<1>5. Once(t)
  <2> SUFFICES ASSUME NEW i \in 1 .. n - 1, NEW j \in 1 .. n - 1, t[i] = t[j] PROVE i = j
    BY <1>2 DEF Once
  <2> QED
    BY <1>2, <1>4
<1>6. ASSUME NEW x PROVE x \in Members(t) <=> x \in Members(q) /\ x # Head(q)
  <2>1. ASSUME NEW i \in 1 .. n - 1 PROVE i + 1 \in 1 .. n /\ t[i] = q[i + 1] /\ t[i] # q[1]
    BY <1>2, <1>4
  <2>2. ASSUME NEW i \in 1 .. n, i # 1 PROVE i - 1 \in 1 .. n - 1 /\ t[i - 1] = q[i]
    BY <1>2, <2>2
  <2>3. x \in Members(t) <=> \E i \in 1 .. n - 1 : t[i] = x
    BY <1>2 DEF Members
  <2>4. x \in Members(q) <=> \E i \in 1 .. n : q[i] = x
    BY <1>1 DEF Members
  <2>5. ASSUME x \in Members(t) PROVE x \in Members(q) /\ x # Head(q)
    BY <1>2, <2>1, <2>3, <2>4, <2>5
  <2>6. ASSUME x \in Members(q), x # Head(q) PROVE x \in Members(t)
    <3>1. PICK i \in 1 .. n : q[i] = x
      BY <2>4, <2>6
    <3>2. i # 1
      BY <1>2, <2>6, <3>1
    <3> QED
      BY <2>2, <2>3, <3>1, <3>2
  <2> QED
    BY <2>5, <2>6
<1>7. Members(t) = Members(q) \ {Head(q)}
  BY <1>6
<1> QED
  BY <1>1, <1>2, <1>3, <1>5, <1>7

\* A sequence with one more in front.
LEMMA InFront ==
    ASSUME NEW S, NEW q \in Seq(S), NEW h \in S, h \notin Members(q), Once(q)
    PROVE  /\ <<h>> \o q \in Seq(S)
           /\ Once(<<h>> \o q)
           /\ Members(<<h>> \o q) = Members(q) \cup {h}
           /\ <<h>> \o q # <<>> /\ Head(<<h>> \o q) = h /\ Tail(<<h>> \o q) = q
<1>1. PICK n \in Nat, a \in {<<h>> \o q} : n = Len(q) /\ a = <<h>> \o q
  BY LenProperties
<1>2. /\ a \in Seq(S) /\ Len(a) = n + 1
      /\ a[1] = h /\ \A i \in 2 .. n + 1 : a[i] = q[i - 1]
  <2>1. <<h>> \in Seq(S) /\ Len(<<h>>) = 1 /\ <<h>>[1] = h
    OBVIOUS
  <2>2. PICK s : s = <<h>>
    OBVIOUS
  <2>3. /\ a \in Seq(S) /\ Len(a) = Len(s) + n
        /\ \A i \in 1 .. Len(s) + n : a[i] = IF i <= Len(s) THEN s[i] ELSE q[i - Len(s)]
    BY <1>1, <2>1, <2>2, ConcatProperties
  <2>4. Len(s) = 1 /\ s[1] = h
    BY <2>1, <2>2
  <2>5. Len(a) = n + 1 /\ a[1] = h
    BY ONLY <2>3, <2>4, n \in Nat
  <2>6. ASSUME NEW i \in 2 .. n + 1 PROVE a[i] = q[i - 1]
    BY ONLY <2>3, <2>4, n \in Nat, i \in 2 .. n + 1
  <2> QED
    BY <2>3, <2>5, <2>6
<1>3. \A i, j \in 1 .. n : q[i] = q[j] => i = j
  BY <1>1 DEF Once
<1>4. \A i \in 1 .. n : q[i] # h
  BY <1>1 DEF Members
<1>5. Once(a)
  <2> SUFFICES ASSUME NEW i \in 1 .. n + 1, NEW j \in 1 .. n + 1, a[i] = a[j] PROVE i = j
    BY <1>2 DEF Once
  <2>1. ASSUME NEW k \in 1 .. n + 1, k # 1 PROVE k - 1 \in 1 .. n /\ a[k] = q[k - 1] /\ a[k] # h
    BY <1>2, <1>4, <2>1
  <2>2. CASE i = 1 \/ j = 1
    BY <1>2, <2>1, <2>2
  <2>3. CASE i # 1 /\ j # 1
    <3>1. i - 1 \in 1 .. n /\ a[i] = q[i - 1] /\ j - 1 \in 1 .. n /\ a[j] = q[j - 1]
      BY <2>1, <2>3
    <3>2. i - 1 = j - 1
      BY <1>3, <3>1
    <3> QED
      BY <3>2
  <2> QED
    BY <2>2, <2>3
<1>6. ASSUME NEW x PROVE x \in Members(a) <=> x \in Members(q) \/ x = h
  <2>1. ASSUME NEW i \in 1 .. n + 1, i # 1 PROVE i - 1 \in 1 .. n /\ a[i] = q[i - 1]
    BY <1>2, <2>1
  <2>2. ASSUME NEW i \in 1 .. n PROVE i + 1 \in 1 .. n + 1 /\ a[i + 1] = q[i]
    BY <1>2, <2>2
  <2>3. 1 \in 1 .. n + 1
    OBVIOUS
  <2> QED
    BY <1>1, <1>2, <2>1, <2>2, <2>3 DEF Members
<1>7. Members(a) = Members(q) \cup {h}
  BY <1>6
<1>8. a # <<>> /\ Head(a) = h /\ Tail(a) = q
  <2>1. a # <<>>
    BY <1>2, EmptySeq
  <2>2. /\ Head(a) = a[1] /\ Tail(a) \in Seq(S) /\ Len(Tail(a)) = n
        /\ \A i \in 1 .. n : Tail(a)[i] = a[i + 1]
    BY <1>2, <2>1, HeadTailProperties
  <2>3. \A i \in 1 .. n : Tail(a)[i] = q[i]
    <3> SUFFICES ASSUME NEW i \in 1 .. n PROVE Tail(a)[i] = q[i]
      OBVIOUS
    <3>1. Tail(a)[i] = a[i + 1] /\ i + 1 \in 2 .. n + 1 /\ (i + 1) - 1 = i
      BY <2>2
    <3> QED
      BY <1>2, <3>1
  <2>4. Tail(a) = q
    BY <1>1, <2>2, <2>3, SeqEqual
  <2> QED
    BY <1>2, <2>1, <2>2, <2>4
<1> QED
  BY <1>1, <1>2, <1>5, <1>7, <1>8

\* A sequence without its first i elements.
LEMMA AfterSome ==
    ASSUME NEW S, NEW q \in Seq(S), NEW i \in 1 .. Len(q), Once(q)
    PROVE  LET t == SubSeq(q, i + 1, Len(q)) IN
           t \in Seq(S) /\ Once(t) /\ Members(t) = Members(q) \ {q[j] : j \in 1 .. i}
<1>1. PICK n \in Nat, t \in {SubSeq(q, i + 1, Len(q))} : n = Len(q) /\ t = SubSeq(q, i + 1, Len(q))
  BY LenProperties
<1>2. \A j \in i + 1 .. n : q[j] \in S
  BY <1>1, ElementOfSeq
<1>3. /\ t \in Seq(S) /\ Len(t) = IF i + 1 <= n THEN n - (i + 1) + 1 ELSE 0
      /\ \A j \in 1 .. n - (i + 1) + 1 : t[j] = q[(i + 1) + j - 1]
  <2>1. i + 1 \in Int /\ n \in Int
    OBVIOUS
  <2> QED
    BY <1>1, <1>2, <2>1, SubSeqProperties
<1>4. i <= n /\ Len(t) = n - i /\ \A j \in 1 .. n - i : t[j] = q[i + j]
  <2>1. i <= n
    BY <1>1
  <2>2. Len(t) = n - i
    BY <1>3, <2>1
  <2>3. ASSUME NEW j \in 1 .. n - i PROVE t[j] = q[i + j]
    <3>1. j \in 1 .. n - (i + 1) + 1 /\ (i + 1) + j - 1 = i + j
      OBVIOUS
    <3> QED
      BY <1>3, <3>1
  <2> QED
    BY <2>1, <2>2, <2>3
<1>5. \A k, l \in 1 .. n : q[k] = q[l] => k = l
  BY <1>1 DEF Once
<1>6. Once(t)
  <2> SUFFICES ASSUME NEW k \in 1 .. n - i, NEW l \in 1 .. n - i, t[k] = t[l] PROVE k = l
    BY <1>4 DEF Once
  <2>1. i + k \in 1 .. n /\ i + l \in 1 .. n /\ q[i + k] = q[i + l]
    BY <1>4
  <2>2. i + k = i + l
    BY <1>5, <2>1
  <2> QED
    BY <2>2
<1>7. ASSUME NEW x PROVE x \in Members(t) <=> x \in Members(q) /\ x \notin {q[j] : j \in 1 .. i}
  <2>1. ASSUME NEW j \in 1 .. n - i
        PROVE  i + j \in 1 .. n /\ t[j] = q[i + j] /\ \A k \in 1 .. i : q[k] # t[j]
    <3>1. i + j \in 1 .. n /\ t[j] = q[i + j]
      BY <1>4
    <3>2. \A k \in 1 .. i : k \in 1 .. n /\ k # i + j
      BY <1>4
    <3> QED
      BY <1>5, <3>1, <3>2
  <2>2. ASSUME NEW j \in 1 .. n, j \notin 1 .. i PROVE j - i \in 1 .. n - i /\ t[j - i] = q[j]
    <3>1. j - i \in 1 .. n - i /\ i + (j - i) = j
      BY <1>4, <2>2
    <3>2. PICK k \in 1 .. n - i : k = j - i
      BY <3>1
    <3>3. t[k] = q[i + k] /\ i + k = j
      BY <1>4, <3>1, <3>2
    <3> QED
      BY <3>1, <3>2, <3>3
  <2>3. x \in Members(t) <=> \E j \in 1 .. n - i : t[j] = x
    BY <1>4 DEF Members
  <2>4. x \in Members(q) <=> \E j \in 1 .. n : q[j] = x
    BY <1>1 DEF Members
  <2>5. ASSUME x \in Members(t) PROVE x \in Members(q) /\ x \notin {q[j] : j \in 1 .. i}
    <3>1. PICK j \in 1 .. n - i : t[j] = x
      BY <2>3, <2>5
    <3>2. i + j \in 1 .. n /\ x = q[i + j] /\ \A k \in 1 .. i : q[k] # x
      BY <2>1, <3>1
    <3> QED
      BY <2>4, <3>2
  <2>6. ASSUME x \in Members(q), x \notin {q[j] : j \in 1 .. i} PROVE x \in Members(t)
    <3>1. PICK j \in 1 .. n : q[j] = x
      BY <2>4, <2>6
    <3>2. j \notin 1 .. i
      BY <2>6, <3>1
    <3> QED
      BY <2>2, <2>3, <3>1, <3>2
  <2> QED
    BY <2>5, <2>6
<1>8. Members(t) = Members(q) \ {q[j] : j \in 1 .. i}
  BY <1>7
<1> QED
  BY <1>1, <1>3, <1>6, <1>8

\* The sum in FifoQueue is the sum that SumLemmas is about.
LEMMA TotalIsSum ==
    ASSUME NEW w, NEW q
    PROVE  Queue!Total(w, q) = SumFunction([i \in DOMAIN q |-> w[q[i]]])
<1>1. ASSUME NEW f PROVE Queue!SumFunction(f) = SumFunction(f)
  BY DEF SumFunction, SumFunctionOnSet, FoldFunctionOnSet, MapThenFoldSet,
         Queue!SumFunction, Queue!SumFunctionOnSet, Queue!FoldFunctionOnSet, Queue!MapThenFoldSet
<1> QED
  BY <1>1 DEF Queue!Total

\* A function gives a number for each of a set.
Numbers(S, v) == \A x \in S : v[x] \in Int

\* What a sequence has together when nothing of it changes; with one more at
\* its end; without its first; and when its last changes.
LEMMA TotalSame ==
    ASSUME NEW S, NEW q \in Seq(S), NEW v, NEW w, \A h \in Members(q) : w[h] = v[h]
    PROVE  Queue!Total(w, q) = Queue!Total(v, q)
<1>1. DOMAIN q = 1 .. Len(q)
  BY LenProperties
<1>2. [i \in DOMAIN q |-> w[q[i]]] = [i \in DOMAIN q |-> v[q[i]]]
  BY <1>1 DEF Members
<1> QED
  BY <1>2, TotalIsSum

LEMMA TotalIsInt ==
    ASSUME NEW S, NEW q \in Seq(S), NEW w \in [S -> Int]
    PROVE  Queue!Total(w, q) \in Int
<1>1. DOMAIN q = 1 .. Len(q) /\ Len(q) \in Nat /\ \A i \in 1 .. Len(q) : q[i] \in S
  BY LenProperties, ElementOfSeq
<1>2. IsFiniteSet(1 .. Len(q))
  BY <1>1, FS_Interval
<1>3. [i \in DOMAIN q |-> w[q[i]]] \in [1 .. Len(q) -> Int]
  BY <1>1
<1> QED
  BY <1>2, <1>3, SumIsInt, TotalIsSum

LEMMA TotalAtEnd ==
    ASSUME NEW S, NEW q \in Seq(S), NEW h \in S, NEW w \in [S -> Int]
    PROVE  Queue!Total(w, Append(q, h)) = Queue!Total(w, q) + w[h]
<1>1. PICK n \in Nat, a \in {Append(q, h)} : n = Len(q) /\ a = Append(q, h)
  BY LenProperties
<1>2. a \in Seq(S) /\ Len(a) = n + 1 /\ a[n + 1] = h /\ \A i \in 1 .. n : a[i] = q[i] /\ q[i] \in S
  BY <1>1, AppendProperties, ElementOfSeq
<1>3. PICK f, g : f = [i \in 1 .. n |-> w[q[i]]] /\ g = [i \in 1 .. n + 1 |-> w[a[i]]]
  OBVIOUS
<1>4. f \in [1 .. n -> Int]
  BY <1>2, <1>3
<1>5. g \in [1 .. n + 1 -> Int]
  <2>1. \A i \in 1 .. n + 1 : a[i] \in S
    BY <1>2, ElementOfSeq
  <2> QED
    BY <1>3, <2>1
<1>6. ASSUME NEW i \in 1 .. n PROVE g[i] = f[i]
  <2>1. i \in 1 .. n + 1 /\ a[i] = q[i]
    BY <1>2
  <2>2. g[i] = w[a[i]] /\ f[i] = w[q[i]]
    BY <1>3, <2>1
  <2> QED
    BY <2>1, <2>2
<1>7. g[n + 1] = w[h]
  BY <1>2, <1>3
<1>8. SumFunction(g) = SumFunction(f) + g[n + 1]
  BY ONLY n \in Nat, <1>4, <1>5, <1>6, SumAtEnd
<1>9. Queue!Total(w, q) = SumFunction(f) /\ Queue!Total(w, a) = SumFunction(g)
  <2>1. DOMAIN q = 1 .. n /\ DOMAIN a = 1 .. n + 1
    BY <1>1, <1>2, LenProperties
  <2> QED
    BY <1>3, <2>1, TotalIsSum
<1> QED
  BY <1>1, <1>7, <1>8, <1>9

LEMMA TotalAfterHead ==
    ASSUME NEW S, NEW q \in Seq(S), q # <<>>, NEW w \in [S -> Int]
    PROVE  Queue!Total(w, q) = w[Head(q)] + Queue!Total(w, Tail(q))
<1>1. PICK n \in Nat, t \in {Tail(q)} : n + 1 = Len(q) /\ t = Tail(q)
  <2>1. Len(q) \in Nat \ {0}
    BY EmptySeq
  <2>2. Len(q) - 1 \in Nat /\ (Len(q) - 1) + 1 = Len(q)
    BY <2>1
  <2> QED
    BY <2>2
<1>2. t \in Seq(S) /\ Len(t) = n /\ Head(q) = q[1] /\ \A i \in 1 .. n : t[i] = q[i + 1]
  BY <1>1, HeadTailProperties
<1>3. \A i \in 1 .. n + 1 : q[i] \in S
  BY <1>1, ElementOfSeq
<1>4. PICK f, h : f = [i \in 1 .. n |-> w[t[i]]] /\ h = [i \in 1 .. n + 1 |-> w[q[i]]]
  OBVIOUS
<1>5. h \in [1 .. n + 1 -> Int]
  BY <1>3, <1>4
<1>6. f \in [1 .. n -> Int]
  <2>1. \A i \in 1 .. n : t[i] \in S
    BY <1>2, ElementOfSeq
  <2> QED
    BY <1>4, <2>1
<1>7. \A i \in 1 .. n : h[i + 1] = f[i]
  BY <1>2, <1>4
<1>8. SumFunction(h) = h[1] + SumFunction(f)
  BY ONLY n \in Nat, <1>5, <1>6, <1>7, SumAtFront
<1>9. h[1] = w[Head(q)]
  BY <1>2, <1>4
<1>10. Queue!Total(w, q) = SumFunction(h) /\ Queue!Total(w, t) = SumFunction(f)
  <2>1. DOMAIN q = 1 .. n + 1 /\ DOMAIN t = 1 .. n
    BY <1>1, <1>2, LenProperties
  <2> QED
    BY <1>4, <2>1, TotalIsSum
<1> QED
  BY <1>1, <1>8, <1>9, <1>10

LEMMA TotalAtLast ==
    ASSUME NEW S, NEW q \in Seq(S), q # <<>>, Once(q), NEW p, p = q[Len(q)],
           NEW v, Numbers(S, v), NEW w, Numbers(S, w),
           \A h \in Members(q) \ {p} : w[h] = v[h]
    PROVE  Queue!Total(w, q) = Queue!Total(v, q) + w[p] - v[p]
<1>1. PICK n : n = Len(q)
  OBVIOUS
<1>2. n \in Nat \ {0} /\ DOMAIN q = 1 .. n /\ \A i \in 1 .. n : q[i] \in S
  BY <1>1, EmptySeq, LenProperties, ElementOfSeq
<1>3. PICK f, g : f = [i \in 1 .. n |-> v[q[i]]] /\ g = [i \in 1 .. n |-> w[q[i]]]
  OBVIOUS
<1>4. IsFiniteSet(1 .. n) /\ n \in 1 .. n
  BY <1>2, FS_Interval
<1>5. f \in [1 .. n -> Int] /\ g \in [1 .. n -> Int]
  BY <1>2, <1>3 DEF Numbers
<1>6. ASSUME NEW i \in (1 .. n) \ {n} PROVE g[i] = f[i]
  <2>1. q[i] \in Members(q) /\ q[i] # q[n]
    BY <1>1, <1>4 DEF Members, Once
  <2> QED
    BY <1>1, <1>3, <2>1
<1>7. SumFunction(g) = SumFunction(f) + g[n] - f[n]
  BY ONLY <1>4, <1>5, <1>6, SumUpdate
<1>8. Queue!Total(w, q) = SumFunction(g) /\ Queue!Total(v, q) = SumFunction(f)
  BY <1>2, <1>3, TotalIsSum
<1>9. g[n] = w[q[n]] /\ f[n] = v[q[n]]
  BY <1>3, <1>4
<1> QED
  BY <1>1, <1>7, <1>8, <1>9

\* The chunks that are out are apart from each other and from what is free.
Slices ==
    /\ free \subseteq Queue!Elems /\ nbufs \in [Queue!Elems -> Nat]
    /\ \A h \in Queue!Out : Queue!Chunk(h) \subseteq Queue!Elems \ free
    /\ \A g, h \in Queue!Out : g # h => Queue!Chunk(g) \cap Queue!Chunk(h) = {}

\* The chunks that are queued, being cleared, or with a getter.
Used == Members(queue) \cup Members(clearing) \cup {held[g] : g \in Getters}

\* Every one of these is in one place.
Placed ==
    /\ held \in [Getters -> Queue!Elems \cup {0}]
    /\ Once(queue) /\ Once(clearing)
    /\ Members(queue) \subseteq Queue!Out
    /\ Members(clearing) \subseteq Queue!Out \ Members(queue)
    /\ \A g \in Getters : held[g] # 0 =>
         /\ held[g] \in Queue!Out \ (Members(queue) \cup Members(clearing))
         /\ \A f \in Getters \ {g} : held[f] # held[g]

\* Control buffers are single elements, and out of the demuxer's hands.
ControlsOut == \A h \in ctrl : h \in Queue!Out \cap Used /\ nbufs[h] = 1

Sized == size \in [Queue!Elems -> Nat] /\ Queue!SizesExact

Chunked == Wakened /\ Slices /\ Placed /\ ControlsOut /\ Sized

\* An element of its own chunk, and what a free element is not.
LEMMA OwnChunk ==
    ASSUME Slices, NEW h \in Queue!Elems
    PROVE  /\ Capacity \in Nat /\ h \in Int /\ nbufs[h] \in Nat
           /\ h \in Queue!Out <=> nbufs[h] > 0
           /\ h \in Queue!Out => h \in Queue!Chunk(h)
           /\ h \in free => h \notin Queue!Out /\ nbufs[h] = 0
<1>1. Capacity \in Nat /\ h \in Int /\ nbufs[h] \in Nat
  BY QueueAssumption DEF Slices, Queue!Elems
<1>2. h \in Queue!Out <=> nbufs[h] > 0
  BY DEF Queue!Out
<1>3. h \in Queue!Out => h \in Queue!Chunk(h)
  BY <1>1, <1>2 DEF Queue!Chunk
<1>4. h \in free => h \notin Queue!Out
  BY <1>3 DEF Slices
<1>5. h \notin Queue!Out => nbufs[h] = 0
  BY <1>1, <1>2
<1> QED
  BY <1>1, <1>2, <1>3, <1>4, <1>5

\* What an allocation does.
LEMMA PoolTaken ==
    ASSUME Slices, NEW n \in 1 .. AllocLimit, Queue!Take(n)
    PROVE  /\ Slices'
           /\ Queue!Out \subseteq Queue!Out'
           /\ \A x \in Queue!Out : nbufs'[x] = nbufs[x]
<1>1. PICK r \in Queue!Runs(free) :
        /\ free' = free \ (r[1] .. r[1] + Queue!Got(n, r) - 1)
        /\ nbufs' = [nbufs EXCEPT ![r[1]] = Queue!Got(n, r)]
  BY DEF Queue!Take
<1>2. PICK h, l, got : h = r[1] /\ l = r[2] /\ got = Queue!Got(n, r)
  OBVIOUS
<1>3. h \in free /\ h .. l \subseteq free /\ h <= l /\ l \in free
  BY <1>2 DEF Queue!Runs
<1>4. h \in Queue!Elems /\ l \in Queue!Elems /\ h \in Int /\ l \in Int
  BY <1>3, QueueAssumption DEF Slices, Queue!Elems
<1>5. got \in Nat \ {0} /\ h + got - 1 <= l
  <2>1. got = IF n <= l - h + 1 THEN n ELSE l - h + 1
    BY <1>2 DEF Queue!Got, Queue!MinOf, Queue!RunLen
  <2> QED
    BY <1>3, <1>4, <2>1
<1>6. h .. h + got - 1 \subseteq free
  BY <1>3, <1>4, <1>5
<1>7. free' = free \ (h .. h + got - 1) /\ nbufs' = [nbufs EXCEPT ![h] = got]
  BY <1>1, <1>2
<1>8. h \notin Queue!Out
  BY <1>3, <1>4, OwnChunk
<1>9. nbufs' \in [Queue!Elems -> Nat] /\ nbufs'[h] = got /\ \A x \in Queue!Elems \ {h} : nbufs'[x] = nbufs[x]
  BY <1>4, <1>5, <1>7 DEF Slices
<1>10. Queue!Out' = Queue!Out \cup {h}
  <2>1. \A x \in Queue!Elems : nbufs'[x] > 0 <=> nbufs[x] > 0 \/ x = h
    BY <1>4, <1>5, <1>9
  <2> QED
    BY <1>4, <2>1 DEF Queue!Out
<1>11. ASSUME NEW x \in Queue!Out
       PROVE  nbufs'[x] = nbufs[x] /\ Queue!Chunk(x)' = Queue!Chunk(x) /\ Queue!Chunk(x) \subseteq Queue!Elems \ free
  BY <1>8, <1>9 DEF Queue!Out, Queue!Chunk, Slices
<1>12. Queue!Chunk(h)' = h .. h + got - 1
  BY <1>9 DEF Queue!Chunk
<1>13. \A x \in Queue!Out' : Queue!Chunk(x)' \subseteq Queue!Elems \ free'
  <2>1. Queue!Chunk(h)' \subseteq Queue!Elems \ free'
    BY <1>6, <1>7, <1>12 DEF Slices
  <2>2. \A x \in Queue!Out : Queue!Chunk(x)' \subseteq Queue!Elems \ free'
    BY <1>7, <1>11
  <2> QED
    BY <1>10, <2>1, <2>2
<1>14. ASSUME NEW x \in Queue!Out', NEW y \in Queue!Out', x # y
       PROVE  Queue!Chunk(x)' \cap Queue!Chunk(y)' = {}
  <2>1. CASE x \in Queue!Out /\ y \in Queue!Out
    BY <1>11, <1>14, <2>1 DEF Slices
  <2>2. CASE x = h /\ y \in Queue!Out
    BY <1>6, <1>11, <1>12, <2>2
  <2>3. CASE y = h /\ x \in Queue!Out
    BY <1>6, <1>11, <1>12, <2>3
  <2> QED
    BY <1>10, <1>14, <2>1, <2>2, <2>3
<1>15. Slices'
  <2>1. free' \subseteq Queue!Elems
    BY <1>7 DEF Slices
  <2>2. /\ free' \subseteq Queue!Elems' /\ nbufs' \in [Queue!Elems' -> Nat]
        /\ \A x \in Queue!Out' : Queue!Chunk(x)' \subseteq Queue!Elems' \ free'
        /\ \A x, y \in Queue!Out' : x # y => Queue!Chunk(x)' \cap Queue!Chunk(y)' = {}
    BY <1>9, <1>13, <1>14, <2>1 DEF Queue!Elems
  <2> QED
    BY <2>2 DEF Slices
<1> QED
  BY <1>10, <1>11, <1>15

\* What giving chunks back does: "gone" is a set of them, and J their elements,
\* none of which is of another chunk.
LEMMA PoolGone ==
    ASSUME Slices, NEW gone \in SUBSET Queue!Out, NEW J \in SUBSET Queue!Elems,
           \A x \in Queue!Out \ gone : J \cap Queue!Chunk(x) = {},
           free' = free \cup J,
           nbufs' = [h \in Queue!Elems |-> IF h \in gone THEN 0 ELSE nbufs[h]]
    PROVE  /\ Slices'
           /\ Queue!Out' = Queue!Out \ gone
           /\ \A x \in Queue!Out' : nbufs'[x] = nbufs[x]
<1>1. \A x \in Queue!Elems : nbufs[x] \in Nat
  BY DEF Slices
<1>2. nbufs' \in [Queue!Elems -> Nat]
  BY <1>1
<1>3. Queue!Out' = Queue!Out \ gone
  <2>1. \A x \in Queue!Elems : nbufs'[x] = IF x \in gone THEN 0 ELSE nbufs[x]
    OBVIOUS
  <2>2. \A x \in Queue!Elems : nbufs'[x] > 0 <=> nbufs[x] > 0 /\ x \notin gone
    BY <1>1, <2>1
  <2> QED
    BY <2>2 DEF Queue!Out
<1>4. ASSUME NEW x \in Queue!Out \ gone
      PROVE  nbufs'[x] = nbufs[x] /\ Queue!Chunk(x)' = Queue!Chunk(x)
  <2>1. x \in Queue!Elems
    BY DEF Queue!Out
  <2>2. nbufs'[x] = nbufs[x]
    BY <2>1
  <2> QED
    BY <2>2 DEF Queue!Chunk
<1>5. Slices'
  <2>1. \A x \in Queue!Out \ gone : Queue!Chunk(x)' \subseteq Queue!Elems \ free'
    BY <1>4 DEF Slices
  <2>2. \A x, y \in Queue!Out \ gone : x # y => Queue!Chunk(x)' \cap Queue!Chunk(y)' = {}
    BY <1>4 DEF Slices
  <2>3. free' \subseteq Queue!Elems
    BY DEF Slices
  <2>4. /\ free' \subseteq Queue!Elems' /\ nbufs' \in [Queue!Elems' -> Nat]
        /\ \A x \in Queue!Out' : Queue!Chunk(x)' \subseteq Queue!Elems' \ free'
        /\ \A x, y \in Queue!Out' : x # y => Queue!Chunk(x)' \cap Queue!Chunk(y)' = {}
    BY <1>2, <1>3, <2>1, <2>2, <2>3 DEF Queue!Elems
  <2> QED
    BY <2>4 DEF Slices
<1> QED
  BY <1>3, <1>4, <1>5

\* What appending a chunk to the one before it does.
LEMMA PoolMerged ==
    ASSUME Slices, NEW p \in Queue!Out, NEW h \in Queue!Out, p + nbufs[p] = h,
           free' = free, nbufs' = [nbufs EXCEPT ![p] = @ + nbufs[h], ![h] = 0]
    PROVE  /\ Slices'
           /\ Queue!Out' = Queue!Out \ {h}
           /\ nbufs'[p] = nbufs[p] + nbufs[h]
           /\ \A x \in Queue!Out' \ {p} : nbufs'[x] = nbufs[x]
<1>1. p \in Queue!Elems /\ h \in Queue!Elems
  BY DEF Queue!Out
<1>2. p \in Int /\ h \in Int /\ nbufs[p] \in Nat \ {0} /\ nbufs[h] \in Nat \ {0}
  BY <1>1, OwnChunk
<1>3. p # h
  BY <1>2
<1>4. nbufs' = [x \in Queue!Elems |-> IF x = h THEN 0 ELSE IF x = p THEN nbufs[p] + nbufs[h] ELSE nbufs[x]]
  BY <1>1, <1>3 DEF Slices
<1>5. \A x \in Queue!Elems : nbufs[x] \in Nat
  BY DEF Slices
<1>6. nbufs' \in [Queue!Elems -> Nat] /\ nbufs'[h] = 0 /\ nbufs'[p] = nbufs[p] + nbufs[h]
      /\ \A x \in Queue!Elems \ {p, h} : nbufs'[x] = nbufs[x]
  BY <1>1, <1>2, <1>3, <1>4, <1>5
<1>7. Queue!Out' = Queue!Out \ {h}
  <2>1. \A x \in Queue!Elems : nbufs'[x] > 0 <=> nbufs[x] > 0 /\ x # h
    BY <1>1, <1>2, <1>3, <1>5, <1>6
  <2> QED
    BY <2>1 DEF Queue!Out
<1>8. Queue!Chunk(p)' = Queue!Chunk(p) \cup Queue!Chunk(h)
  <2>1. p .. p + (nbufs[p] + nbufs[h]) - 1 = (p .. p + nbufs[p] - 1) \cup (h .. h + nbufs[h] - 1)
    BY <1>2
  <2> QED
    BY <1>6, <2>1 DEF Queue!Chunk
<1>9. \A x \in Queue!Out \ {p, h} : x \in Queue!Elems /\ nbufs'[x] = nbufs[x] /\ Queue!Chunk(x)' = Queue!Chunk(x)
  BY <1>6 DEF Queue!Out, Queue!Chunk
<1>10. Slices'
  <2>1. Queue!Chunk(p)' \subseteq Queue!Elems \ free
    BY <1>8 DEF Slices
  <2>2. \A x \in Queue!Out \ {p, h} : Queue!Chunk(x)' \subseteq Queue!Elems \ free
    BY <1>9 DEF Slices
  <2>3. \A x \in Queue!Out \ {p, h} : Queue!Chunk(x)' \cap Queue!Chunk(p)' = {}
    <3> SUFFICES ASSUME NEW x \in Queue!Out \ {p, h} PROVE Queue!Chunk(x)' \cap Queue!Chunk(p)' = {}
      OBVIOUS
    <3>1. Queue!Chunk(x) \cap Queue!Chunk(p) = {} /\ Queue!Chunk(x) \cap Queue!Chunk(h) = {}
      BY DEF Slices
    <3> QED
      BY <1>8, <1>9, <3>1
  <2>4. \A x, y \in Queue!Out \ {p, h} : x # y => Queue!Chunk(x)' \cap Queue!Chunk(y)' = {}
    BY <1>9 DEF Slices
  <2>5. \A x \in Queue!Out' : x = p \/ x \in Queue!Out \ {p, h}
    BY <1>7
  <2>6. /\ free' \subseteq Queue!Elems' /\ nbufs' \in [Queue!Elems' -> Nat]
        /\ \A x \in Queue!Out' : Queue!Chunk(x)' \subseteq Queue!Elems' \ free'
        /\ \A x, y \in Queue!Out' : x # y => Queue!Chunk(x)' \cap Queue!Chunk(y)' = {}
    <3>1. free' \subseteq Queue!Elems' /\ nbufs' \in [Queue!Elems' -> Nat]
      BY <1>6 DEF Slices, Queue!Elems
    <3>2. \A x \in Queue!Out' : Queue!Chunk(x)' \subseteq Queue!Elems' \ free'
      BY <2>1, <2>2, <2>5 DEF Queue!Elems
    <3>3. \A x, y \in Queue!Out' : x # y => Queue!Chunk(x)' \cap Queue!Chunk(y)' = {}
      <4> SUFFICES ASSUME NEW x \in Queue!Out', NEW y \in Queue!Out', x # y
                   PROVE  Queue!Chunk(x)' \cap Queue!Chunk(y)' = {}
        OBVIOUS
      <4>1. CASE x = p
        BY <2>3, <2>5, <4>1
      <4>2. CASE y = p
        BY <2>3, <2>5, <4>2
      <4> QED
        BY <2>4, <2>5, <4>1, <4>2
    <3> QED
      BY <3>1, <3>2, <3>3
  <2> QED
    BY <2>6 DEF Slices
<1>11. \A x \in Queue!Out' \ {p} : nbufs'[x] = nbufs[x]
  BY <1>7, <1>9
<1> QED
  BY <1>6, <1>7, <1>10, <1>11

\* The chunks the demuxer is filling are those that are out and not used.
LEMMA FillingIs ==
    ASSUME NEW h
    PROVE  h \in Queue!Filling <=> h \in Queue!Out /\ h \notin Used
  BY DEF Queue!Filling, Queue!Contains, Used, Members

\* The types of what the getters and the demuxer have.
LEMMA ChunkTypes ==
    ASSUME Chunked
    PROVE  /\ queue \in Seq(Queue!Elems) /\ clearing \in Seq(Queue!Elems)
           /\ nbufs \in [Queue!Elems -> Nat] /\ size \in [Queue!Elems -> Nat]
           /\ nbufs \in [Queue!Elems -> Int] /\ size \in [Queue!Elems -> Int]
           /\ held \in [Getters -> Queue!Elems \cup {0}] /\ 0 \notin Queue!Elems
           /\ Queue!Out \subseteq Queue!Elems /\ Members(queue) \subseteq Queue!Out
           /\ fifo_size = Queue!Total(nbufs, queue) /\ fifo_data_size = Queue!Total(size, queue)
           /\ fifo_size \in Int /\ fifo_data_size \in Int
<1>1. /\ queue \in Seq(Queue!Elems) /\ clearing \in Seq(Queue!Elems)
      /\ nbufs \in [Queue!Elems -> Nat] /\ size \in [Queue!Elems -> Nat]
  BY DEF Chunked, Wakened, Slices, Sized
<1>2. nbufs \in [Queue!Elems -> Int] /\ size \in [Queue!Elems -> Int]
  BY <1>1
<1>3. fifo_size = Queue!Total(nbufs, queue) /\ fifo_data_size = Queue!Total(size, queue)
  BY DEF Chunked, Sized, Queue!SizesExact
<1>4. Queue!Total(nbufs, queue) \in Int /\ Queue!Total(size, queue) \in Int
  BY <1>1, <1>2, TotalIsInt
<1>5. held \in [Getters -> Queue!Elems \cup {0}] /\ Members(queue) \subseteq Queue!Out
  BY DEF Chunked, Placed
<1>6. 0 \notin Queue!Elems /\ Queue!Out \subseteq Queue!Elems
  BY QueueAssumption DEF Queue!Elems, Queue!Out
<1> QED
  BY <1>1, <1>2, <1>3, <1>4, <1>5, <1>6

\* The parts that are left, in states where the sleepers and slices are known.
ChunkedRest == Placed /\ ControlsOut /\ Sized

LEMMA AllocChunked ==
    ASSUME Chunked, NEW n \in 1 .. AllocLimit, Queue!Alloc(n)
    PROVE  Slices' /\ ChunkedRest'
<1>1. /\ Queue!Take(n)
      /\ UNCHANGED <<ctrl, size, queue, clearing, fifo_size, fifo_data_size, held>>
  BY DEF Queue!Alloc, Queue!dataVars, Queue!countVars, Queue!getVars
<1>2. Slices' /\ Queue!Out \subseteq Queue!Out' /\ \A x \in Queue!Out : nbufs'[x] = nbufs[x]
  BY <1>1, PoolTaken DEF Chunked
<1>3. Used' = Used
  BY <1>1 DEF Used
<1>4. Queue!Elems' = Queue!Elems
  BY DEF Queue!Elems
<1>5. Placed'
  <2>1. Placed
    BY DEF Chunked
  <2> QED
    BY <1>1, <1>2, <1>4, <2>1 DEF Placed
<1>6. ControlsOut'
  BY <1>1, <1>2, <1>3 DEF Chunked, ControlsOut
<1>7. Sized'
  <2>1. Queue!Total(nbufs', queue) = Queue!Total(nbufs, queue)
    BY <1>2, ChunkTypes, TotalSame
  <2>2. size' \in [Queue!Elems' -> Nat]
    BY <1>1, <1>4, ChunkTypes
  <2>3. fifo_size' = Queue!Total(nbufs', queue') /\ fifo_data_size' = Queue!Total(size', queue')
    BY <1>1, <2>1, ChunkTypes
  <2>4. Queue!SizesExact'
    BY <2>3 DEF Queue!SizesExact
  <2> QED
    BY <2>2, <2>4 DEF Sized
<1> QED
  BY <1>2, <1>5, <1>6, <1>7 DEF ChunkedRest

\* A chunk that the demuxer has filled comes into the queue, at its end or in
\* front, with "k" elements of data.
LEMMA PutChunked ==
    ASSUME Chunked, NEW h \in Queue!Filling, NEW k \in Nat,
           queue' = Append(queue, h) \/ queue' = <<h>> \o queue,
           size' = [size EXCEPT ![h] = k],
           fifo_size' = fifo_size + nbufs[h], fifo_data_size' = fifo_data_size + k,
           ctrl' = ctrl \/ (ctrl' = ctrl \cup {h} /\ nbufs[h] = 1),
           UNCHANGED <<free, nbufs, clearing, held>>
    PROVE  Slices' /\ ChunkedRest'
<1>1. h \in Queue!Out /\ h \notin Used /\ h \in Queue!Elems
  BY FillingIs, ChunkTypes
<1>2. h \notin Members(queue) /\ h \notin Members(clearing) /\ \A g \in Getters : held[g] # h
  BY <1>1 DEF Used
<1>3. Once(queue) /\ Once(clearing)
  BY DEF Chunked, Placed
<1>4. queue' \in Seq(Queue!Elems) /\ Once(queue') /\ Members(queue') = Members(queue) \cup {h}
  <2>1. queue \in Seq(Queue!Elems)
    BY ChunkTypes
  <2>2. CASE queue' = Append(queue, h)
    BY ONLY <1>1, <1>2, <1>3, <2>1, <2>2, AtEnd
  <2>3. CASE queue' = <<h>> \o queue
    BY ONLY <1>1, <1>2, <1>3, <2>1, <2>3, InFront
  <2> QED
    BY <2>2, <2>3
<1>5. ASSUME NEW w \in [Queue!Elems -> Int] PROVE Queue!Total(w, queue') = Queue!Total(w, queue) + w[h]
  <2>1. queue \in Seq(Queue!Elems)
    BY ChunkTypes
  <2>2. CASE queue' = Append(queue, h)
    BY <1>1, <2>1, <2>2, TotalAtEnd
  <2>3. CASE queue' = <<h>> \o queue
    <3>1. PICK q : q = <<h>> \o queue
      OBVIOUS
    <3>2. q \in Seq(Queue!Elems) /\ q # <<>> /\ Head(q) = h /\ Tail(q) = queue
      BY ONLY <1>1, <1>2, <1>3, <2>1, <3>1, InFront
    <3>3. Queue!Total(w, q) = w[h] + Queue!Total(w, queue)
      BY <3>2, TotalAfterHead
    <3>4. w[h] \in Int /\ Queue!Total(w, queue) \in Int
      BY <1>1, <2>1, TotalIsInt
    <3> QED
      BY <2>3, <3>1, <3>3, <3>4
  <2> QED
    BY <2>2, <2>3
<1>6. Queue!Out' = Queue!Out /\ Queue!Elems' = Queue!Elems
  BY DEF Queue!Out, Queue!Elems
<1>7. Slices'
  BY <1>6 DEF Chunked, Slices, Queue!Chunk
<1>8. Used' = Used \cup {h}
  BY <1>4 DEF Used
<1>9. Placed'
  <2>1. Placed
    BY DEF Chunked
  <2> QED
    BY <1>1, <1>2, <1>4, <1>6, <2>1 DEF Placed
<1>10. ControlsOut'
  BY <1>1, <1>6, <1>8 DEF Chunked, ControlsOut
<1>11. Sized'
  <2>1. size' \in [Queue!Elems -> Nat] /\ size' \in [Queue!Elems -> Int] /\ size'[h] = k
    <3>1. size \in [Queue!Elems -> Nat]
      BY ChunkTypes
    <3>2. size' \in [Queue!Elems -> Nat] /\ size'[h] = k
      BY ONLY <1>1, <3>1, k \in Nat, size' = [size EXCEPT ![h] = k]
    <3> QED
      BY <3>2
  <2>2. \A x \in Members(queue) : size'[x] = size[x]
    BY <1>2, ChunkTypes
  <2>3. PICK w : w = size'
    OBVIOUS
  <2>4. Queue!Total(w, queue) = Queue!Total(size, queue)
    BY <2>2, <2>3, ChunkTypes, TotalSame
  <2>5. Queue!Total(w, queue') = fifo_data_size'
    BY <1>5, <2>1, <2>3, <2>4, ChunkTypes
  <2>6. Queue!Total(nbufs, queue') = fifo_size'
    BY <1>5, ChunkTypes
  <2>7. fifo_size' = Queue!Total(nbufs', queue') /\ fifo_data_size' = Queue!Total(size', queue')
    BY <2>3, <2>5, <2>6
  <2>8. Queue!SizesExact'
    BY <2>7 DEF Queue!SizesExact
  <2> QED
    BY <1>6, <2>1, <2>8 DEF Sized
<1> QED
  BY <1>7, <1>9, <1>10, <1>11 DEF ChunkedRest

\* A chunk is appended to the one at the end of the queue.
LEMMA MergeChunked ==
    ASSUME Chunked, NEW h \in Queue!Filling, NEW k \in Nat, queue # <<>>,
           queue[Len(queue)] \notin ctrl, queue[Len(queue)] + nbufs[queue[Len(queue)]] = h,
           nbufs' = [nbufs EXCEPT ![queue[Len(queue)]] = @ + nbufs[h], ![h] = 0],
           size' = [size EXCEPT ![queue[Len(queue)]] = @ + k],
           fifo_size' = fifo_size + nbufs[h], fifo_data_size' = fifo_data_size + k,
           UNCHANGED <<free, ctrl, queue, clearing, held>>
    PROVE  Slices' /\ ChunkedRest'
<1>1. PICK p : p = queue[Len(queue)]
  OBVIOUS
<1>2. p \in Members(queue) /\ p \in Queue!Out /\ p \in Queue!Elems /\ p \in Used
  <2>1. Len(queue) \in 1 .. Len(queue)
    <3>1. Len(queue) \in Nat \ {0}
      BY ChunkTypes, EmptySeq
    <3> QED
      BY <3>1
  <2>2. p \in Members(queue)
    BY <1>1, <2>1 DEF Members
  <2> QED
    BY <2>2, ChunkTypes DEF Used
<1>3. h \in Queue!Out /\ h \notin Used /\ h \in Queue!Elems
  BY FillingIs, ChunkTypes
<1>4. h \notin Members(queue) /\ h \notin Members(clearing) /\ \A g \in Getters : held[g] # h
  BY <1>3 DEF Used
<1>5. /\ Slices' /\ Queue!Out' = Queue!Out \ {h}
      /\ nbufs'[p] = nbufs[p] + nbufs[h]
      /\ \A x \in Queue!Out' \ {p} : nbufs'[x] = nbufs[x]
  <2>1. /\ Slices /\ p \in Queue!Out /\ h \in Queue!Out /\ p + nbufs[p] = h /\ free' = free
        /\ nbufs' = [nbufs EXCEPT ![p] = @ + nbufs[h], ![h] = 0]
    BY <1>1, <1>2, <1>3 DEF Chunked
  <2> QED
    BY ONLY <2>1, PoolMerged
<1>6. Used' = Used /\ Queue!Elems' = Queue!Elems
  BY DEF Used, Queue!Elems
<1>7. Placed'
  <2>1. Placed
    BY DEF Chunked
  <2>2. Members(queue)' = Members(queue) /\ Members(clearing)' = Members(clearing)
    OBVIOUS
  <2> QED
    BY <1>4, <1>5, <1>6, <2>1, <2>2 DEF Placed
<1>8. ControlsOut'
  <2> SUFFICES ASSUME NEW x \in ctrl' PROVE x \in Queue!Out' \cap Used' /\ nbufs'[x] = 1
    BY DEF ControlsOut
  <2>1. x \in Queue!Out \cap Used /\ nbufs[x] = 1 /\ x # p
    BY <1>1 DEF Chunked, ControlsOut
  <2>2. x \in Queue!Out'
    BY <1>3, <1>5, <2>1
  <2> QED
    BY <1>5, <1>6, <2>1, <2>2
<1>9. Sized'
  <2>1. /\ queue \in Seq(Queue!Elems) /\ nbufs \in [Queue!Elems -> Int] /\ size \in [Queue!Elems -> Int]
        /\ size \in [Queue!Elems -> Nat] /\ Members(queue) \subseteq Queue!Out
        /\ fifo_size = Queue!Total(nbufs, queue) /\ fifo_data_size = Queue!Total(size, queue)
        /\ Once(queue)
    BY ChunkTypes DEF Chunked, Placed
  <2>2. PICK v, w : v = nbufs' /\ w = size'
    OBVIOUS
  <2>3. v \in [Queue!Elems -> Int]
    <3>1. nbufs' \in [Queue!Elems -> Nat]
      BY <1>5, <1>6 DEF Slices
    <3> QED
      BY <2>2, <3>1
  <2>4. w \in [Queue!Elems -> Nat] /\ w[p] = size[p] + k /\ \A x \in Queue!Elems \ {p} : w[x] = size[x]
    <3>1. w = [size EXCEPT ![p] = @ + k]
      BY <1>1, <2>2
    <3> QED
      BY ONLY <1>2, <2>1, <3>1, k \in Nat
  <2>5. w \in [Queue!Elems -> Int]
    BY <2>4
  <2>6. \A x \in Members(queue) \ {p} : v[x] = nbufs[x] /\ w[x] = size[x]
    BY <1>4, <1>5, <2>1, <2>2, <2>4, ChunkTypes
  <2>7. Queue!Total(v, queue) = Queue!Total(nbufs, queue) + v[p] - nbufs[p]
    <3>1. queue \in Seq(Queue!Elems) /\ queue # <<>> /\ Once(queue)
      BY <2>1
    <3>2. Numbers(Queue!Elems, nbufs) /\ Numbers(Queue!Elems, v)
      BY <2>1, <2>3 DEF Numbers
    <3>3. \A x \in Members(queue) \ {p} : v[x] = nbufs[x]
      BY <2>6
    <3> QED
      BY ONLY <1>1, <3>1, <3>2, <3>3, TotalAtLast
  <2>8. Queue!Total(w, queue) = Queue!Total(size, queue) + w[p] - size[p]
    <3>1. queue \in Seq(Queue!Elems) /\ queue # <<>> /\ Once(queue)
      BY <2>1
    <3>2. Numbers(Queue!Elems, size) /\ Numbers(Queue!Elems, w)
      BY <2>1, <2>5 DEF Numbers
    <3>3. \A x \in Members(queue) \ {p} : w[x] = size[x]
      BY <2>6
    <3> QED
      BY ONLY <1>1, <3>1, <3>2, <3>3, TotalAtLast
  <2>9. nbufs[p] \in Int /\ nbufs[h] \in Int /\ size[p] \in Int /\ fifo_size \in Int /\ fifo_data_size \in Int
    BY <1>2, <1>3, ChunkTypes
  <2>10. v[p] = nbufs[p] + nbufs[h] /\ w[p] = size[p] + k
    BY <1>5, <2>2, <2>4
  <2>11. fifo_size' = Queue!Total(v, queue)
    BY ONLY <2>1, <2>7, <2>9, <2>10, fifo_size' = fifo_size + nbufs[h]
  <2>12. fifo_data_size' = Queue!Total(w, queue)
    BY ONLY <2>1, <2>8, <2>9, <2>10, k \in Nat, fifo_data_size' = fifo_data_size + k
  <2>13. Queue!SizesExact'
    BY <2>2, <2>11, <2>12 DEF Queue!SizesExact
  <2> QED
    BY <1>6, <2>2, <2>4, <2>13 DEF Sized
<1> QED
  BY <1>5, <1>7, <1>8, <1>9 DEF ChunkedRest

\* A getter takes the first chunk off the queue.
LEMMA UnqueueChunked ==
    ASSUME Chunked, NEW g \in Getters, held[g] = 0, queue # <<>>, Queue!Unqueue(g)
    PROVE  Slices' /\ ChunkedRest'
<1>1. /\ held' = [held EXCEPT ![g] = Head(queue)] /\ queue' = Tail(queue)
      /\ fifo_size' = fifo_size - nbufs[Head(queue)]
      /\ fifo_data_size' = fifo_data_size - size[Head(queue)]
      /\ UNCHANGED <<free, nbufs, ctrl, size, clearing>>
  BY DEF Queue!Unqueue, Queue!poolVars, Queue!dataVars
<1>2. /\ Head(queue) \in Members(queue) /\ queue' \in Seq(Queue!Elems)
      /\ Once(queue') /\ Members(queue') = Members(queue) \ {Head(queue)}
  <2>1. queue \in Seq(Queue!Elems) /\ Once(queue)
    BY ChunkTypes DEF Chunked, Placed
  <2> QED
    BY ONLY <1>1, <2>1, queue # <<>>, AfterHead
<1>3. PICK h : h = Head(queue)
  OBVIOUS
<1>4. h \in Queue!Out /\ h \in Queue!Elems /\ h # 0 /\ h \notin Members(clearing)
      /\ \A f \in Getters : held[f] # h
  <2>1. h \in Members(queue)
    BY <1>2, <1>3
  <2>2. h \in Queue!Out /\ h \in Queue!Elems /\ h # 0
    BY <2>1, ChunkTypes
  <2> QED
    BY <2>1, <2>2 DEF Chunked, Placed
<1>5. /\ held' \in [Getters -> Queue!Elems \cup {0}] /\ held'[g] = h
      /\ \A f \in Getters \ {g} : held'[f] = held[f]
  BY <1>1, <1>3, <1>4, ChunkTypes
<1>6. Queue!Out' = Queue!Out /\ Queue!Elems' = Queue!Elems
  BY <1>1 DEF Queue!Out, Queue!Elems
<1>7. Slices'
  BY <1>1, <1>6 DEF Chunked, Slices, Queue!Chunk
<1>8. Placed'
  <2>1. /\ Once(clearing) /\ Members(queue) \subseteq Queue!Out
        /\ Members(clearing) \subseteq Queue!Out \ Members(queue)
        /\ \A e \in Getters : held[e] # 0 =>
             /\ held[e] \in Queue!Out \ (Members(queue) \cup Members(clearing))
             /\ \A f \in Getters \ {e} : held[f] # held[e]
    BY DEF Chunked, Placed
  <2>2. Members(clearing') = Members(clearing) /\ Once(clearing')
    BY <1>1, <2>1
  <2>3. Members(clearing') \subseteq Queue!Out' \ Members(queue')
    BY <1>2, <1>6, <2>1, <2>2
  <2>4. ASSUME NEW e \in Getters, held'[e] # 0
        PROVE  /\ held'[e] \in Queue!Out' \ (Members(queue') \cup Members(clearing'))
               /\ \A f \in Getters \ {e} : held'[f] # held'[e]
    <3>1. CASE e = g
      <4>1. held'[e] = h /\ h \notin Members(queue') /\ h \notin Members(clearing')
        BY <1>2, <1>3, <1>4, <1>5, <2>2, <3>1
      <4>2. \A f \in Getters \ {e} : held'[f] # h
        BY <1>4, <1>5, <3>1
      <4> QED
        BY <1>4, <1>6, <4>1, <4>2
    <3>2. CASE e # g
      <4>1. held'[e] = held[e] /\ held[e] # 0
        BY <1>5, <2>4, <3>2
      <4>2. /\ held[e] \in Queue!Out \ (Members(queue) \cup Members(clearing))
            /\ \A f \in Getters \ {e} : held[f] # held[e]
        BY <2>1, <4>1
      <4>3. \A f \in Getters \ {e} : held'[f] # held[e]
        BY <1>4, <1>5, <4>2
      <4> QED
        BY <1>2, <1>6, <2>2, <4>1, <4>2, <4>3
    <3> QED
      BY <3>1, <3>2
  <2>5. Members(queue') \subseteq Queue!Out'
    BY <1>2, <1>6, <2>1
  <2>6. held' \in [Getters -> (Queue!Elems \cup {0})']
    BY <1>5, <1>6
  <2> QED
    BY <1>2, <2>2, <2>3, <2>4, <2>5, <2>6 DEF Placed
<1>9. Used \subseteq Used' \cup {0}
  <2> SUFFICES ASSUME NEW x \in Used, x # 0 PROVE x \in Used'
    OBVIOUS
  <2>1. CASE x \in Members(queue)
    <3>1. CASE x = h
      BY <1>5, <3>1 DEF Used
    <3>2. CASE x # h
      BY <1>2, <1>3, <2>1, <3>2 DEF Used
    <3> QED
      BY <3>1, <3>2
  <2>2. CASE x \in Members(clearing)
    BY <1>1, <2>2 DEF Used
  <2>3. ASSUME NEW f \in Getters, x = held[f] PROVE x \in Used'
    <3>1. f # g
      BY <2>3
    <3>2. held'[f] = x
      BY <1>5, <2>3, <3>1
    <3> QED
      BY <3>2 DEF Used
  <2> QED
    BY <2>1, <2>2, <2>3 DEF Used
<1>10. ControlsOut'
  <2> SUFFICES ASSUME NEW x \in ctrl' PROVE x \in Queue!Out' \cap Used' /\ nbufs'[x] = 1
    BY DEF ControlsOut
  <2>1. x \in Queue!Out /\ x \in Used /\ nbufs[x] = 1
    BY <1>1 DEF Chunked, ControlsOut
  <2>2. x # 0
    BY <2>1, ChunkTypes
  <2> QED
    BY <1>1, <1>6, <1>9, <2>1, <2>2
<1>11. Sized'
  <2>1. /\ queue \in Seq(Queue!Elems) /\ nbufs \in [Queue!Elems -> Int] /\ size \in [Queue!Elems -> Int]
        /\ fifo_size = Queue!Total(nbufs, queue) /\ fifo_data_size = Queue!Total(size, queue)
    BY ChunkTypes
  <2>2. /\ Queue!Total(nbufs, queue) = nbufs[h] + Queue!Total(nbufs, queue')
        /\ Queue!Total(size, queue) = size[h] + Queue!Total(size, queue')
    BY ONLY <1>1, <1>3, <2>1, queue # <<>>, TotalAfterHead
  <2>3. nbufs[h] \in Int /\ size[h] \in Int /\ fifo_size \in Int /\ fifo_data_size \in Int
        /\ Queue!Total(nbufs, queue') \in Int /\ Queue!Total(size, queue') \in Int
    BY <1>2, <1>4, <2>1, ChunkTypes, TotalIsInt
  <2>4. fifo_size' = Queue!Total(nbufs, queue') /\ fifo_data_size' = Queue!Total(size, queue')
    <3>1. PICK a, b, c, d : /\ a = Queue!Total(nbufs, queue') /\ b = Queue!Total(size, queue')
                            /\ c = nbufs[h] /\ d = size[h]
      OBVIOUS
    <3>2. a \in Int /\ b \in Int /\ c \in Int /\ d \in Int
      BY <2>3, <3>1
    <3>3. fifo_size = c + a /\ fifo_data_size = d + b
      BY <2>1, <2>2, <3>1
    <3>4. fifo_size' = fifo_size - c /\ fifo_data_size' = fifo_data_size - d
      BY <1>1, <1>3, <3>1
    <3>5. fifo_size' = a /\ fifo_data_size' = b
      BY ONLY <3>2, <3>3, <3>4
    <3> QED
      BY <3>1, <3>5
  <2>5. Queue!SizesExact'
    BY <1>1, <2>4 DEF Queue!SizesExact
  <2>6. size' \in [Queue!Elems' -> Nat]
    BY <1>1, <1>6, ChunkTypes
  <2> QED
    BY <2>5, <2>6 DEF Sized
<1> QED
  BY <1>7, <1>8, <1>10, <1>11 DEF ChunkedRest

\* Chunks that are not queued and not being cleared, or no more, go back to the
\* pool.
LEMMA GoneChunked ==
    ASSUME Chunked, NEW gone \in SUBSET Queue!Out, gone \cap Members(queue) = {},
           Queue!Out' = Queue!Out \ gone, Slices',
           \A x \in Queue!Out' : nbufs'[x] = nbufs[x],
           ctrl' = ctrl \ gone,
           Once(clearing'), Members(clearing') = Members(clearing) \ gone,
           held' \in [Getters -> Queue!Elems \cup {0}],
           \A g \in Getters : held'[g] = IF held[g] \in gone THEN 0 ELSE held[g],
           UNCHANGED <<size, queue, fifo_size, fifo_data_size>>
    PROVE  ChunkedRest'
<1>1. Queue!Elems' = Queue!Elems
  BY DEF Queue!Elems
<1>2. Used \ gone \subseteq Used'
  <2> SUFFICES ASSUME NEW x \in Used, x \notin gone PROVE x \in Used'
    OBVIOUS
  <2>1. ASSUME NEW g \in Getters, x = held[g] PROVE x \in Used'
    <3>1. held'[g] = x
      BY <2>1
    <3> QED
      BY <3>1 DEF Used
  <2>2. CASE x \in Members(queue)
    BY <2>2 DEF Used
  <2>3. CASE x \in Members(clearing)
    BY <2>3 DEF Used
  <2> QED
    BY <2>1, <2>2, <2>3 DEF Used
<1>3. Placed'
  <2>1. /\ Once(queue) /\ Members(queue) \subseteq Queue!Out
        /\ Members(clearing) \subseteq Queue!Out \ Members(queue)
        /\ \A e \in Getters : held[e] # 0 =>
             /\ held[e] \in Queue!Out \ (Members(queue) \cup Members(clearing))
             /\ \A f \in Getters \ {e} : held[f] # held[e]
    BY DEF Chunked, Placed
  <2>2. Members(queue') = Members(queue) /\ Once(queue')
    BY <2>1
  <2>3. Members(queue') \subseteq Queue!Out' /\ Members(clearing') \subseteq Queue!Out' \ Members(queue')
    BY <2>1, <2>2
  <2>4. ASSUME NEW e \in Getters, held'[e] # 0
        PROVE  /\ held'[e] \in Queue!Out' \ (Members(queue') \cup Members(clearing'))
               /\ \A f \in Getters \ {e} : held'[f] # held'[e]
    <3>1. held'[e] = held[e] /\ held[e] \notin gone /\ held[e] # 0
      BY <2>4
    <3>2. /\ held[e] \in Queue!Out \ (Members(queue) \cup Members(clearing))
          /\ \A f \in Getters \ {e} : held[f] # held[e]
      BY <2>1, <3>1
    <3>3. held'[e] \in Queue!Out' \ (Members(queue') \cup Members(clearing'))
      BY <2>2, <3>1, <3>2
    <3>4. ASSUME NEW f \in Getters \ {e} PROVE held'[f] # held'[e]
      <4>1. held'[f] = 0 \/ held'[f] = held[f]
        OBVIOUS
      <4> QED
        BY <3>1, <3>2, <4>1
    <3> QED
      BY <3>3, <3>4
  <2> QED
    BY <1>1, <2>2, <2>3, <2>4 DEF Placed
<1>4. ControlsOut'
  <2> SUFFICES ASSUME NEW x \in ctrl' PROVE x \in Queue!Out' \cap Used' /\ nbufs'[x] = 1
    BY DEF ControlsOut
  <2>1. x \in Queue!Out \cap Used /\ nbufs[x] = 1 /\ x \notin gone
    BY DEF Chunked, ControlsOut
  <2>2. x \in Queue!Out'
    BY <2>1
  <2> QED
    BY <1>2, <2>1, <2>2
<1>5. Sized'
  <2>1. \A x \in Members(queue) : nbufs'[x] = nbufs[x]
    BY ChunkTypes
  <2>2. Queue!Total(nbufs', queue) = Queue!Total(nbufs, queue)
    BY <2>1, ChunkTypes, TotalSame
  <2>3. fifo_size' = Queue!Total(nbufs', queue') /\ fifo_data_size' = Queue!Total(size', queue')
    BY <2>2, ChunkTypes
  <2>4. Queue!SizesExact'
    BY <2>3 DEF Queue!SizesExact
  <2>5. size' \in [Queue!Elems' -> Nat]
    BY <1>1, ChunkTypes
  <2> QED
    BY <2>4, <2>5 DEF Sized
<1> QED
  BY <1>3, <1>4, <1>5 DEF ChunkedRest

LEMMA ReleaseChunked ==
    ASSUME Chunked, NEW g \in Getters, Queue!Release(g)
    PROVE  Slices' /\ ChunkedRest'
<1>1. PICK h : h = held[g]
  OBVIOUS
<1>2. /\ h # 0 /\ h \in Queue!Out /\ free' = free \cup Queue!Chunk(h)
      /\ nbufs' = [nbufs EXCEPT ![h] = 0]
      /\ ctrl' = ctrl \ {h} /\ held' = [held EXCEPT ![g] = 0]
      /\ UNCHANGED <<size, queue, clearing, fifo_size, fifo_data_size>>
  BY <1>1 DEF Queue!Release, Queue!GiveBack, Queue!countVars
<1>3. PICK J : J = Queue!Chunk(h)
  OBVIOUS
<1>4. /\ {h} \in SUBSET Queue!Out /\ J \in SUBSET Queue!Elems
      /\ \A x \in Queue!Out \ {h} : J \cap Queue!Chunk(x) = {}
  BY <1>2, <1>3 DEF Chunked, Slices
<1>5. nbufs' = [x \in Queue!Elems |-> IF x \in {h} THEN 0 ELSE nbufs[x]]
  BY <1>2, ChunkTypes
<1>6. Slices' /\ Queue!Out' = Queue!Out \ {h} /\ \A x \in Queue!Out' : nbufs'[x] = nbufs[x]
  <2>1. Slices /\ free' = free \cup J
    BY <1>2, <1>3 DEF Chunked
  <2> QED
    BY ONLY <1>4, <1>5, <2>1, PoolGone
<1>7. h \notin Members(queue) /\ h \notin Members(clearing) /\ \A f \in Getters \ {g} : held[f] # h
  BY <1>1, <1>2 DEF Chunked, Placed
<1>8. /\ held' \in [Getters -> Queue!Elems \cup {0}]
      /\ \A f \in Getters : held'[f] = IF held[f] \in {h} THEN 0 ELSE held[f]
  BY <1>1, <1>2, <1>7, ChunkTypes
<1>9. Once(clearing')
  BY <1>2 DEF Chunked, Placed
<1>10. Members(clearing') = Members(clearing) \ {h} /\ {h} \cap Members(queue) = {}
  BY <1>2, <1>7
<1>11. ChunkedRest'
  BY <1>2, <1>4, <1>6, <1>8, <1>9, <1>10, GoneChunked
<1> QED
  BY <1>6, <1>11

LEMMA ClearStartChunked ==
    ASSUME Chunked, Queue!ClearStart
    PROVE  Slices' /\ ChunkedRest'
<1>1. /\ clearing = <<>> /\ clearing' = queue /\ queue' = <<>> /\ fifo_size' = 0 /\ fifo_data_size' = 0
      /\ UNCHANGED <<free, nbufs, size, ctrl, held>>
  BY DEF Queue!ClearStart, Queue!Unlocked, Queue!QueueTakenOut, Queue!SizeTakenOut, Queue!getVars,
         Queue!poolVars, Queue!dataVars, Chunked, Wakened
<1>2. Queue!Out' = Queue!Out /\ Queue!Elems' = Queue!Elems
  BY <1>1 DEF Queue!Out, Queue!Elems
<1>3. Slices'
  BY <1>1, <1>2 DEF Chunked, Slices, Queue!Chunk
<1>4. Members(<<>>) = {} /\ Once(<<>>)
  BY DEF Members, Once
<1>5. Members(queue') = {} /\ Members(clearing') = Members(queue) /\ Members(clearing) = {}
  BY <1>1, <1>4
<1>6. Used' = Used
  BY <1>1, <1>5 DEF Used
<1>7. Placed'
  <2>1. Placed
    BY DEF Chunked
  <2>2. Once(queue') /\ Once(clearing')
    BY <1>1, <1>4, <2>1 DEF Placed
  <2> QED
    BY <1>1, <1>2, <1>5, <2>1, <2>2 DEF Placed
<1>8. ControlsOut'
  BY <1>1, <1>2, <1>6 DEF Chunked, ControlsOut
<1>9. Sized'
  <2>1. ASSUME NEW w \in [Queue!Elems -> Int] PROVE Queue!Total(w, <<>>) = 0
    <3>1. DOMAIN <<>> = {}
      BY EmptySeq
    <3>2. PICK f : f = [i \in DOMAIN <<>> |-> w[<<>>[i]]]
      OBVIOUS
    <3>3. f \in [{} -> Int] /\ IsFiniteSet({})
      BY <3>1, <3>2, FS_EmptySet
    <3>4. SumFunction(f) = 0
      BY <3>3, SumOfZero
    <3> QED
      BY <3>2, <3>4, TotalIsSum
  <2>2. fifo_size' = Queue!Total(nbufs', queue') /\ fifo_data_size' = Queue!Total(size', queue')
    BY <1>1, <2>1, ChunkTypes
  <2>3. Queue!SizesExact'
    BY <2>2 DEF Queue!SizesExact
  <2>4. size' \in [Queue!Elems' -> Nat]
    BY <1>1, <1>2, ChunkTypes
  <2> QED
    BY <2>3, <2>4 DEF Sized
<1> QED
  BY <1>3, <1>7, <1>8, <1>9 DEF ChunkedRest

\* clear puts a control buffer back into the queue.
LEMMA ClearKeepChunked ==
    ASSUME Chunked, Queue!ClearKeep
    PROVE  Slices' /\ ChunkedRest'
<1>1. PICK h : h = Head(clearing)
  OBVIOUS
<1>2. /\ clearing # <<>> /\ h \in ctrl /\ queue' = Append(queue, h) /\ clearing' = Tail(clearing)
      /\ fifo_size' = fifo_size + 1 /\ fifo_data_size' = fifo_data_size + size[h]
      /\ UNCHANGED <<free, nbufs, size, ctrl, held>>
  BY <1>1 DEF Queue!ClearKeep, Queue!poolVars, Queue!dataVars, Queue!getVars
<1>3. /\ h \in Members(clearing) /\ clearing' \in Seq(Queue!Elems)
      /\ Once(clearing') /\ Members(clearing') = Members(clearing) \ {h}
  <2>1. clearing \in Seq(Queue!Elems) /\ Once(clearing)
    BY ChunkTypes DEF Chunked, Placed
  <2> QED
    BY ONLY <1>1, <1>2, <2>1, AfterHead
<1>4. h \in Queue!Out /\ h \in Queue!Elems /\ h \notin Members(queue) /\ nbufs[h] = 1
  <2>1. h \in Queue!Out /\ h \notin Members(queue)
    BY <1>3 DEF Chunked, Placed
  <2> QED
    BY <1>2, <2>1, ChunkTypes DEF Chunked, ControlsOut
<1>5. queue' \in Seq(Queue!Elems) /\ Once(queue') /\ Members(queue') = Members(queue) \cup {h}
  <2>1. queue \in Seq(Queue!Elems) /\ Once(queue)
    BY ChunkTypes DEF Chunked, Placed
  <2> QED
    BY ONLY <1>2, <1>4, <2>1, AtEnd
<1>6. Queue!Out' = Queue!Out /\ Queue!Elems' = Queue!Elems
  BY <1>2 DEF Queue!Out, Queue!Elems
<1>7. Slices'
  BY <1>2, <1>6 DEF Chunked, Slices, Queue!Chunk
<1>8. Used' = Used
  BY <1>2, <1>3, <1>5 DEF Used
<1>9. Placed'
  <2>1. Placed
    BY DEF Chunked
  <2>2. Members(queue') \cup Members(clearing') = Members(queue) \cup Members(clearing)
    BY <1>3, <1>5
  <2>3. Members(queue') \subseteq Queue!Out /\ Members(clearing') \subseteq Queue!Out \ Members(queue')
    BY <1>3, <1>4, <1>5, <2>1 DEF Placed
  <2>4. \A e \in Getters : held'[e] # 0 =>
             /\ held'[e] \in Queue!Out' \ (Members(queue') \cup Members(clearing'))
             /\ \A f \in Getters \ {e} : held'[f] # held'[e]
    BY <1>2, <1>6, <2>1, <2>2 DEF Placed
  <2>5. held' \in [Getters -> (Queue!Elems \cup {0})']
    BY <1>2, <1>6, ChunkTypes
  <2> QED
    BY <1>3, <1>5, <1>6, <2>3, <2>4, <2>5 DEF Placed
<1>10. ControlsOut'
  BY <1>2, <1>6, <1>8 DEF Chunked, ControlsOut
<1>11. Sized'
  <2>1. /\ queue \in Seq(Queue!Elems) /\ nbufs \in [Queue!Elems -> Int] /\ size \in [Queue!Elems -> Int]
        /\ fifo_size = Queue!Total(nbufs, queue) /\ fifo_data_size = Queue!Total(size, queue)
    BY ChunkTypes
  <2>2. /\ Queue!Total(nbufs, queue') = Queue!Total(nbufs, queue) + nbufs[h]
        /\ Queue!Total(size, queue') = Queue!Total(size, queue) + size[h]
    BY <1>2, <1>4, <2>1, TotalAtEnd
  <2>3. fifo_size' = Queue!Total(nbufs, queue') /\ fifo_data_size' = Queue!Total(size, queue')
    BY <1>2, <1>4, <2>1, <2>2
  <2>4. Queue!SizesExact'
    BY <1>2, <2>3 DEF Queue!SizesExact
  <2>5. size' \in [Queue!Elems' -> Nat]
    BY <1>2, <1>6, ChunkTypes
  <2> QED
    BY <2>4, <2>5 DEF Sized
<1> QED
  BY <1>7, <1>9, <1>10, <1>11 DEF ChunkedRest

\* A run of chunks one behind the other has no elements but theirs.
LEMMA RunCovers ==
    ASSUME Chunked, NEW i \in 1 .. Len(clearing), \A j \in 1 .. i - 1 : Queue!RunGoesOn(j),
           NEW e \in clearing[1] .. clearing[i] + nbufs[clearing[i]] - 1
    PROVE  \E j \in 1 .. i : e \in Queue!Chunk(clearing[j])
<1>1. PICK c : c = clearing
  OBVIOUS
<1>2. i \in Nat /\ i >= 1 /\ \A j \in 1 .. i : c[j] \in Queue!Elems
  <2>1. clearing \in Seq(Queue!Elems) /\ Len(clearing) \in Nat
    BY ChunkTypes, LenProperties
  <2>2. \A j \in 1 .. i : j \in 1 .. Len(clearing)
    BY <2>1
  <2> QED
    BY <1>1, <2>1, <2>2, ElementOfSeq
<1>3. \A j \in 1 .. i : c[j] \in Int /\ nbufs[c[j]] \in Nat
  BY <1>2, OwnChunk DEF Chunked
<1>4. \A j \in 1 .. i - 1 : c[j] + nbufs[c[j]] = c[j + 1]
  BY <1>1 DEF Queue!RunGoesOn
<1>5. e \in Int /\ c[1] <= e /\ e <= c[i] + nbufs[c[i]] - 1
  <2>1. 1 \in 1 .. i /\ i \in 1 .. i
    BY <1>2
  <2> QED
    BY <1>1, <1>3, <2>1
<1>6. PICK T : T = {j \in 1 .. i : c[j] <= e}
  OBVIOUS
<1>7. 1 \in T /\ T \subseteq Int /\ IsFiniteSet(T)
  <2>1. IsFiniteSet(1 .. i) /\ T \subseteq 1 .. i
    BY <1>2, <1>6, FS_Interval
  <2> QED
    BY <1>2, <1>5, <1>6, <2>1, FS_Subset
<1>8. PICK m \in T : \A j \in T : m >= j
  BY <1>7, Extremes
<1>9. m \in 1 .. i /\ c[m] <= e
  BY <1>6
<1>10. e <= c[m] + nbufs[c[m]] - 1
  <2>1. CASE m = i
    BY <1>5, <2>1
  <2>2. CASE m # i
    <3>1. m \in 1 .. i - 1 /\ m + 1 \in 1 .. i
      BY <1>2, <1>9, <2>2
    <3>2. m + 1 \notin T
      BY <1>8, <1>9
    <3>3. ~ (c[m + 1] <= e)
      BY <1>6, <3>1, <3>2
    <3>4. c[m] + nbufs[c[m]] = c[m + 1]
      BY <1>4, <3>1
    <3>5. PICK a \in Int, b \in Int, d \in Int : a = c[m] /\ b = nbufs[c[m]] /\ d = c[m + 1]
      <4>1. c[m] \in Int /\ nbufs[c[m]] \in Int /\ c[m + 1] \in Int
        BY <1>3, <1>9, <3>1
      <4> QED
        BY <4>1
    <3>6. ~ (d <= e) /\ a + b = d /\ e \in Int
      BY <1>5, <3>3, <3>4, <3>5
    <3>7. e <= a + b - 1
      BY ONLY <3>5, <3>6
    <3> QED
      BY <3>5, <3>7
  <2> QED
    BY <2>1, <2>2
<1>11. e \in Queue!Chunk(c[m])
  BY <1>3, <1>5, <1>9, <1>10 DEF Queue!Chunk
<1> QED
  BY <1>1, <1>9, <1>11

LEMMA ClearFreeChunked ==
    ASSUME Chunked, NEW i \in 1 .. Capacity, Queue!ClearFree(i)
    PROVE  Slices' /\ ChunkedRest'
<1>1. PICK gone, J : /\ gone = {clearing[j] : j \in 1 .. i}
                     /\ J = clearing[1] .. clearing[i] + nbufs[clearing[i]] - 1
  OBVIOUS
<1>2. /\ i \in 1 .. Len(clearing)
      /\ \A j \in 1 .. i - 1 : Queue!RunGoesOn(j)
      /\ free' = free \cup J
      /\ nbufs' = [h \in Queue!Elems |-> IF h \in gone THEN 0 ELSE nbufs[h]]
      /\ ctrl' = ctrl \ gone
      /\ clearing' = SubSeq(clearing, i + 1, Len(clearing))
      /\ UNCHANGED <<size, queue, fifo_size, fifo_data_size, held>>
  BY <1>1 DEF Queue!ClearFree, Queue!countVars, Queue!getVars
<1>3. /\ clearing' \in Seq(Queue!Elems)
      /\ Once(clearing') /\ Members(clearing') = Members(clearing) \ gone
  <2>1. clearing \in Seq(Queue!Elems) /\ Once(clearing)
    BY ChunkTypes DEF Chunked, Placed
  <2> QED
    BY ONLY <1>1, <1>2, <2>1, AfterSome
<1>4. gone \subseteq Members(clearing)
  <2>1. Len(clearing) \in Nat
    BY ChunkTypes, LenProperties
  <2>2. \A j \in 1 .. i : j \in 1 .. Len(clearing)
    BY <1>2, <2>1
  <2> QED
    BY <1>1, <2>2 DEF Members
<1>5. gone \in SUBSET Queue!Out /\ gone \cap Members(queue) = {} /\ \A g \in Getters : held[g] \notin gone
  <2>1. /\ Members(clearing) \subseteq Queue!Out \ Members(queue)
        /\ \A g \in Getters : held[g] # 0 => held[g] \notin Members(clearing)
        /\ \A g \in Getters : held[g] = 0 => held[g] \notin Queue!Out
    BY ChunkTypes DEF Chunked, Placed
  <2> QED
    BY <1>4, <2>1
<1>6. \A e \in J : \E h \in gone : e \in Queue!Chunk(h)
  BY <1>1, <1>2, RunCovers
<1>7. J \in SUBSET Queue!Elems /\ \A x \in Queue!Out \ gone : J \cap Queue!Chunk(x) = {}
  <2>1. /\ \A h \in Queue!Out : Queue!Chunk(h) \subseteq Queue!Elems
        /\ \A g, h \in Queue!Out : g # h => Queue!Chunk(g) \cap Queue!Chunk(h) = {}
    BY DEF Chunked, Slices
  <2>2. J \in SUBSET Queue!Elems
    BY <1>5, <1>6, <2>1
  <2>3. ASSUME NEW x \in Queue!Out \ gone, NEW e \in J PROVE e \notin Queue!Chunk(x)
    <3>1. PICK h \in gone : e \in Queue!Chunk(h)
      BY <1>6
    <3>2. h \in Queue!Out /\ h # x
      BY <1>5
    <3> QED
      BY <2>1, <3>1, <3>2
  <2> QED
    BY <2>2, <2>3
<1>8. Slices' /\ Queue!Out' = Queue!Out \ gone /\ \A x \in Queue!Out' : nbufs'[x] = nbufs[x]
  <2>1. Slices
    BY DEF Chunked
  <2> QED
    BY ONLY <1>2, <1>5, <1>7, <2>1, PoolGone
<1>9. /\ held' \in [Getters -> Queue!Elems \cup {0}]
      /\ \A g \in Getters : held'[g] = IF held[g] \in gone THEN 0 ELSE held[g]
  BY <1>2, <1>5, ChunkTypes
<1>10. ChunkedRest'
  BY <1>2, <1>3, <1>5, <1>8, <1>9, GoneChunked
<1> QED
  BY <1>8, <1>10

LEMMA ChunkedNext ==
    ASSUME Chunked, Queue!Next
    PROVE  Chunked'
<1>1. Wakened'
  BY WakenedNext DEF Chunked
<1>2. Slices' /\ ChunkedRest'
  <2>1. ASSUME NEW n \in 1 .. AllocLimit, Queue!Alloc(n) PROVE Slices' /\ ChunkedRest'
    BY <2>1, AllocChunked
  <2>2. ASSUME NEW h \in Queue!Elems, NEW k \in 1 .. Capacity, NEW m \in BOOLEAN, Queue!Put(h, k, m)
        PROVE  Slices' /\ ChunkedRest'
    <3>1. /\ h \in Queue!Filling /\ k \in Nat
          /\ fifo_size' = fifo_size + nbufs[h] /\ fifo_data_size' = fifo_data_size + k
          /\ UNCHANGED <<free, ctrl, clearing, held>>
      BY <2>2, QueueAssumption DEF Queue!Put
    <3>2. CASE m /\ queue # <<>> /\ Queue!Mergeable(Queue!Last(queue), h)
      <4>1. /\ queue[Len(queue)] \notin ctrl /\ queue[Len(queue)] + nbufs[queue[Len(queue)]] = h
        BY <3>2 DEF Queue!Mergeable, Queue!Last
      <4>2. /\ nbufs' = [nbufs EXCEPT ![queue[Len(queue)]] = @ + nbufs[h], ![h] = 0]
            /\ size' = [size EXCEPT ![queue[Len(queue)]] = @ + k]
            /\ queue' = queue
        BY <2>2, <3>2 DEF Queue!Put, Queue!Last
      <4> QED
        BY <3>1, <3>2, <4>1, <4>2, MergeChunked
    <3>3. CASE ~ (m /\ queue # <<>> /\ Queue!Mergeable(Queue!Last(queue), h))
      <4>1. queue' = Append(queue, h) /\ size' = [size EXCEPT ![h] = k] /\ nbufs' = nbufs
        BY <2>2, <3>3 DEF Queue!Put
      <4> QED
        BY <3>1, <4>1, PutChunked
    <3> QED
      BY <3>2, <3>3
  <2>3. ASSUME NEW h \in Queue!Elems, Queue!PutControl(h) \/ Queue!Insert(h)
        PROVE  Slices' /\ ChunkedRest'
    <3>1. /\ h \in Queue!Filling /\ 0 \in Nat
          /\ queue' = Append(queue, h) \/ queue' = <<h>> \o queue
          /\ size' = [size EXCEPT ![h] = 0]
          /\ fifo_size' = fifo_size + nbufs[h] /\ fifo_data_size' = fifo_data_size
          /\ ctrl' = ctrl \cup {h} /\ nbufs[h] = 1
          /\ UNCHANGED <<free, nbufs, clearing, held>>
      BY <2>3 DEF Queue!PutControl, Queue!Insert, Queue!ControlReady, Queue!poolVars
    <3>2. fifo_data_size' = fifo_data_size + 0
      BY <3>1, ChunkTypes
    <3> QED
      BY <3>1, <3>2, PutChunked
  <2>4. ASSUME NEW g \in Getters, Queue!Get(g) \/ Queue!Awake(g)
        PROVE  Slices' /\ ChunkedRest'
    <3>1. held[g] = 0
      BY <2>4 DEF Queue!Get, Queue!Awake, Queue!Idle
    <3>2. \/ queue # <<>> /\ Queue!Unqueue(g)
          \/ UNCHANGED <<free, nbufs, size, ctrl, fifo_size, fifo_data_size, queue, clearing, held>>
      BY <2>4 DEF Queue!Get, Queue!Awake, Queue!poolVars, Queue!dataVars, Queue!countVars
    <3>3. CASE UNCHANGED <<free, nbufs, size, ctrl, fifo_size, fifo_data_size, queue, clearing, held>>
      <4>1. Slices'
        BY <3>3 DEF Chunked, Slices, Queue!Out, Queue!Elems, Queue!Chunk
      <4>2. Placed'
        BY <3>3 DEF Chunked, Placed, Queue!Out, Queue!Elems
      <4>3. ControlsOut'
        BY <3>3 DEF Chunked, ControlsOut, Queue!Out, Queue!Elems, Used
      <4>4. Sized'
        BY <3>3 DEF Chunked, Sized, Queue!SizesExact, Queue!Elems
      <4> QED
        BY <4>1, <4>2, <4>3, <4>4 DEF ChunkedRest
    <3> QED
      BY <3>1, <3>2, <3>3, UnqueueChunked
  <2>5. ASSUME NEW g \in Getters, Queue!Release(g) PROVE Slices' /\ ChunkedRest'
    BY <2>5, ReleaseChunked
  <2>6. ASSUME Queue!ClearEnd PROVE Slices' /\ ChunkedRest'
    <3>1. UNCHANGED <<free, nbufs, size, ctrl, fifo_size, fifo_data_size, queue, clearing, held>>
      BY <2>6 DEF Queue!ClearEnd, Queue!poolVars, Queue!dataVars, Queue!countVars, Queue!getVars
    <3>2. Slices'
      BY <3>1 DEF Chunked, Slices, Queue!Out, Queue!Elems, Queue!Chunk
    <3>3. Placed'
      BY <3>1 DEF Chunked, Placed, Queue!Out, Queue!Elems
    <3>4. ControlsOut'
      BY <3>1 DEF Chunked, ControlsOut, Queue!Out, Queue!Elems, Used
    <3>5. Sized'
      BY <3>1 DEF Chunked, Sized, Queue!SizesExact, Queue!Elems
    <3> QED
      BY <3>2, <3>3, <3>4, <3>5 DEF ChunkedRest
  <2> QED
    BY <2>1, <2>2, <2>3, <2>4, <2>5, <2>6, QueueSteps,
       ClearStartChunked, ClearKeepChunked, ClearFreeChunked
<1> QED
  BY <1>1, <1>2 DEF Chunked, ChunkedRest

LEMMA ChunkedInit ==
    ASSUME MCInit
    PROVE  Chunked
<1>1. /\ queue = <<>> /\ clearing = <<>> /\ ctrl = {} /\ fifo_size = 0 /\ fifo_data_size = 0
      /\ free = Queue!Elems /\ nbufs = [h \in Queue!Elems |-> 0] /\ size = [e \in Queue!Elems |-> 0]
      /\ held = [g \in Getters |-> 0]
  BY DEF MCInit, Queue!Init, Queue!PoolInit
<1>2. Queue!Out = {}
  BY <1>1 DEF Queue!Out
<1>3. Slices
  BY <1>1, <1>2 DEF Slices
<1>4. Members(<<>>) = {} /\ Once(<<>>)
  BY DEF Members, Once
<1>5. Placed
  BY <1>1, <1>4 DEF Placed
<1>6. ControlsOut
  BY <1>1 DEF ControlsOut
<1>7. Sized
  <2>1. DOMAIN <<>> = {}
    BY EmptySeq
  <2>2. ASSUME NEW w PROVE Queue!Total(w, <<>>) = 0
    <3>1. PICK f : f = [i \in DOMAIN <<>> |-> w[<<>>[i]]]
      OBVIOUS
    <3>2. f \in [{} -> Int] /\ IsFiniteSet({})
      BY <2>1, <3>1, FS_EmptySet
    <3>3. SumFunction(f) = 0
      BY <3>2, SumOfZero
    <3> QED
      BY <3>1, <3>3, TotalIsSum
  <2> QED
    BY <1>1, <2>2 DEF Sized, Queue!SizesExact
<1> QED
  BY <1>3, <1>5, <1>6, <1>7, WakenedInit DEF Chunked

\* The inductive invariant of the queue: where every chunk is.
THEOREM ChunkedInvariant == MCSpec => []Chunked
<1>1. ASSUME Chunked, [MCNext]_<<part, vars, queueOnly, listOnly, inputOnly>>
      PROVE  Chunked'
  <2>1. Queue!Next \/ UNCHANGED queueOnly
    BY <1>1 DEF MCNext
  <2>2. CASE UNCHANGED queueOnly
    <3>1. UNCHANGED <<free, nbufs, size, ctrl, fifo_size, fifo_data_size, queue, clearing, held>>
      BY <2>2 DEF queueOnly
    <3>2. Wakened'
      BY <1>1, <2>2 DEF Chunked, Wakened, queueOnly
    <3>3. Slices'
      BY <1>1, <3>1 DEF Chunked, Slices, Queue!Out, Queue!Elems, Queue!Chunk
    <3>4. Placed'
      BY <1>1, <3>1 DEF Chunked, Placed, Queue!Out, Queue!Elems
    <3>5. ControlsOut'
      BY <1>1, <3>1 DEF Chunked, ControlsOut, Queue!Out, Queue!Elems, Used
    <3>6. Sized'
      BY <1>1, <3>1 DEF Chunked, Sized, Queue!SizesExact, Queue!Elems
    <3> QED
      BY <3>2, <3>3, <3>4, <3>5, <3>6 DEF Chunked
  <2> QED
    BY <1>1, <2>1, <2>2, ChunkedNext
<1> QED
  BY <1>1, ChunkedInit, PTL DEF MCSpec

\* A chunk is queued once, or being cleared, or with one getter, and fifo_size
\* and fifo_data_size are the sums over what is queued: after any mix of
\* merging, inserting, and a clear that works in several locked sections.
THEOREM AccountedHolds == MCSpec => []Accounted
<1>1. ASSUME Chunked PROVE Accounted
  <2>1. Queue!SizesExact
    BY <1>1 DEF Chunked, Sized
  <2>2. Queue!OnePlace
    <3>1. PICK all : all = queue \o clearing
      OBVIOUS
    <3>2. PICK n, c : n = Len(queue) /\ c = Len(clearing)
      OBVIOUS
    <3>3. /\ n \in Nat /\ c \in Nat /\ Len(all) = n + c /\ DOMAIN all = 1 .. n + c
          /\ \A k \in 1 .. n + c : all[k] = IF k <= n THEN queue[k] ELSE clearing[k - n]
      BY <1>1, <3>1, <3>2, ChunkTypes, ConcatProperties, LenProperties
    <3>4. /\ Once(queue) /\ Once(clearing) /\ Members(queue) \subseteq Queue!Out
          /\ Members(clearing) \subseteq Queue!Out \ Members(queue)
          /\ \A e \in Getters : held[e] # 0 =>
               /\ held[e] \in Queue!Out \ (Members(queue) \cup Members(clearing))
               /\ \A f \in Getters \ {e} : held[f] # held[e]
      BY <1>1 DEF Chunked, Placed
    <3>5. ASSUME NEW k \in 1 .. n + c
          PROVE  IF k <= n THEN k \in 1 .. n /\ all[k] = queue[k] /\ all[k] \in Members(queue)
                           ELSE k - n \in 1 .. c /\ all[k] = clearing[k - n] /\ all[k] \in Members(clearing)
      <4>1. CASE k <= n
        <5>1. k \in 1 .. n /\ all[k] = queue[k]
          BY <3>3, <4>1
        <5> QED
          BY <3>2, <4>1, <5>1 DEF Members
      <4>2. CASE ~ (k <= n)
        <5>1. k - n \in 1 .. c /\ all[k] = clearing[k - n]
          BY <3>3, <4>2
        <5> QED
          BY <3>2, <4>2, <5>1 DEF Members
      <4> QED
        BY <4>1, <4>2
    <3>6. Queue!IsInjective(all)
      <4> SUFFICES ASSUME NEW k \in 1 .. n + c, NEW l \in 1 .. n + c, all[k] = all[l] PROVE k = l
        BY <3>3 DEF Queue!IsInjective
      <4>1. CASE k <= n /\ l <= n
        BY <3>2, <3>4, <3>5, <4>1 DEF Once
      <4>2. CASE ~ (k <= n) /\ ~ (l <= n)
        <5>1. k - n \in 1 .. c /\ l - n \in 1 .. c /\ clearing[k - n] = clearing[l - n]
          BY <3>5, <4>2
        <5>2. k - n = l - n
          BY <3>2, <3>4, <5>1 DEF Once
        <5> QED
          BY <3>3, <5>2
      <4>3. CASE (k <= n) # (l <= n)
        BY <3>4, <3>5, <4>3
      <4> QED
        BY <4>1, <4>2, <4>3
    <3>7. \A x : (\E k \in 1 .. n + c : all[k] = x) => x \in Members(queue) \cup Members(clearing)
      BY <3>5
    <3>8. Queue!Range(all) \subseteq Queue!Out
      BY <3>3, <3>4, <3>7 DEF Queue!Range
    <3>9. \A x : Queue!Contains(all, x) => x \in Members(queue) \cup Members(clearing)
      BY <3>3, <3>7 DEF Queue!Contains
    <3> QED
      BY <3>1, <3>4, <3>6, <3>8, <3>9 DEF Queue!OnePlace
  <2> QED
    BY <2>1, <2>2 DEF Accounted, Queue!Accounted
<1> QED
  BY <1>1, ChunkedInvariant, PTL
-----------------------------------------------------------------------------
(* The input cache. *)

\* The window has no more than what the main plugin has delivered before its
\* position, which is in the input; what is used up of it is in the window.
WindowKnown ==
    /\ buf \in Seq(Int) /\ buf_pos \in 0 .. Len(buf)
    /\ main \in 0 .. Length /\ Len(buf) <= main

\* The bytes from a place on; they continue those before.
LEMMA BytesOf ==
    ASSUME NEW x \in Int, NEW n \in Nat
    PROVE  /\ Cache!Promise!Bytes(x, n) \in Seq(Int) /\ Len(Cache!Promise!Bytes(x, n)) = n
           /\ \A i \in 1 .. n : Cache!Promise!Bytes(x, n)[i] = x + i - 1
<1>1. \A i \in 1 .. n : x + i - 1 \in Int
  OBVIOUS
<1> QED
  BY <1>1 DEF Cache!Promise!Bytes

LEMMA InputOf ==
    ASSUME NEW n PROVE Cache!Input(n) = Cache!Promise!Bytes(main, n)
  BY DEF Cache!Input, Cache!Promise!Bytes

LEMMA PartOfBytes ==
    ASSUME NEW x \in Int, NEW n \in Nat, NEW p \in Nat, NEW k \in Nat, p + k <= n
    PROVE  SubSeq(Cache!Promise!Bytes(x, n), p + 1, p + k) = Cache!Promise!Bytes(x + p, k)
<1>1. PICK b : b = Cache!Promise!Bytes(x, n)
  OBVIOUS
<1>2. b \in Seq(Int) /\ Len(b) = n /\ \A i \in 1 .. n : b[i] = x + i - 1
  BY <1>1, BytesOf
<1>3. PICK d : d = SubSeq(b, p + 1, p + k)
  OBVIOUS
<1>4. d \in Seq(Int) /\ Len(d) = k /\ \A i \in 1 .. k : d[i] = x + p + i - 1
  <2>1. PICK u \in Int, w \in Int : u = p + 1 /\ w = p + k
    OBVIOUS
  <2>2. \A i \in u .. w : b[i] \in Int
    <3>1. \A i \in u .. w : i \in 1 .. n
      BY <2>1
    <3> QED
      BY <1>2, <3>1
  <2>3. d = SubSeq(b, u, w)
    BY <1>3, <2>1
  <2>4. /\ d \in Seq(Int) /\ Len(d) = IF u <= w THEN w - u + 1 ELSE 0
        /\ \A i \in 1 .. w - u + 1 : d[i] = b[u + i - 1]
    BY ONLY <2>2, <2>3, SubSeqProperties
  <2>5. Len(d) = k /\ w - u + 1 = k
    BY <2>1, <2>4
  <2>6. ASSUME NEW i \in 1 .. k PROVE d[i] = x + p + i - 1
    <3>1. u + i - 1 \in 1 .. n /\ u + i - 1 = p + i
      BY <2>1
    <3>2. d[i] = b[u + i - 1]
      BY <2>4, <2>5
    <3>3. b[u + i - 1] = x + (u + i - 1) - 1
      BY <1>2, <3>1
    <3> QED
      BY <2>1, <3>2, <3>3
  <2> QED
    BY <2>4, <2>5, <2>6
<1>5. /\ Cache!Promise!Bytes(x + p, k) \in Seq(Int) /\ Len(Cache!Promise!Bytes(x + p, k)) = k
      /\ \A i \in 1 .. k : Cache!Promise!Bytes(x + p, k)[i] = (x + p) + i - 1
  BY BytesOf
<1> QED
  BY <1>1, <1>3, <1>4, <1>5, SeqEqual

LEMMA BytesGoOn ==
    ASSUME NEW x \in Int, NEW a \in Nat, NEW b \in Nat
    PROVE  Cache!Promise!Bytes(x, a) \o Cache!Promise!Bytes(x + a, b)
             = Cache!Promise!Bytes(x, a + b)
<1>1. PICK s, t, u : /\ s = Cache!Promise!Bytes(x, a)
                     /\ t = Cache!Promise!Bytes(x + a, b)
                     /\ u = Cache!Promise!Bytes(x, a + b)
  OBVIOUS
<1>2. /\ s \in Seq(Int) /\ Len(s) = a /\ \A i \in 1 .. a : s[i] = x + i - 1
      /\ t \in Seq(Int) /\ Len(t) = b /\ \A i \in 1 .. b : t[i] = (x + a) + i - 1
      /\ u \in Seq(Int) /\ Len(u) = a + b /\ \A i \in 1 .. a + b : u[i] = x + i - 1
  <2>1. s \in Seq(Int) /\ Len(s) = a /\ \A i \in 1 .. a : s[i] = x + i - 1
    BY <1>1, BytesOf
  <2>2. t \in Seq(Int) /\ Len(t) = b /\ \A i \in 1 .. b : t[i] = (x + a) + i - 1
    <3>1. x + a \in Int
      OBVIOUS
    <3> QED
      BY <1>1, <3>1, BytesOf
  <2>3. u \in Seq(Int) /\ Len(u) = a + b /\ \A i \in 1 .. a + b : u[i] = x + i - 1
    <3>1. a + b \in Nat
      OBVIOUS
    <3> QED
      BY <1>1, <3>1, BytesOf
  <2> QED
    BY <2>1, <2>2, <2>3
<1>3. s \o t \in Seq(Int) /\ Len(s \o t) = a + b
  BY <1>2, ConcatProperties
<1>4. ASSUME NEW i \in 1 .. a + b PROVE (s \o t)[i] = u[i]
  <2>1. CASE i <= a
    <3>1. (s \o t)[i] = s[i]
      BY <1>2, <2>1, ConcatProperties
    <3> QED
      BY <1>2, <2>1, <3>1
  <2>2. CASE ~ (i <= a)
    <3>1. (s \o t)[i] = t[i - a]
      BY <1>2, <2>2, ConcatProperties
    <3>2. i - a \in 1 .. b
      BY <2>2
    <3> QED
      BY <1>2, <3>1, <3>2
  <2> QED
    BY <2>1, <2>2
<1> QED
  BY <1>1, <1>2, <1>3, <1>4, SeqEqual

LEMMA LeastOf ==
    ASSUME NEW a \in Int, NEW b \in Int
    PROVE  Cache!Least(a, b) = IF a < b THEN a ELSE b
  BY DEF Cache!Least

\* What is left in the window, and the position of the cache.
LEMMA WindowIs ==
    ASSUME WindowKnown
    PROVE  /\ Cache!Rest = Len(buf) - buf_pos /\ Len(buf) \in Nat
           /\ Cache!Rest \in Nat /\ Cache!Rest <= main
           /\ main - Cache!Rest \in 0 .. Length
           /\ Cache!Position = main - Cache!Rest
<1>1. Len(buf) \in Nat
  BY LenProperties DEF WindowKnown
<1>2. Cache!Rest = Len(buf) - buf_pos
  BY DEF Cache!Rest, Cache!buf_len
<1> QED
  BY <1>1, <1>2, CacheAssumption DEF WindowKnown, Cache!Position

\* A window that is not stale has the bytes before the main plugin's position.
LEMMA WindowHas ==
    ASSUME WindowKnown, ~ Cache!Stale, NEW n \in 0 .. Cache!Rest
    PROVE  Cache!Window(buf_pos, n) = Cache!Promise!Bytes(main - Cache!Rest, n)
<1>1. PICK l \in Nat, p \in Nat, m \in Nat : l = Len(buf) /\ p = buf_pos /\ m = main
  <2>1. Len(buf) \in Nat /\ buf_pos \in Nat /\ main \in Nat
    BY WindowIs DEF WindowKnown
  <2> QED
    BY <2>1
<1>2. buf = Cache!Promise!Bytes(m - l, l)
  <2>1. buf = [i \in 1 .. l |-> m - l + i - 1]
    BY <1>1 DEF Cache!Stale, Cache!buf_len
  <2> QED
    BY <2>1 DEF Cache!Promise!Bytes
<1>3. Cache!Rest = l - p
  BY <1>1, WindowIs
<1>4. n \in Nat /\ p + n <= l /\ m - l \in Int
  BY <1>1, <1>3
<1>5. SubSeq(buf, p + 1, p + n) = Cache!Promise!Bytes((m - l) + p, n)
  BY <1>2, <1>4, PartOfBytes
<1>6. (m - l) + p = m - (l - p)
  OBVIOUS
<1> QED
  BY <1>1, <1>3, <1>5, <1>6 DEF Cache!Window

\* The window and what is delivered into it: the first got bytes behind the main
\* plugin's position, of which p are used.
LEMMA WindowFilled ==
    ASSUME WindowKnown, NEW got \in Nat, main + got <= Length, NEW p \in 0 .. got,
           main' = main + got, buf_pos' = p, buf' = Cache!Input(got)
    PROVE  WindowKnown' /\ Cache!Rest' = got - p /\ (main - Cache!Rest)' = main + p
<1>1. main \in 0 .. Length /\ Length \in Nat
  BY CacheAssumption DEF WindowKnown
<1>2. buf' \in Seq(Int) /\ Len(buf') = got
  BY <1>1, InputOf, BytesOf
<1>3. WindowKnown'
  BY <1>1, <1>2 DEF WindowKnown
<1>4. Cache!Rest' = got - p
  BY <1>2 DEF Cache!Rest, Cache!buf_len
<1> QED
  BY <1>1, <1>3, <1>4

\* The window is given up.
LEMMA WindowGone ==
    ASSUME main' \in 0 .. Length, buf_pos' = 0, buf' = <<>>
    PROVE  WindowKnown' /\ (main - Cache!Rest)' = main'
<1>1. buf' \in Seq(Int) /\ Len(buf') = 0
  BY EmptySeq
<1>2. Cache!Rest' = 0
  BY <1>1 DEF Cache!Rest, Cache!buf_len
<1>3. PICK m \in Int : m = main' /\ 0 <= m /\ m <= Length
  <2>1. main' \in Int /\ 0 <= main' /\ main' <= Length
    BY CacheAssumption
  <2> QED
    BY <2>1
<1>4. WindowKnown'
  BY <1>1, <1>3 DEF WindowKnown
<1>5. (main - Cache!Rest)' = m - 0
  BY <1>2, <1>3
<1>6. m - 0 = m
  OBVIOUS
<1> QED
  BY <1>3, <1>4, <1>5, <1>6

\* The window stays, and another place of it is next.
LEMMA WindowStays ==
    ASSUME WindowKnown, buf_pos' \in 0 .. Len(buf), UNCHANGED <<main, buf>>
    PROVE  WindowKnown' /\ (main - Cache!Rest)' = main - Cache!Rest + (buf_pos' - buf_pos)
<1>1. WindowKnown'
  BY DEF WindowKnown
<1>2. Cache!Rest' = Len(buf) - buf_pos'
  BY DEF Cache!Rest, Cache!buf_len
<1> QED
  BY <1>1, <1>2, WindowIs DEF WindowKnown

\* A read delivers the bytes asked for, or those up to the end of the input, or
\* fails.
ReadKept(n) ==
    \/ /\ (main - Cache!Rest)' = IF main - Cache!Rest + n <= Length
                                 THEN main - Cache!Rest + n ELSE Length
       /\ ~ Cache!Stale =>
             answer' = Cache!Promise!Bytes(main - Cache!Rest,
                                           (main - Cache!Rest)' - (main - Cache!Rest))
    \/ /\ (main - Cache!Rest)' \in main - Cache!Rest .. Length
       /\ answer' = Cache!Promise!Failed

LEMMA ReadInsideKept ==
    ASSUME WindowKnown, NEW n \in 1 .. MaxRead, Cache!ReadInside(n)
    PROVE  WindowKnown' /\ ReadKept(n)
<1>1. PICK r \in Nat, a \in 0 .. Length : r = Cache!Rest /\ a = main - Cache!Rest
  BY WindowIs
<1>2. /\ n <= r /\ answer' = Cache!Window(buf_pos, n)
      /\ buf_pos' = buf_pos + n /\ UNCHANGED <<main, buf>>
  BY <1>1 DEF Cache!ReadInside
<1>3. n \in 0 .. r /\ n \in Nat /\ Length \in Nat
  BY <1>1, <1>2, CacheAssumption
<1>4. buf_pos' \in 0 .. Len(buf) /\ buf_pos' - buf_pos = n
  BY <1>1, <1>2, <1>3, WindowIs DEF WindowKnown
<1>5. WindowKnown' /\ (main - Cache!Rest)' = a + n
  BY <1>1, <1>2, <1>4, WindowStays
<1>6. a + n <= Length
  BY <1>1, <1>2, <1>3, WindowIs DEF WindowKnown
<1>7. ~ Cache!Stale => answer' = Cache!Promise!Bytes(a, n)
  BY <1>1, <1>2, <1>3, WindowHas
<1>8. (a + n) - a = n
  BY <1>3
<1> QED
  BY <1>1, <1>5, <1>6, <1>7, <1>8 DEF ReadKept

\* The bytes left in the window, with those behind them.
LEMMA WindowGoesOn ==
    ASSUME WindowKnown, ~ Cache!Stale, NEW n \in Nat
    PROVE  Cache!Window(buf_pos, Cache!Rest) \o Cache!Promise!Bytes(main, n)
             = Cache!Promise!Bytes(main - Cache!Rest, Cache!Rest + n)
<1>1. PICK r \in Nat, a \in Int : r = Cache!Rest /\ a = main - Cache!Rest /\ main = a + r
  <2>1. Cache!Rest \in Nat /\ main \in Int
    BY WindowIs DEF WindowKnown
  <2>2. main - Cache!Rest \in Int /\ main = (main - Cache!Rest) + Cache!Rest
    BY <2>1
  <2> QED
    BY <2>1, <2>2
<1>2. r \in 0 .. r
  OBVIOUS
<1>3. Cache!Window(buf_pos, r) = Cache!Promise!Bytes(a, r)
  BY <1>1, <1>2, WindowHas
<1> QED
  BY <1>1, <1>3, BytesGoOn

LEMMA ReadAheadKept ==
    ASSUME WindowKnown, NEW n \in 1 .. MaxRead, Cache!ReadAhead(n)
    PROVE  WindowKnown' /\ ReadKept(n)
<1>1. PICK r \in Nat, a \in 0 .. Length, m \in 0 .. Length :
        r = Cache!Rest /\ a = main - Cache!Rest /\ m = main /\ m = a + r
  <2>1. Cache!Rest \in Nat /\ main \in 0 .. Length /\ main - Cache!Rest \in 0 .. Length
    BY WindowIs DEF WindowKnown
  <2>2. main = (main - Cache!Rest) + Cache!Rest
    BY <2>1, CacheAssumption
  <2> QED
    BY <2>1, <2>2
<1>2. PICK todo \in Nat : todo = n - r /\ n > r /\ todo < BufSize /\ todo = Cache!Missing(n)
  <2>1. n > r /\ Cache!Missing(n) = n - r /\ Cache!Missing(n) < BufSize
    BY <1>1 DEF Cache!ReadAhead, Cache!Missing
  <2> QED
    BY <1>1, <2>1
<1>3. PICK got \in 0 .. Cache!Least(BufSize, Length - m) :
        /\ got >= todo \/ m + got = Length
        /\ answer' = Cache!Window(buf_pos, r) \o SubSeq(Cache!Input(got), 1, Cache!Least(todo, got))
        /\ buf' = Cache!Input(got)
        /\ buf_pos' = Cache!Least(todo, got)
        /\ main' = m + got
  BY <1>1, <1>2 DEF Cache!ReadAhead
<1>4. got \in Nat /\ m + got <= Length
  BY <1>3, LeastOf, CacheAssumption
<1>5. PICK p \in 0 .. got : p = Cache!Least(todo, got) /\ p = IF todo < got THEN todo ELSE got
  BY <1>2, <1>4, LeastOf
<1>6. WindowKnown' /\ (main - Cache!Rest)' = m + p
  BY <1>1, <1>3, <1>4, <1>5, WindowFilled
<1>7. m + p = a + (r + p) /\ m + p = IF a + n <= Length THEN a + n ELSE Length
  <2>1. got >= todo \/ m + got = Length
    BY <1>3
  <2>2. m = a + r /\ todo = n - r
    BY <1>1, <1>2
  <2>3. Length \in Nat
    BY CacheAssumption
  <2>4. m + got <= Length /\ p = IF todo < got THEN todo ELSE got
    BY <1>4, <1>5
  <2>5. got \in Nat
    BY <1>4
  <2>6. m + p = a + (r + p)
    BY ONLY <2>2, <2>5, p \in 0 .. got, r \in Nat, a \in 0 .. Length, <2>3
  <2>7. CASE todo < got
    BY ONLY <2>2, <2>3, <2>4, <2>5, <2>7, r \in Nat, a \in 0 .. Length, todo \in Nat, n \in 1 .. MaxRead, CacheAssumption
  <2>8. CASE ~ (todo < got)
    BY ONLY <2>1, <2>2, <2>3, <2>4, <2>5, <2>8, r \in Nat, a \in 0 .. Length, todo \in Nat, n \in 1 .. MaxRead, CacheAssumption
  <2> QED
    BY <2>6, <2>7, <2>8
<1>8. SubSeq(Cache!Input(got), 1, p) = Cache!Promise!Bytes(m, p)
  <2>1. Cache!Input(got) = Cache!Promise!Bytes(m, got)
    BY <1>1, InputOf
  <2>2. PICK z \in Nat : z = 0
    OBVIOUS
  <2>3. z + p <= got /\ z + 1 = 1 /\ z + p = p /\ m + z = m /\ p \in Nat /\ m \in Int
    BY <1>4, <1>5, <2>2, CacheAssumption
  <2>4. SubSeq(Cache!Promise!Bytes(m, got), z + 1, z + p) = Cache!Promise!Bytes(m + z, p)
    BY ONLY got \in Nat, <2>3, z \in Nat, PartOfBytes
  <2> QED
    BY <2>1, <2>3, <2>4
<1>9. ~ Cache!Stale => answer' = Cache!Promise!Bytes(a, r + p)
  <2>1. p \in Nat
    BY <1>4, <1>5
  <2> QED
    BY <1>1, <1>3, <1>5, <1>8, <2>1, WindowGoesOn
<1>10. (m + p) - a = r + p
  BY <1>1, <1>4, <1>5
<1> QED
  BY <1>1, <1>6, <1>7, <1>9, <1>10 DEF ReadKept

LEMMA ReadAheadFailsKept ==
    ASSUME WindowKnown, NEW n \in 1 .. MaxRead, Cache!ReadAheadFails(n)
    PROVE  WindowKnown' /\ ReadKept(n)
<1>1. PICK m \in 0 .. Length : m = main
  BY DEF WindowKnown
<1>2. Cache!Rest \in Nat /\ main - Cache!Rest \in 0 .. Length /\ Cache!Rest <= m
  BY <1>1, WindowIs
<1>3. PICK todo \in Int : todo = Cache!Missing(n)
  BY <1>2 DEF Cache!Missing
<1>4. PICK got \in 0 .. Cache!Least(todo - 1, Length - m) :
        buf' = Cache!Input(got) /\ main' = m + got /\ buf_pos' = 0 /\ answer' = Cache!Failed
  BY <1>1, <1>3 DEF Cache!ReadAheadFails
<1>5. got \in Nat /\ m + got <= Length /\ 0 \in 0 .. got
  BY <1>3, <1>4, LeastOf, CacheAssumption
<1>6. WindowKnown' /\ (main - Cache!Rest)' = m + 0
  BY <1>1, <1>4, <1>5, WindowFilled
<1>7. m + 0 \in main - Cache!Rest .. Length
  BY <1>1, <1>2, CacheAssumption
<1>8. answer' = Cache!Promise!Failed
  BY <1>4 DEF Cache!Failed, Cache!Promise!Failed
<1> QED
  BY <1>6, <1>7, <1>8 DEF ReadKept

LEMMA ReadDirectKept ==
    ASSUME WindowKnown, NEW n \in 1 .. MaxRead, Cache!ReadDirect(n)
    PROVE  WindowKnown' /\ ReadKept(n)
<1>1. PICK r \in Nat, a \in 0 .. Length, m \in 0 .. Length :
        r = Cache!Rest /\ a = main - Cache!Rest /\ m = main /\ m = a + r
  <2>1. Cache!Rest \in Nat /\ main \in 0 .. Length /\ main - Cache!Rest \in 0 .. Length
    BY WindowIs DEF WindowKnown
  <2>2. main = (main - Cache!Rest) + Cache!Rest
    BY <2>1, CacheAssumption
  <2> QED
    BY <2>1, <2>2
<1>2. n > r /\ Cache!Missing(n) = n - r
  BY <1>1 DEF Cache!ReadDirect, Cache!Missing
<1>3. PICK got : got = Cache!Least(n - r, Length - m)
  OBVIOUS
<1>4. /\ answer' = Cache!Window(buf_pos, r) \o Cache!Input(got)
      /\ buf' = <<>> /\ buf_pos' = 0 /\ main' = m + got
  BY <1>1, <1>2, <1>3 DEF Cache!ReadDirect
<1>5. got \in Nat /\ m + got \in 0 .. Length /\ got = IF n - r < Length - m THEN n - r ELSE Length - m
  BY <1>1, <1>2, <1>3, LeastOf, CacheAssumption
<1>6. WindowKnown' /\ (main - Cache!Rest)' = m + got
  BY <1>4, <1>5, WindowGone
<1>7. m + got = a + (r + got) /\ m + got = IF a + n <= Length THEN a + n ELSE Length
  BY <1>1, <1>2, <1>5, CacheAssumption
<1>8. ~ Cache!Stale => answer' = Cache!Promise!Bytes(a, r + got)
  BY <1>1, <1>4, <1>5, InputOf, WindowGoesOn
<1>9. (m + got) - a = r + got
  BY <1>1, <1>5
<1> QED
  BY <1>1, <1>6, <1>7, <1>8, <1>9 DEF ReadKept

LEMMA ReadDirectFailsKept ==
    ASSUME WindowKnown, NEW n \in 1 .. MaxRead, Cache!ReadDirectFails(n)
    PROVE  WindowKnown' /\ ReadKept(n)
<1>1. PICK m \in 0 .. Length : m = main
  BY DEF WindowKnown
<1>2. Cache!Rest \in Nat /\ main - Cache!Rest \in 0 .. Length /\ Cache!Rest <= m
  BY <1>1, WindowIs
<1>3. PICK todo \in Int : todo = Cache!Missing(n)
  BY <1>2 DEF Cache!Missing
<1>4. PICK got \in 0 .. Cache!Least(todo - 1, Length - m) : main' = m + got
  BY <1>1, <1>3 DEF Cache!ReadDirectFails
<1>5. buf' = <<>> /\ buf_pos' = 0 /\ answer' = Cache!Failed
  BY DEF Cache!ReadDirectFails
<1>6. got \in Nat /\ m + got \in 0 .. Length
  BY <1>3, <1>4, LeastOf, CacheAssumption
<1>7. WindowKnown' /\ (main - Cache!Rest)' = m + got
  BY <1>4, <1>5, <1>6, WindowGone
<1>8. m + got \in main - Cache!Rest .. Length
  BY <1>1, <1>2, <1>6, CacheAssumption
<1>9. answer' = Cache!Promise!Failed
  BY <1>5 DEF Cache!Failed, Cache!Promise!Failed
<1> QED
  BY <1>7, <1>8, <1>9 DEF ReadKept

LEMMA EveryReadKept ==
    ASSUME WindowKnown, NEW n \in 1 .. MaxRead, Cache!Read(n)
    PROVE  WindowKnown' /\ ReadKept(n)
  BY ReadInsideKept, ReadAheadKept, ReadAheadFailsKept, ReadDirectKept, ReadDirectFailsKept
     DEF Cache!Read

\* The same of the next state.
LEMMA WindowIsNext ==
    ASSUME WindowKnown'
    PROVE  (main - Cache!Rest)' \in 0 .. Length
<1>1. Len(buf') \in Nat
  BY LenProperties DEF WindowKnown
<1>2. Cache!Rest' = Len(buf') - buf_pos'
  BY DEF Cache!Rest, Cache!buf_len
<1>3. buf_pos' \in 0 .. Len(buf') /\ main' \in 0 .. Length /\ Len(buf') <= main'
  BY DEF WindowKnown
<1>4. main' - (Len(buf') - buf_pos') \in 0 .. Length
  BY <1>1, <1>3, CacheAssumption
<1> QED
  BY <1>2, <1>4

\* What a read or a block promises.
LEMMA ReadPromised ==
    ASSUME WindowKnown, WindowKnown', ~ Cache!Stale, NEW n \in 1 .. MaxRead,
           ReadKept(n), asked' = <<"read", n>> \/ asked' = <<"block", n>>
    PROVE  Cache!Promise!Next
<1>1. PICK a \in 0 .. Length, b \in 0 .. Length : a = main - Cache!Rest /\ b = (main - Cache!Rest)'
  <2>1. main - Cache!Rest \in 0 .. Length
    BY WindowIs
  <2>2. (main - Cache!Rest)' \in 0 .. Length
    BY WindowIsNext
  <2> QED
    BY <2>1, <2>2
<1>2. CASE b \in a .. Length /\ answer' = Cache!Promise!Failed
  <2>1. asked'[1] \notin {"open", "tell"}
    OBVIOUS
  <2>2. Cache!Promise!Fail
    BY <1>1, <1>2, <2>1 DEF Cache!Promise!Fail
  <2> QED
    BY <2>2 DEF Cache!Promise!Next
<1>3. CASE (b = IF a + n <= Length THEN a + n ELSE Length) /\ answer' = Cache!Promise!Bytes(a, b - a)
  <2>1. CASE asked' = <<"read", n>>
    <3>1. Cache!Promise!Read(n)
      BY <1>1, <1>3, <2>1 DEF Cache!Promise!Read
    <3> QED
      BY <3>1 DEF Cache!Promise!Next
  <2>2. CASE asked' = <<"block", n>>
    <3>1. b - a \in 0 .. n /\ a + (b - a) = b /\ a + (b - a) <= Length
      BY <1>3, CacheAssumption
    <3>2. Cache!Promise!ReadBlock(n)
      BY <1>1, <1>3, <2>2, <3>1 DEF Cache!Promise!ReadBlock
    <3> QED
      BY <3>2 DEF Cache!Promise!Next
  <2> QED
    BY <2>1, <2>2
<1> QED
  BY <1>1, <1>2, <1>3 DEF ReadKept

LEMMA ReadBlockKept ==
    ASSUME WindowKnown, NEW n \in 1 .. MaxRead, Cache!ReadBlock(n)
    PROVE  WindowKnown' /\ (~ Cache!Stale => Cache!Promise!Next)
<1>1. CASE Cache!Read(n)
  <2>1. WindowKnown' /\ ReadKept(n) /\ asked' = <<"block", n>>
    BY <1>1, EveryReadKept DEF Cache!ReadBlock
  <2> QED
    BY <2>1, ReadPromised
<1>2. CASE ~ Cache!Read(n)
  <2>1. PICK a \in 0 .. Length, l \in Nat :
          a = main /\ a = main - Cache!Rest /\ l = Len(buf) /\ l <= a /\ buf_pos = l
    <3>1. Cache!Rest <= 0
      BY <1>2 DEF Cache!ReadBlock
    <3>2. main \in 0 .. Length /\ Len(buf) \in Nat /\ Len(buf) <= main /\ Cache!Rest \in Nat
      BY WindowIs DEF WindowKnown
    <3>3. Cache!Rest = 0
      BY <3>1, <3>2
    <3>4. main - Cache!Rest = main
      BY <3>2, <3>3, CacheAssumption
    <3>5. buf_pos = Len(buf)
      BY <3>2, <3>3, WindowIs DEF WindowKnown
    <3> QED
      BY <3>2, <3>4, <3>5
  <2>2. PICK got \in 0 .. Cache!Least(n, Length - a) :
          answer' = Cache!Input(got) /\ main' = main + got
    BY <1>2, <2>1 DEF Cache!ReadBlock
  <2>3. asked' = <<"block", n>> /\ UNCHANGED <<buf, buf_pos>>
    BY <1>2 DEF Cache!ReadBlock
  <2>4. got \in 0 .. n /\ a + got \in 0 .. Length /\ n \in Nat
    BY <2>2, LeastOf, CacheAssumption
  <2>5. WindowKnown'
    <3>1. buf' \in Seq(Int) /\ buf_pos' \in 0 .. Len(buf')
      BY <2>3 DEF WindowKnown
    <3>2. main' = a + got /\ Len(buf') = l
      BY <2>1, <2>2, <2>3
    <3>3. l <= a + got
      BY <2>1, <2>4
    <3> QED
      BY <2>4, <3>1, <3>2, <3>3 DEF WindowKnown
  <2>6. (main - Cache!Rest)' = a + got
    <3>1. Cache!Rest' = l - l
      BY <2>1, <2>3 DEF Cache!Rest, Cache!buf_len
    <3>2. main' = a + got
      BY <2>1, <2>2
    <3>3. (main - Cache!Rest)' = (a + got) - (l - l)
      BY <3>1, <3>2
    <3>4. (a + got) - (l - l) = a + got
      BY <2>4
    <3> QED
      BY <3>3, <3>4
  <2>7. a + got <= Length
    BY <2>4, CacheAssumption
  <2>8. Cache!Promise!ReadBlock(n)
    BY <2>1, <2>2, <2>3, <2>4, <2>6, <2>7, InputOf DEF Cache!Promise!ReadBlock
  <2> QED
    BY <2>5, <2>8 DEF Cache!Promise!Next
<1> QED
  BY <1>1, <1>2

\* A seek in the window, or of the main plugin.
LEMMA SeekServes ==
    ASSUME WindowKnown, NEW newPos \in Int, NEW position \in Int, Cache!Seek(newPos, position)
    PROVE  /\ WindowKnown'
           /\ \/ /\ (main - Cache!Rest)' = main - Cache!Rest + (newPos - buf_pos)
                 /\ answer' = <<(main - Cache!Rest)'>>
              \/ (main - Cache!Rest)' = position /\ answer' = <<position>>
              \/ (main - Cache!Rest)' = main /\ answer' = Cache!Promise!Failed
<1>1. CASE Cache!buf_len > 0 /\ newPos >= 0 /\ newPos < Cache!buf_len
  <2>1. /\ buf_pos' = newPos /\ answer' = <<Cache!Position + newPos - buf_pos>>
        /\ UNCHANGED <<main, buf>>
    BY <1>1 DEF Cache!Seek
  <2>2. newPos \in 0 .. Len(buf)
    BY <1>1, WindowIs DEF Cache!buf_len
  <2>3. WindowKnown' /\ (main - Cache!Rest)' = main - Cache!Rest + (newPos - buf_pos)
    BY <2>1, <2>2, WindowStays
  <2>4. PICK a \in Int, p \in Int : a = Cache!Position /\ a = main - Cache!Rest /\ p = buf_pos
    <3>1. main - Cache!Rest \in Int /\ buf_pos \in Int
      BY WindowIs DEF WindowKnown
    <3> QED
      BY <3>1, WindowIs
  <2>5. a + newPos - p = a + (newPos - p)
    OBVIOUS
  <2> QED
    BY <2>1, <2>3, <2>4, <2>5
<1>2. CASE ~ (Cache!buf_len > 0 /\ newPos >= 0 /\ newPos < Cache!buf_len)
  <2>1. Cache!MainSeek(position)
    BY <1>2 DEF Cache!Seek
  <2>2. buf' = <<>> /\ buf_pos' = 0
    BY <2>1 DEF Cache!MainSeek
  <2>3. CASE position \in 0 .. Length /\ main' = position /\ answer' = <<position>>
    BY <2>2, <2>3, WindowGone
  <2>4. CASE main' = main /\ answer' = Cache!Failed
    <3>1. main' \in 0 .. Length
      BY <2>4 DEF WindowKnown
    <3> QED
      BY <2>2, <2>4, <3>1, WindowGone DEF Cache!Failed, Cache!Promise!Failed
  <2> QED
    BY <2>1, <2>3, <2>4 DEF Cache!MainSeek
<1> QED
  BY <1>1, <1>2

LEMMA SeekSetKept ==
    ASSUME WindowKnown, NEW offset \in 0 .. Length + 1, Cache!SeekSet(offset)
    PROVE  WindowKnown' /\ Cache!Promise!Next
<1>1. PICK a \in 0 .. Length, p \in Nat, m \in 0 .. Length :
        a = main - Cache!Rest /\ a = Cache!Position /\ p = buf_pos /\ m = main /\ a <= m
  <2>1. main - Cache!Rest \in 0 .. Length /\ Cache!Position = main - Cache!Rest
    BY WindowIs
  <2>2. buf_pos \in Nat /\ main \in 0 .. Length /\ main - Cache!Rest <= main
    BY WindowIs, CacheAssumption DEF WindowKnown
  <2> QED
    BY <2>1, <2>2
<1>2. asked' = <<"set", offset>> /\ Cache!Seek(p + offset - a, offset)
  BY <1>1 DEF Cache!SeekSet
<1>3. p + offset - a \in Int /\ offset \in Int /\ a + ((p + offset - a) - p) = offset
  BY <1>1, CacheAssumption
<1>4. /\ WindowKnown'
      /\ \/ (main - Cache!Rest)' = offset /\ answer' = <<offset>>
         \/ (main - Cache!Rest)' = m /\ answer' = Cache!Promise!Failed
  BY <1>1, <1>2, <1>3, SeekServes
<1>5. (main - Cache!Rest)' \in 0 .. Length
  BY <1>4, WindowIsNext
<1>6. CASE (main - Cache!Rest)' = offset /\ answer' = <<offset>>
  <2>1. offset \in 0 .. Length /\ offset \in -MaxRead .. Length
    BY <1>5, <1>6, CacheAssumption
  <2>2. Cache!Promise!Seek("set", offset)
    BY <1>2, <1>6, <2>1 DEF Cache!Promise!Seek
  <2> QED
    BY <1>4, <2>1, <2>2 DEF Cache!Promise!Next
<1>7. CASE (main - Cache!Rest)' = m /\ answer' = Cache!Promise!Failed
  <2>1. asked'[1] \notin {"open", "tell"}
    BY <1>2
  <2>2. m \in a .. Length
    BY <1>1, CacheAssumption
  <2>3. Cache!Promise!Fail
    BY <1>1, <1>7, <2>1, <2>2 DEF Cache!Promise!Fail
  <2> QED
    BY <1>4, <2>3 DEF Cache!Promise!Next
<1> QED
  BY <1>4, <1>6, <1>7

LEMMA SeekCurKept ==
    ASSUME WindowKnown, NEW offset \in Cache!Offsets, Cache!SeekCur(offset)
    PROVE  WindowKnown' /\ Cache!Promise!Next
<1>1. PICK a \in 0 .. Length, p \in Nat, m \in 0 .. Length :
        a = main - Cache!Rest /\ p = buf_pos /\ m = main /\ a <= m
  <2>1. main - Cache!Rest \in 0 .. Length /\ Cache!Position = main - Cache!Rest
    BY WindowIs
  <2>2. buf_pos \in Nat /\ main \in 0 .. Length /\ main - Cache!Rest <= main
    BY WindowIs, CacheAssumption DEF WindowKnown
  <2> QED
    BY <2>1, <2>2
<1>2. offset \in -MaxRead .. MaxRead /\ offset \in Int
  BY CacheAssumption DEF Cache!Offsets
<1>3. Cache!SkippedBy(offset) = a + offset
  <2>1. Cache!Rest \in Int /\ main \in Int
    BY WindowIs DEF WindowKnown
  <2>2. Cache!SkippedBy(offset) = main + offset - Cache!Rest
    BY DEF Cache!SkippedBy
  <2>3. main + offset - Cache!Rest = (main - Cache!Rest) + offset
    BY <1>2, <2>1
  <2> QED
    BY <1>1, <2>2, <2>3
<1>4. asked' = <<"cur", offset>> /\ Cache!Seek(p + offset, a + offset)
  BY <1>1, <1>3 DEF Cache!SeekCur
<1>5. p + offset \in Int /\ a + offset \in Int /\ a + ((p + offset) - p) = a + offset
  BY <1>1, <1>2, CacheAssumption
<1>6. /\ WindowKnown'
      /\ \/ (main - Cache!Rest)' = a + offset /\ answer' = <<a + offset>>
         \/ (main - Cache!Rest)' = m /\ answer' = Cache!Promise!Failed
  BY <1>1, <1>4, <1>5, SeekServes
<1>7. (main - Cache!Rest)' \in 0 .. Length
  BY <1>6, WindowIsNext
<1>8. CASE (main - Cache!Rest)' = a + offset /\ answer' = <<a + offset>>
  <2>1. a + offset \in 0 .. Length /\ offset \in -MaxRead .. Length
    BY <1>2, <1>7, <1>8, CacheAssumption
  <2>2. Cache!Promise!Seek("cur", offset)
    BY <1>1, <1>4, <1>8, <2>1 DEF Cache!Promise!Seek
  <2> QED
    BY <1>6, <2>1, <2>2 DEF Cache!Promise!Next
<1>9. CASE (main - Cache!Rest)' = m /\ answer' = Cache!Promise!Failed
  <2>1. asked'[1] \notin {"open", "tell"}
    BY <1>4
  <2>2. m \in a .. Length
    BY <1>1, CacheAssumption
  <2>3. Cache!Promise!Fail
    BY <1>1, <1>9, <2>1, <2>2 DEF Cache!Promise!Fail
  <2> QED
    BY <1>6, <2>3 DEF Cache!Promise!Next
<1> QED
  BY <1>6, <1>8, <1>9

LEMMA SeekElsewhereKept ==
    ASSUME WindowKnown, NEW position \in 0 .. Length, Cache!SeekElsewhere(position)
    PROVE  WindowKnown' /\ Cache!Promise!Next
<1>1. asked' = <<"elsewhere", 0>> /\ Cache!MainSeek(position)
  BY DEF Cache!SeekElsewhere
<1>2. buf' = <<>> /\ buf_pos' = 0
  BY <1>1 DEF Cache!MainSeek
<1>3. CASE main' = position /\ answer' = <<position>>
  <2>1. WindowKnown' /\ (main - Cache!Rest)' = position
    BY <1>2, <1>3, WindowGone
  <2>2. Cache!Promise!SeekElsewhere(position)
    BY <1>1, <1>3, <2>1 DEF Cache!Promise!SeekElsewhere
  <2> QED
    BY <2>1, <2>2 DEF Cache!Promise!Next
<1>4. CASE main' = main /\ answer' = Cache!Failed
  <2>1. main \in 0 .. Length
    BY DEF WindowKnown
  <2>2. WindowKnown' /\ (main - Cache!Rest)' = main
    BY <1>2, <1>4, <2>1, WindowGone
  <2>3. main \in main - Cache!Rest .. Length
    BY <2>1, WindowIs, CacheAssumption
  <2>4. asked'[1] \notin {"open", "tell"}
    BY <1>1
  <2>5. answer' = Cache!Promise!Failed
    BY <1>4 DEF Cache!Failed, Cache!Promise!Failed
  <2>6. Cache!Promise!Fail
    BY <2>2, <2>3, <2>4, <2>5 DEF Cache!Promise!Fail
  <2> QED
    BY <2>2, <2>6 DEF Cache!Promise!Next
<1> QED
  BY <1>1, <1>3, <1>4 DEF Cache!MainSeek

LEMMA TellKept ==
    ASSUME WindowKnown, Cache!Tell
    PROVE  WindowKnown' /\ Cache!Promise!Next
<1>1. asked' = <<"tell", 0>> /\ answer' = <<main - Cache!Rest>> /\ UNCHANGED <<main, buf, buf_pos>>
  BY WindowIs DEF Cache!Tell
<1>2. WindowKnown'
  BY <1>1 DEF WindowKnown
<1>3. UNCHANGED (main - Cache!Rest)
  BY <1>1 DEF Cache!Rest, Cache!buf_len
<1> QED
  BY <1>1, <1>2, <1>3 DEF Cache!Promise!Tell, Cache!Promise!Next

\* Each step of the cache keeps what is known of its window, and is one that the
\* plugin promises, but for a stale window.
LEMMA CacheStep ==
    ASSUME WindowKnown, Cache!Next
    PROVE  WindowKnown' /\ (~ Cache!Stale => Cache!Promise!Next)
<1>1. ASSUME NEW n \in 1 .. MaxRead, asked' = <<"read", n>>, Cache!Read(n)
      PROVE  WindowKnown' /\ (~ Cache!Stale => Cache!Promise!Next)
  <2>1. WindowKnown' /\ ReadKept(n)
    BY <1>1, EveryReadKept
  <2> QED
    BY <1>1, <2>1, ReadPromised
<1> QED
  BY <1>1, ReadBlockKept, SeekSetKept, SeekCurKept, SeekElsewhereKept, TellKept DEF Cache!Next

LEMMA WindowInit ==
    ASSUME MCInit
    PROVE  WindowKnown /\ Cache!Promise!Init
<1>1. main = 0 /\ buf = <<>> /\ buf_pos = 0 /\ asked = <<"open", 0>> /\ answer = <<>>
  BY DEF MCInit, Cache!Init
<1>2. buf \in Seq(Int) /\ Len(buf) = 0
  BY <1>1, EmptySeq
<1>3. WindowKnown
  BY <1>1, <1>2, CacheAssumption DEF WindowKnown
<1>4. main - Cache!Rest = 0
  <2>1. Cache!Rest = Len(buf) - buf_pos
    BY DEF Cache!Rest, Cache!buf_len
  <2>2. Cache!Rest = 0 - 0
    BY <1>1, <1>2, <2>1
  <2> QED
    BY <1>1, <2>2
<1> QED
  BY <1>1, <1>3, <1>4 DEF Cache!Promise!Init

LEMMA WindowNext ==
    ASSUME WindowKnown, [MCNext]_<<part, vars, queueOnly, listOnly, inputOnly>>
    PROVE  /\ WindowKnown'
           /\ [part = "input" /\ ~ Cache!Stale => Cache!Promise!Next]_inputOnly
<1>1. CASE UNCHANGED inputOnly
  <2>1. UNCHANGED <<main, buf, buf_pos>>
    BY <1>1 DEF inputOnly
  <2> QED
    BY <1>1, <2>1 DEF WindowKnown
<1>2. CASE part = "input" /\ Cache!Next
  BY <1>2, CacheStep
<1>3. UNCHANGED inputOnly \/ (part = "input" /\ Cache!Next)
  BY DEF MCNext
<1> QED
  BY <1>1, <1>2, <1>3

\* The window of the cache, in every behaviour of the run.
THEOREM WindowInvariant == MCSpec => []WindowKnown
<1>1. MCInit => WindowKnown
  BY WindowInit
<1>2. WindowKnown /\ [MCNext]_<<part, vars, queueOnly, listOnly, inputOnly>> => WindowKnown'
  BY WindowNext
<1> QED
  BY <1>1, <1>2, PTL DEF MCSpec

\* The cache delivers what its plugin would: each of its operations is one that
\* InputPromise allows, from the position the plugin would be at, for inputs,
\* windows and reads of any size (input_cache.c), but for the window that
\* read_block leaves.
THEOREM FreshInputKeptHolds == MCSpec => FreshInputKept
<1>1. MCInit => WindowKnown /\ Cache!Promise!Init
  BY WindowInit
<1>2. WindowKnown /\ [MCNext]_<<part, vars, queueOnly, listOnly, inputOnly>>
        => WindowKnown' /\ [part = "input" /\ ~ Cache!Stale => Cache!Promise!Next]_inputOnly
  BY WindowNext
<1> QED
  BY <1>1, <1>2, PTL DEF MCSpec, FreshInputKept
=============================================================================
