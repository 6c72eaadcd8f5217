------------------------------ MODULE PairProofs ------------------------------
(***************************************************************************)
(* Both decoders of a stream meet the pairs of control buffers in the same  *)
(* order, for any number of threads and sides and any size of the pools, on *)
(* top of the invariants of DecoderSyncProofs.                              *)
(*                                                                          *)
(* PairInv has what the sender of a pair has kept in advance: both its      *)
(* buffers, and room for them in the pools.  So a pair is put without a     *)
(* wait in between, and the fifos differ by at most the one buffer that is  *)
(* still to be put (Ordered).  A decoder takes from the front and a flush   *)
(* leaves every control buffer in its place, so the orders stay alike from  *)
(* the ends on (Aligned).                                                   *)
(***************************************************************************)
EXTENDS DecoderSyncProofs, SequenceTheorems

-----------------------------------------------------------------------------
(* demux.pair: the order of the control buffers. *)

\* An item in front of a queue is left out, or is in front of what is left.
LEMMA WithoutInFront ==
    ASSUME NEW S, NEW s \in Seq(S), NEW x \in S, NEW kinds
    PROVE  Without(<<x>> \o s, kinds) =
             IF x.kind \in kinds THEN Without(s, kinds) ELSE <<x>> \o Without(s, kinds)
<1> DEFINE Good(t) == Without(<<x>> \o t, kinds) =
                        IF x.kind \in kinds THEN Without(t, kinds) ELSE <<x>> \o Without(t, kinds)
           T == {n \in Nat : \E t \in Seq(S) : Len(t) = n /\ ~Good(t)}
<1>1. Good(<<>>)
  <2>1. <<x>> \o <<>> = Append(<<>>, x) /\ <<>> \in Seq(S)
    OBVIOUS
  <2>2. PICK e \in Seq(S) : e = <<>> /\ Append(e, x) = <<x>> \o <<>> /\ Without(e, kinds) = e
    BY <2>1, WithoutEmpty
  <2>3. Without(Append(e, x), kinds) = IF x.kind \in kinds THEN Without(e, kinds)
                                                            ELSE Append(Without(e, kinds), x)
    BY WithoutAppend
  <2> QED
    BY <2>2, <2>3
<1>2. ASSUME NEW p \in Seq(S), NEW y \in S, Good(p) PROVE Good(Append(p, y))
  <2>1. PICK l \in Seq(S), w \in Seq(S) : l = <<x>> \o p /\ w = Without(p, kinds)
    <3>1. <<x>> \o p \in Seq(S)
      OBVIOUS
    <3>2. Without(p, kinds) \in Seq(S)
      BY WithoutSeq
    <3> QED
      BY <3>1, <3>2
  <2>2. \A q \in Seq(S) : <<x>> \o Append(q, y) = Append(<<x>> \o q, y)
    OBVIOUS
  <2>3. Without(Append(l, y), kinds) =
          IF y.kind \in kinds THEN Without(l, kinds) ELSE Append(Without(l, kinds), y)
    BY WithoutAppend
  <2>4. Without(Append(p, y), kinds) = IF y.kind \in kinds THEN w ELSE Append(w, y)
    BY <2>1, WithoutAppend
  <2>5. Without(l, kinds) = IF x.kind \in kinds THEN w ELSE <<x>> \o w
    BY <1>2, <2>1
  <2>6. <<x>> \o Append(p, y) = Append(l, y) /\ <<x>> \o Append(w, y) = Append(<<x>> \o w, y)
    BY <2>1, <2>2
  <2> QED
    BY <2>3, <2>4, <2>5, <2>6
<1> SUFFICES Good(s)
  OBVIOUS
<1> HIDE DEF Good
<1>3. SUFFICES ASSUME T # {} PROVE FALSE
  OBVIOUS
<1>4. PICK n \in T : \A k \in T : n <= k
  BY <1>3, Least
<1>5. PICK t \in Seq(S) : Len(t) = n /\ ~Good(t)
  BY <1>4
<1>6. PICK p \in Seq(S), y \in S : t = Append(p, y) /\ Len(p) = Len(t) - 1
  BY <1>1, <1>5, LastOff
<1>7. Good(p)
  BY <1>4, <1>5, <1>6
<1> QED
  BY <1>2, <1>5, <1>6, <1>7

\* What is left out twice is left out once.
LEMMA WithoutTwice ==
    ASSUME NEW S, NEW s \in Seq(S), NEW some, NEW kinds, some \subseteq kinds
    PROVE  Without(Without(s, some), kinds) = Without(s, kinds)
<1> DEFINE Good(t) == Without(Without(t, some), kinds) = Without(t, kinds)
           T == {n \in Nat : \E t \in Seq(S) : Len(t) = n /\ ~Good(t)}
<1>1. SUFFICES ASSUME T # {} PROVE FALSE
  OBVIOUS
<1>2. PICK n \in T : \A k \in T : n <= k
  BY <1>1, Least
<1>3. PICK t \in Seq(S) : Len(t) = n /\ ~Good(t)
  BY <1>2
<1>4. t # <<>>
  BY <1>3, WithoutEmpty
<1>5. PICK p \in Seq(S), y \in S : t = Append(p, y) /\ Len(p) = Len(t) - 1
  BY <1>4, LastOff
<1>6. Good(p)
  BY <1>2, <1>3, <1>5
<1>7. Without(p, some) \in Seq(S)
  BY WithoutSeq
<1>8. Without(t, some) = IF y.kind \in some THEN Without(p, some) ELSE Append(Without(p, some), y)
  BY <1>5, WithoutAppend
<1>9. Without(t, kinds) = IF y.kind \in kinds THEN Without(p, kinds)
                                               ELSE Append(Without(p, kinds), y)
  BY <1>5, WithoutAppend
<1>10. Without(Append(Without(p, some), y), kinds) =
         IF y.kind \in kinds THEN Without(Without(p, some), kinds)
                              ELSE Append(Without(Without(p, some), kinds), y)
  BY <1>7, WithoutAppend
<1>11. Good(t)
  BY <1>6, <1>8, <1>9, <1>10
<1> QED
  BY <1>3, <1>11

\* The kinds that Control leaves out, and Control of one fifo.
Passed == {"data", "none"}

Shown(h) == IF h.kind = "barrier" THEN Item("end", h.by) ELSE h

Controls(h, q) == Without(<<Shown(h)>> \o q, Passed)

LEMMA ControlIs ==
    ASSUME NEW f PROVE Control(f) = Controls(hand[f], fifo[f])
  BY DEF Control, Controls, Shown, Passed

LEMMA ControlsAre ==
    ASSUME NEW h \in Items, NEW q \in Seq(Items)
    PROVE  /\ Controls(h, q) = IF h.kind \in Passed THEN Without(q, Passed)
                                                    ELSE <<Shown(h)>> \o Without(q, Passed)
           /\ Shown(h) \in Items
           /\ Without(q, Passed) \in Seq(Items) /\ Controls(h, q) \in Seq(Items)
<1>1. Shown(h) \in Items /\ (Shown(h).kind \in Passed <=> h.kind \in Passed)
  <2>1. CASE h.kind = "barrier"
    BY <2>1 DEF Shown, Items, Item, Kinds, Passed
  <2>2. CASE h.kind # "barrier"
    BY <2>2 DEF Shown
  <2> QED
    BY <2>1, <2>2
<1>2. Controls(h, q) = IF Shown(h).kind \in Passed THEN Without(q, Passed)
                                                   ELSE <<Shown(h)>> \o Without(q, Passed)
  BY <1>1, WithoutInFront DEF Controls
<1>3. Without(q, Passed) \in Seq(Items)
  BY WithoutSeq
<1>4. <<Shown(h)>> \o Without(q, Passed) \in Seq(Items)
  BY <1>1, <1>3
<1> QED
  BY <1>1, <1>2, <1>3, <1>4

\* A buffer is put.
LEMMA ControlsPut ==
    ASSUME NEW h \in Items, NEW q \in Seq(Items), NEW x \in Items
    PROVE  Controls(h, Append(q, x)) = IF x.kind \in Passed THEN Controls(h, q)
                                                            ELSE Append(Controls(h, q), x)
<1>1. Append(q, x) \in Seq(Items)
  OBVIOUS
<1>2. Without(Append(q, x), Passed) = IF x.kind \in Passed THEN Without(q, Passed)
                                                           ELSE Append(Without(q, Passed), x)
  BY WithoutAppend
<1>3. PICK w \in Seq(Items), y \in Items, a \in Seq(Items) :
        w = Without(q, Passed) /\ y = Shown(h) /\ a = Append(q, x)
  BY <1>1, ControlsAre
<1>4. <<y>> \o Append(w, x) = Append(<<y>> \o w, x)
  OBVIOUS
<1>5. Controls(h, q) = IF h.kind \in Passed THEN w ELSE <<y>> \o w
  BY <1>3, ControlsAre
<1>6. Controls(h, a) = IF h.kind \in Passed THEN Without(a, Passed) ELSE <<y>> \o Without(a, Passed)
  BY <1>3, ControlsAre
<1>7. Without(a, Passed) = IF x.kind \in Passed THEN w ELSE Append(w, x)
  BY <1>2, <1>3
<1> QED
  BY <1>3, <1>4, <1>5, <1>6, <1>7

\* The decoder takes the first buffer.
LEMMA ControlsTaken ==
    ASSUME NEW q \in Seq(Items), q # <<>>, Head(q).kind # "barrier"
    PROVE  Controls(Head(q), Tail(q)) = Controls(NoItem, q)
<1>1. Head(q) \in Items /\ Tail(q) \in Seq(Items) /\ q = <<Head(q)>> \o Tail(q)
  OBVIOUS
<1>2. NoItem \in Items /\ NoItem.kind \in Passed
  BY Actors DEF NoItem, Item, Items, Kinds, Passed
<1>3. Controls(NoItem, q) = Without(q, Passed)
  BY <1>2, ControlsAre
<1>4. Shown(Head(q)) = Head(q)
  BY DEF Shown
<1> QED
  BY <1>1, <1>3, <1>4 DEF Controls

\* The decoder is through with a buffer.
LEMMA ControlsDone ==
    ASSUME NEW h \in Items, NEW q \in Seq(Items)
    PROVE  /\ h.kind \in Passed => Controls(NoItem, q) = Controls(h, q)
           /\ h.kind \notin Passed => /\ Controls(h, q) # <<>>
                                      /\ Controls(NoItem, q) = Tail(Controls(h, q))
<1>1. NoItem \in Items /\ NoItem.kind \in Passed
  BY Actors DEF NoItem, Item, Items, Kinds, Passed
<1>2. Controls(NoItem, q) = Without(q, Passed) /\ Without(q, Passed) \in Seq(Items)
  BY <1>1, ControlsAre
<1>3. PICK w \in Seq(Items), y \in Items : w = Without(q, Passed) /\ y = Shown(h)
  BY <1>2, ControlsAre
<1>4. <<y>> \o w # <<>> /\ Tail(<<y>> \o w) = w
  OBVIOUS
<1>5. Controls(h, q) = IF h.kind \in Passed THEN w ELSE <<y>> \o w
  BY <1>3, ControlsAre
<1> QED
  BY <1>2, <1>3, <1>4, <1>5

\* A flush.
LEMMA ControlsKept ==
    ASSUME NEW h \in Items, NEW q \in Seq(Items)
    PROVE  Kept(q) \in Seq(Items) /\ Controls(h, Kept(q)) = Controls(h, q)
<1>1. Kept(q) \in Seq(Items)
  BY WithoutSeq DEF Kept
<1>2. Without(Kept(q), Passed) = Without(q, Passed)
  BY WithoutTwice DEF Kept, Passed
<1> QED
  BY <1>1, <1>2, ControlsAre

\* A decoder that waits for the other one has still its END.
LEMMA ControlsBarred ==
    ASSUME NEW h \in Items, h.kind = "end", NEW q
    PROVE  Controls(Item("barrier", h.by), q) = Controls(h, q)
<1>1. Shown(Item("barrier", h.by)) = Item("end", h.by)
  BY DEF Shown, Item
<1>2. h = Item("end", h.by)
  BY DEF Items, Item
<1>3. Shown(h) = h
  BY DEF Shown
<1> QED
  BY <1>1, <1>2, <1>3 DEF Controls

\* Two sequences are the same from their ends on, as far as both go.
Aligned(v, a) ==
    \A i \in Nat \ {0} : i <= Len(v) /\ i <= Len(a) => v[Len(v) - i + 1] = a[Len(a) - i + 1]

LEMMA AlignedTurned ==
    ASSUME NEW v, NEW a, Aligned(v, a) PROVE Aligned(a, v)
  BY DEF Aligned

LEMMA AlignedLonger ==
    ASSUME NEW S, NEW v \in Seq(S), NEW a \in Seq(S), NEW x \in S, Aligned(v, a)
    PROVE  Aligned(Append(v, x), Append(a, x))
<1>1. PICK m \in Nat, n \in Nat : m = Len(v) /\ n = Len(a)
  OBVIOUS
<1>2. PICK w, b : w = Append(v, x) /\ b = Append(a, x)
  OBVIOUS
<1>3. /\ Len(w) = m + 1 /\ w[m + 1] = x /\ \A i \in 1 .. m : w[i] = v[i]
      /\ Len(b) = n + 1 /\ b[n + 1] = x /\ \A i \in 1 .. n : b[i] = a[i]
  BY <1>1, <1>2
<1>4. ASSUME NEW i \in Nat \ {0}, i <= m + 1, i <= n + 1
      PROVE  w[(m + 1) - i + 1] = b[(n + 1) - i + 1]
  <2>1. CASE i = 1
    <3>1. (m + 1) - i + 1 = m + 1 /\ (n + 1) - i + 1 = n + 1
      BY <2>1
    <3> QED
      BY <1>3, <3>1
  <2>2. CASE i # 1
    <3>1. PICK k \in Nat \ {0} : k = i - 1
      BY <2>2
    <3>2. /\ (m + 1) - i + 1 = m - k + 1 /\ m - k + 1 \in 1 .. m /\ k <= m
          /\ (n + 1) - i + 1 = n - k + 1 /\ n - k + 1 \in 1 .. n /\ k <= n
      BY <1>4, <3>1
    <3>3. v[m - k + 1] = a[n - k + 1]
      BY <1>1, <3>2 DEF Aligned
    <3> QED
      BY <1>3, <3>2, <3>3
  <2> QED
    BY <2>1, <2>2
<1> QED
  BY <1>2, <1>3, <1>4 DEF Aligned

LEMMA AlignedShorter ==
    ASSUME NEW S, NEW v \in Seq(S), NEW a \in Seq(S), v # <<>>, Aligned(v, a)
    PROVE  Aligned(Tail(v), a)
<1>1. PICK m \in Nat : m + 1 = Len(v)
  <2>1. Len(v) \in Nat /\ Len(v) # 0
    OBVIOUS
  <2>2. Len(v) - 1 \in Nat /\ (Len(v) - 1) + 1 = Len(v)
    BY <2>1
  <2> QED
    BY <2>2
<1>2. PICK n \in Nat : n = Len(a)
  OBVIOUS
<1> DEFINE w == Tail(v)
<1>3. Len(w) = m /\ \A i \in 1 .. m : w[i] = v[i + 1]
  BY <1>1
<1> HIDE DEF w
<1>4. ASSUME NEW i \in Nat \ {0}, i <= m, i <= n
      PROVE  w[m - i + 1] = a[n - i + 1]
  <2>1. m - i + 1 \in 1 .. m /\ (m - i + 1) + 1 = (m + 1) - i + 1 /\ i <= m + 1
    BY <1>4
  <2>2. v[(m + 1) - i + 1] = a[n - i + 1]
    BY <1>1, <1>2, <1>4, <2>1 DEF Aligned
  <2>3. w[m - i + 1] = v[(m - i + 1) + 1]
    BY <1>3, <2>1
  <2> QED
    BY <2>1, <2>2, <2>3
<1>5. Aligned(w, a)
  BY <1>2, <1>3, <1>4 DEF Aligned
<1> QED
  BY <1>5 DEF w

\* Then one is a suffix of the other.
LEMMA AlignedSuffix ==
    ASSUME NEW S, NEW v \in Seq(S), NEW a \in Seq(S), Aligned(v, a), Len(v) <= Len(a)
    PROVE  IsSuffix(v, a)
<1>1. PICK m \in Nat, n \in Nat : m = Len(v) /\ n = Len(a) /\ m <= n
  OBVIOUS
<1>2. PICK r, q : r = Reverse(v) /\ q = Reverse(a)
  OBVIOUS
<1>3. /\ r = [i \in 1 .. m |-> v[(m - i) + 1]]
      /\ q = [i \in 1 .. n |-> a[(n - i) + 1]]
  BY <1>1, <1>2 DEF Reverse
<1>4. \A i \in 1 .. m : (m - i) + 1 \in 1 .. m
  OBVIOUS
<1>5. \A i \in 1 .. n : (n - i) + 1 \in 1 .. n
  OBVIOUS
<1>6. r \in Seq(S) /\ q \in Seq(S) /\ Len(r) = m /\ Len(q) = n
  BY <1>1, <1>3, <1>4, <1>5
<1>7. ASSUME NEW i \in 1 .. m PROVE r[i] = q[i]
  <2>1. i \in 1 .. n /\ i \in Nat \ {0} /\ i <= m /\ i <= n /\ (m - i) + 1 = m - i + 1
        /\ (n - i) + 1 = n - i + 1
    BY <1>1
  <2>2. v[m - i + 1] = a[n - i + 1]
    BY <1>1, <2>1 DEF Aligned
  <2> QED
    BY <1>3, <2>1, <2>2
<1>8. SubSeq(r, 1, m) = SubSeq(q, 1, m)
  <2>1. SubSeq(r, 1, m) = [i \in 1 .. m |-> r[i]] /\ SubSeq(q, 1, m) = [i \in 1 .. m |-> q[i]]
    BY <1>1, <1>6
  <2> QED
    BY <1>7, <2>1
<1> QED
  BY <1>1, <1>2, <1>6, <1>8 DEF IsSuffix, IsPrefix

\* Whether a thread at this step has a buffer of f that it will put.
Reserves(p, f) == IF f = Video THEN p \in {"alloc_audio", "count", "put_video"}
                               ELSE p \in {"count", "put_video", "put_audio"}

\* In _x_demux_control_headers_done, with action_pending of the first side raised.
Syncing(p, j) == j = "headers" /\ p \in PairSteps \cup SyncSteps

\* One buffer of a pair is put, and the second one is not.
Halfway(p) == p \in {"put_audio", "reset_audio"}

Second(p, j, t) == IF p = "put_audio" THEN Item(j, t) ELSE Item("reset", t)

\* Has the application raised action_pending of s, to seek or to stop it?  It is
\* at step p with the stack b, and busy with the side stream n.
Raises(p, b, n, s) ==
    \/ p \in {"play_video", "play_audio", "play_lock", "seek"} \/ b \in SeekBacks
    \/ p = "go_on" /\ s >= n
    \/ p = "start" /\ s > n
    \/ p = "stop_lock" /\ s = n

Callers == {t \in Threads : Syncing(pc[t], job[t])}

\* action_pending is raised once for each who wants it to be.
PendingCounted ==
    \A s \in Sides :
        pending[s] = B2N(Raises(pc[App], back[App], side, s))
                       + (IF s = 1 THEN Cardinality(Callers) ELSE 0)

\* Whoever is about to put a pair has its buffers, and the pools have room for them.
Reservations == \A t \in Threads, f \in Fifos : f \in bufs[t] <=> Reserves(pc[t], f)

Reserved(f) == {t \in Threads : f \in bufs[t]}

InPool(f) == Len(fifo[f]) + B2N(hand[f] # NoItem) + Cardinality(Reserved(f))

Rooms == \A f \in created : InPool(f) <= Pool

QueueKinds ==
    \A f \in Fifos : \A i \in 1 .. Len(fifo[f]) : fifo[f][i].kind \in Kinds \ {"barrier", "none"}

\* The control buffers are in the same order in both fifos, up to where the
\* slower decoder is; one of them may still have to be put into the second fifo.
Ordered ==
    created = Fifos =>
        /\ (\A t \in Threads : ~Halfway(pc[t])) => Aligned(Control(Video), Control(Audio))
        /\ \A t \in Threads : Halfway(pc[t]) =>
              Aligned(Control(Video), Append(Control(Audio), Second(pc[t], job[t], t)))

PairInv == PendingCounted /\ Reservations /\ Rooms /\ QueueKinds /\ Ordered

\* A step that leaves everybody's part in pairs as it is, and action_pending.
Steady ==
    \A u \in Threads :
        /\ Halfway(pc[u]) \/ Halfway(pc'[u]) => pc'[u] = pc[u] /\ job'[u] = job[u]
        /\ \A f \in Fifos : Reserves(pc'[u], f) <=> Reserves(pc[u], f)
        /\ Syncing(pc'[u], job'[u]) <=> Syncing(pc[u], job[u])

RaisesSame ==
    \A s \in Sides : Raises(pc'[App], back'[App], side', s) <=> Raises(pc[App], back[App], side, s)

LEMMA OrderedKept ==
    ASSUME Ordered, Steady, created' = created, \A f \in Fifos : Control(f)' = Control(f)
    PROVE  Ordered'
<1>1. Control(Video)' = Control(Video) /\ Control(Audio)' = Control(Audio)
  BY Actors
<1>2. \A u \in Threads : /\ Halfway(pc'[u]) <=> Halfway(pc[u])
                         /\ Halfway(pc[u]) => pc'[u] = pc[u] /\ job'[u] = job[u]
  BY DEF Steady
<1> QED
  BY <1>1, <1>2 DEF Ordered

LEMMA PendingKept ==
    ASSUME PendingCounted, Steady, RaisesSame, pending' = pending
    PROVE  PendingCounted'
<1>1. Callers' = Callers
  BY DEF Callers, Steady
<1> QED
  BY <1>1 DEF PendingCounted, RaisesSame, B2N

LEMMA ThreadsFinite == IsFiniteSet(Threads)
<1>1. IsFiniteSet(Sides)
  BY SyncAssumption, FS_Interval DEF Sides
<1> QED
  BY <1>1, FS_AddElement DEF Threads

\* The elements of a fifo's pool that are free are those that are not in use.
LEMMA RoomIs ==
    ASSUME Types, NEW f \in Fifos
    PROVE  /\ Free(f) = Pool - InPool(f) /\ InPool(f) \in Nat
           /\ Pool \in Nat /\ Len(fifo[f]) \in Nat /\ B2N(hand[f] # NoItem) \in {0, 1}
           /\ IsFiniteSet(Reserved(f)) /\ Cardinality(Reserved(f)) \in Nat
<1>1. IsFiniteSet(Reserved(f))
  BY ThreadsFinite, FS_Subset DEF Reserved
<1>2. Cardinality(Reserved(f)) \in Nat
  BY <1>1, FS_CardinalityType
<1>3. Len(fifo[f]) \in Nat
  BY DEF Types, QueueTypes
<1>4. B2N(hand[f] # NoItem) \in {0, 1}
  BY DEF B2N
<1>5. Free(f) = Pool - Len(fifo[f]) - B2N(hand[f] # NoItem) - Cardinality(Reserved(f))
  BY DEF Free, Reserved
<1>6. PICK a \in Nat, b \in Nat, c \in Nat :
        a = Len(fifo[f]) /\ b = B2N(hand[f] # NoItem) /\ c = Cardinality(Reserved(f))
  BY <1>2, <1>3, <1>4
<1>7. Pool \in Nat
  BY SyncAssumption
<1>8. Pool - a - b - c = Pool - (a + b + c) /\ a + b + c \in Nat
  BY <1>7
<1> QED
  BY <1>1, <1>4, <1>5, <1>6, <1>7, <1>8 DEF InPool

LEMMA StillKeeps ==
    ASSUME PairInv, Steady, RaisesSame, UNCHANGED <<created, fifo, hand, bufs, pending>>
    PROVE  PairInv'
<1>1. PendingCounted'
  BY PendingKept DEF PairInv
<1>2. Ordered'
  <2>1. \A f \in Fifos : Control(f)' = Control(f)
    BY DEF Control
  <2> QED
    BY <2>1, OrderedKept DEF PairInv
<1>3. Reservations'
  BY DEF PairInv, Reservations, Steady
<1>4. Rooms'
  <2>1. \A f \in Fifos : InPool(f)' = InPool(f)
    BY DEF InPool, Reserved
  <2>2. \A f \in created : InPool(f)' = InPool(f)
    BY DEF InPool, Reserved
  <2> QED
    BY <2>2 DEF PairInv, Rooms
<1>5. QueueKinds'
  BY DEF PairInv, QueueKinds
<1> QED
  BY <1>1, <1>2, <1>3, <1>4, <1>5 DEF PairInv

\* A thread at such a step has no part in pairs.
Uninvolved(p, j) ==
    /\ ~ Halfway(p) /\ ~ Syncing(p, j)
    /\ p \notin {"alloc_audio", "count", "put_video", "put_audio"}

LEMMA UninvolvedIs ==
    ASSUME NEW p, NEW j,
           \/ p \in DemuxSteps \cup AppSteps \cup StopSteps \cup (FlushSteps \ {"reset_audio"})
           \/ p = "alloc_video" /\ j # "headers"
    PROVE  Uninvolved(p, j)
  BY DEF Uninvolved, Halfway, Syncing, DemuxSteps, AppSteps, StopSteps, FlushSteps, PairSteps,
         AllocSteps, PutSteps, SyncSteps

LEMMA AloneSteady ==
    ASSUME NEW t \in Threads, Alone(t), Uninvolved(pc[t], job[t]), Uninvolved(pc'[t], job'[t])
    PROVE  Steady
<1> SUFFICES ASSUME NEW u \in Threads
             PROVE  /\ Halfway(pc[u]) \/ Halfway(pc'[u]) => pc'[u] = pc[u] /\ job'[u] = job[u]
                    /\ \A f \in Fifos : Reserves(pc'[u], f) <=> Reserves(pc[u], f)
                    /\ Syncing(pc'[u], job'[u]) <=> Syncing(pc[u], job[u])
  BY DEF Steady
<1>1. CASE u # t
  <2>1. pc'[u] = pc[u] /\ job'[u] = job[u]
    BY <1>1 DEF Alone
  <2> QED
    BY <2>1
<1>2. CASE u = t
  <2>1. ~ Halfway(pc[u]) /\ ~ Halfway(pc'[u]) /\ ~ Syncing(pc'[u], job'[u]) /\ ~ Syncing(pc[u], job[u])
    BY <1>2 DEF Uninvolved
  <2>2. \A f \in Fifos : ~ Reserves(pc'[u], f) /\ ~ Reserves(pc[u], f)
    BY <1>2 DEF Uninvolved, Reserves
  <2> QED
    BY <2>1, <2>2
<1> QED
  BY <1>1, <1>2

LEMMA SideRaises ==
    ASSUME NEW s \in Sides, Alone(s), side' = side
    PROVE  RaisesSame
<1>1. App \in Threads /\ App # s
  BY Actors
<1>2. pc'[App] = pc[App] /\ back'[App] = back[App]
  BY <1>1 DEF Alone
<1> QED
  BY <1>2 DEF RaisesSame

\* A demuxer takes a step that has nothing to do with pairs.
LEMMA SideStill ==
    ASSUME PairInv, NEW s \in Sides, Alone(s), Uninvolved(pc[s], job[s]), Uninvolved(pc'[s], job'[s]),
           UNCHANGED <<created, fifo, hand, bufs, pending, side>>
    PROVE  PairInv'
<1>1. s \in Threads
  BY Actors
<1>2. Steady /\ RaisesSame
  BY <1>1, AloneSteady, SideRaises
<1> QED
  BY <1>2, StillKeeps

\* The steps of demux_loop that neither put nor wait.
LEMMA LoopPairs ==
    ASSUME Types, PairInv, NEW s \in Sides,
           LoopStart(s) \/ LetIn(s) \/ Drain(s) \/ Delay(s) \/ Again(s) \/ Ended(s) \/ StreamEnd(s)
             \/ EndWait(s)
    PROVE  PairInv'
<1>1. s \in Threads /\ CallTypes
  BY Actors DEF Types
<1>2. UNCHANGED <<created, fifo, hand, bufs, pending, side>>
  <2>1. LoopStart(s) => UNCHANGED <<created, fifo, hand, bufs, pending, side>>
    BY DEF LoopStart, queueVars, appVars
  <2>2. LetIn(s) => UNCHANGED <<created, fifo, hand, bufs, pending, side>>
    BY DEF LetIn, queueVars, appVars
  <2>3. Drain(s) => UNCHANGED <<created, fifo, hand, bufs, pending, side>>
    BY DEF Drain, queueVars, appVars
  <2>4. Delay(s) => UNCHANGED <<created, fifo, hand, bufs, pending, side>>
    BY DEF Delay, queueVars, appVars
  <2>5. Again(s) => UNCHANGED <<created, fifo, hand, bufs, pending, side>>
    BY DEF Again, queueVars, appVars
  <2>6. Ended(s) => UNCHANGED <<created, fifo, hand, bufs, pending, side>>
    BY DEF Ended, queueVars, appVars
  <2>7. StreamEnd(s) => UNCHANGED <<created, fifo, hand, bufs, pending, side>>
    BY DEF StreamEnd, queueVars, demuxVars, appVars
  <2>8. EndWait(s) => UNCHANGED <<created, fifo, hand, bufs, pending, side>>
    BY DEF EndWait, queueVars, demuxVars, appVars
  <2> QED
    BY ONLY <2>1, <2>2, <2>3, <2>4, <2>5, <2>6, <2>7, <2>8,
            LoopStart(s) \/ LetIn(s) \/ Drain(s) \/ Delay(s) \/ Again(s) \/ Ended(s) \/ StreamEnd(s)
              \/ EndWait(s)
<1>3. \/ \E step \in DemuxSteps : Go(s, step)
      \/ UNCHANGED callVars
  BY DEF LoopStart, LetIn, Drain, Delay, Again, Ended, StreamEnd, EndWait, DemuxSteps
<1>4. pc[s] \in DemuxSteps
  BY DEF LoopStart, LetIn, Drain, Delay, Again, Ended, StreamEnd, EndWait, DemuxSteps, At
<1>5. Alone(s) /\ pc'[s] \in DemuxSteps
  BY <1>1, <1>3, <1>4, GoAlone DEF callVars, Alone
<1> QED
  BY <1>2, <1>4, <1>5, SideStill, UninvolvedIs

LEMMA ChunkPairs ==
    ASSUME Types, PairInv, NEW s \in Sides, Chunk(s)
    PROVE  PairInv'
<1>1. s \in Threads /\ CallTypes
  BY Actors DEF Types
<1>2. UNCHANGED <<created, fifo, hand, bufs, pending, side>> /\ pc[s] \in DemuxSteps
  BY DEF Chunk, queueVars, appVars, At, DemuxSteps
<1>3. (\E step \in DemuxSteps : Go(s, step)) \/ SendPair(s, "nop", "drain")
  BY DEF Chunk, DemuxSteps
<1>4. CASE \E step \in DemuxSteps : Go(s, step)
  <2>1. Alone(s) /\ pc'[s] \in DemuxSteps
    BY <1>1, <1>4, GoAlone
  <2> QED
    BY <1>2, <2>1, SideStill, UninvolvedIs
<1>5. CASE SendPair(s, "nop", "drain")
  <2>1. Alone(s) /\ pc'[s] = "alloc_video" /\ job'[s] = "nop"
    BY <1>1, <1>5, SendAlone
  <2>2. job'[s] # "headers"
    BY <2>1
  <2> QED
    BY <1>2, <2>1, <2>2, SideStill, UninvolvedIs
<1> QED
  BY <1>3, <1>4, <1>5

LEMMA LoopExitPairs ==
    ASSUME Types, PairInv, NEW s \in Sides, LoopExit(s)
    PROVE  PairInv'
<1>1. s \in Threads /\ CallTypes
  BY Actors DEF Types
<1>2. UNCHANGED <<created, fifo, hand, bufs, pending, side>> /\ pc[s] \in DemuxSteps
  BY DEF LoopExit, queueVars, appVars, At, DemuxSteps
<1>3. Go(s, "off") \/ SendPair(s, "end", "ended")
  BY DEF LoopExit
<1>4. CASE Go(s, "off")
  <2>1. Alone(s) /\ pc'[s] \in DemuxSteps
    BY <1>1, <1>4, GoAlone DEF DemuxSteps
  <2> QED
    BY <1>2, <2>1, SideStill, UninvolvedIs
<1>5. CASE SendPair(s, "end", "ended")
  <2>1. Alone(s) /\ pc'[s] = "alloc_video" /\ job'[s] = "end"
    BY <1>1, <1>5, SendAlone
  <2>2. job'[s] # "headers"
    BY <2>1
  <2> QED
    BY <1>2, <2>1, <2>2, SideStill, UninvolvedIs
<1> QED
  BY <1>3, <1>4, <1>5

LEMMA JumpPairs ==
    ASSUME Types, PairInv, NEW s \in Sides, Jump(s)
    PROVE  PairInv'
<1>1. s \in Threads /\ CallTypes
  BY Actors DEF Types
<1>2. UNCHANGED <<created, fifo, hand, bufs, pending, side>> /\ pc[s] \in DemuxSteps
  BY DEF Jump, queueVars, demuxVars, At, DemuxSteps
<1>3. Alone(s) /\ pc'[s] = "flush"
  BY <1>1 DEF Jump, CallTypes, Alone
<1>4. pc'[s] \in FlushSteps \ {"reset_audio"}
  BY <1>3 DEF FlushSteps
<1> QED
  BY <1>2, <1>3, <1>4, SideStill, UninvolvedIs

\* A buffer is put into f, of which the pool has room if it has no place yet;
\* S is who has such places then.
LEMMA PutRoom ==
    ASSUME Types, Rooms, NEW f \in Fifos, NEW x \in Items, Put(f, x), UNCHANGED <<created, hand>>,
           \A g \in Fifos \ {f} : Reserved(g)' = Reserved(g),
           \/ Reserved(f)' = Reserved(f) /\ CanAlloc(f)
           \/ \E t \in Reserved(f) : Reserved(f)' = Reserved(f) \ {t}
    PROVE  Rooms'
<1> SUFFICES ASSUME NEW g \in created PROVE InPool(g)' <= Pool
  BY DEF Rooms
<1>1. g \in Fifos /\ InPool(g) <= Pool
  BY DEF Types, QueueTypes, Rooms
<1>2. fifo \in [Fifos -> Seq(Items)]
  BY DEF Types, QueueTypes
<1>3. CASE g # f
  <2>1. fifo'[g] = fifo[g]
    BY <1>1, <1>2, <1>3 DEF Put
  <2>2. InPool(g)' = InPool(g)
    BY <1>1, <1>3, <2>1 DEF InPool
  <2> QED
    BY <1>1, <2>2
<1>4. CASE g = f
  <2>1. PICK a \in Nat, b \in Nat, c \in Nat :
          /\ a = Len(fifo[f]) /\ b = B2N(hand[f] # NoItem) /\ c = Cardinality(Reserved(f))
          /\ InPool(f) = a + b + c
    BY RoomIs DEF InPool
  <2>2. Len(fifo'[f]) = a + 1
    BY <1>2, <1>4, <2>1 DEF Put
  <2>3. B2N(hand[f] # NoItem)' = b
    BY <2>1 DEF B2N
  <2>4. CASE Reserved(f)' = Reserved(f) /\ CanAlloc(f)
    <3>1. Pool - (a + b + c) > 0 /\ Pool \in Nat
      BY <1>4, <2>1, <2>4, RoomIs DEF CanAlloc
    <3>2. InPool(f)' = (a + 1) + b + c
      BY <2>1, <2>2, <2>3, <2>4 DEF InPool
    <3> QED
      BY <1>4, <3>1, <3>2
  <2>5. ASSUME NEW t \in Reserved(f), Reserved(f)' = Reserved(f) \ {t}
        PROVE  InPool(f)' <= Pool
    <3>1. IsFiniteSet(Reserved(f))
      BY RoomIs
    <3>2. Cardinality(Reserved(f)') = c - 1
      BY <2>1, <2>5, <3>1, FS_RemoveElement
    <3>3. InPool(f)' = (a + 1) + b + (c - 1)
      BY <2>2, <2>3, <3>2 DEF InPool
    <3>4. (a + 1) + b + (c - 1) = a + b + c
      OBVIOUS
    <3> QED
      BY <1>1, <1>4, <2>1, <3>3, <3>4
  <2> QED
    BY <1>4, <2>4, <2>5
<1> QED
  BY <1>3, <1>4

\* What may be put.
LEMMA PutKinds ==
    ASSUME Types, QueueKinds, NEW f \in Fifos, NEW x, x.kind \in Kinds \ {"barrier", "none"}, Put(f, x)
    PROVE  QueueKinds'
<1>1. fifo \in [Fifos -> Seq(Items)]
  BY DEF Types, QueueTypes
<1> SUFFICES ASSUME NEW g \in Fifos, NEW i \in 1 .. Len(fifo'[g])
             PROVE  fifo'[g][i].kind \in Kinds \ {"barrier", "none"}
  BY DEF QueueKinds
<1>2. CASE fifo'[g] = fifo[g]
  BY <1>2 DEF QueueKinds
<1>3. CASE g = f /\ fifo'[f] = Append(fifo[f], x)
  <2>1. PICK q : q = fifo[f] /\ q \in Seq(Items)
    BY <1>1
  <2>2. i = Len(q) + 1 \/ i \in 1 .. Len(q)
    BY <1>3, <2>1
  <2>3. fifo'[g][i] = IF i = Len(q) + 1 THEN x ELSE q[i]
    BY <1>3, <2>1, <2>2
  <2> QED
    BY <2>1, <2>2, <2>3 DEF QueueKinds
<1> QED
  BY <1>1, <1>2, <1>3 DEF Put

\* What a put does to the control buffers.
LEMMA PutControls ==
    ASSUME Types, NEW f \in Fifos, NEW x \in Items, Put(f, x), hand' = hand
    PROVE  /\ \A g \in Fifos \ {f} : Control(g)' = Control(g)
           /\ f \in created =>
                Control(f)' = IF x.kind \in Passed THEN Control(f) ELSE Append(Control(f), x)
           /\ f \notin created => Control(f)' = Control(f)
<1>1. fifo \in [Fifos -> Seq(Items)] /\ hand \in [Fifos -> Items]
  BY DEF Types, QueueTypes
<1>2. \A g \in Fifos : Control(g)' = Controls(hand[g], fifo'[g])
  BY DEF Control, Controls, Shown, Passed
<1>3. \A g \in Fifos \ {f} : fifo'[g] = fifo[g]
  BY <1>1 DEF Put
<1>4. f \in created => fifo'[f] = Append(fifo[f], x)
  BY <1>1 DEF Put
<1>5. f \notin created => fifo'[f] = fifo[f]
  BY <1>1 DEF Put
<1>6. PICK q \in Seq(Items), h \in Items : q = fifo[f] /\ h = hand[f]
  BY <1>1
<1>7. \A g \in Fifos : fifo'[g] = fifo[g] => Control(g)' = Control(g)
  BY <1>2, ControlIs
<1>8. f \in created => Control(f)' = Controls(h, Append(q, x)) /\ Control(f) = Controls(h, q)
  BY <1>2, <1>4, <1>6, ControlIs
<1>9. Controls(h, Append(q, x)) = IF x.kind \in Passed THEN Controls(h, q) ELSE Append(Controls(h, q), x)
  BY ControlsPut
<1> QED
  BY <1>3, <1>5, <1>7, <1>8, <1>9

LEMMA SendDataPairs ==
    ASSUME Types, PairInv, NEW s \in Sides, SendData(s)
    PROVE  PairInv'
<1>1. s \in Threads /\ CallTypes
  BY Actors DEF Types
<1>2. PICK f \in Fifos : /\ At(s, IF f = Video THEN "data_video" ELSE "data_audio")
                         /\ CanAlloc(f) /\ Put(f, Item("data", s))
  BY DEF SendData
<1>3. Go(s, "check") /\ UNCHANGED <<created, hand, bufs, pending, side>>
  BY DEF SendData, appVars
<1>4. Alone(s) /\ pc'[s] = "check" /\ pc[s] \in {"data_video", "data_audio"}
  BY <1>1, <1>2, <1>3, GoAlone DEF At
<1>5. Uninvolved(pc[s], job[s]) /\ Uninvolved(pc'[s], job'[s])
  BY <1>4, UninvolvedIs DEF DemuxSteps
<1>6. Steady /\ RaisesSame
  BY <1>1, <1>3, <1>4, <1>5, AloneSteady, SideRaises
<1>7. Item("data", s) \in Items /\ Item("data", s).kind = "data"
  BY <1>1, Actors DEF Item, Items, Kinds
<1>8. PendingCounted'
  BY <1>3, <1>6, PendingKept DEF PairInv
<1>9. Reservations'
  BY <1>3, <1>6 DEF PairInv, Reservations, Steady
<1>10. Rooms'
  <2>1. \A g \in Fifos : Reserved(g)' = Reserved(g)
    BY <1>3 DEF Reserved
  <2> QED
    BY <1>2, <1>3, <1>7, <2>1, PutRoom DEF PairInv
<1>11. QueueKinds'
  BY <1>2, <1>7, PutKinds DEF PairInv, Kinds
<1>12. Ordered'
  <2>1. \A g \in Fifos : Control(g)' = Control(g)
    BY <1>2, <1>3, <1>7, PutControls DEF Passed
  <2> QED
    BY <1>3, <1>6, <2>1, OrderedKept DEF PairInv
<1> QED
  BY <1>8, <1>9, <1>10, <1>11, <1>12 DEF PairInv

\* Nothing gets longer.
LEMMA WithoutShorter ==
    ASSUME NEW S, NEW s \in Seq(S), NEW kinds
    PROVE  Len(Without(s, kinds)) <= Len(s)
<1> DEFINE Good(t) == Len(Without(t, kinds)) <= Len(t)
           T == {n \in Nat : \E t \in Seq(S) : Len(t) = n /\ ~Good(t)}
<1>1. Good(<<>>)
  BY WithoutEmpty
<1>2. ASSUME NEW p \in Seq(S), NEW y \in S, Good(p) PROVE Good(Append(p, y))
  <2>1. PICK w \in Seq(S) : w = Without(p, kinds)
    BY WithoutSeq
  <2>2. Without(Append(p, y), kinds) = IF y.kind \in kinds THEN w ELSE Append(w, y)
    BY <2>1, WithoutAppend
  <2>3. Len(Append(p, y)) = Len(p) + 1 /\ Len(Append(w, y)) = Len(w) + 1 /\ Len(p) \in Nat /\ Len(w) \in Nat
    OBVIOUS
  <2>4. Len(w) <= Len(p)
    BY <1>2, <2>1
  <2> QED
    BY <2>2, <2>3, <2>4
<1> SUFFICES Good(s)
  OBVIOUS
<1> HIDE DEF Good
<1>3. SUFFICES ASSUME T # {} PROVE FALSE
  OBVIOUS
<1>4. PICK n \in T : \A k \in T : n <= k
  BY <1>3, Least
<1>5. PICK t \in Seq(S) : Len(t) = n /\ ~Good(t)
  BY <1>4
<1>6. PICK p \in Seq(S), y \in S : t = Append(p, y) /\ Len(p) = Len(t) - 1
  BY <1>1, <1>5, LastOff
<1>7. Good(p)
  BY <1>4, <1>5, <1>6
<1> QED
  BY <1>2, <1>5, <1>6, <1>7

\* Only t moves: it may begin or end a wait for HEADERS_DONE,
LEMMA PendingMoved ==
    ASSUME Types, PendingCounted, NEW t \in Threads, Alone(t), RaisesSame,
           \/ (Syncing(pc'[t], job'[t]) <=> Syncing(pc[t], job[t])) /\ pending' = pending
           \/ Syncing(pc[t], job[t]) /\ ~Syncing(pc'[t], job'[t]) /\ Lower(1)
           \/ /\ ~Syncing(pc[t], job[t]) /\ Syncing(pc'[t], job'[t])
              /\ pending' = [pending EXCEPT ![1] = @ + 1]
    PROVE  PendingCounted'
<1> USE Actors
<1>1. Callers' = IF Syncing(pc'[t], job'[t]) THEN Callers \cup {t} ELSE Callers \ {t}
  <2>1. \A u \in Threads : u \in Callers' <=> IF u = t THEN Syncing(pc'[t], job'[t]) ELSE u \in Callers
    BY DEF Callers, Alone
  <2>2. Callers' \subseteq Threads /\ Callers \subseteq Threads
    BY DEF Callers
  <2>3. \A u : u \in Callers' <=>
               u \in IF Syncing(pc'[t], job'[t]) THEN Callers \cup {t} ELSE Callers \ {t}
    <3>1. CASE Syncing(pc'[t], job'[t])
      BY <2>1, <2>2, <3>1
    <3>2. CASE ~Syncing(pc'[t], job'[t])
      BY <2>1, <2>2, <3>2
    <3> QED
      BY <3>1, <3>2
  <2> QED
    BY <2>3
<1>2. t \in Callers <=> Syncing(pc[t], job[t])
  BY DEF Callers
<1>3. IsFiniteSet(Callers)
  BY ThreadsFinite, FS_Subset DEF Callers
<1>4. PICK n \in Nat : n = Cardinality(Callers)
  BY <1>3, FS_CardinalityType
<1>5. \A s \in Sides : B2N(Raises(pc[App], back[App], side, s))' = B2N(Raises(pc[App], back[App], side, s))
                       /\ B2N(Raises(pc[App], back[App], side, s)) \in {0, 1}
  BY DEF RaisesSame, B2N
<1>6. pending \in [Sides -> Int]
  BY DEF Types, SideTypes
<1>7. \A s \in Sides : s # 1 => pending'[s] = pending[s]
  BY <1>6 DEF Lower
<1>8. \A s \in Sides : s # 1 => pending'[s] = B2N(Raises(pc[App], back[App], side, s))'
  BY <1>5, <1>7 DEF PendingCounted
<1>9. pending[1] = B2N(Raises(pc[App], back[App], side, 1)) + n
  BY <1>4 DEF PendingCounted
<1>10. PICK r \in {0, 1} : r = B2N(Raises(pc[App], back[App], side, 1))
                           /\ r = B2N(Raises(pc[App], back[App], side, 1))'
  BY <1>5
<1>14. ASSUME pending'[1] = r + Cardinality(Callers') PROVE PendingCounted'
  <2> SUFFICES ASSUME NEW s \in Sides
               PROVE  pending'[s] = B2N(Raises(pc[App], back[App], side, s))'
                                      + (IF s = 1 THEN Cardinality(Callers') ELSE 0)
    BY DEF PendingCounted
  <2>1. CASE s = 1
    BY <1>10, <1>14, <2>1
  <2>2. CASE s # 1
    <3>1. PICK k \in {0, 1} : k = B2N(Raises(pc[App], back[App], side, s))'
      BY <1>5
    <3> QED
      BY <1>8, <2>2, <3>1
  <2> QED
    BY <2>1, <2>2
<1>11. CASE (Syncing(pc'[t], job'[t]) <=> Syncing(pc[t], job[t])) /\ pending' = pending
  <2>1. Callers' = Callers
    BY <1>1, <1>2, <1>11
  <2> QED
    BY <1>4, <1>9, <1>10, <1>11, <1>14, <2>1
<1>12. CASE Syncing(pc[t], job[t]) /\ ~Syncing(pc'[t], job'[t]) /\ Lower(1)
  <2>1. Callers' = Callers \ {t} /\ t \in Callers
    BY <1>1, <1>2, <1>12
  <2>2. Cardinality(Callers') = n - 1
    BY <1>3, <1>4, <2>1, FS_RemoveElement
  <2>3. pending'[1] = pending[1] - 1
    BY <1>6, <1>12 DEF Lower
  <2>4. pending'[1] = r + (n - 1)
    BY <1>9, <1>10, <2>3
  <2> QED
    BY <1>14, <2>2, <2>4
<1>13. CASE /\ ~Syncing(pc[t], job[t]) /\ Syncing(pc'[t], job'[t])
            /\ pending' = [pending EXCEPT ![1] = @ + 1]
  <2>1. Callers' = Callers \cup {t} /\ t \notin Callers
    BY <1>1, <1>2, <1>13
  <2>2. Cardinality(Callers') = n + 1
    BY <1>3, <1>4, <2>1, FS_AddElement
  <2>3. pending'[1] = pending[1] + 1
    BY <1>6, <1>13
  <2>4. pending'[1] = r + (n + 1)
    BY <1>9, <1>10, <2>3
  <2> QED
    BY <1>14, <2>2, <2>4
<1> QED
  BY <1>11, <1>12, <1>13

\* take or put buffers,
LEMMA ReservationsMoved ==
    ASSUME Reservations, NEW t \in Threads, Alone(t), \A u \in Threads : u # t => bufs'[u] = bufs[u],
           \A f \in Fifos : f \in bufs'[t] <=> Reserves(pc'[t], f)
    PROVE  Reservations'
<1>1. \A u \in Threads, f \in Fifos : f \in bufs'[u] <=> Reserves(pc'[u], f)
  BY DEF Reservations, Alone
<1> QED
  BY <1>1 DEF Reservations

\* put nothing,
LEMMA OrderedMoved ==
    ASSUME Ordered, NEW t \in Threads, Alone(t), created' = created,
           \A f \in Fifos : Control(f)' = Control(f), ~Halfway(pc[t]), ~Halfway(pc'[t])
    PROVE  Ordered'
<1>1. Control(Video)' = Control(Video) /\ Control(Audio)' = Control(Audio)
  BY Actors
<1>2. \A u \in Threads : /\ Halfway(pc'[u]) <=> Halfway(pc[u])
                         /\ Halfway(pc[u]) => pc'[u] = pc[u] /\ job'[u] = job[u]
  BY DEF Alone
<1> QED
  BY <1>1, <1>2 DEF Ordered

\* put the first buffer of a pair,
LEMMA OrderedFirst ==
    ASSUME Types, Ordered, NEW t \in Threads, Alone(t), created' = created, Halfway(pc'[t]),
           \A u \in Threads : ~Halfway(pc[u]),
           NEW x \in Items, x = Second(pc'[t], job'[t], t), x.kind \notin Passed,
           Put(Video, x), hand' = hand
    PROVE  Ordered'
<1> USE Actors
<1> SUFFICES ASSUME created = Fifos
             PROVE  \A u \in Threads : /\ Halfway(pc'[u]) <=> u = t
                                       /\ Aligned(Control(Video)', Append(Control(Audio)', x))
  BY DEF Ordered
<1>1. \A u \in Threads : Halfway(pc'[u]) <=> u = t
  BY DEF Alone
<1>2. Control(Video)' = Append(Control(Video), x) /\ Control(Audio)' = Control(Audio)
  BY PutControls
<1>3. Control(Video) \in Seq(Items) /\ Control(Audio) \in Seq(Items)
  BY ControlIs, ControlsAre DEF Types, QueueTypes
<1>4. Aligned(Control(Video), Control(Audio))
  BY DEF Ordered
<1>5. PICK v \in Seq(Items), a \in Seq(Items) : v = Control(Video) /\ a = Control(Audio)
  BY <1>3
<1>6. Aligned(Append(v, x), Append(a, x))
  BY <1>4, <1>5, AlignedLonger
<1> QED
  BY <1>1, <1>2, <1>5, <1>6

\* or the second one.
LEMMA OrderedSecond ==
    ASSUME Types, Own, Ordered, NEW t \in Threads, Alone(t), created' = created, Halfway(pc[t]),
           ~Halfway(pc'[t]),
           NEW x \in Items, x = Second(pc[t], job[t], t), x.kind \notin Passed,
           Put(Audio, x), hand' = hand
    PROVE  Ordered'
<1> USE Actors
<1>1. \A u \in Threads : Halfway(pc[u]) => u = t
  <2>1. \A u \in Threads : Halfway(pc[u]) => pair = u
    BY OwnAt DEF Halfway, HasPair
  <2> QED
    BY <2>1
<1>2. \A u \in Threads : ~Halfway(pc'[u])
  BY <1>1 DEF Alone
<1> SUFFICES ASSUME created = Fifos PROVE Aligned(Control(Video)', Control(Audio)')
  BY <1>2 DEF Ordered
<1>3. Control(Video)' = Control(Video) /\ Control(Audio)' = Append(Control(Audio), x)
  BY PutControls
<1>4. Aligned(Control(Video), Append(Control(Audio), x))
  BY DEF Ordered
<1> QED
  BY <1>3, <1>4

\* In a call the application goes on seeking, or it does not.
LEMMA SeekRaises ==
    ASSUME NEW t \in Threads, Calling(t), side' = side, t = App => (Seeking => Seeking') /\ pc'[App] \notin {"start", "stop_lock"}
    PROVE  RaisesSame
<1> USE Actors
<1>1. CASE t = App
  <2>1. (Seeking' <=> Seeking)
    BY <1>1 DEF Calling
  <2>2. pc[App] \notin {"go_on", "play_video", "play_audio", "play_lock", "start", "stop_lock", "seek"}
    BY <1>1 DEF Calling, CallSteps, FlushSteps, PairSteps, AllocSteps, PutSteps, SyncSteps
  <2>3. pc'[App] \notin {"go_on", "play_video", "play_audio", "play_lock", "start", "stop_lock"}
    BY <1>1 DEF Calling
  <2> QED
    BY <2>1, <2>2, <2>3 DEF RaisesSame, Raises, Seeking
<1>2. CASE t # App
  <2>1. pc'[App] = pc[App] /\ back'[App] = back[App]
    BY <1>2 DEF Calling, Alone
  <2> QED
    BY <2>1 DEF RaisesSame
<1> QED
  BY <1>1, <1>2

\* Only t moves, and puts nothing.
LEMMA MovedPairs ==
    ASSUME Types, PairInv, NEW t \in Threads, Alone(t), RaisesSame, UNCHANGED <<created, fifo, hand, bufs>>,
           \/ (Syncing(pc'[t], job'[t]) <=> Syncing(pc[t], job[t])) /\ pending' = pending
           \/ Syncing(pc[t], job[t]) /\ ~Syncing(pc'[t], job'[t]) /\ Lower(1)
           \/ /\ ~Syncing(pc[t], job[t]) /\ Syncing(pc'[t], job'[t])
              /\ pending' = [pending EXCEPT ![1] = @ + 1],
           ~Halfway(pc[t]), ~Halfway(pc'[t]), \A f \in Fifos : Reserves(pc'[t], f) <=> Reserves(pc[t], f)
    PROVE  PairInv'
<1>1. PendingCounted'
  BY PendingMoved DEF PairInv
<1>2. Reservations'
  BY ReservationsMoved DEF PairInv, Reservations
<1>3. Rooms'
  <2>1. \A f \in Fifos : InPool(f)' = InPool(f)
    BY DEF InPool, Reserved
  <2>2. created \subseteq Fifos
    BY DEF Types, QueueTypes
  <2>3. \A f \in created : InPool(f)' = InPool(f)
    BY <2>1, <2>2
  <2> QED
    BY <2>3 DEF PairInv, Rooms
<1>4. QueueKinds'
  BY DEF PairInv, QueueKinds
<1>5. Ordered'
  <2>1. \A f \in Fifos : Control(f)' = Control(f)
    BY DEF Control
  <2> QED
    BY <2>1, OrderedMoved DEF PairInv
<1> QED
  BY <1>1, <1>2, <1>3, <1>4, <1>5 DEF PairInv

\* A return or a step within a call keeps the application seeking.
LEMMA ReturnRaises ==
    ASSUME CallTypes, Shape, NEW t \in Threads, Return(t), pc[t] \in CallSteps,
           pc[t] \in PutSteps \/ pc[t] \in FlushSteps \/ job[t] = "headers", side' = side
    PROVE  RaisesSame
<1> USE Actors
<1>1. Calling(t)
  BY CallReturning
<1>2. ASSUME t = App PROVE (Seeking => Seeking') /\ pc'[App] \notin {"start", "stop_lock"}
  <2>1. /\ pc'[App] = Head(back[App]) /\ back'[App] = Tail(back[App])
    BY <1>2, ReturnAlone
  <2>2. WellFormed(App, pc[App], job[App], back[App])
    BY DEF Shape
  <2>3. pc[App] \notin AppSteps \cup StopSteps \cup DemuxSteps
    BY <1>2 DEF CallSteps, FlushSteps, PairSteps, AllocSteps, PutSteps, SyncSteps, AppSteps, StopSteps, DemuxSteps
  <2>4. back[App] \in FlushBacks(App) \cup HeadersBacks(App) \cup EndBacks(App) \cup {<<"idle">>, <<"open">>}
    BY <2>2, <2>3 DEF WellFormed
  <2>5. Head(back[App]) \in {"stop_unlock", "seek", "flushed", "opened", "stop_side", "idle", "open"}
    BY <2>4, ReturnKeeps
  <2>6. back[App] \in SeekBacks => Head(back[App]) = "seek" \/ Tail(back[App]) \in SeekBacks
    <3>1. Head(<<"seek">>) = "seek" /\ Tail(<<"flushed", "seek">>) = <<"seek">>
      BY Tuples
    <3> QED
      BY <3>1 DEF SeekBacks
  <2>7. pc[App] # "seek"
    BY <2>3 DEF AppSteps
  <2> QED
    BY <2>1, <2>5, <2>6, <2>7 DEF Seeking
<1> QED
  BY <1>1, <1>2, SeekRaises

LEMMA GoRaises ==
    ASSUME CallTypes, NEW t \in Threads, Go(t, pc'[t]), Calling(t), pc'[t] \in CallSteps, side' = side
    PROVE  RaisesSame
<1> USE Actors
<1>1. back'[t] = back[t]
  BY GoAlone
<1>2. pc[t] # "seek" /\ pc'[t] \notin {"start", "stop_lock"}
  BY CallSteps1 DEF Calling, CallSteps, FlushSteps, PairSteps, AllocSteps, PutSteps, SyncSteps
<1>3. t = App => (Seeking => Seeking')
  BY <1>1, <1>2 DEF Seeking
<1> QED
  BY <1>2, <1>3, SeekRaises

\* A thread at "sync" or "sync_wait" has put HEADERS_DONE.
LEMMA SyncJob ==
    ASSUME Shape, NEW t \in Threads, pc[t] \in SyncSteps
    PROVE  job[t] = "headers" /\ Syncing(pc[t], job[t])
<1>1. WellFormed(t, pc[t], job[t], back[t])
  BY DEF Shape
<1>2. job[t] = "headers"
  BY <1>1 DEF WellFormed, FlushSteps, DemuxSteps, AppSteps, StopSteps, AllocSteps, PutSteps, SyncSteps
<1> QED
  BY <1>2 DEF Syncing

LEMMA SyncKinds ==
    /\ \A p \in SyncSteps \cup {"flushed", "opened"} : ~Halfway(p) /\ \A f \in Fifos : ~Reserves(p, f)
    /\ \A j : ~Syncing("flushed", j) /\ ~Syncing("opened", j)
    /\ SyncSteps \subseteq CallSteps
  BY DEF SyncSteps, Halfway, Reserves, Syncing, PairSteps, AllocSteps, PutSteps, CallSteps

LEMMA SyncLeaves ==
    ASSUME Types, Shape, PairInv, NEW t \in Threads, pc[t] \in SyncSteps, Return(t), Lower(1),
           UNCHANGED <<created, fifo, hand, bufs, side>>
    PROVE  PairInv'
<1>1. job[t] = "headers" /\ Syncing(pc[t], job[t])
  BY SyncJob
<1>2. pc[t] \in CallSteps /\ CallTypes
  BY SyncKinds DEF Types
<1>3. RaisesSame
  BY <1>1, <1>2, ReturnRaises
<1>4. Alone(t)
  BY <1>2, ReturnAlone
<1>5. pc'[t] \in {"flushed", "opened"}
  BY <1>1, <1>2, Returned
<1> QED
  BY <1>1, <1>3, <1>4, <1>5, SyncKinds, MovedPairs

LEMMA SyncPairs ==
    ASSUME Types, Shape, PairInv, NEW t \in Threads, Sync(t)
    PROVE  PairInv'
<1>1. pc[t] \in SyncSteps
  BY DEF Sync, SyncSteps, At
<1>2. UNCHANGED <<created, fifo, hand, bufs, side>>
  BY DEF Sync, queueVars, appVars
<1>3. CASE Return(t) /\ Lower(1)
  BY <1>1, <1>2, <1>3, SyncLeaves
<1>4. CASE Go(t, "sync_wait") /\ pending' = pending
  <2>1. Alone(t) /\ pc'[t] = "sync_wait" /\ job'[t] = job[t]
    BY <1>4, GoAlone DEF Types
  <2>2. pc'[t] \in SyncSteps
    BY <2>1 DEF SyncSteps
  <2>3. Syncing(pc[t], job[t]) /\ Syncing(pc'[t], job'[t])
    BY <1>1, <2>1, <2>2, SyncJob DEF Syncing
  <2>4. Calling(t)
    BY SyncCalling DEF Types
  <2>5. RaisesSame
    BY <1>2, <1>4, <2>1, <2>2, <2>4, SyncKinds, GoRaises DEF Types
  <2> QED
    BY <1>1, <1>2, <1>4, <2>1, <2>2, <2>3, <2>5, SyncKinds, MovedPairs
<1> QED
  BY <1>3, <1>4 DEF Sync, SyncDone

LEMMA EmergencyPairs ==
    ASSUME Types, Shape, Asleep, PairInv, NEW t \in Threads, Emergency(t)
    PROVE  PairInv'
<1> USE Actors
<1>1. UNCHANGED <<created, fifo, hand, bufs, side>>
  BY DEF Emergency, queueVars, appVars
<1>2. CASE At(t, "end_wait")
  <2>1. Go(t, "finished") /\ pending' = pending
    BY <1>2 DEF Emergency
  <2>2. pc[t] = "end_wait" /\ Alone(t) /\ pc'[t] = "finished"
    BY <1>2, <2>1, GoAlone DEF At, Types
  <2>3. t # App
    <3>1. WellFormed(t, "end_wait", job[t], back[t])
      BY <2>2 DEF Shape
    <3> QED
      BY <3>1 DEF WellFormed, DemuxSteps, AppSteps, StopSteps, FlushSteps, AllocSteps, PutSteps, PairSteps, SyncSteps
  <2>4. pc[t] \in DemuxSteps /\ pc'[t] \in DemuxSteps
    BY <2>2 DEF DemuxSteps
  <2> QED
    BY <1>1, <2>1, <2>2, <2>3, <2>4, SideStill, UninvolvedIs
<1>3. CASE ~At(t, "end_wait")
  <2>1. Return(t) /\ Lower(1)
    BY <1>3 DEF Emergency
  <2>2. pc[t] = "sync_wait"
    BY <1>3 DEF Emergency, Asleep, At
  <2>3. pc[t] \in SyncSteps
    BY <2>2 DEF SyncSteps
  <2> QED
    BY <1>1, <2>1, <2>3, SyncLeaves
<1> QED
  BY <1>2, <1>3

\* A fifo is cleared.
LEMMA ClearPairs ==
    ASSUME Types, PairInv, NEW t \in Threads, NEW f \in Fifos, Clear(f), Alone(t), RaisesSame,
           Uninvolved(pc[t], job[t]), Uninvolved(pc'[t], job'[t]),
           UNCHANGED <<created, hand, bufs, pending>>
    PROVE  PairInv'
<1>1. Steady
  BY AloneSteady
<1>2. PendingCounted'
  BY <1>1, PendingKept DEF PairInv
<1>3. Reservations'
  BY <1>1 DEF PairInv, Reservations, Steady
<1>4. fifo \in [Fifos -> Seq(Items)] /\ hand \in [Fifos -> Items] /\ created \subseteq Fifos
  BY DEF Types, QueueTypes
<1>5. PICK q \in Seq(Items), k \in Seq(Items) : q = fifo[f] /\ k = Kept(q)
  BY <1>4, ControlsKept
<1>6. fifo'[f] = k /\ \A g \in Fifos \ {f} : fifo'[g] = fifo[g]
  BY <1>4, <1>5 DEF Clear
<1>7. Rooms'
  <2> SUFFICES ASSUME NEW g \in created PROVE InPool(g)' <= Pool
    BY DEF Rooms
  <2>1. g \in Fifos /\ InPool(g) <= Pool
    BY <1>4 DEF PairInv, Rooms
  <2>2. Len(fifo'[g]) <= Len(fifo[g]) /\ Len(fifo'[g]) \in Nat
    <3>1. CASE g = f
      <4>1. Len(k) <= Len(q) /\ Len(k) \in Nat
        BY <1>5, WithoutShorter DEF Kept
      <4> QED
        BY <1>5, <1>6, <3>1, <4>1
    <3>2. CASE g # f
      <4>1. Len(fifo[g]) \in Nat
        BY <1>4, <2>1
      <4> QED
        BY <1>6, <2>1, <3>2, <4>1
    <3> QED
      BY <3>1, <3>2
  <2>3. PICK m \in Nat, n \in Nat, b \in Nat, c \in Nat :
          /\ m = Len(fifo'[g]) /\ n = Len(fifo[g]) /\ m <= n
          /\ b = B2N(hand[g] # NoItem) /\ c = Cardinality(Reserved(g))
    BY <2>1, <2>2, RoomIs
  <2>4. Reserved(g)' = Reserved(g)
    BY DEF Reserved
  <2>5. InPool(g)' = m + b + c /\ InPool(g) = n + b + c
    BY <2>3, <2>4 DEF InPool, B2N
  <2>6. PICK l \in Nat : l = Pool
    BY SyncAssumption
  <2>7. n + b + c <= l /\ m <= n
    BY <2>1, <2>3, <2>5, <2>6
  <2>8. m + b + c <= l
    BY ONLY <2>7
  <2> QED
    BY <2>5, <2>6, <2>8
<1>8. QueueKinds'
  <2>1. PICK e : Embeds(e, k, q, {"data"})
    BY <1>5, Embedding DEF Kept
  <2>2. \A i \in 1 .. Len(k) : k[i] = q[e[i]] /\ e[i] \in 1 .. Len(q)
    BY <2>1 DEF Embeds
  <2>3. \A i \in 1 .. Len(q) : q[i].kind \in Kinds \ {"barrier", "none"}
    BY <1>5 DEF PairInv, QueueKinds
  <2>4. \A i \in 1 .. Len(k) : k[i].kind \in Kinds \ {"barrier", "none"}
    BY <2>2, <2>3
  <2> QED
    BY <1>6, <2>4 DEF PairInv, QueueKinds
<1>9. Ordered'
  <2>1. \A g \in Fifos : Control(g)' = Controls(hand[g], fifo'[g])
    BY DEF Control, Controls, Shown, Passed
  <2>2. PICK h \in Items : h = hand[f]
    BY <1>4
  <2>3. Controls(h, Kept(q)) = Controls(h, q)
    BY ControlsKept
  <2>4. Control(f)' = Control(f)
    BY <1>5, <1>6, <2>1, <2>2, <2>3, ControlIs
  <2>5. \A g \in Fifos \ {f} : Control(g)' = Control(g)
    BY <1>6, <2>1, ControlIs
  <2> QED
    BY <1>1, <2>4, <2>5, OrderedKept DEF PairInv
<1> QED
  BY <1>2, <1>3, <1>7, <1>8, <1>9 DEF PairInv

\* A buffer of a pair is put, for which there is room.
LEMMA PutPairs ==
    ASSUME Types, PairInv, NEW t \in Threads, NEW f \in Fifos, NEW x \in Items,
           x.kind \in Kinds \ {"barrier", "none"}, Put(f, x),
           Alone(t), RaisesSame, UNCHANGED <<created, hand>>, Ordered',
           \/ (Syncing(pc'[t], job'[t]) <=> Syncing(pc[t], job[t])) /\ pending' = pending
           \/ /\ ~Syncing(pc[t], job[t]) /\ Syncing(pc'[t], job'[t])
              /\ pending' = [pending EXCEPT ![1] = @ + 1],
           \A g \in Fifos : g \in bufs'[t] <=> Reserves(pc'[t], g),
           \/ bufs' = bufs /\ CanAlloc(f)
           \/ f \in bufs[t] /\ bufs' = [bufs EXCEPT ![t] = @ \ {f}]
    PROVE  PairInv'
<1>1. PendingCounted'
  BY PendingMoved DEF PairInv
<1>2. bufs \in [Threads -> SUBSET Fifos]
  BY DEF Types, QueueTypes
<1>3. Reservations'
  <2>1. \A u \in Threads : u # t => bufs'[u] = bufs[u]
    BY <1>2
  <2> QED
    BY <2>1, ReservationsMoved DEF PairInv
<1>4. Rooms'
  <2>1. CASE bufs' = bufs /\ CanAlloc(f)
    <3>1. \A g \in Fifos : Reserved(g)' = Reserved(g)
      BY <2>1 DEF Reserved
    <3> QED
      BY <2>1, <3>1, PutRoom DEF PairInv
  <2>2. CASE f \in bufs[t] /\ bufs' = [bufs EXCEPT ![t] = @ \ {f}]
    <3>1. \A g, u : u \in Threads => (g \in bufs'[u] <=> g \in bufs[u] /\ ~(g = f /\ u = t))
      BY <1>2, <2>2
    <3>2. \A g \in Fifos \ {f} : Reserved(g)' = Reserved(g)
      BY <3>1 DEF Reserved
    <3>3. Reserved(f)' = Reserved(f) \ {t} /\ t \in Reserved(f)
      <4>1. \A u : u \in Reserved(f)' <=> u \in Reserved(f) \ {t}
        BY <3>1 DEF Reserved
      <4> QED
        BY <2>2, <4>1 DEF Reserved
    <3> QED
      BY <3>2, <3>3, PutRoom DEF PairInv
  <2> QED
    BY <2>1, <2>2
<1>5. QueueKinds'
  BY PutKinds DEF PairInv
<1> QED
  BY <1>1, <1>3, <1>4, <1>5 DEF PairInv

LEMMA FlushKinds ==
    /\ \A p \in {"flush", "clear_video", "clear_audio", "reset", "reset_video", "flushed", "stop_unlock",
                 "seek", "check"} : \A j : Uninvolved(p, j)
    /\ \A p \in FlushSteps : \A j : ~Syncing(p, j) /\ \A f \in Fifos : ~Reserves(p, f)
    /\ \A j : ~Syncing("stop_unlock", j) /\ ~Syncing("seek", j) /\ ~Syncing("check", j)
    /\ \A f \in Fifos : ~Reserves("alloc_video", f)
    /\ Syncing("alloc_video", "headers") /\ ~Halfway("alloc_video")
    /\ FlushSteps \subseteq CallSteps
  BY DEF FlushSteps, Uninvolved, Halfway, Reserves, Syncing, PairSteps, AllocSteps, PutSteps, SyncSteps,
         CallSteps

\* A step of a thread that has no part in pairs, before and after it.
LEMMA UninvolvedPairs ==
    ASSUME PairInv, NEW t \in Threads, Alone(t), RaisesSame,
           Uninvolved(pc[t], job[t]), Uninvolved(pc'[t], job'[t]),
           UNCHANGED <<created, fifo, hand, bufs, pending>>
    PROVE  PairInv'
  BY AloneSteady, StillKeeps

LEMMA FlushResetPairs ==
    ASSUME Types, Shape, Own, PairInv, NEW t \in Threads, FlushReset(t), Calling(t),
           UNCHANGED <<created, side>>
    PROVE  PairInv'
<1> USE Actors
<1>1. hand' = hand /\ bufs' = bufs /\ CallTypes /\ Alone(t)
  BY DEF FlushReset, Types, Calling
<1>2. {"reset", "reset_video", "reset_audio"} \subseteq FlushSteps
  BY DEF FlushSteps
<1>3. PICK x \in Items : x = Item("reset", t) /\ x.kind = "reset"
  <2>1. Item("reset", t) \in Items
    BY PutItemTyped
  <2> QED
    BY <2>1 DEF Item
<1>4. x.kind \in Kinds \ {"barrier", "none"} /\ x.kind \notin Passed
  BY <1>3 DEF Kinds, Passed
<1>5. CASE At(t, "reset") /\ Go(t, "reset_video") /\ UNCHANGED <<fifo, pending>>
  <2>1. pc[t] = "reset" /\ pc'[t] = "reset_video"
    BY <1>1, <1>5, GoAlone DEF At
  <2>2. RaisesSame
    BY <1>1, <1>2, <1>5, <2>1, FlushKinds, GoRaises
  <2>3. Uninvolved(pc[t], job[t]) /\ Uninvolved(pc'[t], job'[t])
    BY <2>1, FlushKinds
  <2> QED
    BY <1>1, <1>5, <2>2, <2>3, UninvolvedPairs
<1>6. CASE /\ At(t, "reset_video") /\ CanAlloc(Video) /\ Put(Video, Item("reset", t))
           /\ Go(t, "reset_audio") /\ UNCHANGED <<pair, pending>>
  <2>1. pc[t] = "reset_video" /\ pc'[t] = "reset_audio" /\ job'[t] = job[t]
    BY <1>1, <1>6, GoAlone DEF At
  <2>2. RaisesSame
    BY <1>1, <1>2, <1>6, <2>1, FlushKinds, GoRaises
  <2>3. Halfway(pc'[t]) /\ x = Second(pc'[t], job'[t], t) /\ ~Halfway(pc[t])
    BY <1>3, <2>1 DEF Halfway, Second
  <2>4. \A u \in Threads : ~Halfway(pc[u])
    <3>1. pair = t
      BY <2>1, OwnAt DEF HasPair
    <3>2. \A u \in Threads : Halfway(pc[u]) => pair = u
      BY OwnAt DEF Halfway, HasPair
    <3> QED
      BY <2>3, <3>1, <3>2
  <2>5. Ordered'
    BY <1>1, <1>3, <1>4, <1>6, <2>3, <2>4, OrderedFirst DEF PairInv
  <2>6. Syncing(pc'[t], job'[t]) <=> Syncing(pc[t], job[t])
    BY <1>2, <2>1, FlushKinds
  <2>7. \A g \in Fifos : g \in bufs'[t] <=> Reserves(pc'[t], g)
    BY <1>1, <1>2, <2>1, FlushKinds DEF PairInv, Reservations
  <2> QED
    BY <1>1, <1>3, <1>4, <1>6, <2>2, <2>5, <2>6, <2>7, PutPairs
<1>7. CASE /\ At(t, "reset_audio") /\ CanAlloc(Audio) /\ Put(Audio, Item("reset", t))
           /\ HeadersDone(t, "flushed")
  <2>1. pc[t] = "reset_audio" /\ pc'[t] = "alloc_video" /\ job'[t] = "headers"
        /\ back'[t] = <<"flushed">> \o back[t]
    BY <1>1, <1>7, SendAlone DEF At, HeadersDone
  <2>2. RaisesSame
    <3>1. ASSUME t = App PROVE Seeking => Seeking'
      <4>1. WellFormed(App, "reset_audio", job[App], back[App])
        BY <2>1, <3>1 DEF Shape
      <4>2. back[App] \in FlushBacks(App)
        BY <4>1 DEF WellFormed, DemuxSteps, AppSteps, StopSteps, AllocSteps, PutSteps, PairSteps, SyncSteps
      <4>3. <<"flushed">> \o <<"seek">> = <<"flushed", "seek">>
        BY Pushes
      <4>4. back[App] \in SeekBacks => back[App] = <<"seek">>
        <5>1. \A y : <<"stop_unlock", y>> \notin SeekBacks
          BY DEF SeekBacks
        <5> QED
          BY <4>2, <5>1 DEF FlushBacks
      <4>5. back[App] \in SeekBacks => back'[App] \in SeekBacks
        BY <2>1, <3>1, <4>3, <4>4 DEF SeekBacks
      <4> QED
        BY <2>1, <3>1, <4>5 DEF Seeking
    <3> QED
      BY <2>1, <3>1, SeekRaises
  <2>3. Halfway(pc[t]) /\ x = Second(pc[t], job[t], t) /\ ~Halfway(pc'[t])
    BY <1>3, <2>1, FlushKinds DEF Halfway, Second
  <2>4. Ordered'
    BY <1>1, <1>3, <1>4, <1>7, <2>3, OrderedSecond DEF PairInv
  <2>5. ~Syncing(pc[t], job[t]) /\ Syncing(pc'[t], job'[t]) /\ pending' = [pending EXCEPT ![1] = @ + 1]
    BY <1>2, <1>7, <2>1, FlushKinds DEF HeadersDone
  <2>6. \A g \in Fifos : g \in bufs'[t] <=> Reserves(pc'[t], g)
    BY <1>1, <1>2, <2>1, FlushKinds DEF PairInv, Reservations
  <2> QED
    BY <1>1, <1>3, <1>4, <1>7, <2>2, <2>4, <2>5, <2>6, PutPairs
<1> QED
  BY <1>5, <1>6, <1>7 DEF FlushReset

LEMMA FlushPairs ==
    ASSUME Types, Shape, Own, PairInv, NEW t \in Threads, Flush(t)
    PROVE  PairInv'
<1> USE Actors
<1>1. CallTypes /\ Calling(t) /\ Alone(t) /\ UNCHANGED <<created, side>>
  <2>1. CallTypes
    BY DEF Types
  <2>2. Calling(t)
    BY <2>1, FlushCalling
  <2> QED
    BY <2>1, <2>2 DEF Calling, Flush, appVars
<1>2. ASSUME NEW p \in {"flush", "flushed"}, At(t, p), Return(t), UNCHANGED <<queueVars, pending>>
      PROVE  PairInv'
  <2>1. pc[t] = p /\ p \in FlushSteps /\ p \in CallSteps
    BY <1>2 DEF At, FlushSteps, CallSteps
  <2>2. pc'[t] \in {"stop_unlock", "seek", "check"}
    BY <1>1, <1>2, <2>1, Returned
  <2>3. RaisesSame
    BY <1>1, <1>2, <2>1, ReturnRaises
  <2>4. Uninvolved(pc[t], job[t]) /\ Uninvolved(pc'[t], job'[t])
    BY <2>1, <2>2, FlushKinds
  <2> QED
    BY <1>1, <1>2, <2>3, <2>4, UninvolvedPairs DEF queueVars
<1>3. ASSUME NEW p \in {"flush", "clear_video", "clear_audio"},
             NEW step \in {"clear_video", "clear_audio", "reset"}, At(t, p), Go(t, step)
      PROVE  RaisesSame /\ Uninvolved(pc[t], job[t]) /\ Uninvolved(pc'[t], job'[t])
  <2>1. pc[t] = p /\ pc'[t] = step
    BY <1>1, <1>3, GoAlone DEF At
  <2>2. pc'[t] \in CallSteps
    BY <2>1 DEF FlushSteps, CallSteps
  <2> QED
    BY <1>1, <1>3, <2>1, <2>2, FlushKinds, GoRaises
<1>4. CASE FlushBegin(t) /\ ~Return(t)
  <2>1. At(t, "flush") /\ Go(t, "clear_video") /\ UNCHANGED <<fifo, hand, bufs, pending>>
    BY <1>4 DEF FlushBegin, queueVars
  <2> QED
    BY <1>1, <1>3, <2>1, UninvolvedPairs
<1>5. CASE FlushBegin(t) /\ Return(t)
  BY <1>2, <1>5 DEF FlushBegin
<1>6. CASE FlushEnd(t)
  BY <1>2, <1>6 DEF FlushEnd
<1>7. CASE FlushClear(t)
  <2>1. UNCHANGED <<hand, bufs, pending>>
    BY <1>7 DEF FlushClear
  <2>2. CASE At(t, "clear_video") /\ Clear(Video) /\ Go(t, "clear_audio")
    BY <1>1, <1>3, <2>1, <2>2, ClearPairs
  <2>3. CASE At(t, "clear_audio") /\ Clear(Audio) /\ Go(t, "reset")
    BY <1>1, <1>3, <2>1, <2>3, ClearPairs
  <2> QED
    BY <1>7, <2>2, <2>3 DEF FlushClear
<1>8. CASE FlushReset(t)
  BY <1>1, <1>8, FlushResetPairs
<1> QED
  BY <1>4, <1>5, <1>6, <1>7, <1>8 DEF Flush

\* A buffer of f is allocated.
LEMMA TookPairs ==
    ASSUME Types, PairInv, NEW t \in Threads, NEW f \in Fifos, CanAlloc(f), Took(t, f), f \notin bufs[t],
           Alone(t), RaisesSame, UNCHANGED <<created, fifo, hand, pending>>,
           Syncing(pc'[t], job'[t]) <=> Syncing(pc[t], job[t]), ~Halfway(pc[t]), ~Halfway(pc'[t]),
           \A g \in Fifos : g \in bufs'[t] <=> Reserves(pc'[t], g)
    PROVE  PairInv'
<1>1. PendingCounted'
  BY PendingMoved DEF PairInv
<1>2. bufs \in [Threads -> SUBSET Fifos] /\ bufs' = [bufs EXCEPT ![t] = @ \cup {f}]
  BY DEF Types, QueueTypes, Took
<1>3. Reservations'
  <2>1. \A u \in Threads : u # t => bufs'[u] = bufs[u]
    BY <1>2
  <2> QED
    BY <2>1, ReservationsMoved DEF PairInv
<1>4. Rooms'
  <2>1. \A g, u : u \in Threads => (g \in bufs'[u] <=> g \in bufs[u] \/ (g = f /\ u = t))
    BY <1>2
  <2>2. \A g \in Fifos \ {f} : Reserved(g)' = Reserved(g)
    BY <2>1 DEF Reserved
  <2>3. Reserved(f)' = Reserved(f) \cup {t} /\ t \notin Reserved(f)
    <3>1. \A u : u \in Reserved(f)' <=> u \in Reserved(f) \cup {t}
      BY <2>1 DEF Reserved
    <3> QED
      BY <3>1 DEF Reserved
  <2> SUFFICES ASSUME NEW g \in created PROVE InPool(g)' <= Pool
    BY DEF Rooms
  <2>4. g \in Fifos /\ InPool(g) <= Pool
    BY DEF Types, QueueTypes, PairInv, Rooms
  <2>5. PICK m \in Nat, b \in Nat, c \in Nat, l \in Nat :
          /\ m = Len(fifo[g]) /\ b = B2N(hand[g] # NoItem) /\ c = Cardinality(Reserved(g)) /\ l = Pool
    BY <2>4, RoomIs
  <2>6. InPool(g) = m + b + c /\ InPool(g)' = m + b + Cardinality(Reserved(g)')
    BY <2>5 DEF InPool, B2N
  <2>7. CASE g # f
    BY <2>2, <2>4, <2>5, <2>6, <2>7
  <2>8. CASE g = f
    <3>1. Cardinality(Reserved(f)') = c + 1
      <4>1. PICK r : r = Reserved(f) /\ IsFiniteSet(r) /\ Cardinality(r) = c
        BY <2>5, <2>8, RoomIs
      <4>2. Reserved(f)' = r \cup {t} /\ t \notin r
        BY <2>3, <4>1
      <4>3. Cardinality(r \cup {t}) = c + 1
        BY <4>1, <4>2, FS_AddElement
      <4> QED
        BY <4>2, <4>3
    <3>2. l - (m + b + c) > 0
      BY <2>4, <2>5, <2>6, <2>8, RoomIs DEF CanAlloc
    <3>3. m + b + (c + 1) <= l
      BY ONLY <3>2
    <3> QED
      BY <2>5, <2>6, <2>8, <3>1, <3>3
  <2> QED
    BY <2>7, <2>8
<1>5. QueueKinds'
  BY DEF PairInv, QueueKinds
<1>6. Ordered'
  <2>1. \A g \in Fifos : Control(g)' = Control(g)
    BY DEF Control
  <2> QED
    BY <2>1, OrderedMoved DEF PairInv
<1> QED
  BY <1>1, <1>3, <1>4, <1>5, <1>6 DEF PairInv

LEMMA PairKinds ==
    /\ \A p \in PairSteps \cup {"sync"} : \A j : /\ Syncing(p, j) <=> j = "headers"
                                             /\ p \in CallSteps
    /\ \A p \in {"alloc_video", "alloc_audio", "count", "put_video", "sync"} : ~Halfway(p)
    /\ Halfway("put_audio")
    /\ \A f \in Fifos : /\ ~Reserves("alloc_video", f) /\ (Reserves("alloc_audio", f) <=> f = Video)
                        /\ Reserves("count", f) /\ Reserves("put_video", f)
                        /\ Reserves("put_audio", f) <=> f # Video
                        /\ ~Reserves("sync", f)
    /\ PairSteps = {"alloc_video", "alloc_audio", "count", "put_video", "put_audio"}
  BY DEF PairSteps, AllocSteps, PutSteps, Syncing, CallSteps, Halfway, Reserves, SyncSteps

LEMMA AllocPairs ==
    ASSUME Types, PairInv, NEW t \in Threads, AllocVideo(t) \/ AllocAudio(t), Calling(t),
           UNCHANGED <<created, pending, side>>
    PROVE  PairInv'
<1> USE Actors
<1>1. CallTypes /\ Alone(t) /\ UNCHANGED <<fifo, hand>>
  BY DEF Types, Calling, AllocVideo, AllocAudio
<1>2. bufs \in [Threads -> SUBSET Fifos] /\ Fifos = {Video, Audio}
  BY DEF Types, QueueTypes, Fifos
<1>3. CASE AllocVideo(t)
  <2>1. pc[t] = "alloc_video" /\ pc'[t] = "alloc_audio" /\ job'[t] = job[t] /\ Go(t, "alloc_audio")
    BY <1>1, <1>3, GoAlone DEF AllocVideo, At
  <2>2. RaisesSame
    BY <1>1, <2>1, PairKinds, GoRaises
  <2>3. CanAlloc(Video) /\ Took(t, Video)
    BY <1>3 DEF AllocVideo
  <2>4. \A g \in Fifos : g \notin bufs[t]
    BY <2>1, PairKinds DEF PairInv, Reservations
  <2>5. \A g \in Fifos : g \in bufs'[t] <=> g = Video
    BY <1>2, <2>3, <2>4 DEF Took
  <2>6. \A g \in Fifos : g \in bufs'[t] <=> Reserves(pc'[t], g)
    BY <2>1, <2>5, PairKinds
  <2> QED
    BY <1>1, <2>1, <2>2, <2>3, <2>4, <2>6, PairKinds, TookPairs
<1>4. CASE AllocAudio(t)
  <2>1. PICK step \in {"count", "put_video"} : Go(t, step)
    BY <1>4 DEF AllocAudio
  <2>2. pc[t] = "alloc_audio" /\ pc'[t] = step /\ job'[t] = job[t]
    BY <1>1, <1>4, <2>1, GoAlone DEF AllocAudio, At
  <2>3. RaisesSame
    BY <1>1, <2>1, <2>2, PairKinds, GoRaises
  <2>4. CanAlloc(Audio) /\ Took(t, Audio)
    BY <1>4 DEF AllocAudio
  <2>5. \A g \in Fifos : g \in bufs[t] <=> g = Video
    BY <2>2, PairKinds DEF PairInv, Reservations
  <2>6. \A g \in Fifos : g \in bufs'[t]
    BY <1>2, <2>4, <2>5 DEF Took
  <2>7. \A g \in Fifos : g \in bufs'[t] <=> Reserves(pc'[t], g)
    BY <2>1, <2>2, <2>6, PairKinds
  <2> QED
    BY <1>1, <2>1, <2>2, <2>3, <2>4, <2>5, <2>7, PairKinds, TookPairs
<1> QED
  BY <1>3, <1>4

LEMMA CountPairs ==
    ASSUME Types, PairInv, NEW t \in Threads, Count(t), Calling(t),
           UNCHANGED <<created, pending, side>>
    PROVE  PairInv'
<1>1. CallTypes /\ Alone(t) /\ UNCHANGED <<fifo, hand, bufs>> /\ Go(t, "put_video") /\ At(t, "count")
  BY DEF Types, Calling, Count, queueVars
<1>2. pc[t] = "count" /\ pc'[t] = "put_video" /\ job'[t] = job[t]
  BY <1>1, GoAlone DEF At
<1>3. RaisesSame
  BY <1>1, <1>2, PairKinds, GoRaises
<1>4. \A f \in Fifos : Reserves(pc'[t], f) <=> Reserves(pc[t], f)
  BY <1>2, PairKinds
<1> QED
  BY <1>1, <1>2, <1>3, <1>4, PairKinds, MovedPairs

LEMMA PutVideoPairs ==
    ASSUME Types, Own, PairInv, NEW t \in Threads, PutVideo(t), Calling(t),
           UNCHANGED <<created, pending, side>>
    PROVE  PairInv'
<1> USE Actors
<1>1. CallTypes /\ Alone(t) /\ hand' = hand /\ Go(t, "put_audio") /\ At(t, "put_video")
  BY DEF Types, Calling, PutVideo
<1>2. pc[t] = "put_video" /\ pc'[t] = "put_audio" /\ job'[t] = job[t]
  BY <1>1, GoAlone DEF At
<1>3. RaisesSame
  BY <1>1, <1>2, PairKinds, GoRaises
<1>4. PICK x \in Items : x = Item(job[t], t) /\ x.kind = job[t]
  BY PutItemTyped
<1>5. x.kind \in Kinds \ {"barrier", "none"} /\ x.kind \notin Passed
  BY <1>1, <1>4 DEF CallTypes, Jobs, Kinds, Passed
<1>6. \A u \in Threads : ~Halfway(pc[u])
  <2>1. pair = Nobody
    BY DEF PutVideo, PairFree
  <2>2. \A u \in Threads : Halfway(pc[u]) => pair = u
    BY OwnAt DEF Halfway, HasPair
  <2> QED
    BY <2>1, <2>2
<1>7. x = Second(pc'[t], job'[t], t)
  BY <1>2, <1>4 DEF Second
<1>8. Put(Video, x) /\ bufs' = [bufs EXCEPT ![t] = @ \ {Video}]
  BY <1>4 DEF PutVideo
<1>9. Ordered'
  BY <1>1, <1>2, <1>5, <1>6, <1>7, <1>8, PairKinds, OrderedFirst DEF PairInv
<1>10. \A g \in Fifos : g \in bufs[t]
  BY <1>2, PairKinds DEF PairInv, Reservations
<1>11. \A g \in Fifos : g \in bufs'[t] <=> g # Video
  BY <1>8, <1>10 DEF Types, QueueTypes
<1>12. \A g \in Fifos : g \in bufs'[t] <=> Reserves(pc'[t], g)
  BY <1>2, <1>11, PairKinds
<1>13. Syncing(pc'[t], job'[t]) <=> Syncing(pc[t], job[t])
  BY <1>2, PairKinds
<1> QED
  BY <1>1, <1>3, <1>5, <1>8, <1>9, <1>10, <1>12, <1>13, PutPairs

LEMMA PutAudioPairs ==
    ASSUME Types, Shape, Own, PairInv, NEW t \in Threads, PutAudio(t), Calling(t),
           UNCHANGED <<created, pending, side>>
    PROVE  PairInv'
<1> USE Actors
<1>1. CallTypes /\ Alone(t) /\ hand' = hand /\ pc[t] = "put_audio"
  BY DEF Types, Calling, PutAudio, At
<1>2. PICK x \in Items : x = Item(job[t], t) /\ x.kind = job[t]
  BY PutItemTyped
<1>3. x.kind \in Kinds \ {"barrier", "none"} /\ x.kind \notin Passed
  BY <1>1, <1>2 DEF CallTypes, Jobs, Kinds, Passed
<1>4. x = Second(pc[t], job[t], t)
  BY <1>1, <1>2 DEF Second
<1>5. Put(Audio, x) /\ bufs' = [bufs EXCEPT ![t] = @ \ {Audio}]
  BY <1>2 DEF PutAudio
<1>6. \A g \in Fifos : g \in bufs[t] <=> g # Video
  BY <1>1, PairKinds DEF PairInv, Reservations
<1>7. \A g \in Fifos : g \notin bufs'[t]
  BY <1>5, <1>6 DEF Types, QueueTypes, Fifos
<1>8. /\ ~Halfway(pc'[t]) /\ (\A g \in Fifos : ~Reserves(pc'[t], g)) /\ RaisesSame
      /\ Syncing(pc'[t], job'[t]) <=> Syncing(pc[t], job[t])
  <2>1. CASE job[t] = "headers" /\ Go(t, "sync")
    <3>1. pc'[t] = "sync" /\ job'[t] = job[t]
      BY <1>1, <2>1, GoAlone
    <3>2. RaisesSame
      BY <1>1, <2>1, <3>1, PairKinds, GoRaises
    <3> QED
      BY <1>1, <3>1, <3>2, PairKinds
  <2>2. CASE job[t] # "headers" /\ Return(t)
    <3>1. pc[t] \in PutSteps /\ pc[t] \in CallSteps
      BY <1>1, PairKinds DEF PutSteps
    <3>2. RaisesSame
      BY <1>1, <2>2, <3>1, ReturnRaises
    <3>3. pc'[t] \in {"stop_side", "ended", "drain"}
      <4>1. job[t] \in {"end", "nop"}
        BY <1>1, <2>2 DEF CallTypes, Jobs
      <4> QED
        BY <1>1, <2>2, <3>1, <4>1, Returned
    <3>4. job'[t] = job[t]
      BY <1>1, <2>2, ReturnAlone
    <3>5. ~Syncing(pc'[t], job'[t]) /\ ~Syncing(pc[t], job[t])
      BY <2>2, <3>4 DEF Syncing
    <3>6. ~Halfway(pc'[t]) /\ \A g \in Fifos : ~Reserves(pc'[t], g)
      BY <3>3 DEF Halfway, Reserves
    <3> QED
      BY <3>2, <3>5, <3>6
  <2> QED
    BY <2>1, <2>2 DEF PutAudio
<1>9. Ordered'
  BY <1>1, <1>3, <1>4, <1>5, <1>8, PairKinds, OrderedSecond DEF PairInv
<1>10. Audio \in bufs[t] /\ \A g \in Fifos : g \in bufs'[t] <=> Reserves(pc'[t], g)
  BY <1>6, <1>7, <1>8
<1> QED
  BY <1>1, <1>3, <1>5, <1>8, <1>9, <1>10, PutPairs

LEMMA PairPairs ==
    ASSUME Types, Shape, Own, PairInv, NEW t \in Threads, PairStep(t)
    PROVE  PairInv'
<1>1. Calling(t) /\ UNCHANGED <<created, pending, side>>
  <2>1. Calling(t)
    BY PairCalling DEF Types
  <2> QED
    BY <2>1 DEF PairStep, demuxVars, appVars
<1> QED
  BY <1>1, AllocPairs, CountPairs, PutVideoPairs, PutAudioPairs DEF PairStep

\* The tail of a queue that got longer.
LEMMA TailLonger ==
    ASSUME NEW S, NEW a \in Seq(S), a # <<>>, NEW x \in S
    PROVE  Append(a, x) \in Seq(S) /\ Append(a, x) # <<>> /\ Tail(Append(a, x)) = Append(Tail(a), x)
<1>1. PICK m \in Nat : m + 1 = Len(a)
  <2>1. Len(a) \in Nat /\ Len(a) # 0
    OBVIOUS
  <2>2. Len(a) - 1 \in Nat /\ (Len(a) - 1) + 1 = Len(a)
    BY <2>1
  <2> QED
    BY <2>2
<1>2. PICK b \in Seq(S), t \in Seq(S) : b = Append(a, x) /\ t = Tail(a)
  <2>1. Append(a, x) \in Seq(S) /\ Tail(a) \in Seq(S)
    OBVIOUS
  <2> QED
    BY <2>1
<1>3. /\ Len(b) = m + 2 /\ b[m + 2] = x /\ \A i \in 1 .. m + 1 : b[i] = a[i]
      /\ Len(t) = m /\ \A i \in 1 .. m : t[i] = a[i + 1]
  BY <1>1, <1>2
<1>4. b # <<>>
  BY <1>3
<1>5. PICK l \in Seq(S), r \in Seq(S) : l = Tail(b) /\ r = Append(t, x)
  <2>1. Tail(b) \in Seq(S) /\ Append(t, x) \in Seq(S)
    BY <1>4
  <2> QED
    BY <2>1
<1>6. /\ Len(l) = m + 1 /\ \A i \in 1 .. m + 1 : l[i] = b[i + 1]
      /\ Len(r) = m + 1 /\ r[m + 1] = x /\ \A i \in 1 .. m : r[i] = t[i]
  BY <1>3, <1>5
<1>7. ASSUME NEW i \in 1 .. m + 1 PROVE l[i] = r[i]
  <2>1. CASE i = m + 1
    BY <1>3, <1>6, <2>1
  <2>2. CASE i # m + 1
    <3>1. i \in 1 .. m /\ i + 1 \in 1 .. m + 1
      BY <2>2
    <3> QED
      BY <1>3, <1>6, <3>1
  <2> QED
    BY <2>1, <2>2
<1>8. l = r
  BY <1>6, <1>7
<1> QED
  BY <1>2, <1>4, <1>5, <1>8

\* A decoder is through with the first of its control buffers.
LEMMA OrderedShorter ==
    ASSUME Types, Ordered, NEW f \in Fifos, UNCHANGED <<created, pc, job>>, Control(f) # <<>>,
           Control(f)' = Tail(Control(f)), \A g \in Fifos \ {f} : Control(g)' = Control(g)
    PROVE  Ordered'
<1> USE Actors
<1> SUFFICES ASSUME created = Fifos
             PROVE  /\ (\A t \in Threads : ~Halfway(pc[t])) => Aligned(Control(Video)', Control(Audio)')
                    /\ \A t \in Threads : Halfway(pc[t]) =>
                         Aligned(Control(Video)', Append(Control(Audio)', Second(pc[t], job[t], t)))
  BY DEF Ordered
<1>1. Control(Video) \in Seq(Items) /\ Control(Audio) \in Seq(Items)
  BY ControlIs, ControlsAre DEF Types, QueueTypes
<1>2. PICK v \in Seq(Items), a \in Seq(Items) : v = Control(Video) /\ a = Control(Audio)
  BY <1>1
<1>3. \/ v # <<>> /\ Control(Video)' = Tail(v) /\ Control(Audio)' = a
      \/ a # <<>> /\ Control(Audio)' = Tail(a) /\ Control(Video)' = v
  <2>1. f = Video \/ f = Audio
    BY DEF Fifos
  <2> QED
    BY <1>2, <2>1
<1>4. ASSUME NEW x \in Items, Aligned(v, Append(a, x))
      PROVE  Aligned(Control(Video)', Append(Control(Audio)', x))
  <2>1. PICK b \in Seq(Items) : b = Append(a, x)
    <3>1. Append(a, x) \in Seq(Items)
      OBVIOUS
    <3> QED
      BY <3>1
  <2>2. CASE v # <<>> /\ Control(Video)' = Tail(v) /\ Control(Audio)' = a
    BY <1>4, <2>1, <2>2, AlignedShorter
  <2>3. CASE a # <<>> /\ Control(Audio)' = Tail(a) /\ Control(Video)' = v
    <3>1. b # <<>> /\ Tail(b) = Append(Tail(a), x)
      <4>1. a # <<>> /\ a \in Seq(Items) /\ x \in Items
        BY <2>3
      <4>2. Append(a, x) # <<>> /\ Tail(Append(a, x)) = Append(Tail(a), x)
        BY ONLY <4>1, TailLonger
      <4> QED
        BY <2>1, <4>2, Zenon
    <3>2. Aligned(Tail(b), v)
      BY <1>4, <2>1, <3>1, AlignedShorter, AlignedTurned
    <3> QED
      BY <2>3, <3>1, <3>2, AlignedTurned
  <2> QED
    BY <1>3, <2>2, <2>3
<1>5. ASSUME Aligned(v, a) PROVE Aligned(Control(Video)', Control(Audio)')
  <2>1. CASE v # <<>> /\ Control(Video)' = Tail(v) /\ Control(Audio)' = a
    BY <1>5, <2>1, AlignedShorter
  <2>2. CASE a # <<>> /\ Control(Audio)' = Tail(a) /\ Control(Video)' = v
    <3>1. Aligned(Tail(a), v)
      BY <1>5, <2>2, AlignedShorter, AlignedTurned
    <3> QED
      BY <2>2, <3>1, AlignedTurned
  <2> QED
    BY <1>3, <2>1, <2>2
<1>6. \A t \in Threads : Second(pc[t], job[t], t) \in Items
  BY PutItemTyped DEF Second
<1> QED
  BY <1>2, <1>4, <1>5, <1>6 DEF Ordered

\* A decoder takes a buffer, or is through with one.
LEMMA HandPairs ==
    ASSUME Types, PairInv, NEW f \in Fifos, UNCHANGED <<created, callVars, pending, side, bufs>>,
           \A g \in Fifos \ {f} : fifo'[g] = fifo[g] /\ hand'[g] = hand[g],
           NEW h \in Items, h = hand'[f],
           \/ hand[f] = NoItem /\ fifo[f] # <<>> /\ h = Head(fifo[f]) /\ fifo'[f] = Tail(fifo[f])
           \/ h = NoItem /\ fifo'[f] = fifo[f]
           \/ hand[f].kind = "end" /\ h = Item("barrier", hand[f].by) /\ fifo'[f] = fifo[f]
           \/ h = hand[f] /\ fifo'[f] = fifo[f]
    PROVE  PairInv'
<1>1. Steady /\ RaisesSame
  BY DEF Steady, RaisesSame, callVars
<1>2. PendingCounted'
  BY <1>1, PendingKept DEF PairInv
<1>3. Reservations'
  BY <1>1 DEF PairInv, Reservations, Steady
<1>4. fifo \in [Fifos -> Seq(Items)] /\ hand \in [Fifos -> Items] /\ created \subseteq Fifos
  BY DEF Types, QueueTypes
<1>5. PICK q \in Seq(Items), o \in Items : q = fifo[f] /\ o = hand[f]
  BY <1>4
<1>6. QueueKinds'
  <2>1. \A i \in 1 .. Len(q) : q[i].kind \in Kinds \ {"barrier", "none"}
    BY <1>5 DEF PairInv, QueueKinds
  <2>2. q # <<>> => \A i \in 1 .. Len(Tail(q)) : Tail(q)[i] = q[i + 1] /\ i + 1 \in 1 .. Len(q)
    OBVIOUS
  <2>3. \A i \in 1 .. Len(fifo'[f]) : fifo'[f][i].kind \in Kinds \ {"barrier", "none"}
    <3>1. CASE fifo'[f] = q
      BY <2>1, <3>1
    <3>2. CASE fifo'[f] = Tail(q) /\ q # <<>>
      BY <2>1, <2>2, <3>2
    <3> QED
      BY <1>5, <3>1, <3>2
  <2> QED
    BY <2>3 DEF PairInv, QueueKinds
<1>7. Rooms'
  <2> SUFFICES ASSUME NEW g \in created PROVE InPool(g)' <= Pool
    BY DEF Rooms
  <2>1. g \in Fifos /\ InPool(g) <= Pool
    BY <1>4 DEF PairInv, Rooms
  <2>2. Reserved(g)' = Reserved(g)
    BY DEF Reserved
  <2>3. PICK m \in Nat, b \in {0, 1}, c \in Nat, l \in Nat :
          /\ m = Len(fifo[g]) /\ b = B2N(hand[g] # NoItem) /\ c = Cardinality(Reserved(g)) /\ l = Pool
    BY <2>1, RoomIs
  <2>4. m + b + c <= l
    BY <2>1, <2>3 DEF InPool
  <2>5. PICK n \in Nat, d \in {0, 1} :
          /\ n = Len(fifo'[g]) /\ d = B2N(hand'[g] # NoItem) /\ n + d <= m + b
    <3>1. CASE g # f
      BY <2>1, <2>3, <3>1
    <3>2. CASE g = f
      <4>1. CASE o = NoItem /\ q # <<>> /\ fifo'[f] = Tail(q)
        <5>1. Len(Tail(q)) = m - 1 /\ m - 1 \in Nat
          BY <1>5, <2>3, <3>2, <4>1
        <5>2. b = 0 /\ B2N(h # NoItem) \in {0, 1}
          BY <1>5, <2>3, <3>2, <4>1 DEF B2N
        <5> QED
          BY <3>2, <4>1, <5>1, <5>2
      <4>2. CASE h = NoItem /\ fifo'[f] = q
        <5>1. B2N(h # NoItem) = 0
          BY <4>2 DEF B2N
        <5> QED
          BY <1>5, <2>3, <3>2, <4>2, <5>1
      <4>3. CASE o.kind = "end" /\ fifo'[f] = q
        <5>1. b = 1 /\ B2N(h # NoItem) \in {0, 1}
          BY <1>5, <2>3, <3>2, <4>3 DEF B2N, NoItem, Item
        <5> QED
          BY <1>5, <2>3, <3>2, <4>3, <5>1
      <4>4. CASE h = o /\ fifo'[f] = q
        BY <1>5, <2>3, <3>2, <4>4
      <4> QED
        BY <1>5, <4>1, <4>2, <4>3, <4>4
    <3> QED
      BY <3>1, <3>2
  <2>6. InPool(g)' = n + d + c
    BY <2>2, <2>3, <2>5 DEF InPool, B2N
  <2>7. n + d + c <= l
    BY ONLY <2>4, <2>5
  <2> QED
    BY <2>3, <2>6, <2>7
<1>8. Ordered'
  <2>1. \A g \in Fifos : Control(g)' = Controls(hand'[g], fifo'[g])
    BY DEF Control, Controls, Shown, Passed
  <2>2. \A g \in Fifos \ {f} : Control(g)' = Control(g)
    BY <2>1, ControlIs
  <2>3. Control(f) = Controls(o, q)
    BY <1>5, ControlIs
  <2>4. Control(f)' = Control(f) \/ (Control(f) # <<>> /\ Control(f)' = Tail(Control(f)))
    <3>1. CASE o = NoItem /\ q # <<>> /\ h = Head(q) /\ fifo'[f] = Tail(q)
      <4>1. Head(q).kind # "barrier"
        BY <1>5, <3>1 DEF PairInv, QueueKinds
      <4>2. Controls(Head(q), Tail(q)) = Controls(NoItem, q)
        BY <3>1, <4>1, ControlsTaken
      <4> QED
        BY <2>1, <2>3, <3>1, <4>2
    <3>2. CASE h = NoItem /\ fifo'[f] = q
      <4>1. Control(f)' = Controls(NoItem, q)
        BY <2>1, <3>2
      <4>2. Controls(NoItem, q) = Controls(o, q)
            \/ (Controls(o, q) # <<>> /\ Controls(NoItem, q) = Tail(Controls(o, q)))
        BY ControlsDone
      <4> QED
        BY <2>3, <4>1, <4>2
    <3>3. CASE o.kind = "end" /\ h = Item("barrier", o.by) /\ fifo'[f] = q
      <4>1. Control(f)' = Controls(Item("barrier", o.by), q)
        BY <2>1, <3>3
      <4>2. Controls(Item("barrier", o.by), q) = Controls(o, q)
        BY <3>3, ControlsBarred
      <4> QED
        BY <2>3, <4>1, <4>2
    <3>4. CASE h = o /\ fifo'[f] = q
      BY <2>1, <2>3, <3>4
    <3> QED
      BY <1>5, <3>1, <3>2, <3>3, <3>4
  <2>5. CASE Control(f)' = Control(f)
    BY <1>1, <2>2, <2>5, OrderedKept DEF PairInv
  <2>6. CASE Control(f) # <<>> /\ Control(f)' = Tail(Control(f))
    BY <2>2, <2>6, OrderedShorter DEF PairInv, callVars
  <2> QED
    BY <2>4, <2>5, <2>6
<1> QED
  BY <1>2, <1>3, <1>6, <1>7, <1>8 DEF PairInv

LEMMA DecoderPairs ==
    ASSUME Types, PairInv, NEW f \in Fifos, DecoderStep(f)
    PROVE  PairInv'
<1> USE Actors
<1>1. UNCHANGED <<created, callVars, pending, side, bufs>>
  BY DEF DecoderStep, demuxVars, appVars, Take, Decode, HeadersSeen, EndSeen, Barrier
<1>2. fifo \in [Fifos -> Seq(Items)] /\ hand \in [Fifos -> Items]
  BY DEF Types, QueueTypes
<1>3. hand[f] \in Items /\ NoItem \in Items /\ Item("barrier", hand[f].by) \in Items
  <2>1. hand[f] \in Items
    BY <1>2
  <2> QED
    BY <2>1, ItemTyped DEF NoItem, Items, Senders, Kinds
<1>4. CASE Take(f)
  <2>1. PICK q \in Seq(Items) : q = fifo[f] /\ q # <<>>
    BY <1>2, <1>4 DEF Take
  <2>2. PICK h \in Items : h = Head(q)
    BY <2>1
  <2>3. hand' = [hand EXCEPT ![f] = h] /\ fifo' = [fifo EXCEPT ![f] = Tail(q)] /\ hand[f] = NoItem
    BY <1>4, <2>1, <2>2 DEF Take
  <2>4. h = hand'[f] /\ fifo'[f] = Tail(fifo[f])
        /\ \A g \in Fifos \ {f} : fifo'[g] = fifo[g] /\ hand'[g] = hand[g]
    BY <1>2, <2>1, <2>3
  <2> QED
    BY <1>1, <2>1, <2>2, <2>3, <2>4, HandPairs
<1>5. CASE ~Take(f)
  <2>1. fifo' = fifo
    BY <1>5 DEF DecoderStep, Decode, HeadersSeen, EndSeen, Barrier
  <2>2. PICK h \in Items : /\ hand' = [hand EXCEPT ![f] = h]
                           /\ \/ h = NoItem
                              \/ hand[f].kind = "end" /\ h = Item("barrier", hand[f].by)
                              \/ h = hand[f]
    <3>1. CASE hand' = [hand EXCEPT ![f] = NoItem]
      BY <1>3, <3>1
    <3>2. CASE hand[f].kind = "end" /\ hand' = [hand EXCEPT ![f] = Item("barrier", hand[f].by)]
      BY <1>3, <3>2
    <3>3. CASE hand' = hand
      <4>1. hand' = [hand EXCEPT ![f] = hand[f]]
        BY <1>2, <3>3
      <4> QED
        BY <1>3, <4>1
    <3>4. \/ hand' = [hand EXCEPT ![f] = NoItem]
          \/ hand[f].kind = "end" /\ hand' = [hand EXCEPT ![f] = Item("barrier", hand[f].by)]
          \/ hand' = hand
      BY <1>5 DEF DecoderStep, Decode, HeadersSeen, EndSeen, Barrier, Done
    <3> QED
      BY <3>1, <3>2, <3>3, <3>4
  <2>3. h = hand'[f] /\ fifo'[f] = fifo[f]
        /\ \A g \in Fifos \ {f} : fifo'[g] = fifo[g] /\ hand'[g] = hand[g]
    BY <1>2, <2>1, <2>2
  <2> QED
    BY <1>1, <2>2, <2>3, HandPairs
<1> QED
  BY <1>4, <1>5

\* Whether the application has action_pending of s raised, when it is in no call.
RaisesAt(p, n, s) ==
    \/ p \in {"play_video", "play_audio", "play_lock", "seek"}
    \/ p = "go_on" /\ s >= n
    \/ p = "start" /\ s > n
    \/ p = "stop_lock" /\ s = n

LEMMA RaisesNow ==
    ASSUME NEW p, NEW b, NEW n, NEW s, b \notin SeekBacks
    PROVE  Raises(p, b, n, s) <=> RaisesAt(p, n, s)
  BY DEF Raises, RaisesAt

\* The application raises and lowers action_pending.
LEMMA RaisesPending ==
    ASSUME Types, PendingCounted, Steady,
           \A s \in Sides : pending'[s] + B2N(Raises(pc[App], back[App], side, s))
                              = pending[s] + B2N(Raises(pc[App], back[App], side, s))',
           pending' \in [Sides -> Int]
    PROVE  PendingCounted'
<1>1. Callers' = Callers
  BY DEF Callers, Steady
<1>2. IsFiniteSet(Callers)
  BY ThreadsFinite, FS_Subset DEF Callers
<1>3. PICK n \in Nat : n = Cardinality(Callers)
  BY <1>2, FS_CardinalityType
<1> SUFFICES ASSUME NEW s \in Sides
             PROVE  pending'[s] = B2N(Raises(pc[App], back[App], side, s))'
                                    + (IF s = 1 THEN n ELSE 0)
  BY <1>1, <1>3 DEF PendingCounted
<1>4. PICK a \in {0, 1}, b \in {0, 1} : /\ a = B2N(Raises(pc[App], back[App], side, s))
                                        /\ b = B2N(Raises(pc[App], back[App], side, s))'
  BY DEF B2N
<1>5. PICK k \in Nat : k = IF s = 1 THEN n ELSE 0
  OBVIOUS
<1>6. PICK x \in Int, y \in Int : x = pending[s] /\ y = pending'[s]
  BY DEF Types, SideTypes
<1>7. x = a + k
  BY <1>3, <1>4, <1>5, <1>6 DEF PendingCounted
<1>8. y + a = x + b
  BY <1>4, <1>6
<1>9. y = b + k
  BY ONLY <1>7, <1>8
<1> QED
  BY <1>4, <1>5, <1>6, <1>9

LEMMA QueuesKept ==
    ASSUME Types, PairInv, Steady, UNCHANGED <<created, fifo, hand, bufs>>, PendingCounted'
    PROVE  PairInv'
<1>1. Reservations'
  BY DEF PairInv, Reservations, Steady
<1>2. Rooms'
  <2>1. \A f \in created : InPool(f)' = InPool(f)
    BY DEF InPool, Reserved
  <2> QED
    BY <2>1 DEF PairInv, Rooms
<1>3. QueueKinds'
  BY DEF PairInv, QueueKinds
<1>4. Ordered'
  <2>1. \A f \in Fifos : Control(f)' = Control(f)
    BY DEF Control
  <2> QED
    BY <2>1, OrderedKept DEF PairInv
<1> QED
  BY <1>1, <1>2, <1>3, <1>4 DEF PairInv

\* The application takes a step of its own.
LEMMA AppPairs ==
    ASSUME Types, Shape, Shape', SideTypes', PairInv, Steady,
           pc[App] \in AppSteps \cup StopSteps, pc'[App] \in AppSteps \cup StopSteps,
           UNCHANGED <<created, fifo, hand, bufs>>,
           \A s \in Sides : pending'[s] + B2N(RaisesAt(pc[App], side, s))
                              = pending[s] + B2N(RaisesAt(pc'[App], side', s))
    PROVE  PairInv'
<1>1. back[App] \notin SeekBacks /\ back'[App] \notin SeekBacks
  BY NoCall, NoCallAfter
<1>2. \A s \in Sides : /\ B2N(Raises(pc[App], back[App], side, s)) = B2N(RaisesAt(pc[App], side, s))
                       /\ B2N(Raises(pc[App], back[App], side, s))' = B2N(RaisesAt(pc'[App], side', s))
  BY <1>1, RaisesNow DEF B2N
<1>3. PendingCounted'
  BY <1>2, RaisesPending DEF PairInv, SideTypes
<1> QED
  BY <1>3, QueuesKept

\* It goes where it has action_pending raised for the same side streams.
LEMMA AppStays ==
    ASSUME Types, Shape, Shape', SideTypes', PairInv, Alone(App),
           pc[App] \in AppSteps \cup StopSteps, pc'[App] \in AppSteps \cup StopSteps,
           UNCHANGED <<created, fifo, hand, bufs, pending>>,
           \A s \in Sides : RaisesAt(pc[App], side, s) <=> RaisesAt(pc'[App], side', s)
    PROVE  PairInv'
<1>1. Steady
  BY Actors, AloneSteady, UninvolvedIs
<1>2. \A s \in Sides : B2N(RaisesAt(pc[App], side, s)) = B2N(RaisesAt(pc'[App], side', s))
  BY DEF B2N
<1> QED
  BY <1>1, <1>2, AppPairs

\* The steps at which it is not raised.
LEMMA RaisesNot ==
    \A p \in {"idle", "open", "opened", "played", "stop_side", "stop_unlock", "stop_join"} : \A n, s :
        ~RaisesAt(p, n, s)
  BY DEF RaisesAt

LEMMA SetGaplessPairs ==
    ASSUME PairInv, SetGapless
    PROVE  PairInv'
<1>1. UNCHANGED <<created, fifo, hand, bufs, pending, pc, job, back, side>>
  BY DEF SetGapless, queueVars, callVars, demuxVars
<1>2. Steady /\ RaisesSame
  BY <1>1 DEF Steady, RaisesSame
<1> QED
  BY <1>1, <1>2, StillKeeps

LEMMA StopBeginPairs ==
    ASSUME Types, Shape, PairInv, StopBegin
    PROVE  PairInv'
<1> USE Actors
<1>1. pc[App] = "idle" /\ UNCHANGED <<created, fifo, hand, bufs, pending>>
  BY DEF StopBegin, At, queueVars, demuxVars
<1>2. PICK then \in {"idle", "open"} :
         \/ /\ pc' = [pc EXCEPT ![App] = "stop_side"] /\ job' = job
            /\ back' = [back EXCEPT ![App] = <<then>>]
         \/ /\ pc' = [pc EXCEPT ![App] = "alloc_video"] /\ job' = [job EXCEPT ![App] = "end"]
            /\ back' = [back EXCEPT ![App] = <<"stop_side", then>>]
  BY DEF StopBegin
<1>3. /\ Alone(App)
      /\ \/ pc'[App] = "stop_side"
         \/ pc'[App] = "alloc_video" /\ job'[App] = "end"
      /\ back'[App] \in {<<then>>, <<"stop_side", then>>}
  BY <1>2 DEF Alone, Types, CallTypes
<1>4. back'[App] \notin SeekBacks /\ back[App] \notin SeekBacks
  <2>1. then # "seek"
    OBVIOUS
  <2>2. <<then>> \notin SeekBacks
    BY <2>1 DEF SeekBacks
  <2>3. <<"stop_side", then>> \notin SeekBacks
    BY <2>1 DEF SeekBacks
  <2>4. pc[App] \in AppSteps
    BY <1>1 DEF AppSteps
  <2> QED
    BY <1>3, <2>2, <2>3, <2>4, NoCall
<1>5. RaisesSame
  BY <1>1, <1>3, <1>4, RaisesNow DEF RaisesSame, RaisesAt
<1>6. Uninvolved(pc[App], job[App]) /\ Uninvolved(pc'[App], job'[App])
  <2>1. Uninvolved(pc[App], job[App])
    BY <1>1, UninvolvedIs DEF AppSteps
  <2>2. CASE pc'[App] = "stop_side"
    BY <2>1, <2>2, UninvolvedIs DEF StopSteps
  <2>3. CASE pc'[App] = "alloc_video" /\ job'[App] = "end"
    <3>1. job'[App] # "headers"
      BY <2>3
    <3> QED
      BY <2>1, <2>3, <3>1, UninvolvedIs
  <2> QED
    BY <1>3, <2>2, <2>3
<1> QED
  BY <1>1, <1>3, <1>5, <1>6, UninvolvedPairs

LEMMA PlayBeginPairs ==
    ASSUME Types, Shape, Shape', SideTypes', PairInv, PlayBegin
    PROVE  PairInv'
<1> USE Actors
<1>1. pc[App] = "idle" /\ UNCHANGED <<created, fifo, hand, bufs>> /\ pending' = [s \in Sides |-> pending[s] + 1]
  BY DEF PlayBegin, At, queueVars, Hint
<1>2. PICK step \in {"play_video", "play_lock"} : Go(App, step)
  BY DEF PlayBegin
<1>3. Alone(App) /\ pc'[App] = step
  BY <1>2, GoAlone DEF Types
<1>4. pc[App] \in AppSteps /\ pc'[App] \in AppSteps
  BY <1>1, <1>3 DEF AppSteps
<1>5. Steady
  BY <1>3, <1>4, AloneSteady, UninvolvedIs
<1>6. \A s \in Sides : /\ B2N(RaisesAt(pc[App], side, s)) = 0
                       /\ B2N(RaisesAt(pc'[App], side', s)) = 1
                       /\ pending'[s] = pending[s] + 1 /\ pending[s] \in Int
  <2>1. \A s \in Sides : ~RaisesAt(pc[App], side, s) /\ RaisesAt(pc'[App], side', s)
    BY <1>1, <1>3, RaisesNot DEF RaisesAt
  <2> QED
    BY <1>1, <2>1 DEF B2N, Types, SideTypes
<1> QED
  BY <1>1, <1>4, <1>5, <1>6, AppPairs

LEMMA PlayClearPairs ==
    ASSUME Types, PairInv, PlayClear
    PROVE  PairInv'
<1> USE Actors
<1>1. UNCHANGED <<created, hand, bufs, pending, side>>
  BY DEF PlayClear, demuxVars, appVars
<1>2. PICK f \in Fifos, step \in {"play_audio", "play_lock"} :
        Clear(f) /\ Go(App, step) /\ pc[App] \in {"play_video", "play_audio"}
  BY DEF PlayClear, At
<1>3. Alone(App) /\ pc'[App] = step
  BY <1>2, GoAlone DEF Types
<1>4. RaisesSame
  BY <1>2, <1>3 DEF RaisesSame, Raises
<1>5. pc[App] \in AppSteps /\ pc'[App] \in AppSteps
  BY <1>2, <1>3 DEF AppSteps
<1>6. Uninvolved(pc[App], job[App]) /\ Uninvolved(pc'[App], job'[App])
  BY <1>5, UninvolvedIs
<1> QED
  BY <1>1, <1>2, <1>3, <1>4, <1>6, ClearPairs

LEMMA PlayingPairs ==
    ASSUME Types, Shape, Shape', SideTypes', PairInv, Playing
    PROVE  PairInv'
<1> USE Actors
<1>1. UNCHANGED <<created, fifo, hand, bufs, pending, side>>
  BY DEF Playing, queueVars, demuxVars, appVars
<1>2. CASE At(App, "go_on") /\ side > NumSides /\ Go(App, "played")
  <2>1. pc[App] = "go_on" /\ Alone(App) /\ pc'[App] = "played"
    BY <1>2, GoAlone DEF Types, At
  <2>2. \A s \in Sides : ~(s >= side)
    <3>1. side \in Nat
      BY DEF Types, StreamTypes
    <3> QED
      BY <1>2, <3>1, SideRange, SyncAssumption
  <2>3. \A s \in Sides : ~RaisesAt(pc[App], side, s) /\ ~RaisesAt(pc'[App], side', s)
    BY <2>1, <2>2 DEF RaisesAt
  <2>4. pc[App] \in AppSteps /\ pc'[App] \in AppSteps
    BY <2>1 DEF AppSteps
  <2> QED
    BY <1>1, <2>1, <2>3, <2>4, AppStays
<1>3. CASE At(App, "played") /\ Go(App, "idle")
  <2>1. pc[App] = "played" /\ Alone(App) /\ pc'[App] = "idle"
    BY <1>3, GoAlone DEF Types, At
  <2>2. \A s \in Sides : ~RaisesAt(pc[App], side, s) /\ ~RaisesAt(pc'[App], side', s)
    BY <2>1, RaisesNot
  <2>3. pc[App] \in AppSteps /\ pc'[App] \in AppSteps
    BY <2>1 DEF AppSteps
  <2> QED
    BY <1>1, <2>1, <2>2, <2>3, AppStays
<1> QED
  BY <1>2, <1>3 DEF Playing

LEMMA OpenPairs ==
    ASSUME Types, Shape, Shape', SideTypes', PairInv, Open
    PROVE  PairInv'
<1> USE Actors
<1>1. UNCHANGED <<created, fifo, hand, bufs, side>> /\ CallTypes
  BY DEF Open, queueVars, appVars, Types
<1>2. CASE At(App, "open") /\ HeadersDone(App, "opened")
  <2>1. pc[App] = "open" /\ Alone(App) /\ pc'[App] = "alloc_video" /\ job'[App] = "headers"
        /\ back'[App] = <<"opened">> \o back[App] /\ pending' = [pending EXCEPT ![1] = @ + 1]
    BY <1>1, <1>2, SendAlone DEF At, HeadersDone
  <2>2. back[App] = <<>>
    <3>1. WellFormed(App, "open", job[App], back[App])
      BY <2>1 DEF Shape
    <3> QED
      BY <3>1 DEF WellFormed, AppSteps, DemuxSteps, StopSteps, FlushSteps, PairSteps, AllocSteps, PutSteps, SyncSteps
  <2>3. back'[App] \notin SeekBacks /\ back[App] \notin SeekBacks
    <3>1. <<>> \notin SeekBacks
      BY DEF SeekBacks
    <3> QED
      BY <2>1, <2>2, <3>1, SendKeeps
  <2>4. RaisesSame
    BY <1>1, <2>1, <2>3 DEF RaisesSame, Raises
  <2>5. ~Syncing(pc[App], job[App]) /\ Syncing(pc'[App], job'[App]) /\ ~Halfway(pc[App]) /\ ~Halfway(pc'[App])
        /\ \A f \in Fifos : Reserves(pc'[App], f) <=> Reserves(pc[App], f)
    BY <2>1 DEF Syncing, PairSteps, AllocSteps, PutSteps, SyncSteps, Halfway, Reserves
  <2> QED
    BY <1>1, <2>1, <2>4, <2>5, MovedPairs
<1>3. CASE At(App, "opened") /\ Go(App, "idle") /\ UNCHANGED pending
  <2>1. pc[App] = "opened" /\ Alone(App) /\ pc'[App] = "idle"
    BY <1>1, <1>3, GoAlone DEF At
  <2>2. \A s \in Sides : ~RaisesAt(pc[App], side, s) /\ ~RaisesAt(pc'[App], side', s)
    BY <2>1, RaisesNot
  <2>3. pc[App] \in AppSteps /\ pc'[App] \in AppSteps
    BY <2>1 DEF AppSteps
  <2> QED
    BY <1>1, <1>3, <2>1, <2>2, <2>3, AppStays
<1> QED
  BY <1>2, <1>3 DEF Open

LEMMA StopSidePairs ==
    ASSUME Types, Shape, Shape', SideTypes', Own, PairInv, StopSide
    PROVE  PairInv'
<1> USE Actors
<1>1. UNCHANGED <<created, fifo, hand, bufs>> /\ CallTypes
  BY DEF StopSide, queueVars, Types
<1>2. \A p \in StopSteps \cup {"idle", "open"} : p \in AppSteps \cup StopSteps
  BY DEF AppSteps
<1>3. {"stop_side", "stop_lock", "stop_unlock", "stop_join"} = StopSteps
  BY DEF StopSteps
<1>4. ASSUME NEW p \in {"stop_side", "stop_unlock", "stop_join"},
             NEW step \in {"stop_side", "stop_unlock", "stop_join", "idle", "open"},
             pc[App] = p, pc'[App] = step, Alone(App), pending' = pending
      PROVE  PairInv'
  <2>1. \A s \in Sides : ~RaisesAt(pc[App], side, s) /\ ~RaisesAt(pc'[App], side', s)
    BY <1>4, RaisesNot
  <2>2. pc[App] \in AppSteps \cup StopSteps /\ pc'[App] \in AppSteps \cup StopSteps
    BY <1>2, <1>3, <1>4
  <2> QED
    BY <1>1, <1>4, <2>1, <2>2, AppStays
<1>5. CASE At(App, "stop_side") /\ side > NumSides /\ Return(App) /\ UNCHANGED pending
  <2>1. pc[App] = "stop_side" /\ pc[App] \in StopSteps
    BY <1>5 DEF At, StopSteps
  <2>2. Alone(App) /\ pc'[App] \in {"idle", "open"}
    BY <1>1, <1>5, <2>1, Returned, ReturnAlone
  <2> QED
    BY <1>4, <1>5, <2>1, <2>2
<1>6. CASE At(App, "stop_side") /\ UNCHANGED callVars /\ UNCHANGED pending
  <2>1. pc[App] = "stop_side" /\ pc'[App] = "stop_side" /\ Alone(App)
    BY <1>6 DEF At, callVars, Alone
  <2> QED
    BY <1>4, <1>6, <2>1
<1>7. CASE /\ At(App, "stop_side") /\ side <= NumSides /\ pending' = [pending EXCEPT ![side] = Hint(@)]
           /\ Go(App, "stop_lock") /\ UNCHANGED side
  <2>1. pc[App] = "stop_side" /\ pc'[App] = "stop_lock" /\ Alone(App)
    BY <1>1, <1>7, GoAlone DEF At
  <2>2. pc[App] \in AppSteps \cup StopSteps /\ pc'[App] \in AppSteps \cup StopSteps
    BY <1>2, <1>3, <2>1
  <2>3. Steady
    BY <2>1, <2>2, AloneSteady, UninvolvedIs
  <2>4. \A s \in Sides : ~RaisesAt(pc[App], side, s) /\ (RaisesAt(pc'[App], side', s) <=> s = side)
    BY <1>7, <2>1 DEF RaisesAt
  <2>5. pending \in [Sides -> Int]
    BY DEF Types, SideTypes
  <2>6. \A s \in Sides : pending'[s] = (IF s = side THEN pending[s] + 1 ELSE pending[s]) /\ pending[s] \in Int
    BY <1>7, <2>5 DEF Hint
  <2>7. \A s \in Sides : /\ B2N(RaisesAt(pc[App], side, s)) = 0
                         /\ B2N(RaisesAt(pc'[App], side', s)) = IF s = side THEN 1 ELSE 0
    BY <2>4 DEF B2N
  <2>8. \A s \in Sides : pending'[s] + B2N(RaisesAt(pc[App], side, s))
                           = pending[s] + B2N(RaisesAt(pc'[App], side', s))
    BY <2>6, <2>7
  <2> QED
    BY <1>1, <2>2, <2>3, <2>8, AppPairs
<1>8. CASE /\ At(App, "stop_lock") /\ Lower(side) /\ pc' = [pc EXCEPT ![App] = "flush"]
           /\ back' = [back EXCEPT ![App] = <<"stop_unlock">> \o @] /\ UNCHANGED <<job, side>>
  <2>1. /\ pc[App] = "stop_lock" /\ pc'[App] = "flush" /\ Alone(App)
        /\ back'[App] = <<"stop_unlock">> \o back[App]
    BY <1>1, <1>8 DEF At, CallTypes, Alone
  <2>2. pc[App] \in StopSteps /\ pc'[App] \in FlushSteps \ {"reset_audio"}
    BY <2>1 DEF StopSteps, FlushSteps
  <2>3. Steady
    BY <2>1, <2>2, AloneSteady, UninvolvedIs
  <2>4. back[App] \notin SeekBacks /\ back'[App] \notin SeekBacks
    <3>1. back[App] \in {<<"idle">>, <<"open">>}
      <4>1. WellFormed(App, "stop_lock", job[App], back[App])
        BY <2>1 DEF Shape
      <4> QED
        BY <4>1 DEF WellFormed, AppSteps, DemuxSteps, StopSteps, FlushSteps, PairSteps, AllocSteps, PutSteps, SyncSteps
    <3>2. /\ <<"stop_unlock">> \o <<"idle">> = <<"stop_unlock", "idle">>
          /\ <<"stop_unlock">> \o <<"open">> = <<"stop_unlock", "open">>
      BY Pushes
    <3>3. \A y : <<"stop_unlock", y>> \notin SeekBacks
      BY DEF SeekBacks
    <3> QED
      BY <2>1, <2>2, <3>1, <3>2, <3>3, NoCall
  <2>5. \A s \in Sides : /\ Raises(pc[App], back[App], side, s) <=> s = side
                         /\ ~Raises(pc'[App], back'[App], side', s)
    BY <2>1, <2>4 DEF Raises
  <2>6. pending \in [Sides -> Int]
    BY DEF Types, SideTypes
  <2>7. \A s \in Sides : pending'[s] = (IF s = side THEN pending[s] - 1 ELSE pending[s]) /\ pending[s] \in Int
    BY <1>8, <2>6 DEF Lower
  <2>8. \A s \in Sides : /\ B2N(Raises(pc[App], back[App], side, s)) = IF s = side THEN 1 ELSE 0
                         /\ B2N(Raises(pc[App], back[App], side, s))' = 0
    BY <2>5 DEF B2N
  <2>9. \A s \in Sides : pending'[s] + B2N(Raises(pc[App], back[App], side, s))
                           = pending[s] + B2N(Raises(pc[App], back[App], side, s))'
    BY <2>7, <2>8
  <2>10. PendingCounted'
    BY <2>3, <2>9, RaisesPending DEF PairInv, SideTypes
  <2> QED
    BY <1>1, <2>3, <2>10, QueuesKept
<1>9. CASE At(App, "stop_unlock") /\ Go(App, "stop_join") /\ UNCHANGED <<side, pending>>
  <2>1. pc[App] = "stop_unlock" /\ pc'[App] = "stop_join" /\ Alone(App)
    BY <1>1, <1>9, GoAlone DEF At
  <2> QED
    BY <1>4, <1>9, <2>1
<1>10. CASE At(App, "stop_join") /\ Go(App, "stop_side") /\ UNCHANGED pending
  <2>1. pc[App] = "stop_join" /\ pc'[App] = "stop_side" /\ Alone(App)
    BY <1>1, <1>10, GoAlone DEF At
  <2> QED
    BY <1>4, <1>10, <2>1
<1> QED
  BY <1>5, <1>6, <1>7, <1>8, <1>9, <1>10 DEF StopSide

LEMMA SeekPairs ==
    ASSUME Types, Shape, Shape', SideTypes', PairInv, Seek
    PROVE  PairInv'
<1> USE Actors
<1>1. UNCHANGED <<created, fifo, hand, bufs, pending>> /\ CallTypes
  BY DEF Seek, queueVars, Types
<1>2. ASSUME NEW p \in {"play_lock", "seek"}, NEW step \in {"play_lock", "seek"},
             pc[App] = p, pc'[App] = step, Alone(App)
      PROVE  PairInv'
  <2>1. pc[App] \in AppSteps /\ pc'[App] \in AppSteps
    BY <1>2 DEF AppSteps
  <2>2. \A s \in Sides : RaisesAt(pc[App], side, s) /\ RaisesAt(pc'[App], side', s)
    BY <1>2 DEF RaisesAt
  <2> QED
    BY <1>1, <1>2, <2>1, <2>2, AppStays
<1>3. CASE pc[App] \in {"play_lock", "seek"} /\ UNCHANGED callVars
  BY <1>2, <1>3 DEF callVars, Alone
<1>4. CASE At(App, "play_lock") /\ Go(App, "seek")
  <2>1. pc[App] = "play_lock" /\ pc'[App] = "seek" /\ Alone(App)
    BY <1>1, <1>4, GoAlone DEF At
  <2> QED
    BY <1>2, <2>1
<1>5. CASE /\ At(App, "seek") /\ pc' = [pc EXCEPT ![App] = "flush"]
           /\ back' = [back EXCEPT ![App] = <<"seek">>] /\ UNCHANGED job
  <2>1. pc[App] = "seek" /\ pc'[App] = "flush" /\ Alone(App) /\ back'[App] = <<"seek">>
    BY <1>1, <1>5 DEF At, CallTypes, Alone
  <2>2. pc[App] \in AppSteps /\ pc'[App] \in FlushSteps \ {"reset_audio"}
    BY <2>1 DEF AppSteps, FlushSteps
  <2>3. RaisesSame
    BY <2>1 DEF RaisesSame, Raises, SeekBacks
  <2> QED
    BY <1>1, <2>1, <2>2, <2>3, UninvolvedIs, UninvolvedPairs
<1>6. CASE At(App, "seek") /\ side' = 1 /\ Go(App, "go_on")
  <2>1. pc[App] = "seek" /\ pc'[App] = "go_on" /\ Alone(App)
    BY <1>1, <1>6, GoAlone DEF At
  <2>2. pc[App] \in AppSteps /\ pc'[App] \in AppSteps
    BY <2>1 DEF AppSteps
  <2>3. \A s \in Sides : s >= 1
    BY SideRange
  <2>4. \A s \in Sides : RaisesAt(pc[App], side, s) /\ RaisesAt(pc'[App], side', s)
    BY <1>6, <2>1, <2>3 DEF RaisesAt
  <2> QED
    BY <1>1, <2>1, <2>2, <2>4, AppStays
<1> QED
  BY <1>3, <1>4, <1>5, <1>6 DEF Seek, At

LEMMA GoOnPairs ==
    ASSUME Types, Shape, Shape', SideTypes', PairInv, GoOn
    PROVE  PairInv'
<1> USE Actors
<1>1. UNCHANGED <<created, fifo, hand, bufs>> /\ CallTypes
  BY DEF GoOn, queueVars, Types
<1>2. PICK n \in Nat : n = side
  BY DEF Types, StreamTypes
<1>3. \A s \in Sides : s \in Nat /\ (s >= n <=> s > n \/ s = n) /\ (s >= n + 1 <=> s > n)
  OBVIOUS
<1>4. pending \in [Sides -> Int]
  BY DEF Types, SideTypes
<1>5. CASE At(App, "go_on") /\ side <= NumSides
  <2>1. Lower(side) /\ \/ Go(App, "start") /\ UNCHANGED side
                       \/ side' = side + 1 /\ UNCHANGED callVars
    BY <1>5 DEF GoOn, At
  <2>2. pc[App] = "go_on" /\ Alone(App) /\ \/ pc'[App] = "start" /\ side' = n
                                           \/ pc'[App] = "go_on" /\ side' = n + 1
    BY <1>1, <1>2, <1>5, <2>1, GoAlone DEF At, callVars, Alone
  <2>3. pc[App] \in AppSteps /\ pc'[App] \in AppSteps
    BY <2>2 DEF AppSteps
  <2>4. Steady
    BY <2>2, <2>3, AloneSteady, UninvolvedIs
  <2>5. \A s \in Sides : /\ RaisesAt(pc[App], side, s) <=> s > n \/ s = n
                         /\ RaisesAt(pc'[App], side', s) <=> s > n
    BY <1>2, <1>3, <2>2 DEF RaisesAt
  <2>6. \A s \in Sides : pending'[s] = (IF s = n THEN pending[s] - 1 ELSE pending[s]) /\ pending[s] \in Int
    BY <1>2, <1>4, <2>1 DEF Lower
  <2>7. \A s \in Sides : pending'[s] + B2N(RaisesAt(pc[App], side, s))
                           = pending[s] + B2N(RaisesAt(pc'[App], side', s))
    <3> SUFFICES ASSUME NEW s \in Sides
                 PROVE  pending'[s] + B2N(RaisesAt(pc[App], side, s))
                           = pending[s] + B2N(RaisesAt(pc'[App], side', s))
      OBVIOUS
    <3>1. CASE s = n
      <4>1. ~(s > n)
        BY <1>3, <3>1
      <4>2. B2N(RaisesAt(pc[App], side, s)) = 1 /\ B2N(RaisesAt(pc'[App], side', s)) = 0
        BY <2>5, <3>1, <4>1 DEF B2N
      <4> QED
        BY <2>6, <3>1, <4>2
    <3>2. CASE s # n
      <4>1. B2N(RaisesAt(pc[App], side, s)) = B2N(RaisesAt(pc'[App], side', s))
        BY <2>5, <3>2 DEF B2N
      <4> QED
        BY <2>6, <3>2, <4>1
    <3> QED
      BY <3>1, <3>2
  <2> QED
    BY <1>1, <2>3, <2>4, <2>7, AppPairs
<1>6. CASE At(App, "start")
  <2>1. /\ At(side, "off") /\ pc' = [pc EXCEPT ![App] = "go_on", ![side] = "start"]
        /\ side' = side + 1 /\ UNCHANGED <<pending, job, back>>
    BY <1>6 DEF GoOn, At
  <2>3. /\ pc[App] = "start" /\ pc'[App] = "go_on"
        /\ \A u \in Threads \ {App} : pc'[u] = pc[u] \/ (pc[u] = "off" /\ pc'[u] = "start")
    <3>1. pc[App] = "start" /\ side # App
      BY <1>6, <2>1 DEF At
    <3> QED
      BY <1>1, <2>1, <3>1 DEF CallTypes, At
  <2>4. Steady
    <3>1. \A j : ~Syncing("start", j) /\ ~Syncing("go_on", j) /\ ~Syncing("off", j)
      BY DEF Syncing, PairSteps, AllocSteps, PutSteps, SyncSteps
    <3>2. \A f \in Fifos : ~Reserves("start", f) /\ ~Reserves("go_on", f) /\ ~Reserves("off", f)
      BY DEF Reserves
    <3>3. ~Halfway("start") /\ ~Halfway("go_on") /\ ~Halfway("off")
      BY DEF Halfway
    <3> SUFFICES ASSUME NEW u \in Threads
                 PROVE  /\ Halfway(pc[u]) \/ Halfway(pc'[u]) => pc'[u] = pc[u] /\ job'[u] = job[u]
                        /\ \A f \in Fifos : Reserves(pc'[u], f) <=> Reserves(pc[u], f)
                        /\ Syncing(pc'[u], job'[u]) <=> Syncing(pc[u], job[u])
      BY DEF Steady
    <3>4. \/ pc'[u] = pc[u] /\ job'[u] = job[u]
          \/ pc[u] \in {"start", "off"} /\ pc'[u] \in {"start", "go_on"}
      BY <2>1, <2>3
    <3> QED
      BY <3>1, <3>2, <3>3, <3>4
  <2>5. pc[App] \in AppSteps /\ pc'[App] \in AppSteps
    BY <2>3 DEF AppSteps
  <2>6. \A s \in Sides : RaisesAt(pc[App], side, s) <=> RaisesAt(pc'[App], side', s)
    BY <1>2, <1>3, <2>1, <2>3 DEF RaisesAt
  <2>7. \A s \in Sides : B2N(RaisesAt(pc[App], side, s)) = B2N(RaisesAt(pc'[App], side', s))
    BY <2>6 DEF B2N
  <2> QED
    BY <1>1, <2>1, <2>4, <2>5, <2>7, AppPairs
<1> QED
  BY <1>5, <1>6 DEF GoOn

LEMMA PairInvInit ==
    ASSUME Init PROVE PairInv
<1> USE Actors
<1>1. \A t \in Threads : pc[t] \in {"off", "idle"} /\ job[t] = "nop"
  BY DEF Init
<1>2. \A t \in Threads : /\ ~Halfway(pc[t]) /\ ~Syncing(pc[t], job[t])
                         /\ \A f \in Fifos : ~Reserves(pc[t], f)
  BY <1>1 DEF Halfway, Syncing, PairSteps, AllocSteps, PutSteps, SyncSteps, Reserves
<1>3. PendingCounted
  <2>1. Callers = {}
    BY <1>2 DEF Callers
  <2>2. Cardinality(Callers) = 0
    BY <2>1, FS_EmptySet
  <2>3. \A s \in Sides : ~Raises(pc[App], back[App], side, s)
    <3>1. pc[App] = "idle" /\ back[App] = <<>>
      BY DEF Init
    <3>2. <<>> \notin SeekBacks
      BY DEF SeekBacks
    <3> QED
      BY <3>1, <3>2 DEF Raises
  <2>4. \A s \in Sides : B2N(Raises(pc[App], back[App], side, s)) = 0 /\ pending[s] = 0
    BY <2>3 DEF B2N, Init
  <2> QED
    BY <2>2, <2>4 DEF PendingCounted
<1>4. Reservations
  BY <1>2 DEF Reservations, Init
<1>5. Rooms
  <2> SUFFICES ASSUME NEW f \in created PROVE InPool(f) <= Pool
    BY DEF Rooms
  <2>1. f \in Fifos
    BY DEF Init
  <2>2. Reserved(f) = {}
    BY DEF Reserved, Init
  <2>3. Cardinality(Reserved(f)) = 0
    BY <2>2, FS_EmptySet
  <2>4. Len(fifo[f]) = 0 /\ B2N(hand[f] # NoItem) = 0
    BY <2>1 DEF Init, B2N
  <2> QED
    BY <2>3, <2>4, SyncAssumption DEF InPool
<1>6. QueueKinds
  BY DEF QueueKinds, Init
<1>7. Ordered
  <2>1. NoItem \in Items /\ NoItem.kind \in Passed
    BY DEF NoItem, Item, Items, Kinds, Passed, Senders
  <2>2. PICK e \in Seq(Items) : e = <<>>
    <3>1. <<>> \in Seq(Items)
      OBVIOUS
    <3> QED
      BY <3>1
  <2>3. \A f \in Fifos : Control(f) = Controls(NoItem, e)
    BY <2>2, ControlIs DEF Init
  <2>4. Controls(NoItem, e) = Without(e, Passed)
    BY <2>1, ControlsAre
  <2>5. Without(e, Passed) = <<>>
    BY <2>2, WithoutEmpty
  <2>6. Aligned(Control(Video), Control(Audio))
    BY <2>3, <2>4, <2>5 DEF Aligned
  <2> QED
    BY <1>2, <2>6 DEF Ordered
<1> QED
  BY <1>3, <1>4, <1>5, <1>6, <1>7 DEF PairInv

LEMMA StutterPairs ==
    ASSUME PairInv, UNCHANGED vars
    PROVE  PairInv'
<1>1. UNCHANGED <<created, fifo, hand, bufs, pending, pc, job, back, side>>
  BY DEF vars, queueVars, callVars, demuxVars, appVars
<1>2. Steady /\ RaisesSame
  BY <1>1 DEF Steady, RaisesSame
<1> QED
  BY <1>1, <1>2, StillKeeps

LEMMA PairInvNext ==
    ASSUME SyncInv, PairInv, [Next]_vars PROVE PairInv'
<1>1. Types /\ Shape /\ Own /\ Asleep
  BY DEF SyncInv, Syncs
<1>2. Shape' /\ SideTypes'
  BY SyncInvNext DEF SyncInv, Types
<1>3. ASSUME NEW t \in Threads, GoesOn(t)
      PROVE  PairInv'
  <2>1. CASE PairStep(t)
    BY <1>1, <2>1, PairPairs
  <2>2. CASE t \in Sides /\ LoopExit(t)
    BY <1>1, <2>2, LoopExitPairs
  <2>3. CASE Sync(t)
    BY <1>1, <2>3, SyncPairs
  <2>4. CASE Flush(t)
    BY <1>1, <2>4, FlushPairs
  <2>5. CASE t \in Sides /\ DemuxStep(t)
    <3>1. \/ LoopStart(t) \/ LetIn(t) \/ Drain(t) \/ Delay(t) \/ Again(t) \/ Ended(t) \/ StreamEnd(t)
             \/ EndWait(t)
          \/ Chunk(t)
          \/ SendData(t)
      BY <2>5 DEF DemuxStep
    <3> QED
      BY <1>1, <2>5, <3>1, LoopPairs, ChunkPairs, SendDataPairs
  <2>6. CASE t = App /\ AppStep
    <3>1. StopSide \/ Open \/ PlayClear \/ Seek \/ GoOn \/ Playing
      BY <2>6 DEF AppStep
    <3> QED
      BY <1>1, <1>2, <3>1, StopSidePairs, OpenPairs, PlayClearPairs, SeekPairs, GoOnPairs, PlayingPairs
  <2> QED
    BY <1>3, <2>1, <2>2, <2>3, <2>4, <2>5, <2>6 DEF GoesOn
<1>4. CASE \E t \in Threads : Emergency(t)
  BY <1>1, <1>4, EmergencyPairs
<1>5. CASE \E f \in Fifos : DecoderStep(f)
  BY <1>1, <1>5, DecoderPairs
<1>6. CASE StopBegin \/ SetGapless \/ PlayBegin
  BY <1>1, <1>2, <1>6, StopBeginPairs, SetGaplessPairs, PlayBeginPairs
<1>7. CASE \E s \in Sides : Jump(s)
  BY <1>1, <1>7, JumpPairs
<1>8. CASE UNCHANGED vars
  BY <1>8, StutterPairs
<1> QED
  BY <1>3, <1>4, <1>5, <1>6, <1>7, <1>8 DEF Next, Asks, Rest

\* The inductive invariant of pairs of control buffers: whoever is about to put
\* a pair has its buffers, and room for them; action_pending is raised once for
\* each who wants a demuxer to wait; and the control buffers are in the same
\* order in both fifos, up to where the slower decoder is.
THEOREM PairInvariant == Spec => []PairInv
<1>1. Init => PairInv
  BY PairInvInit
<1>2. SyncInv /\ PairInv /\ [Next]_vars => PairInv'
  BY PairInvNext
<1> QED
  BY <1>1, <1>2, SyncInvariant, PTL DEF Spec

LEMMA LoopersFew ==
    ASSUME RunsCounted PROVE demuxers_running \in 0 .. NumSides
<1>1. IsFiniteSet(Sides) /\ Cardinality(Sides) = NumSides
  BY SyncAssumption, FS_Interval DEF Sides
<1>2. Loopers \subseteq Sides
  BY DEF Loopers
<1>3. IsFiniteSet(Loopers) /\ Cardinality(Loopers) <= NumSides
  BY <1>1, <1>2, FS_Subset
<1>4. Cardinality(Loopers) \in Nat
  BY <1>3, FS_CardinalityType
<1> QED
  BY <1>3, <1>4, SyncAssumption DEF RunsCounted

LEMMA PendingTyped ==
    ASSUME Types, PendingCounted PROVE pending \in [Sides -> Nat]
<1>1. IsFiniteSet(Callers)
  BY ThreadsFinite, FS_Subset DEF Callers
<1>2. PICK n \in Nat : n = Cardinality(Callers)
  BY <1>1, FS_CardinalityType
<1>3. ASSUME NEW s \in Sides PROVE pending[s] \in Nat
  <2>1. pending[s] = B2N(Raises(pc[App], back[App], side, s)) + (IF s = 1 THEN n ELSE 0)
    BY <1>2 DEF PendingCounted
  <2>2. PICK k \in Nat : k = B2N(Raises(pc[App], back[App], side, s))
    BY DEF B2N
  <2> QED
    BY <2>1, <2>2
<1> QED
  BY <1>3 DEF Types, SideTypes

\* The invariant's types, with what the pools and the counts have room for.
LEMMA PairTypes ==
    ASSUME SyncInv, RunInv, PairInv PROVE TypeOK
<1>1. Types
  BY DEF SyncInv
<1>2. ASSUME NEW f \in Fifos
      PROVE  /\ \A i \in 1 .. Len(fifo[f]) : fifo[f][i].kind \in Kinds \ {"barrier", "none"}
             /\ hand[f].kind \in Kinds
             /\ headers[f] \in Nat /\ finisheds[f] \in Nat
             /\ f \in created => Free(f) \in 0 .. Pool
  <2>1. \A i \in 1 .. Len(fifo[f]) : fifo[f][i].kind \in Kinds \ {"barrier", "none"}
    BY DEF PairInv, QueueKinds
  <2>2. hand[f] \in Items /\ headers[f] \in Nat /\ finisheds[f] \in Nat
    BY <1>1 DEF Types, QueueTypes, CountTypes
  <2>3. hand[f].kind \in Kinds
    BY <2>2 DEF Items
  <2>4. ASSUME f \in created PROVE Free(f) \in 0 .. Pool
    <3>1. PICK n \in Nat, l \in Nat : n = InPool(f) /\ l = Pool /\ Free(f) = l - n /\ n <= l
      BY <1>1, <2>4, RoomIs DEF PairInv, Rooms
    <3>2. l - n \in 0 .. l
      BY <3>1
    <3> QED
      BY <3>1, <3>2
  <2> QED
    BY <2>1, <2>2, <2>3, <2>4
<1>3. demuxers_running \in 0 .. NumSides
  BY LoopersFew DEF RunInv
<1>4. pending \in [Sides -> Nat]
  BY <1>1, PendingTyped DEF PairInv
<1>5. /\ created \subseteq Fifos /\ pair \in Threads \cup {Nobody} /\ counter \in Threads \cup {Nobody}
      /\ asleep \subseteq Threads \cup Fifos /\ status \in {"idle", "stop", "play"}
  BY <1>1 DEF Types, QueueTypes, CountTypes, StreamTypes, Senders
<1> QED
  BY <1>2, <1>3, <1>4, <1>5 DEF TypeOK

LEMMA InvPairs ==
    ASSUME SyncInv, RunInv, PairInv PROVE PairsInOrder
<1> USE Actors
<1>1. TypeOK /\ Types
  BY PairTypes DEF SyncInv
<1>2. ASSUME pair = Nobody, created = Fifos
      PROVE  IsSuffix(Control(Video), Control(Audio)) \/ IsSuffix(Control(Audio), Control(Video))
  <2>1. \A t \in Threads : ~Halfway(pc[t])
    <3>1. \A t \in Threads : Halfway(pc[t]) => pair = t
      BY OwnAt DEF SyncInv, Halfway, HasPair
    <3> QED
      BY <1>2, <3>1
  <2>2. Aligned(Control(Video), Control(Audio))
    BY <1>2, <2>1 DEF PairInv, Ordered
  <2>3. Control(Video) \in Seq(Items) /\ Control(Audio) \in Seq(Items)
    BY <1>1, ControlIs, ControlsAre DEF Types, QueueTypes
  <2>4. PICK v \in Seq(Items), a \in Seq(Items) : v = Control(Video) /\ a = Control(Audio)
    BY <2>3
  <2>5. Len(v) <= Len(a) \/ Len(a) <= Len(v)
    <3>1. Len(v) \in Nat /\ Len(a) \in Nat
      OBVIOUS
    <3> QED
      BY <3>1
  <2>6. Aligned(v, a) /\ Aligned(a, v)
    BY <2>2, <2>4, AlignedTurned
  <2>7. IsSuffix(v, a) \/ IsSuffix(a, v)
    BY <2>5, <2>6, AlignedSuffix
  <2> QED
    BY <2>4, <2>7
<1> QED
  BY <1>1, <1>2 DEF PairsInOrder

\* demux.pair does what it is for: both decoders meet the control buffers of all
\* threads in the same order, whatever they put at the same time and however the
\* decoders get on, for pools of any size; and nothing exceeds what the pools,
\* the count of demuxers and action_pending have room for.
THEOREM PairsInOrderHolds == Spec => []PairsInOrder
<1>1. SyncInv /\ RunInv /\ PairInv => PairsInOrder
  BY InvPairs
<1> QED
  BY <1>1, SyncInvariant, RunInvariant, PairInvariant, PTL
=============================================================================
