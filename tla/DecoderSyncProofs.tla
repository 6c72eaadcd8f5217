--------------------------- MODULE DecoderSyncProofs ---------------------------
(***************************************************************************)
(* What both decoders and all demuxers of a stream agree on, for any number *)
(* of side streams and any size of the fifos. Two inductive invariants, the *)
(* second on top of the first:                                              *)
(*                                                                          *)
(*   SyncInv   the waits for both decoders: when                            *)
(*             _x_demux_control_headers_done returns, and when a demuxer    *)
(*             declares the end of the stream, what was sent before has been *)
(*             passed on, and nobody sleeps on counts that are reached;     *)
(*   RunInv    the demuxers: who is counted in demuxers_running, so that the *)
(*             last one ends the stream and xine_play leaves one behind.    *)
(*                                                                          *)
(* SyncInv has four parts:                                                  *)
(*                                                                          *)
(*   Types     the types of the variables;                                  *)
(*   Shape     what a thread's call stack may be at each of its steps;      *)
(*   Own       who holds counter.lock, demux.pair and the demuxers' locks:  *)
(*             one thread at a time puts pairs, or counts on one;           *)
(*   Syncs     the rounds of control buffers, of HEADERS_DONE and of END.   *)
(*                                                                          *)
(* A round is one pair from its announcement (its sender has computed what  *)
(* the counts will be) to the second decoder's count.  At most one pair of  *)
(* a kind is under way, each fifo's count is as far as the others' or one   *)
(* pair ahead, and in front of the pair's buffer is all that its sender     *)
(* waits for.  That breaks when a second pair of the kind is sent while one *)
(* is under way (mixed), or when the emergency exit writes the counts       *)
(* itself (braked): of such states the invariant keeps the types, the locks *)
(* and the sleepers only.                                                   *)
(*                                                                          *)
(* A fifo is looked at as hand[f], the buffer its decoder works on, in      *)
(* front of fifo[f].  Flushes take buffers out of the middle of a fifo, so  *)
(* what is left is a thinner fifo in the same order (Thins): all that the   *)
(* invariant says of a fifo is kept by thinning.                            *)
(*                                                                          *)
(* RunInv adds how far a demuxer thread is (Phase): it is counted from its  *)
(* start to the end of its loop, and thread_running is set in between.  Of  *)
(* a seek it says that the application will start a demuxer which has       *)
(* something to send, or has kept one.                                      *)
(***************************************************************************)
EXTENDS DecoderSync, SumLemmas

-----------------------------------------------------------------------------
(* Without: a queue without the buffers of some kinds. *)

\* The function that Without is computed with, and its value at m.
RestStep(r, items, kinds, m) ==
    IF m = 0 THEN <<>>
    ELSE IF items[m].kind \in kinds THEN r[m - 1] ELSE Append(r[m - 1], items[m])

IsRest(r, items, kinds, n) == r = [m \in 0 .. n |-> RestStep(r, items, kinds, m)]

\* Without is the last value of the function it is computed with.
LEMMA WithoutIs ==
    ASSUME NEW items, NEW kinds
    PROVE  Without(items, kinds) =
             (CHOOSE r : IsRest(r, items, kinds, Len(items)))[Len(items)]
  BY DEF Without, IsRest, RestStep

\* The values of such a function.
LEMMA RestAt ==
    ASSUME NEW r, NEW items, NEW kinds, NEW n \in Nat, IsRest(r, items, kinds, n),
           NEW m \in 0 .. n
    PROVE  r[m] = RestStep(r, items, kinds, m)
  BY DEF IsRest

\* There is such a function.
LEMMA RestExists ==
    ASSUME NEW items, NEW kinds, NEW n \in Nat
    PROVE  \E r : IsRest(r, items, kinds, n)
<1> DEFINE T == {m \in Nat : ~ \E r : IsRest(r, items, kinds, m)}
<1>1. SUFFICES ASSUME T # {} PROVE FALSE
  OBVIOUS
<1>2. PICK m \in T : \A k \in T : m <= k
  BY <1>1, Least
<1>3. CASE m = 0
  <2> DEFINE r == [i \in 0 .. 0 |-> <<>>]
  <2>1. IsRest(r, items, kinds, 0)
    BY DEF IsRest, RestStep
  <2> QED
    BY <1>2, <1>3, <2>1
<1>4. CASE m > 0
  <2>1. m - 1 \in Nat /\ m - 1 \notin T
    BY <1>2, <1>4
  <2>2. PICK q : IsRest(q, items, kinds, m - 1)
    BY <2>1
  <2> DEFINE r == [i \in 0 .. m |-> IF i = m THEN RestStep(q, items, kinds, m) ELSE q[i]]
  <2>3. ASSUME NEW i \in 0 .. m PROVE r[i] = RestStep(r, items, kinds, i)
    <3>1. i # 0 => i - 1 \in 0 .. m /\ i - 1 # m /\ r[i - 1] = q[i - 1]
      BY <1>2
    <3>2. RestStep(r, items, kinds, i) = RestStep(q, items, kinds, i)
      <4> HIDE DEF r
      <4> QED
        BY <3>1 DEF RestStep
    <3>3. i # m => q[i] = RestStep(q, items, kinds, i)
      BY <1>2, <1>4, <2>1, <2>2, RestAt
    <3> QED
      BY <3>2, <3>3
  <2>4. r = [i \in 0 .. m |-> r[i]]
    OBVIOUS
  <2>5. [i \in 0 .. m |-> r[i]] = [i \in 0 .. m |-> RestStep(r, items, kinds, i)]
    <3> HIDE DEF r
    <3> QED
      BY <2>3
  <2>6. IsRest(r, items, kinds, m)
    <3> HIDE DEF r
    <3> QED
      BY <2>4, <2>5 DEF IsRest
  <2> QED
    BY <1>2, <2>6
<1> QED
  BY <1>2, <1>3, <1>4

\* Two such functions agree where their sequences do.
LEMMA RestsAgree ==
    ASSUME NEW kinds, NEW s, NEW t, NEW n \in Nat, NEW m \in Nat,
           NEW r, IsRest(r, s, kinds, n), NEW q, IsRest(q, t, kinds, m),
           NEW k \in Nat, k <= n, k <= m, \A i \in 1 .. k : s[i] = t[i]
    PROVE  r[k] = q[k]
<1> DEFINE T == {i \in 0 .. k : r[i] # q[i]}
<1>1. SUFFICES ASSUME T # {} PROVE FALSE
  OBVIOUS
<1>2. PICK i \in T : \A j \in T : i <= j
  <2>1. T \subseteq Nat
    OBVIOUS
  <2> HIDE DEF T
  <2> QED
    BY <1>1, <2>1, Least
<1>3. r[i] = RestStep(r, s, kinds, i) /\ q[i] = RestStep(q, t, kinds, i)
  BY <1>2, RestAt
<1>4. i # 0 => r[i - 1] = q[i - 1] /\ s[i] = t[i]
  BY <1>2
<1> QED
  BY <1>2, <1>3, <1>4 DEF RestStep

\* Nothing is left of an empty queue.
LEMMA WithoutEmpty ==
    ASSUME NEW kinds
    PROVE  Without(<<>>, kinds) = <<>>
<1> DEFINE r == CHOOSE r : IsRest(r, <<>>, kinds, 0)
<1>1. IsRest(r, <<>>, kinds, 0)
  BY RestExists
<1>2. r[0] = RestStep(r, <<>>, kinds, 0)
  <2> HIDE DEF r
  <2> QED
    BY <1>1, RestAt
<1>3. Len(<<>>) = 0
  OBVIOUS
<1> QED
  BY <1>2, <1>3, WithoutIs DEF RestStep

\* Without, of a queue to which an item is appended.
LEMMA WithoutAppend ==
    ASSUME NEW S, NEW s \in Seq(S), NEW x \in S, NEW kinds
    PROVE  Without(Append(s, x), kinds) =
             IF x.kind \in kinds THEN Without(s, kinds) ELSE Append(Without(s, kinds), x)
<1> DEFINE a == Append(s, x)
           n == Len(s)
           r == CHOOSE r : IsRest(r, a, kinds, n + 1)
           q == CHOOSE q : IsRest(q, s, kinds, n)
<1>1. n \in Nat /\ Len(a) = n + 1 /\ a[n + 1] = x /\ \A i \in 1 .. n : a[i] = s[i]
  OBVIOUS
<1>2. Without(a, kinds) = r[n + 1] /\ Without(s, kinds) = q[n]
  BY <1>1, WithoutIs
<1> HIDE DEF a, n
<1>3. IsRest(r, a, kinds, n + 1) /\ IsRest(q, s, kinds, n)
  <2>1. (\E u : IsRest(u, a, kinds, n + 1)) /\ \E u : IsRest(u, s, kinds, n)
    <3>1. n + 1 \in Nat
      BY <1>1
    <3> QED
      BY <1>1, <3>1, RestExists
  <2> QED
    BY <2>1
<1> HIDE DEF r, q
<1>4. r[n] = q[n]
  <2> DEFINE m == n + 1
  <2>1. m \in Nat /\ n <= m /\ n <= n /\ IsRest(r, a, kinds, m)
    BY <1>1, <1>3
  <2>2. n \in Nat /\ IsRest(q, s, kinds, n) /\ \A i \in 1 .. n : a[i] = s[i]
    BY <1>1, <1>3
  <2> HIDE DEF m
  <2> QED
    BY <2>1, <2>2, RestsAgree
<1>5. r[n + 1] = RestStep(r, a, kinds, n + 1)
  BY <1>1, <1>3, RestAt
<1>6. r[n + 1] = IF x.kind \in kinds THEN r[n] ELSE Append(r[n], x)
  BY <1>1, <1>5 DEF RestStep
<1> QED
  BY <1>2, <1>4, <1>6 DEF a

\* A sequence that is not empty has a last item.
LEMMA LastOff ==
    ASSUME NEW S, NEW s \in Seq(S), s # <<>>
    PROVE  \E p \in Seq(S), x \in S : s = Append(p, x) /\ Len(p) = Len(s) - 1
<1>1. PICK n \in Nat : Len(s) = n + 1
  <2>1. Len(s) \in Nat /\ Len(s) # 0
    OBVIOUS
  <2>2. Len(s) - 1 \in Nat /\ Len(s) = (Len(s) - 1) + 1
    BY <2>1
  <2> QED
    BY <2>2
<1> DEFINE p == [i \in 1 .. n |-> s[i]]
<1>2. p \in Seq(S) /\ Len(p) = n /\ s[n + 1] \in S /\ \A i \in 1 .. n : p[i] = s[i]
  BY <1>1
<1>3. s = Append(p, s[n + 1])
  <2> HIDE DEF p
  <2> QED
    BY <1>1, <1>2
<1>4. Len(p) = Len(s) - 1
  BY <1>1, <1>2
<1> HIDE DEF p
<1> QED
  BY <1>1, <1>2, <1>3, <1>4

\* What is left is a sequence of the same items.
LEMMA WithoutSeq ==
    ASSUME NEW S, NEW s \in Seq(S), NEW kinds
    PROVE  Without(s, kinds) \in Seq(S)
<1> DEFINE T == {n \in Nat : \E t \in Seq(S) : Len(t) = n /\ Without(t, kinds) \notin Seq(S)}
<1>1. SUFFICES ASSUME T # {} PROVE FALSE
  OBVIOUS
<1>2. PICK n \in T : \A k \in T : n <= k
  BY <1>1, Least
<1>3. PICK t \in Seq(S) : Len(t) = n /\ Without(t, kinds) \notin Seq(S)
  BY <1>2
<1>4. t # <<>>
  BY <1>3, WithoutEmpty
<1>5. PICK p \in Seq(S), x \in S : t = Append(p, x) /\ Len(p) = Len(t) - 1
  BY <1>4, LastOff
<1>6. Without(p, kinds) \in Seq(S)
  BY <1>2, <1>3, <1>5
<1>7. Without(t, kinds) = IF x.kind \in kinds THEN Without(p, kinds)
                                               ELSE Append(Without(p, kinds), x)
  BY <1>5, WithoutAppend
<1>8. Append(Without(p, kinds), x) \in Seq(S)
  BY <1>6
<1> QED
  BY <1>3, <1>6, <1>7, <1>8

\* e tells for each place of r where its item is in s.
Embeds(e, r, s, kinds) ==
    /\ e \in [1 .. Len(r) -> 1 .. Len(s)]
    /\ \A i \in 1 .. Len(r) : r[i] = s[e[i]] /\ r[i].kind \notin kinds
    /\ \A i, j \in 1 .. Len(r) : i < j => e[i] < e[j]
    /\ \A m \in 1 .. Len(s) : s[m].kind \notin kinds => \E i \in 1 .. Len(r) : e[i] = m

\* An item that is left out is appended.
LEMMA EmbedsDropped ==
    ASSUME NEW S, NEW p \in Seq(S), NEW x \in S, NEW kinds, x.kind \in kinds,
           NEW r \in Seq(S), NEW e, Embeds(e, r, p, kinds)
    PROVE  Embeds(e, r, Append(p, x), kinds)
<1> DEFINE a == Append(p, x)
<1>1. PICK n \in Nat : n = Len(p)
  OBVIOUS
<1>2. Len(a) = n + 1 /\ a[n + 1] = x /\ \A i \in 1 .. n : a[i] = p[i]
  BY <1>1
<1> HIDE DEF a
<1>3. /\ e \in [1 .. Len(r) -> 1 .. n]
      /\ \A i \in 1 .. Len(r) : r[i] = p[e[i]] /\ r[i].kind \notin kinds
      /\ \A i, j \in 1 .. Len(r) : i < j => e[i] < e[j]
      /\ \A m \in 1 .. n : p[m].kind \notin kinds => \E i \in 1 .. Len(r) : e[i] = m
  BY <1>1 DEF Embeds
<1>4. e \in [1 .. Len(r) -> 1 .. Len(a)]
  BY <1>2, <1>3
<1>5. \A i \in 1 .. Len(r) : r[i] = a[e[i]]
  BY <1>2, <1>3
<1>6. \A m \in 1 .. Len(a) : a[m].kind \notin kinds => \E i \in 1 .. Len(r) : e[i] = m
  <2> SUFFICES ASSUME NEW m \in 1 .. Len(a), a[m].kind \notin kinds
               PROVE  m \in 1 .. n /\ p[m].kind \notin kinds
    BY <1>3
  <2> QED
    BY <1>2
<1> QED
  BY <1>3, <1>4, <1>5, <1>6 DEF Embeds, a

\* An item that is kept is appended.
LEMMA EmbedsKept ==
    ASSUME NEW S, NEW p \in Seq(S), NEW x \in S, NEW kinds, x.kind \notin kinds,
           NEW r \in Seq(S), NEW e, Embeds(e, r, p, kinds)
    PROVE  \E d : Embeds(d, Append(r, x), Append(p, x), kinds)
<1>1. PICK n \in Nat, k \in Nat : n = Len(p) /\ k = Len(r)
  OBVIOUS
<1> DEFINE d == [i \in 1 .. k + 1 |-> IF i = k + 1 THEN n + 1 ELSE e[i]]
           a == Append(p, x)
           b == Append(r, x)
<1>2. Len(a) = n + 1 /\ a[n + 1] = x /\ \A i \in 1 .. n : a[i] = p[i]
  BY <1>1
<1>3. Len(b) = k + 1 /\ b[k + 1] = x /\ \A i \in 1 .. k : b[i] = r[i]
  BY <1>1
<1>4. /\ e \in [1 .. k -> 1 .. n]
      /\ \A i \in 1 .. k : r[i] = p[e[i]] /\ r[i].kind \notin kinds
      /\ \A i, j \in 1 .. k : i < j => e[i] < e[j]
      /\ \A m \in 1 .. n : p[m].kind \notin kinds => \E i \in 1 .. k : e[i] = m
  BY <1>1 DEF Embeds
<1>5. d \in [1 .. k + 1 -> 1 .. n + 1]
  BY <1>4
<1>6. d[k + 1] = n + 1 /\ \A i \in 1 .. k : d[i] = e[i] /\ d[i] \in 1 .. n
  BY <1>4
<1> HIDE DEF d, a, b
<1>7. \A i \in 1 .. k + 1 : b[i] = a[d[i]] /\ b[i].kind \notin kinds
  <2> SUFFICES ASSUME NEW i \in 1 .. k + 1
               PROVE  b[i] = a[d[i]] /\ b[i].kind \notin kinds
    OBVIOUS
  <2>1. CASE i = k + 1
    BY <1>2, <1>3, <1>6, <2>1
  <2>2. CASE i \in 1 .. k
    <3>1. b[i] = r[i] /\ r[i] = p[e[i]] /\ r[i].kind \notin kinds
      BY <1>3, <1>4, <2>2
    <3>2. a[d[i]] = p[e[i]]
      BY <1>2, <1>6, <2>2
    <3> QED
      BY <3>1, <3>2
  <2> QED
    BY <2>1, <2>2
<1>8. \A i, j \in 1 .. k + 1 : i < j => d[i] < d[j]
  <2> SUFFICES ASSUME NEW i \in 1 .. k + 1, NEW j \in 1 .. k + 1, i < j PROVE d[i] < d[j]
    OBVIOUS
  <2>1. i \in 1 .. k
    OBVIOUS
  <2>2. CASE j = k + 1
    BY <1>6, <2>1, <2>2
  <2>3. CASE j \in 1 .. k
    BY <1>4, <1>6, <2>1, <2>3
  <2> QED
    BY <2>2, <2>3
<1>9. \A m \in 1 .. n + 1 : a[m].kind \notin kinds => \E i \in 1 .. k + 1 : d[i] = m
  <2> SUFFICES ASSUME NEW m \in 1 .. n + 1, a[m].kind \notin kinds
               PROVE  \E i \in 1 .. k + 1 : d[i] = m
    OBVIOUS
  <2>1. CASE m = n + 1
    BY <1>6, <2>1
  <2>2. CASE m \in 1 .. n
    <3>1. PICK i \in 1 .. k : e[i] = m
      BY <1>2, <1>4, <2>2
    <3> QED
      BY <1>6, <3>1
  <2> QED
    BY <2>1, <2>2
<1>10. Embeds(d, b, a, kinds)
  BY <1>2, <1>3, <1>5, <1>7, <1>8, <1>9 DEF Embeds
<1> QED
  BY <1>10 DEF a, b

\* What Without leaves is in the queue, in order, and is all that it should be.
LEMMA Embedding ==
    ASSUME NEW S, NEW s \in Seq(S), NEW kinds
    PROVE  \E e : Embeds(e, Without(s, kinds), s, kinds)
<1> DEFINE Good(t) == \E e : Embeds(e, Without(t, kinds), t, kinds)
           T == {n \in Nat : \E t \in Seq(S) : Len(t) = n /\ ~Good(t)}
<1>1. SUFFICES ASSUME T # {} PROVE FALSE
  OBVIOUS
<1>2. PICK n \in T : \A k \in T : n <= k
  BY <1>1, Least
<1>3. PICK t \in Seq(S) : Len(t) = n /\ ~Good(t)
  BY <1>2
<1>4. t # <<>>
  <2>1. Embeds(<<>>, <<>>, <<>>, kinds)
    BY DEF Embeds
  <2> QED
    BY <1>3, <2>1, WithoutEmpty
<1>5. PICK p \in Seq(S), x \in S : t = Append(p, x) /\ Len(p) = Len(t) - 1
  BY <1>4, LastOff
<1>6. Good(p)
  BY <1>2, <1>3, <1>5
<1>7. PICK e : Embeds(e, Without(p, kinds), p, kinds)
  BY <1>6
<1>8. Without(p, kinds) \in Seq(S)
  BY WithoutSeq
<1>9. Without(t, kinds) = IF x.kind \in kinds THEN Without(p, kinds)
                                               ELSE Append(Without(p, kinds), x)
  BY <1>5, WithoutAppend
<1>10. Good(t)
  BY <1>5, <1>7, <1>8, <1>9, EmbedsDropped, EmbedsKept
<1> QED
  BY <1>3, <1>10

-----------------------------------------------------------------------------
(* What is on its way through one fifo: h is in the decoder's hand, q queued. *)

\* Who may have put a buffer, and the buffers.
Senders == Threads \cup {Nobody}

Items == [kind : Kinds, by : Senders]

\* The places of a fifo: 0 is the hand of its decoder.
It(h, q, i) == IF i = 0 THEN h ELSE q[i]

\* A buffer of the kind is in the fifo, one that t put is, and at most one is.
Holds(h, q, kind) == \E i \in 0 .. Len(q) : It(h, q, i).kind = kind

HoldsOf(h, q, kind, t) == \E i \in 0 .. Len(q) : It(h, q, i) = Item(kind, t)

OneOf(h, q, kind) ==
    \A i, j \in 0 .. Len(q) : It(h, q, i).kind = kind /\ It(h, q, j).kind = kind => i = j

\* What t has sent, or data of a demuxer that it holds back.
Older(x, t, D) ==
    \/ x.by = t /\ x.kind \notin {"none", "barrier"}
    \/ x.by \in D /\ x.kind = "data"

\* Nothing of that is left.
Clean(h, q, t, D) == \A i \in 0 .. Len(q) : ~Older(It(h, q, i), t, D)

\* t's buffer of the kind is in the fifo, and behind all of that.
Marked(h, q, kind, t, D) ==
    \E k \in 0 .. Len(q) :
        /\ It(h, q, k) = Item(kind, t)
        /\ \A i \in 0 .. Len(q) : i > k => ~Older(It(h, q, i), t, D)

\* The places of one fifo, in order, in one that has more; e says where.
Thins(e, h1, q1, h, q, kind) ==
    /\ e \in [0 .. Len(q1) -> 0 .. Len(q)]
    /\ \A i \in 0 .. Len(q1) : It(h1, q1, i) = It(h, q, e[i]) \/ It(h1, q1, i).kind \in {"none", "barrier"}
    /\ \A i, j \in 0 .. Len(q1) : i < j => e[i] < e[j]
    /\ \A m \in 0 .. Len(q) : It(h, q, m).kind = kind =>
            \E i \in 0 .. Len(q1) : e[i] = m /\ It(h1, q1, i) = It(h, q, m)

\* What holds of a fifo, and still holds when other items have gone.
LEMMA ThinFifo ==
    ASSUME NEW h \in Items, NEW q \in Seq(Items), NEW h1 \in Items, NEW q1 \in Seq(Items),
           NEW kind \in {"headers", "end"}, NEW e, Thins(e, h1, q1, h, q, kind)
    PROVE  /\ OneOf(h, q, kind) => OneOf(h1, q1, kind)
           /\ Holds(h1, q1, kind) <=> Holds(h, q, kind)
           /\ \A t \in Senders : HoldsOf(h1, q1, kind, t) <=> HoldsOf(h, q, kind, t)
           /\ \A t \in Senders, D \in SUBSET Sides :
                /\ Clean(h, q, t, D) => Clean(h1, q1, t, D)
                /\ Marked(h, q, kind, t, D) => Marked(h1, q1, kind, t, D)
<1> DEFINE N == 0 .. Len(q)
           M == 0 .. Len(q1)
           a == [i \in N |-> It(h, q, i)]
           b == [i \in M |-> It(h1, q1, i)]
<1>1. N \subseteq Int /\ M \subseteq Int
  OBVIOUS
<1>2. /\ e \in [M -> N]
      /\ \A i \in M : b[i] = a[e[i]] \/ b[i].kind \in {"none", "barrier"}
      /\ \A i, j \in M : i < j => e[i] < e[j]
      /\ \A m \in N : a[m].kind = kind => \E i \in M : e[i] = m /\ b[i] = a[m]
  BY DEF Thins
<1>3. /\ OneOf(h, q, kind) <=> \A i, j \in N : a[i].kind = kind /\ a[j].kind = kind => i = j
      /\ OneOf(h1, q1, kind) <=> \A i, j \in M : b[i].kind = kind /\ b[j].kind = kind => i = j
      /\ Holds(h, q, kind) <=> \E i \in N : a[i].kind = kind
      /\ Holds(h1, q1, kind) <=> \E i \in M : b[i].kind = kind
  BY DEF OneOf, Holds
<1>4. \A t \in Senders, D \in SUBSET Sides :
        /\ HoldsOf(h, q, kind, t) <=> \E i \in N : a[i] = Item(kind, t)
        /\ HoldsOf(h1, q1, kind, t) <=> \E i \in M : b[i] = Item(kind, t)
        /\ Clean(h, q, t, D) <=> \A i \in N : ~Older(a[i], t, D)
        /\ Clean(h1, q1, t, D) <=> \A i \in M : ~Older(b[i], t, D)
        /\ Marked(h, q, kind, t, D) <=>
                \E k \in N : a[k] = Item(kind, t) /\ \A i \in N : i > k => ~Older(a[i], t, D)
        /\ Marked(h1, q1, kind, t, D) <=>
                \E k \in M : b[k] = Item(kind, t) /\ \A i \in M : i > k => ~Older(b[i], t, D)
  BY DEF HoldsOf, Clean, Marked
<1> HIDE DEF a, b, N, M
<1>5. OneOf(h, q, kind) => OneOf(h1, q1, kind)
  <2> SUFFICES ASSUME \A i, j \in N : a[i].kind = kind /\ a[j].kind = kind => i = j,
                      NEW i \in M, NEW j \in M, b[i].kind = kind, b[j].kind = kind
               PROVE  i = j
    BY <1>3
  <2>1. e[i] = e[j]
    <3>1. b[i] = a[e[i]] /\ b[j] = a[e[j]]
      BY <1>2
    <3>2. a[e[i]].kind = kind /\ a[e[j]].kind = kind /\ e[i] \in N /\ e[j] \in N
      BY <1>2, <3>1
    <3> QED
      BY <3>2
  <2>2. i < j => e[i] < e[j]
    BY <1>2
  <2>3. j < i => e[j] < e[i]
    BY <1>2
  <2>4. i \in Int /\ j \in Int /\ e[i] \in Int /\ e[j] \in Int
    BY <1>1, <1>2
  <2> QED
    BY <2>1, <2>2, <2>3, <2>4
<1>6. Holds(h1, q1, kind) <=> Holds(h, q, kind)
  BY <1>2, <1>3
<1>7. ASSUME NEW t \in Senders, NEW D \in SUBSET Sides
      PROVE  /\ HoldsOf(h1, q1, kind, t) <=> HoldsOf(h, q, kind, t)
             /\ Clean(h, q, t, D) => Clean(h1, q1, t, D)
             /\ Marked(h, q, kind, t, D) => Marked(h1, q1, kind, t, D)
  <2>1. Item(kind, t).kind = kind
    BY DEF Item
  <2>2. HoldsOf(h1, q1, kind, t) <=> HoldsOf(h, q, kind, t)
    <3>1. ASSUME NEW i \in M, b[i] = Item(kind, t) PROVE e[i] \in N /\ a[e[i]] = Item(kind, t)
      BY <1>2, <2>1, <3>1
    <3>2. ASSUME NEW m \in N, a[m] = Item(kind, t) PROVE \E i \in M : b[i] = Item(kind, t)
      BY <1>2, <2>1, <3>2
    <3>3. (\E i \in M : b[i] = Item(kind, t)) <=> \E m \in N : a[m] = Item(kind, t)
      BY <3>1, <3>2
    <3> QED
      BY <1>4, <3>3
  <2>3. \A i \in M : Older(b[i], t, D) => Older(a[e[i]], t, D)
    BY <1>2 DEF Older
  <2>4. Clean(h, q, t, D) => Clean(h1, q1, t, D)
    BY <1>2, <1>4, <2>3
  <2>5. ASSUME Marked(h, q, kind, t, D) PROVE Marked(h1, q1, kind, t, D)
    <3>1. PICK k \in N : a[k] = Item(kind, t) /\ \A i \in N : i > k => ~Older(a[i], t, D)
      BY <1>4, <2>5
    <3>2. PICK i \in M : e[i] = k /\ b[i] = a[k]
      BY <1>2, <2>1, <3>1
    <3>3. \A j \in M : j > i => ~Older(b[j], t, D)
      BY <1>1, <1>2, <2>3, <3>1, <3>2
    <3> QED
      BY <1>4, <3>1, <3>2, <3>3
  <2> QED
    BY <2>2, <2>4, <2>5
<1>8. \A t \in Senders : \E D \in SUBSET Sides : TRUE
  OBVIOUS
<1> QED
  BY <1>5, <1>6, <1>7, <1>8

\* The decoder takes the next buffer in its hand.
LEMMA ThinTake ==
    ASSUME NEW h \in Items, h.kind = "none", NEW q \in Seq(Items), q # <<>>,
           NEW kind \in {"headers", "end"}
    PROVE  \E e : Thins(e, Head(q), Tail(q), h, q, kind)
<1>1. PICK n \in Nat : n = Len(q) - 1 /\ Len(q) = n + 1
  <2>1. Len(q) \in Nat /\ Len(q) # 0
    OBVIOUS
  <2>2. Len(q) - 1 \in Nat /\ Len(q) = (Len(q) - 1) + 1
    BY <2>1
  <2> QED
    BY <2>2
<1> DEFINE e == [i \in 0 .. n |-> i + 1]
<1>2. Len(Tail(q)) = n /\ Head(q) = q[1] /\ \A i \in 1 .. n : Tail(q)[i] = q[i + 1]
  BY <1>1
<1>3. \A i \in 0 .. n : e[i] = i + 1 /\ e[i] \in 0 .. n + 1 /\ It(Head(q), Tail(q), i) = It(h, q, e[i])
  BY <1>2 DEF It
<1>4. e \in [0 .. n -> 0 .. n + 1]
  OBVIOUS
<1> HIDE DEF e
<1>5. \A i, j \in 0 .. n : i < j => e[i] < e[j]
  BY <1>3
<1>6. ASSUME NEW m \in 0 .. n + 1, It(h, q, m).kind = kind
      PROVE  \E i \in 0 .. n : e[i] = m
  <2>1. m # 0
    BY <1>6 DEF It
  <2>2. m - 1 \in 0 .. n /\ (m - 1) + 1 = m
    BY <2>1
  <2> QED
    BY <1>3, <2>2
<1>7. Thins(e, Head(q), Tail(q), h, q, kind)
  BY <1>1, <1>2, <1>3, <1>4, <1>5, <1>6 DEF Thins
<1> QED
  BY <1>7

\* A flush removes the data.
LEMMA ThinClear ==
    ASSUME NEW h \in Items, NEW q \in Seq(Items), NEW kind \in {"headers", "end"}
    PROVE  \E e : Thins(e, h, Kept(q), h, q, kind)
<1> DEFINE r == Without(q, {"data"})
<1>1. r \in Seq(Items) /\ \E d : Embeds(d, r, q, {"data"})
  BY WithoutSeq, Embedding
<1> HIDE DEF r
<1>2. PICK d : Embeds(d, r, q, {"data"})
  BY <1>1
<1>3. PICK k \in Nat, n \in Nat : k = Len(r) /\ n = Len(q)
  BY <1>1
<1>4. /\ d \in [1 .. k -> 1 .. n]
      /\ \A i \in 1 .. k : r[i] = q[d[i]]
      /\ \A i, j \in 1 .. k : i < j => d[i] < d[j]
      /\ \A m \in 1 .. n : q[m].kind # "data" => \E i \in 1 .. k : d[i] = m
  BY <1>2, <1>3 DEF Embeds
<1> DEFINE e == [i \in 0 .. k |-> IF i = 0 THEN 0 ELSE d[i]]
<1>5. e \in [0 .. k -> 0 .. n] /\ e[0] = 0 /\ \A i \in 1 .. k : e[i] = d[i] /\ d[i] \in 1 .. n
  BY <1>4
<1> HIDE DEF e
<1>6. \A i \in 0 .. k : It(h, r, i) = It(h, q, e[i])
  BY <1>4, <1>5 DEF It
<1>7. \A i, j \in 0 .. k : i < j => e[i] < e[j]
  <2> SUFFICES ASSUME NEW i \in 0 .. k, NEW j \in 0 .. k, i < j PROVE e[i] < e[j]
    OBVIOUS
  <2>1. j \in 1 .. k
    OBVIOUS
  <2>2. CASE i = 0
    BY <1>5, <2>1, <2>2
  <2>3. CASE i \in 1 .. k
    BY <1>4, <1>5, <2>1, <2>3
  <2> QED
    BY <2>2, <2>3
<1>8. ASSUME NEW m \in 0 .. n, It(h, q, m).kind = kind
      PROVE  \E i \in 0 .. k : e[i] = m
  <2>1. CASE m = 0
    BY <1>5, <2>1
  <2>2. CASE m \in 1 .. n
    <3>1. q[m].kind # "data"
      BY <1>8, <2>2 DEF It
    <3>2. PICK i \in 1 .. k : d[i] = m
      BY <1>4, <2>2, <3>1
    <3> QED
      BY <1>5, <3>2
  <2> QED
    BY <2>1, <2>2
<1>9. \A m \in 0 .. n : It(h, q, m).kind = kind =>
        \E i \in 0 .. k : e[i] = m /\ It(h, r, i) = It(h, q, m)
  BY <1>6, <1>8
<1>10. Thins(e, h, r, h, q, kind)
  BY <1>3, <1>5, <1>6, <1>7, <1>9 DEF Thins
<1> QED
  BY <1>10 DEF r, Kept

\* The decoder is through with a buffer of another kind.
LEMMA ThinDone ==
    ASSUME NEW h \in Items, NEW q \in Seq(Items), NEW kind \in {"headers", "end"},
           h.kind # kind, NEW h1 \in Items, h1.kind \in {"none", "barrier"}
    PROVE  \E e : Thins(e, h1, q, h, q, kind)
<1> DEFINE e == [i \in 0 .. Len(q) |-> i]
<1>1. \A i \in 0 .. Len(q) : e[i] = i
  OBVIOUS
<1>2. e \in [0 .. Len(q) -> 0 .. Len(q)]
  OBVIOUS
<1> HIDE DEF e
<1>3. \A i \in 0 .. Len(q) : It(h1, q, i) = It(h, q, i) \/ It(h1, q, i).kind \in {"none", "barrier"}
  BY DEF It
<1>4. \A m \in 0 .. Len(q) : It(h, q, m).kind = kind => It(h1, q, m) = It(h, q, m)
  BY DEF It
<1>5. \A i, j \in 0 .. Len(q) : i < j => e[i] < e[j]
  BY <1>1
<1>6. Thins(e, h1, q, h, q, kind)
  BY <1>1, <1>2, <1>3, <1>4, <1>5 DEF Thins
<1> QED
  BY <1>6

\* A buffer of another kind is put.
LEMMA PutFifo ==
    ASSUME NEW h \in Items, NEW q \in Seq(Items), NEW kind \in {"headers", "end"},
           NEW x \in Items, x.kind # kind
    PROVE  LET q1 == Append(q, x) IN
           /\ OneOf(h, q, kind) => OneOf(h, q1, kind)
           /\ Holds(h, q1, kind) <=> Holds(h, q, kind)
           /\ \A t \in Senders : HoldsOf(h, q1, kind, t) <=> HoldsOf(h, q, kind, t)
           /\ \A t \in Senders, D \in SUBSET Sides : ~Older(x, t, D) =>
                /\ Clean(h, q, t, D) => Clean(h, q1, t, D)
                /\ Marked(h, q, kind, t, D) => Marked(h, q1, kind, t, D)
<1> DEFINE q1 == Append(q, x)
           N == 0 .. Len(q)
           n == Len(q) + 1
<1>1. /\ 0 .. Len(q1) = N \cup {n} /\ n \notin N /\ It(h, q1, n) = x
      /\ \A i \in N : It(h, q1, i) = It(h, q, i) /\ n > i
  BY DEF It
<1> HIDE DEF q1, n, N
<1>2. /\ OneOf(h, q, kind) <=>
            \A i, j \in N : It(h, q, i).kind = kind /\ It(h, q, j).kind = kind => i = j
      /\ Holds(h, q, kind) <=> \E i \in N : It(h, q, i).kind = kind
      /\ \A t \in Senders : HoldsOf(h, q, kind, t) <=> \E i \in N : It(h, q, i) = Item(kind, t)
      /\ \A t \in Senders, D \in SUBSET Sides :
            /\ Clean(h, q, t, D) <=> \A i \in N : ~Older(It(h, q, i), t, D)
            /\ Marked(h, q, kind, t, D) <=>
                 \E k \in N : /\ It(h, q, k) = Item(kind, t)
                              /\ \A i \in N : i > k => ~Older(It(h, q, i), t, D)
  BY DEF OneOf, Holds, HoldsOf, Clean, Marked, N
<1>3. \A t \in Senders : Item(kind, t) # x
  BY DEF Item
<1>4. OneOf(h, q, kind) => OneOf(h, q1, kind)
  BY <1>1, <1>2 DEF OneOf
<1>5. Holds(h, q1, kind) <=> Holds(h, q, kind)
  BY <1>1, <1>2 DEF Holds
<1>6. \A t \in Senders : HoldsOf(h, q1, kind, t) <=> HoldsOf(h, q, kind, t)
  BY <1>1, <1>2, <1>3 DEF HoldsOf
<1>7. ASSUME NEW t \in Senders, NEW D \in SUBSET Sides, ~Older(x, t, D)
      PROVE  /\ Clean(h, q, t, D) => Clean(h, q1, t, D)
             /\ Marked(h, q, kind, t, D) => Marked(h, q1, kind, t, D)
  <2>1. Clean(h, q, t, D) => Clean(h, q1, t, D)
    BY <1>1, <1>2, <1>7 DEF Clean
  <2>2. ASSUME Marked(h, q, kind, t, D) PROVE Marked(h, q1, kind, t, D)
    <3>1. PICK k \in N : /\ It(h, q, k) = Item(kind, t)
                         /\ \A i \in N : i > k => ~Older(It(h, q, i), t, D)
      BY <1>2, <2>2
    <3> QED
      BY <1>1, <1>7, <3>1 DEF Marked
  <2> QED
    BY <2>1, <2>2
<1> QED
  BY <1>4, <1>5, <1>6, <1>7 DEF q1

\* The buffer of a pair is put into a fifo that has none.
LEMMA MarkFifo ==
    ASSUME NEW h \in Items, NEW q \in Seq(Items), NEW kind \in {"headers", "end"},
           NEW t \in Threads, ~Holds(h, q, kind)
    PROVE  LET q1 == Append(q, Item(kind, t)) IN
           /\ OneOf(h, q1, kind) /\ Holds(h, q1, kind)
           /\ \A u \in Senders : HoldsOf(h, q1, kind, u) => u = t
           /\ \A D \in SUBSET Sides : Marked(h, q1, kind, t, D)
           /\ \A u \in Senders, D \in SUBSET Sides : u # t /\ Clean(h, q, u, D) => Clean(h, q1, u, D)
<1> DEFINE x == Item(kind, t)
           q1 == Append(q, x)
           N == 0 .. Len(q)
           n == Len(q) + 1
<1>1. x.kind = kind /\ x.by = t /\ x \in Items
  BY DEF Item, Items, Kinds, Senders
<1>2. /\ 0 .. Len(q1) = N \cup {n} /\ n \notin N /\ It(h, q1, n) = x
      /\ \A i \in N : It(h, q1, i) = It(h, q, i) /\ n > i
      /\ n \in Nat
  BY <1>1 DEF It
<1>3. \A i \in N : It(h, q, i).kind # kind
  BY DEF Holds
<1> HIDE DEF x, q1, n, N
<1>4. OneOf(h, q1, kind) /\ Holds(h, q1, kind)
  BY <1>1, <1>2, <1>3 DEF OneOf, Holds
<1>5. \A u \in Senders : HoldsOf(h, q1, kind, u) => u = t
  BY <1>1, <1>2, <1>3 DEF HoldsOf, Item
<1>6. \A D \in SUBSET Sides : Marked(h, q1, kind, t, D)
  <2>1. n \in 0 .. Len(q1) /\ It(h, q1, n) = Item(kind, t)
    BY <1>2 DEF x
  <2>2. \A i \in 0 .. Len(q1) : ~(i > n)
    BY <1>2 DEF N, n
  <2> QED
    BY <2>1, <2>2 DEF Marked
<1>7. ASSUME NEW u \in Senders, NEW D \in SUBSET Sides, u # t, Clean(h, q, u, D)
      PROVE  Clean(h, q1, u, D)
  <2>1. ~Older(x, u, D)
    BY <1>1, <1>7 DEF Older
  <2> QED
    BY <1>2, <1>7, <2>1 DEF Clean, N
<1> QED
  BY <1>4, <1>5, <1>6, <1>7 DEF q1, x

\* The decoder is through with the buffer of a pair.
LEMMA SeenFifo ==
    ASSUME NEW h \in Items, NEW q \in Seq(Items), NEW kind \in {"headers", "end"},
           h.kind = kind, OneOf(h, q, kind),
           NEW h1 \in Items, h1.kind \in {"none", "barrier"}
    PROVE  /\ OneOf(h1, q, kind) /\ ~Holds(h1, q, kind)
           /\ \A t \in Senders : ~HoldsOf(h1, q, kind, t)
           /\ \A t \in Senders, D \in SUBSET Sides :
                /\ Clean(h, q, t, D) => Clean(h1, q, t, D)
                /\ Marked(h, q, kind, t, D) => Clean(h1, q, t, D)
<1> DEFINE N == 0 .. Len(q)
<1>1. /\ 0 \in N /\ It(h, q, 0) = h /\ It(h1, q, 0) = h1
      /\ \A i \in N : i # 0 => It(h1, q, i) = It(h, q, i) /\ i > 0
  BY DEF It
<1> HIDE DEF N
<1>2. \A i \in N : It(h, q, i).kind = kind => i = 0
  BY <1>1 DEF OneOf, N
<1>3. \A i \in N : It(h1, q, i).kind # kind
  BY <1>1, <1>2
<1>4. OneOf(h1, q, kind) /\ ~Holds(h1, q, kind)
  BY <1>3 DEF OneOf, Holds, N
<1>5. \A t \in Senders : ~HoldsOf(h1, q, kind, t)
  BY <1>3 DEF HoldsOf, N, Item
<1>6. ASSUME NEW t \in Senders, NEW D \in SUBSET Sides
      PROVE  /\ Clean(h, q, t, D) => Clean(h1, q, t, D)
             /\ Marked(h, q, kind, t, D) => Clean(h1, q, t, D)
  <2>1. ~Older(h1, t, D)
    BY DEF Older
  <2>2. Clean(h, q, t, D) => Clean(h1, q, t, D)
    BY <1>1, <2>1 DEF Clean, N
  <2>3. ASSUME Marked(h, q, kind, t, D) PROVE Clean(h1, q, t, D)
    <3>1. PICK k \in N : /\ It(h, q, k) = Item(kind, t)
                         /\ \A i \in N : i > k => ~Older(It(h, q, i), t, D)
      BY <2>3 DEF Marked, N
    <3>2. k = 0
      BY <1>2, <3>1 DEF Item
    <3> QED
      BY <1>1, <2>1, <3>1, <3>2 DEF Clean, N
  <2> QED
    BY <2>2, <2>3
<1> QED
  BY <1>4, <1>5, <1>6

-----------------------------------------------------------------------------
(* A round: one pair of control buffers of a kind, from its announcement to *)
(* its last count.  q, h, n are the queues, hands and counts; of ann[f] the *)
(* pair is announced and not put into f yet, wait are those who wait for    *)
(* the counts, past those for whom they have been reached, held[t] the      *)
(* demuxers that t holds back.                                              *)

\* 1 while a pair is under way in this fifo; t is its sender.
Underway(h, q, kind, ann) == IF Holds(h, q, kind) \/ ann # {} THEN 1 ELSE 0

OutOf(h, q, kind, ann, t) == t \in ann \/ HoldsOf(h, q, kind, t)

\* t waits, and is not announcing: either its mark is behind all it waits for,
\* or it is counted and all that is gone.
Due(h, q, n, goal, kind, t, D) ==
    (Marked(h, q, kind, t, D) /\ n + 1 = goal) \/ (Clean(h, q, t, D) /\ n >= goal)

\* At most one pair: in the fifo, or announced.
Lone(h, q, kind, ann) == OneOf(h, q, kind) /\ (ann # {} => ~Holds(h, q, kind))

\* One pair, one sender, counts that go together, and what those who wait or have waited
\* may count on.
Round(kind, C, h, q, n, goal, ann, wait, past, held) ==
    /\ \A f \in C : Lone(h[f], q[f], kind, ann[f])
    /\ \A f, g \in C : \A t, u \in Senders :
            OutOf(h[f], q[f], kind, ann[f], t) /\ OutOf(h[g], q[g], kind, ann[g], u) => t = u
    /\ \A f, g \in C : n[f] + Underway(h[f], q[f], kind, ann[f])
                        = n[g] + Underway(h[g], q[g], kind, ann[g])
    /\ \A t \in wait : \A f \in C :
            IF t \in ann[f] THEN n[f] + 1 = goal[t][f]
                           ELSE Due(h[f], q[f], n[f], goal[t][f], kind, t, held[t])
    /\ \A t \in past : \A f \in C : Clean(h[f], q[f], t, held[t])

\* The arguments of a round.
RoundOver(kind, C, h, q, n, goal, ann, wait, past, held) ==
    /\ kind \in {"headers", "end"} /\ C \subseteq Fifos
    /\ h \in [Fifos -> Items] /\ q \in [Fifos -> Seq(Items)] /\ n \in [Fifos -> Nat]
    /\ goal \in [Threads -> [Fifos -> Nat]]
    /\ ann \in [Fifos -> SUBSET Threads]
    /\ wait \subseteq Threads /\ past \subseteq Threads
    /\ held \in [Threads -> SUBSET Sides]

\* A step that changes one fifo.
LEMMA RoundStep ==
    ASSUME NEW kind, NEW C, NEW goal, NEW wait, NEW past, NEW held,
           NEW h, NEW q, NEW n, NEW ann, NEW h1, NEW q1, NEW n1, NEW ann1,
           RoundOver(kind, C, h, q, n, goal, ann, wait, past, held),
           Round(kind, C, h, q, n, goal, ann, wait, past, held),
           NEW f \in C,
           \A g \in C : g # f => h1[g] = h[g] /\ q1[g] = q[g] /\ n1[g] = n[g] /\ ann1[g] = ann[g],
           Lone(h1[f], q1[f], kind, ann1[f]),
           \A t \in Senders : OutOf(h1[f], q1[f], kind, ann1[f], t) => OutOf(h[f], q[f], kind, ann[f], t),
           n1[f] + Underway(h1[f], q1[f], kind, ann1[f]) = n[f] + Underway(h[f], q[f], kind, ann[f]),
           \A t \in wait : IF t \in ann1[f] THEN n1[f] + 1 = goal[t][f]
                           ELSE Due(h1[f], q1[f], n1[f], goal[t][f], kind, t, held[t]),
           \A t \in past : Clean(h1[f], q1[f], t, held[t])
    PROVE  Round(kind, C, h1, q1, n1, goal, ann1, wait, past, held)
<1> DEFINE R(g, t) == IF t \in ann1[g] THEN n1[g] + 1 = goal[t][g]
                      ELSE Due(h1[g], q1[g], n1[g], goal[t][g], kind, t, held[t])
<1>1. \A g \in C : Lone(h1[g], q1[g], kind, ann1[g])
  BY DEF Round
<1>2. \A g \in C : \A t \in Senders :
        OutOf(h1[g], q1[g], kind, ann1[g], t) => OutOf(h[g], q[g], kind, ann[g], t)
  OBVIOUS
<1>3. \A g, k \in C : \A t, u \in Senders :
        OutOf(h1[g], q1[g], kind, ann1[g], t) /\ OutOf(h1[k], q1[k], kind, ann1[k], u) => t = u
  BY <1>2 DEF Round
<1>4. \A g \in C : n1[g] + Underway(h1[g], q1[g], kind, ann1[g]) = n[g] + Underway(h[g], q[g], kind, ann[g])
  OBVIOUS
<1>5. \A g, k \in C : n1[g] + Underway(h1[g], q1[g], kind, ann1[g])
                    = n1[k] + Underway(h1[k], q1[k], kind, ann1[k])
  BY <1>4 DEF Round
<1>6. \A t \in wait : \A g \in C : R(g, t)
  <2> SUFFICES ASSUME NEW t \in wait, NEW g \in C PROVE R(g, t)
    OBVIOUS
  <2>1. CASE g = f
    BY <2>1
  <2>2. CASE g # f
    BY <2>2 DEF Round
  <2> QED
    BY <2>1, <2>2
<1>7. \A t \in past : \A g \in C : Clean(h1[g], q1[g], t, held[t])
  BY DEF Round
<1> QED
  BY <1>1, <1>3, <1>5, <1>6, <1>7 DEF Round

\* A step that changes no fifo: nobody new waits, and who is past has been
\* past or has its counts.
LEMMA RoundQuiet ==
    ASSUME NEW kind, NEW C, NEW h, NEW q, NEW n,
           NEW goal, NEW ann, NEW wait, NEW past, NEW held,
           NEW goal1, NEW ann1, NEW wait1, NEW past1, NEW held1,
           RoundOver(kind, C, h, q, n, goal, ann, wait, past, held),
           RoundOver(kind, C, h, q, n, goal1, ann1, wait1, past1, held1),
           Round(kind, C, h, q, n, goal, ann, wait, past, held),
           \A f \in C : ann1[f] = ann[f],
           wait1 \subseteq wait,
           \A t \in wait1 : goal1[t] = goal[t] /\ held1[t] \subseteq held[t],
           \A t \in past1 : held1[t] \subseteq held[t],
           \A t \in past1 \ past : t \in wait /\ \A f \in C : t \notin ann[f] /\ n[f] >= goal[t][f]
    PROVE  Round(kind, C, h, q, n, goal1, ann1, wait1, past1, held1)
<1>1. \A f \in C, t \in Threads :
        held1[t] \subseteq held[t] /\ Clean(h[f], q[f], t, held[t]) => Clean(h[f], q[f], t, held1[t])
  BY DEF Clean, Older
<1>2. \A f \in C, t \in Threads :
        held1[t] \subseteq held[t] /\ Marked(h[f], q[f], kind, t, held[t])
            => Marked(h[f], q[f], kind, t, held1[t])
  BY DEF Marked, Older
<1>3. wait1 \subseteq Threads /\ past1 \subseteq Threads
  BY DEF RoundOver
<1>4. \A t \in wait1 : \A f \in C :
            IF t \in ann1[f] THEN n[f] + 1 = goal1[t][f]
                            ELSE Due(h[f], q[f], n[f], goal1[t][f], kind, t, held1[t])
  <2> SUFFICES ASSUME NEW t \in wait1, NEW f \in C, t \in wait
               PROVE  IF t \in ann1[f] THEN n[f] + 1 = goal1[t][f]
                      ELSE Due(h[f], q[f], n[f], goal1[t][f], kind, t, held1[t])
    OBVIOUS
  <2>1. IF t \in ann[f] THEN n[f] + 1 = goal[t][f]
        ELSE Due(h[f], q[f], n[f], goal[t][f], kind, t, held[t])
    BY DEF Round
  <2>2. Due(h[f], q[f], n[f], goal[t][f], kind, t, held[t])
        => Due(h[f], q[f], n[f], goal[t][f], kind, t, held1[t])
    BY <1>1, <1>2, <1>3 DEF Due
  <2> QED
    BY <2>1, <2>2
<1>5. \A t \in past1 : \A f \in C : Clean(h[f], q[f], t, held1[t])
  <2> SUFFICES ASSUME NEW t \in past1, NEW f \in C PROVE Clean(h[f], q[f], t, held[t])
    BY <1>1, <1>3
  <2>1. CASE t \in past
    BY <2>1 DEF Round
  <2>2. CASE t \notin past
    <3>1. t \in wait /\ t \notin ann[f] /\ n[f] >= goal[t][f]
      BY <2>2
    <3>2. Due(h[f], q[f], n[f], goal[t][f], kind, t, held[t])
      BY <3>1 DEF Round
    <3>3. n[f] \in Nat /\ goal[t][f] \in Nat
      BY <1>3 DEF RoundOver
    <3>4. n[f] + 1 # goal[t][f]
      BY <3>1, <3>3
    <3> QED
      BY <3>2, <3>4 DEF Due
  <2> QED
    BY <2>1, <2>2
<1>6. /\ \A f \in C : Lone(h[f], q[f], kind, ann1[f])
      /\ \A f, g \in C : \A t, u \in Senders :
            OutOf(h[f], q[f], kind, ann1[f], t) /\ OutOf(h[g], q[g], kind, ann1[g], u) => t = u
      /\ \A f, g \in C : n[f] + Underway(h[f], q[f], kind, ann1[f])
                        = n[g] + Underway(h[g], q[g], kind, ann1[g])
  BY DEF Round
<1> QED
  BY <1>4, <1>5, <1>6 DEF Round

\* A pair is announced when no other one is under way.
LEMMA RoundBegins ==
    ASSUME NEW kind, NEW C, NEW h, NEW q, NEW n,
           NEW goal, NEW ann, NEW wait, NEW past, NEW held,
           RoundOver(kind, C, h, q, n, goal, ann, wait, past, held),
           Round(kind, C, h, q, n, goal, ann, wait, past, held),
           NEW t \in Threads, t \notin past,
           \A f \in C : ann[f] = {} /\ ~Holds(h[f], q[f], kind),
           NEW goal1, NEW ann1, NEW wait1,
           \A f \in C : ann1[f] = {t},
           \A u \in wait1 : u = t \/ (u \in wait /\ goal1[u] = goal[u]),
           \A f \in C : t \in wait1 => goal1[t][f] = n[f] + 1
    PROVE  Round(kind, C, h, q, n, goal1, ann1, wait1, past, held)
<1>1. \A f \in C : Lone(h[f], q[f], kind, ann1[f])
  BY DEF Lone, OneOf, Holds
<1>2. \A f \in C, u \in Senders : ~HoldsOf(h[f], q[f], kind, u)
  BY DEF Holds, HoldsOf, Item
<1>3. \A f, g \in C : \A u, v \in Senders :
        OutOf(h[f], q[f], kind, ann1[f], u) /\ OutOf(h[g], q[g], kind, ann1[g], v) => u = v
  BY <1>2 DEF OutOf
<1>4. \A f, g \in C : n[f] = n[g]
  <2>1. \A f \in C : Underway(h[f], q[f], kind, ann[f]) = 0 /\ n[f] \in Nat
    BY DEF Underway, RoundOver
  <2>2. \A f, g \in C : n[f] + Underway(h[f], q[f], kind, ann[f])
                        = n[g] + Underway(h[g], q[g], kind, ann[g])
    BY DEF Round
  <2>3. \A f, g \in C : n[f] + 0 = n[g] + 0
    BY <2>1, <2>2
  <2> QED
    BY <2>1, <2>3
<1>5. \A f, g \in C : n[f] + Underway(h[f], q[f], kind, ann1[f])
                    = n[g] + Underway(h[g], q[g], kind, ann1[g])
  BY <1>4 DEF Underway
<1>6. \A u \in wait1 : \A f \in C :
        IF u \in ann1[f] THEN n[f] + 1 = goal1[u][f]
        ELSE Due(h[f], q[f], n[f], goal1[u][f], kind, u, held[u])
  BY DEF Round
<1>7. \A u \in past : \A f \in C : Clean(h[f], q[f], u, held[u])
  BY DEF Round
<1> QED
  BY <1>1, <1>3, <1>5, <1>6, <1>7 DEF Round

\* A buffer of another kind is put into f, by nobody who waits or is past.
LEMMA RoundPut ==
    ASSUME NEW kind, NEW C, NEW h, NEW q, NEW n,
           NEW goal, NEW ann, NEW wait, NEW past, NEW held,
           RoundOver(kind, C, h, q, n, goal, ann, wait, past, held),
           Round(kind, C, h, q, n, goal, ann, wait, past, held),
           NEW f \in C, NEW x \in Items, x.kind # kind,
           \A t \in wait : t \in ann[f] \/ ~Older(x, t, held[t]),
           \A t \in past : ~Older(x, t, held[t]),
           NEW q1, q1[f] = Append(q[f], x), \A g \in C : g # f => q1[g] = q[g]
    PROVE  Round(kind, C, h, q1, n, goal, ann, wait, past, held)
<1>1. /\ f \in Fifos /\ h[f] \in Items /\ q[f] \in Seq(Items) /\ kind \in {"headers", "end"}
      /\ wait \subseteq Threads /\ past \subseteq Threads /\ \A t \in Threads : held[t] \in SUBSET Sides
      /\ Threads \subseteq Senders /\ ann[f] \subseteq Threads
  BY DEF RoundOver, Senders
<1>3. /\ OneOf(h[f], q[f], kind) => OneOf(h[f], q1[f], kind)
      /\ Holds(h[f], q1[f], kind) <=> Holds(h[f], q[f], kind)
      /\ \A t \in Senders : HoldsOf(h[f], q1[f], kind, t) <=> HoldsOf(h[f], q[f], kind, t)
      /\ \A t \in Senders, D \in SUBSET Sides : ~Older(x, t, D) =>
            /\ Clean(h[f], q[f], t, D) => Clean(h[f], q1[f], t, D)
            /\ Marked(h[f], q[f], kind, t, D) => Marked(h[f], q1[f], kind, t, D)
  BY <1>1, PutFifo
<1>4. Lone(h[f], q1[f], kind, ann[f])
  BY <1>3 DEF Lone, Round
<1>5. \A t \in Senders : OutOf(h[f], q1[f], kind, ann[f], t) => OutOf(h[f], q[f], kind, ann[f], t)
  BY <1>3 DEF OutOf
<1>6. Underway(h[f], q1[f], kind, ann[f]) = Underway(h[f], q[f], kind, ann[f])
  BY <1>3 DEF Underway
<1>7. ASSUME NEW t \in wait
      PROVE  IF t \in ann[f] THEN n[f] + 1 = goal[t][f]
             ELSE Due(h[f], q1[f], n[f], goal[t][f], kind, t, held[t])
  <2>1. IF t \in ann[f] THEN n[f] + 1 = goal[t][f]
        ELSE Due(h[f], q[f], n[f], goal[t][f], kind, t, held[t])
    BY DEF Round
  <2>2. t \in Senders /\ held[t] \in SUBSET Sides
    BY <1>1
  <2>3. t \notin ann[f] => (Due(h[f], q[f], n[f], goal[t][f], kind, t, held[t])
                              => Due(h[f], q1[f], n[f], goal[t][f], kind, t, held[t]))
    BY <1>3, <2>2 DEF Due
  <2> QED
    BY <2>1, <2>3
<1>8. ASSUME NEW t \in past PROVE Clean(h[f], q1[f], t, held[t])
  <2>1. Clean(h[f], q[f], t, held[t]) /\ t \in Senders /\ held[t] \in SUBSET Sides
    BY <1>1 DEF Round
  <2> QED
    BY <1>3, <2>1
<1> QED
  BY <1>4, <1>5, <1>6, <1>7, <1>8, RoundStep

\* The buffer of the pair that was announced is put into f.
LEMMA RoundMark ==
    ASSUME NEW kind, NEW C, NEW h, NEW q, NEW n,
           NEW goal, NEW ann, NEW wait, NEW past, NEW held,
           RoundOver(kind, C, h, q, n, goal, ann, wait, past, held),
           Round(kind, C, h, q, n, goal, ann, wait, past, held),
           NEW f \in C, NEW t \in ann[f], t \notin past,
           NEW q1, q1[f] = Append(q[f], Item(kind, t)),
           NEW ann1, ann1[f] = ann[f] \ {t},
           \A g \in C : g # f => q1[g] = q[g] /\ ann1[g] = ann[g]
    PROVE  Round(kind, C, h, q1, n, goal, ann1, wait, past, held)
<1>1. /\ f \in Fifos /\ h[f] \in Items /\ q[f] \in Seq(Items) /\ kind \in {"headers", "end"}
      /\ wait \subseteq Threads /\ past \subseteq Threads /\ \A u \in Threads : held[u] \in SUBSET Sides
      /\ Threads \subseteq Senders /\ ann[f] \subseteq Threads /\ t \in Threads
  BY DEF RoundOver, Senders
<1>3. ~Holds(h[f], q[f], kind)
  BY DEF Round, Lone
<1>4. \A u \in ann[f] : u = t
  BY <1>1 DEF Round, OutOf
<1>5. ann1[f] = {}
  BY <1>4
<1>6. /\ OneOf(h[f], q1[f], kind) /\ Holds(h[f], q1[f], kind)
      /\ \A u \in Senders : HoldsOf(h[f], q1[f], kind, u) => u = t
      /\ \A D \in SUBSET Sides : Marked(h[f], q1[f], kind, t, D)
      /\ \A u \in Senders, D \in SUBSET Sides :
            u # t /\ Clean(h[f], q[f], u, D) => Clean(h[f], q1[f], u, D)
  BY <1>1, <1>3, MarkFifo
<1>7. Lone(h[f], q1[f], kind, ann1[f])
  BY <1>5, <1>6 DEF Lone
<1>8. \A u \in Senders : OutOf(h[f], q1[f], kind, ann1[f], u) => OutOf(h[f], q[f], kind, ann[f], u)
  BY <1>5, <1>6 DEF OutOf
<1>9. n[f] + Underway(h[f], q1[f], kind, ann1[f]) = n[f] + Underway(h[f], q[f], kind, ann[f])
  BY <1>6 DEF Underway
<1>10. ASSUME NEW u \in wait
       PROVE  IF u \in ann1[f] THEN n[f] + 1 = goal[u][f]
              ELSE Due(h[f], q1[f], n[f], goal[u][f], kind, u, held[u])
  <2>1. IF u \in ann[f] THEN n[f] + 1 = goal[u][f]
        ELSE Due(h[f], q[f], n[f], goal[u][f], kind, u, held[u])
    BY DEF Round
  <2>2. u \in Senders /\ held[u] \in SUBSET Sides
    BY <1>1
  <2>3. CASE u = t
    BY <1>5, <1>6, <2>1, <2>2, <2>3 DEF Due
  <2>4. CASE u # t
    <3>1. u \notin ann[f]
      BY <1>4, <2>4
    <3>2. ~Marked(h[f], q[f], kind, u, held[u])
      BY <1>3 DEF Marked, Holds, Item
    <3>3. Clean(h[f], q[f], u, held[u]) /\ n[f] >= goal[u][f]
      BY <2>1, <3>1, <3>2 DEF Due
    <3>4. Clean(h[f], q1[f], u, held[u])
      BY <1>6, <2>2, <2>4, <3>3
    <3> QED
      BY <1>5, <3>3, <3>4 DEF Due
  <2> QED
    BY <2>3, <2>4
<1>11. ASSUME NEW u \in past PROVE Clean(h[f], q1[f], u, held[u])
  <2>1. Clean(h[f], q[f], u, held[u]) /\ u \in Senders /\ held[u] \in SUBSET Sides /\ u # t
    BY <1>1 DEF Round
  <2> QED
    BY <1>6, <2>1
<1>12. \A g \in C : g # f => h[g] = h[g] /\ q1[g] = q[g] /\ n[g] = n[g] /\ ann1[g] = ann[g]
  OBVIOUS
<1> QED
  BY <1>7, <1>8, <1>9, <1>10, <1>11, <1>12, RoundStep

\* The fifo f is thinned out: data is cleared, a buffer taken, or one of
\* another kind is done with.
LEMMA RoundThins ==
    ASSUME NEW kind, NEW C, NEW h, NEW q, NEW n,
           NEW goal, NEW ann, NEW wait, NEW past, NEW held,
           RoundOver(kind, C, h, q, n, goal, ann, wait, past, held),
           Round(kind, C, h, q, n, goal, ann, wait, past, held),
           NEW f \in C, NEW h1 \in [Fifos -> Items], NEW q1 \in [Fifos -> Seq(Items)],
           \A g \in C : g # f => h1[g] = h[g] /\ q1[g] = q[g],
           NEW e, Thins(e, h1[f], q1[f], h[f], q[f], kind)
    PROVE  Round(kind, C, h1, q1, n, goal, ann, wait, past, held)
<1>1. /\ f \in Fifos /\ h[f] \in Items /\ q[f] \in Seq(Items) /\ kind \in {"headers", "end"}
      /\ wait \subseteq Threads /\ past \subseteq Threads /\ \A u \in Threads : held[u] \in SUBSET Sides
      /\ Threads \subseteq Senders /\ h1[f] \in Items /\ q1[f] \in Seq(Items)
  BY DEF RoundOver, Senders
<1>2. /\ OneOf(h[f], q[f], kind) => OneOf(h1[f], q1[f], kind)
      /\ Holds(h1[f], q1[f], kind) <=> Holds(h[f], q[f], kind)
      /\ \A t \in Senders : HoldsOf(h1[f], q1[f], kind, t) <=> HoldsOf(h[f], q[f], kind, t)
      /\ \A t \in Senders, D \in SUBSET Sides :
            /\ Clean(h[f], q[f], t, D) => Clean(h1[f], q1[f], t, D)
            /\ Marked(h[f], q[f], kind, t, D) => Marked(h1[f], q1[f], kind, t, D)
  <2> DEFINE a == h[f]
             b == q[f]
             c == h1[f]
             d == q1[f]
  <2>1. /\ a \in Items /\ b \in Seq(Items) /\ c \in Items /\ d \in Seq(Items)
        /\ kind \in {"headers", "end"} /\ Thins(e, c, d, a, b, kind)
    BY <1>1
  <2> HIDE DEF a, b, c, d
  <2>2. /\ OneOf(a, b, kind) => OneOf(c, d, kind)
        /\ Holds(c, d, kind) <=> Holds(a, b, kind)
        /\ \A t \in Senders : HoldsOf(c, d, kind, t) <=> HoldsOf(a, b, kind, t)
        /\ \A t \in Senders, D \in SUBSET Sides :
              /\ Clean(a, b, t, D) => Clean(c, d, t, D)
              /\ Marked(a, b, kind, t, D) => Marked(c, d, kind, t, D)
    BY <2>1, ThinFifo
  <2> QED
    BY <2>2 DEF a, b, c, d
<1>3. Lone(h1[f], q1[f], kind, ann[f])
  BY <1>2 DEF Lone, Round
<1>4. \A t \in Senders : OutOf(h1[f], q1[f], kind, ann[f], t) => OutOf(h[f], q[f], kind, ann[f], t)
  BY <1>2 DEF OutOf
<1>5. n[f] + Underway(h1[f], q1[f], kind, ann[f]) = n[f] + Underway(h[f], q[f], kind, ann[f])
  BY <1>2 DEF Underway
<1>6. ASSUME NEW t \in wait
      PROVE  IF t \in ann[f] THEN n[f] + 1 = goal[t][f]
             ELSE Due(h1[f], q1[f], n[f], goal[t][f], kind, t, held[t])
  <2>1. IF t \in ann[f] THEN n[f] + 1 = goal[t][f]
        ELSE Due(h[f], q[f], n[f], goal[t][f], kind, t, held[t])
    BY DEF Round
  <2>2. t \in Senders /\ held[t] \in SUBSET Sides
    BY <1>1
  <2>3. Due(h[f], q[f], n[f], goal[t][f], kind, t, held[t])
          => Due(h1[f], q1[f], n[f], goal[t][f], kind, t, held[t])
    BY <1>2, <2>2 DEF Due
  <2> QED
    BY <2>1, <2>3
<1>7. ASSUME NEW t \in past PROVE Clean(h1[f], q1[f], t, held[t])
  <2>1. Clean(h[f], q[f], t, held[t]) /\ t \in Senders /\ held[t] \in SUBSET Sides
    BY <1>1 DEF Round
  <2> QED
    BY <1>2, <2>1
<1> QED
  BY <1>3, <1>4, <1>5, <1>6, <1>7, RoundStep

\* The decoder of f counts the buffer of the pair.
LEMMA RoundSeen ==
    ASSUME NEW kind, NEW C, NEW h, NEW q, NEW n,
           NEW goal, NEW ann, NEW wait, NEW past, NEW held,
           RoundOver(kind, C, h, q, n, goal, ann, wait, past, held),
           Round(kind, C, h, q, n, goal, ann, wait, past, held),
           NEW f \in C, h[f].kind = kind,
           NEW x \in Items, x.kind \in {"none", "barrier"},
           NEW h1, h1[f] = x, NEW n1, n1[f] = n[f] + 1,
           \A g \in C : g # f => h1[g] = h[g] /\ n1[g] = n[g]
    PROVE  Round(kind, C, h1, q, n1, goal, ann, wait, past, held)
<1>1. /\ f \in Fifos /\ h[f] \in Items /\ q[f] \in Seq(Items) /\ kind \in {"headers", "end"}
      /\ wait \subseteq Threads /\ past \subseteq Threads /\ \A u \in Threads : held[u] \in SUBSET Sides
      /\ Threads \subseteq Senders /\ n[f] \in Nat /\ \A u \in Threads : goal[u][f] \in Nat
  BY DEF RoundOver, Senders
<1>3. OneOf(h[f], q[f], kind)
  BY DEF Round, Lone
<1>4. Holds(h[f], q[f], kind)
  <2>1. 0 \in 0 .. Len(q[f]) /\ It(h[f], q[f], 0) = h[f]
    BY <1>1 DEF It
  <2> QED
    BY <2>1 DEF Holds
<1>5. /\ OneOf(h1[f], q[f], kind) /\ ~Holds(h1[f], q[f], kind)
      /\ \A t \in Senders : ~HoldsOf(h1[f], q[f], kind, t)
      /\ \A t \in Senders, D \in SUBSET Sides :
            /\ Clean(h[f], q[f], t, D) => Clean(h1[f], q[f], t, D)
            /\ Marked(h[f], q[f], kind, t, D) => Clean(h1[f], q[f], t, D)
  BY <1>1, <1>3, SeenFifo
<1>6. ann[f] = {}
  BY <1>4 DEF Round, Lone
<1>7. Lone(h1[f], q[f], kind, ann[f])
  BY <1>5, <1>6 DEF Lone
<1>8. \A t \in Senders : OutOf(h1[f], q[f], kind, ann[f], t) => OutOf(h[f], q[f], kind, ann[f], t)
  BY <1>5 DEF OutOf
<1>9. n1[f] + Underway(h1[f], q[f], kind, ann[f]) = n[f] + Underway(h[f], q[f], kind, ann[f])
  <2>1. Underway(h1[f], q[f], kind, ann[f]) = 0 /\ Underway(h[f], q[f], kind, ann[f]) = 1
    BY <1>4, <1>5, <1>6 DEF Underway
  <2> QED
    BY <1>1, <2>1
<1>10. ASSUME NEW t \in wait
       PROVE  IF t \in ann[f] THEN n1[f] + 1 = goal[t][f]
              ELSE Due(h1[f], q[f], n1[f], goal[t][f], kind, t, held[t])
  <2>1. Due(h[f], q[f], n[f], goal[t][f], kind, t, held[t])
    BY <1>6 DEF Round
  <2>2. t \in Senders /\ held[t] \in SUBSET Sides /\ goal[t][f] \in Nat
    BY <1>1
  <2>3. Clean(h1[f], q[f], t, held[t])
    BY <1>5, <2>1, <2>2 DEF Due
  <2>4. n1[f] >= goal[t][f]
    <3>1. n[f] + 1 = goal[t][f] \/ n[f] >= goal[t][f]
      BY <2>1 DEF Due
    <3> QED
      BY <1>1, <2>2, <3>1
  <2> QED
    BY <1>6, <2>3, <2>4 DEF Due
<1>11. ASSUME NEW t \in past PROVE Clean(h1[f], q[f], t, held[t])
  <2>1. Clean(h[f], q[f], t, held[t]) /\ t \in Senders /\ held[t] \in SUBSET Sides
    BY <1>1 DEF Round
  <2> QED
    BY <1>5, <2>1
<1>12. \A g \in C : g # f => h1[g] = h[g] /\ q[g] = q[g] /\ n1[g] = n[g] /\ ann[g] = ann[g]
  OBVIOUS
<1> QED
  BY <1>7, <1>8, <1>9, <1>10, <1>11, <1>12, RoundStep

\* A waiter whose counts are reached by this count is not one of an incomplete
\* pair.
LEMMA RoundTells ==
    ASSUME NEW kind, NEW C, NEW h, NEW q, NEW n,
           NEW goal, NEW ann, NEW wait, NEW past, NEW held,
           RoundOver(kind, C, h, q, n, goal, ann, wait, past, held),
           Round(kind, C, h, q, n, goal, ann, wait, past, held),
           NEW f \in C, NEW g \in C, f # g, h[f].kind = kind,
           NEW t \in wait, t \notin ann[g],
           n[f] < goal[t][f], n[g] >= goal[t][g]
    PROVE  n[f] + 1 = n[g]
<1>1. /\ f \in Fifos /\ g \in Fifos /\ n[f] \in Nat /\ n[g] \in Nat
      /\ goal[t][f] \in Nat /\ goal[t][g] \in Nat
      /\ t \in Threads /\ t \in Senders /\ kind \in {"headers", "end"}
      /\ h[f] \in Items /\ q[f] \in Seq(Items) /\ h[g] \in Items /\ q[g] \in Seq(Items)
      /\ ann[g] \subseteq Threads
  BY DEF RoundOver, Senders
<1>2. Holds(h[f], q[f], kind)
  BY <1>1 DEF Holds, It
<1>3. ann[f] = {}
  BY <1>2 DEF Round, Lone
<1>4. Due(h[f], q[f], n[f], goal[t][f], kind, t, held[t])
  BY <1>3 DEF Round
<1>5. Marked(h[f], q[f], kind, t, held[t])
  BY <1>1, <1>4 DEF Due
<1>6. OutOf(h[f], q[f], kind, ann[f], t)
  BY <1>5 DEF Marked, OutOf, HoldsOf
<1>7. Due(h[g], q[g], n[g], goal[t][g], kind, t, held[t])
  BY DEF Round
<1>8. Clean(h[g], q[g], t, held[t])
  BY <1>1, <1>7 DEF Due
<1>9. ~OutOf(h[g], q[g], kind, ann[g], t)
  BY <1>1, <1>8 DEF OutOf, HoldsOf, Clean, Older, Item
<1>10. \A u \in Senders : ~OutOf(h[g], q[g], kind, ann[g], u)
  BY <1>1, <1>6, <1>9 DEF Round
<1>11. ann[g] = {} /\ ~Holds(h[g], q[g], kind)
  <2>1. ann[g] = {}
    BY <1>1, <1>10 DEF OutOf, Senders
  <2>2. ASSUME NEW i \in 0 .. Len(q[g]), It(h[g], q[g], i).kind = kind PROVE FALSE
    <3>1. It(h[g], q[g], i) \in Items
      BY <1>1 DEF It
    <3>2. It(h[g], q[g], i).by \in Senders /\ It(h[g], q[g], i) = Item(kind, It(h[g], q[g], i).by)
      BY <2>2, <3>1 DEF Items, Item
    <3> QED
      BY <1>10, <3>2 DEF OutOf, HoldsOf
  <2> QED
    BY <2>1, <2>2 DEF Holds
<1>12. Underway(h[f], q[f], kind, ann[f]) = 1 /\ Underway(h[g], q[g], kind, ann[g]) = 0
  BY <1>2, <1>11 DEF Underway
<1>13. n[f] + 1 = n[g] + 0
  BY <1>12 DEF Round
<1> QED
  BY <1>1, <1>13

-----------------------------------------------------------------------------
(* Types, and what a thread's call stack may be. *)

\* The steps of each of the functions.
AllocSteps == {"alloc_video", "alloc_audio"}
PutSteps == {"put_video", "put_audio"}
PairSteps == AllocSteps \cup {"count"} \cup PutSteps
SyncSteps == {"sync", "sync_wait"}
FlushSteps == {"flush", "clear_video", "clear_audio", "reset", "reset_video", "reset_audio", "flushed"}
StopSteps == {"stop_side", "stop_lock", "stop_unlock", "stop_join"}
DemuxSteps == {"off", "start", "enter", "chunk", "data_video", "data_audio", "check", "suspended",
               "resume", "drain", "drain_wait", "delay", "delay_wait", "again", "exit", "ended",
               "end_wait", "finished"}
AppSteps == {"idle", "open", "opened", "play_video", "play_audio", "play_lock", "seek", "go_on",
             "start", "played"}

Jobs == {"headers", "end", "nop"}

Steps == PairSteps \cup SyncSteps \cup FlushSteps \cup StopSteps \cup DemuxSteps \cup AppSteps

\* Where demux_control_flush, _x_demux_control_headers_done and a pair of END return.
FlushBacks(t) ==
    IF t = App THEN {<<"stop_unlock", "idle">>, <<"stop_unlock", "open">>, <<"seek">>} ELSE {<<"check">>}

HeadersBacks(t) ==
    IF t = App
    THEN {<<"flushed", "stop_unlock", "idle">>, <<"flushed", "stop_unlock", "open">>,
          <<"flushed", "seek">>, <<"opened">>}
    ELSE {<<"flushed", "check">>}

EndBacks(t) == IF t = App THEN {<<"stop_side", "idle">>, <<"stop_side", "open">>} ELSE {<<"ended">>}

Backs == {<<>>, <<"drain">>, <<"idle">>, <<"open">>}
            \cup UNION {FlushBacks(t) \cup HeadersBacks(t) \cup EndBacks(t) : t \in Threads}

\* The stacks b of a thread t at the step p.
WellFormed(t, p, j, b) ==
    \/ p \in (IF t = App THEN AppSteps ELSE DemuxSteps) /\ b = <<>>
    \/ t = App /\ p \in StopSteps /\ b \in {<<"idle">>, <<"open">>}
    \/ p \in FlushSteps /\ b \in FlushBacks(t)
    \/ p \in PairSteps \cup SyncSteps /\ j = "headers" /\ b \in HeadersBacks(t)
    \/ p \in AllocSteps \cup PutSteps /\ j = "end" /\ b \in EndBacks(t)
    \/ p \in AllocSteps \cup PutSteps /\ j = "nop" /\ t # App /\ b = <<"drain">>

Shape == \A t \in Threads : WellFormed(t, pc[t], job[t], back[t])

\* The types, in groups of variables that change together.
QueueTypes ==
    /\ created \subseteq Fifos
    /\ fifo \in [Fifos -> Seq(Items)] /\ hand \in [Fifos -> Items]
    /\ bufs \in [Threads -> SUBSET Fifos] /\ pair \in Senders

CountTypes ==
    /\ counter \in Senders /\ headers \in [Fifos -> Nat] /\ finisheds \in [Fifos -> Nat]
    /\ target \in [Threads -> [Fifos -> Nat]] /\ asleep \subseteq Threads \cup Fifos

CallTypes == pc \in [Threads -> Steps] /\ job \in [Threads -> Jobs] /\ back \in [Threads -> Backs]

SideTypes ==
    /\ lock \in [Sides -> Senders] /\ pending \in [Sides -> Int]
    /\ running \in [Sides -> BOOLEAN] /\ thread \in [Sides -> BOOLEAN]
    /\ left \in [Sides -> Int] /\ over \in [Sides -> BOOLEAN] /\ non_user \in [Sides -> BOOLEAN]
    /\ demuxers_running \in Int

StreamTypes ==
    /\ status \in {"stop", "play"} /\ finished_naturally \in BOOLEAN /\ gapless_switch \in BOOLEAN
    /\ emergency_brake \in BOOLEAN /\ braked \in BOOLEAN
    /\ side \in Nat \ {0} /\ seeked \in BOOLEAN /\ requests \in Nat
    /\ mixed \subseteq {"headers", "end"}

Types == QueueTypes /\ CountTypes /\ CallTypes /\ SideTypes /\ StreamTypes

\* What the assumption says of the threads and the fifos.
LEMMA Actors ==
    /\ Sides \subseteq Threads /\ App \in Threads /\ App \notin Sides /\ Threads \subseteq Senders
    /\ Nobody \in Senders /\ Nobody \notin Threads /\ Nobody \notin Fifos
    /\ Video \in Fifos /\ Audio \in Fifos /\ Video # Audio /\ Fifos \cap Threads = {}
    /\ NumSides \in Nat /\ NumSides >= 1 /\ Sides \subseteq Nat /\ 1 \in Sides
    /\ \A t \in Threads : t \in Sides <=> t # App
  BY SyncAssumption DEF Sides, Threads, Fifos, Senders

\* The steps to return to are taken off one by one,
LEMMA Tuples ==
    /\ \A x : Head(<<x>>) = x /\ Tail(<<x>>) = <<>>
    /\ \A x, y : Head(<<x, y>>) = x /\ Tail(<<x, y>>) = <<y>>
    /\ \A x, y, z : Head(<<x, y, z>>) = x /\ Tail(<<x, y, z>>) = <<y, z>>
  OBVIOUS

\* and put in front.
LEMMA Pushes ==
    ASSUME NEW x, NEW y, NEW z
    PROVE  /\ <<x>> \o <<>> = <<x>>
           /\ <<x>> \o <<y>> = <<x, y>>
           /\ <<x>> \o <<y, z>> = <<x, y, z>>
<1> DEFINE a == <<x>> \o <<y>>
           b == <<x>> \o <<y, z>>
           S == {x, y, z}
<1>1. <<x>> \in Seq(S) /\ <<y>> \in Seq(S) /\ <<y, z>> \in Seq(S)
  OBVIOUS
<1>2. a \in Seq(S) /\ Len(a) = 2 /\ a[1] = x /\ a[2] = y
  BY <1>1
<1>3. b \in Seq(S) /\ Len(b) = 3 /\ b[1] = x /\ b[2] = y /\ b[3] = z
  BY <1>1
<1> HIDE DEF a, b
<1>4. a = <<x, y>> /\ b = <<x, y, z>>
  BY <1>2, <1>3
<1>5. <<x>> \o <<>> = <<x>>
  OBVIOUS
<1> QED
  BY <1>4, <1>5 DEF a, b

\* Where a thread that returns goes.
LEMMA Returns ==
    ASSUME NEW t \in Threads, NEW b
    PROVE  /\ b \in FlushBacks(t) =>
                \/ t = App /\ Head(b) = "stop_unlock" /\ Tail(b) \in {<<"idle">>, <<"open">>}
                \/ t = App /\ Head(b) = "seek" /\ Tail(b) = <<>>
                \/ t # App /\ Head(b) = "check" /\ Tail(b) = <<>>
           /\ b \in HeadersBacks(t) =>
                \/ Head(b) = "flushed" /\ Tail(b) \in FlushBacks(t)
                \/ t = App /\ Head(b) = "opened" /\ Tail(b) = <<>>
           /\ b \in EndBacks(t) =>
                \/ t = App /\ Head(b) = "stop_side" /\ Tail(b) \in {<<"idle">>, <<"open">>}
                \/ t # App /\ Head(b) = "ended" /\ Tail(b) = <<>>
           /\ b = <<"drain">> => Head(b) = "drain" /\ Tail(b) = <<>>
           /\ b \in {<<"idle">>, <<"open">>} => Head(b) \in {"idle", "open"} /\ Tail(b) = <<>>
<1>1. b \in FlushBacks(t) =>
        \/ t = App /\ Head(b) = "stop_unlock" /\ Tail(b) \in {<<"idle">>, <<"open">>}
        \/ t = App /\ Head(b) = "seek" /\ Tail(b) = <<>>
        \/ t # App /\ Head(b) = "check" /\ Tail(b) = <<>>
  BY Tuples DEF FlushBacks
<1>2. b \in HeadersBacks(t) =>
        \/ Head(b) = "flushed" /\ Tail(b) \in FlushBacks(t)
        \/ t = App /\ Head(b) = "opened" /\ Tail(b) = <<>>
  <2>1. CASE t = App
    <3>1. b = <<"flushed", "stop_unlock", "idle">> =>
            Head(b) = "flushed" /\ Tail(b) = <<"stop_unlock", "idle">>
      <4> DEFINE x == "flushed"
                 y == "stop_unlock"
                 z == "idle"
      <4> HIDE DEF x, y, z
      <4>1. b = <<x, y, z>> => Head(b) = x /\ Tail(b) = <<y, z>>
        BY Tuples
      <4> QED
        BY <4>1 DEF x, y, z
    <3>2. b = <<"flushed", "stop_unlock", "open">> =>
            Head(b) = "flushed" /\ Tail(b) = <<"stop_unlock", "open">>
      <4> DEFINE x == "flushed"
                 y == "stop_unlock"
                 z == "open"
      <4> HIDE DEF x, y, z
      <4>1. b = <<x, y, z>> => Head(b) = x /\ Tail(b) = <<y, z>>
        BY Tuples
      <4> QED
        BY <4>1 DEF x, y, z
    <3>3. b = <<"flushed", "seek">> => Head(b) = "flushed" /\ Tail(b) = <<"seek">>
      BY Tuples
    <3>4. b = <<"opened">> => Head(b) = "opened" /\ Tail(b) = <<>>
      BY Tuples
    <3> QED
      BY <2>1, <3>1, <3>2, <3>3, <3>4 DEF FlushBacks, HeadersBacks
  <2>2. CASE t # App
    BY <2>2, Tuples DEF FlushBacks, HeadersBacks
  <2> QED
    BY <2>1, <2>2
<1>3. b \in EndBacks(t) =>
        \/ t = App /\ Head(b) = "stop_side" /\ Tail(b) \in {<<"idle">>, <<"open">>}
        \/ t # App /\ Head(b) = "ended" /\ Tail(b) = <<>>
  BY Tuples DEF EndBacks
<1>4. b = <<"drain">> => Head(b) = "drain" /\ Tail(b) = <<>>
  OBVIOUS
<1>5. b \in {<<"idle">>, <<"open">>} => Head(b) \in {"idle", "open"} /\ Tail(b) = <<>>
  <2>1. b = <<"idle">> => Head(b) = "idle" /\ Tail(b) = <<>>
    OBVIOUS
  <2>2. b = <<"open">> => Head(b) = "open" /\ Tail(b) = <<>>
    OBVIOUS
  <2> QED
    BY <2>1, <2>2
<1> QED
  BY <1>1, <1>2, <1>3, <1>4, <1>5

\* What a thread that calls leaves on its stack.
LEMMA Calls ==
    ASSUME NEW t \in Threads, NEW b
    PROVE  /\ b \in FlushBacks(t) => <<"flushed">> \o b \in HeadersBacks(t)
           /\ b = <<>> /\ t = App => <<"opened">> \o b \in HeadersBacks(t)
           /\ b = <<>> /\ t # App => <<"drain">> \o b = <<"drain">> /\ <<"ended">> \o b \in EndBacks(t)
           /\ b \in {<<"idle">>, <<"open">>} /\ t = App => <<"stop_unlock">> \o b \in FlushBacks(t)
<1>1. /\ <<"flushed">> \o <<"check">> = <<"flushed", "check">>
      /\ <<"flushed">> \o <<"seek">> = <<"flushed", "seek">>
      /\ <<"flushed">> \o <<"stop_unlock", "idle">> = <<"flushed", "stop_unlock", "idle">>
      /\ <<"flushed">> \o <<"stop_unlock", "open">> = <<"flushed", "stop_unlock", "open">>
  BY Pushes
<1>2. /\ <<"opened">> \o <<>> = <<"opened">>
      /\ <<"drain">> \o <<>> = <<"drain">>
      /\ <<"ended">> \o <<>> = <<"ended">>
  BY Pushes
<1>3. /\ <<"stop_unlock">> \o <<"idle">> = <<"stop_unlock", "idle">>
      /\ <<"stop_unlock">> \o <<"open">> = <<"stop_unlock", "open">>
  BY Pushes
<1>4. b \in FlushBacks(t) => <<"flushed">> \o b \in HeadersBacks(t)
  BY <1>1 DEF FlushBacks, HeadersBacks
<1>5. b = <<>> /\ t = App => <<"opened">> \o b \in HeadersBacks(t)
  BY <1>2 DEF HeadersBacks
<1>6. b = <<>> /\ t # App => <<"drain">> \o b = <<"drain">> /\ <<"ended">> \o b \in EndBacks(t)
  BY <1>2 DEF EndBacks
<1>7. b \in {<<"idle">>, <<"open">>} /\ t = App => <<"stop_unlock">> \o b \in FlushBacks(t)
  BY <1>3 DEF FlushBacks
<1> QED
  BY <1>4, <1>5, <1>6, <1>7

\* The steps and stacks of threads.
LEMMA StacksTyped ==
    ASSUME NEW t \in Threads, NEW p, NEW j, NEW b, WellFormed(t, p, j, b)
    PROVE  p \in Steps /\ b \in Backs
<1>1. p \in Steps
  BY DEF WellFormed, PairSteps, Steps
<1>2. b \in Backs
  BY DEF WellFormed, Backs
<1> QED
  BY <1>1, <1>2

\* Thread t goes to step p, with job j and stack b.
Moves(t, p, j, b) ==
    /\ pc' = [pc EXCEPT ![t] = p]
    /\ job' = [job EXCEPT ![t] = j]
    /\ back' = [back EXCEPT ![t] = b]

\* What Go does to a thread,
LEMMA GoMoves ==
    ASSUME CallTypes, NEW t \in Threads, NEW step, Go(t, step)
    PROVE  Moves(t, step, job[t], back[t])
  BY DEF CallTypes, Go, Moves

\* what Return does,
LEMMA ReturnMoves ==
    ASSUME CallTypes, NEW t \in Threads, Return(t)
    PROVE  Moves(t, Head(back[t]), job[t], Tail(back[t]))
  BY DEF CallTypes, Return, Moves

\* and SendPair.
LEMMA SendMoves ==
    ASSUME CallTypes, NEW t \in Threads, NEW kind, NEW next, SendPair(t, kind, next)
    PROVE  Moves(t, "alloc_video", kind, <<next>> \o back[t])
  BY DEF CallTypes, SendPair, Moves

\* A thread moves, and its stack is as it may be.
LEMMA Moved ==
    ASSUME CallTypes, Shape, NEW t \in Threads, NEW p, NEW j, NEW b, Moves(t, p, j, b),
           j \in Jobs, WellFormed(t, p, j, b)
    PROVE  /\ CallTypes' /\ Shape'
           /\ pc'[t] = p /\ job'[t] = j /\ back'[t] = b
           /\ \A u \in Threads : u # t => pc'[u] = pc[u] /\ job'[u] = job[u] /\ back'[u] = back[u]
<1>1. p \in Steps /\ b \in Backs
  BY StacksTyped
<1>2. CallTypes'
  BY <1>1 DEF CallTypes, Moves
<1>3. /\ pc'[t] = p /\ job'[t] = j /\ back'[t] = b
      /\ \A u \in Threads : u # t => pc'[u] = pc[u] /\ job'[u] = job[u] /\ back'[u] = back[u]
  BY DEF CallTypes, Moves
<1>4. ASSUME NEW u \in Threads PROVE WellFormed(u, pc'[u], job'[u], back'[u])
  <2>1. CASE u = t
    BY <1>3, <2>1
  <2>2. CASE u # t
    BY <1>3, <2>2 DEF Shape
  <2> QED
    BY <2>1, <2>2
<1>5. Shape'
  BY <1>4 DEF Shape
<1> QED
  BY <1>2, <1>3, <1>5

\* The parts of the types that a step leaves alone.
LEMMA TypesKept ==
    /\ QueueTypes /\ UNCHANGED <<created, queueVars>> => QueueTypes'
    /\ CountTypes /\ UNCHANGED countVars => CountTypes'
    /\ SideTypes /\ UNCHANGED demuxVars => SideTypes'
    /\ StreamTypes /\ UNCHANGED <<streamVars, brakeVars, appVars, mixed>> => StreamTypes'
    /\ CallTypes /\ Shape /\ UNCHANGED callVars => CallTypes' /\ Shape'
  BY DEF QueueTypes, CountTypes, SideTypes, StreamTypes, CallTypes, Shape,
         queueVars, countVars, callVars, demuxVars, streamVars, brakeVars, appVars

\* A buffer is put, or none if the fifo is a dummy.
LEMMA PutTyped ==
    ASSUME QueueTypes, NEW f \in Fifos, NEW x \in Items, Put(f, x)
    PROVE  fifo' \in [Fifos -> Seq(Items)]
<1>1. Append(fifo[f], x) \in Seq(Items)
  BY DEF QueueTypes
<1> QED
  BY <1>1 DEF QueueTypes, Put

\* A flush keeps the fifo a sequence of buffers.
LEMMA ClearTyped ==
    ASSUME QueueTypes, NEW f \in Fifos, Clear(f)
    PROVE  fifo' \in [Fifos -> Seq(Items)]
<1>1. Kept(fifo[f]) \in Seq(Items)
  BY WithoutSeq DEF QueueTypes, Kept
<1> QED
  BY <1>1 DEF QueueTypes, Clear

\* What a buffer is.
LEMMA ItemTyped ==
    ASSUME NEW kind \in Kinds, NEW t \in Senders
    PROVE  Item(kind, t) \in Items /\ Item(kind, t).kind = kind /\ Item(kind, t).by = t
  BY DEF Item, Items

\* The counts a thread will wait for.
LEMMA GoalTyped ==
    ASSUME CountTypes, NEW t \in Threads, NEW counts \in [Fifos -> Nat],
           target' = [target EXCEPT ![t] = Goal(counts)]
    PROVE  /\ target' \in [Threads -> [Fifos -> Nat]]
           /\ \A f \in Fifos : target'[t][f] = IF f \in created THEN counts[f] + 1 ELSE 0
           /\ \A u \in Threads : u # t => target'[u] = target[u]
<1>1. Goal(counts) \in [Fifos -> Nat]
  BY DEF Goal
<1>2. \A f \in Fifos : Goal(counts)[f] = IF f \in created THEN counts[f] + 1 ELSE 0
  BY DEF Goal
<1> QED
  BY <1>1, <1>2 DEF CountTypes

\* A thread goes on within the function it is in.
Within(t, p, step, j) ==
    \/ t # App /\ p \in DemuxSteps /\ step \in DemuxSteps
    \/ t = App /\ p \in AppSteps /\ step \in AppSteps
    \/ t = App /\ p \in StopSteps /\ step \in StopSteps
    \/ p \in FlushSteps /\ step \in FlushSteps
    \/ p \in AllocSteps \cup PutSteps /\ step \in AllocSteps \cup PutSteps
    \/ p \in PairSteps \cup SyncSteps /\ step \in PairSteps \cup SyncSteps /\ j = "headers"

\* A step within the same function keeps the stack.
LEMMA WithinFormed ==
    ASSUME NEW t \in Threads, NEW p, NEW step, NEW j, NEW b,
           WellFormed(t, p, j, b), Within(t, p, step, j)
    PROVE  WellFormed(t, step, j, b)
<1> DEFINE D == DemuxSteps
           A == AppSteps
           S == StopSteps
           F == FlushSteps
           Q == AllocSteps \cup PutSteps
           C == PairSteps \cup SyncSteps
<1>1. /\ p \in D => p \notin F /\ p \notin Q /\ p \notin C
      /\ p \in A => p \notin S /\ p \notin F /\ p \notin Q /\ p \notin C
      /\ p \in S => p \notin A /\ p \notin F /\ p \notin Q /\ p \notin C
      /\ p \in F => p \notin D /\ p \notin A /\ p \notin S /\ p \notin Q /\ p \notin C
      /\ p \in Q => p \notin D /\ p \notin A /\ p \notin S /\ p \notin F
      /\ p \in C => p \notin D /\ p \notin A /\ p \notin S /\ p \notin F
  BY DEF DemuxSteps, AppSteps, StopSteps, FlushSteps, AllocSteps, PutSteps, PairSteps, SyncSteps
<1>2. Q \subseteq C
  BY DEF PairSteps
<1>3. "headers" # "end" /\ "headers" # "nop"
  OBVIOUS
<1> HIDE DEF D, A, S, F, Q, C
<1>4. /\ \/ p \in (IF t = App THEN A ELSE D) /\ b = <<>>
         \/ t = App /\ p \in S /\ b \in {<<"idle">>, <<"open">>}
         \/ p \in F /\ b \in FlushBacks(t)
         \/ p \in C /\ j = "headers" /\ b \in HeadersBacks(t)
         \/ p \in Q /\ j = "end" /\ b \in EndBacks(t)
         \/ p \in Q /\ j = "nop" /\ t # App /\ b = <<"drain">>
      /\ \/ t # App /\ p \in D /\ step \in D
         \/ t = App /\ p \in A /\ step \in A
         \/ t = App /\ p \in S /\ step \in S
         \/ p \in F /\ step \in F
         \/ p \in Q /\ step \in Q
         \/ p \in C /\ step \in C /\ j = "headers"
  BY DEF WellFormed, Within, D, A, S, F, Q, C
<1>5. \/ step \in (IF t = App THEN A ELSE D) /\ b = <<>>
      \/ t = App /\ step \in S /\ b \in {<<"idle">>, <<"open">>}
      \/ step \in F /\ b \in FlushBacks(t)
      \/ step \in C /\ j = "headers" /\ b \in HeadersBacks(t)
      \/ step \in Q /\ j = "end" /\ b \in EndBacks(t)
      \/ step \in Q /\ j = "nop" /\ t # App /\ b = <<"drain">>
  BY <1>1, <1>2, <1>3, <1>4
<1> QED
  BY <1>5 DEF WellFormed, D, A, S, F, Q, C

\* A thread goes on within the same function.
LEMMA Went ==
    ASSUME CallTypes, Shape, NEW t \in Threads, NEW p, NEW step,
           At(t, p), Go(t, step), Within(t, p, step, job[t])
    PROVE  /\ CallTypes' /\ Shape'
           /\ pc'[t] = step
           /\ \A u \in Threads : u # t => pc'[u] = pc[u]
           /\ job' = job /\ back' = back
<1>1. Moves(t, step, job[t], back[t])
  BY GoMoves
<1>2. job[t] \in Jobs /\ WellFormed(t, step, job[t], back[t])
  <2>1. WellFormed(t, p, job[t], back[t]) /\ job[t] \in Jobs
    BY DEF CallTypes, Shape, At
  <2> QED
    BY <2>1, WithinFormed
<1> QED
  BY <1>1, <1>2, Moved DEF Go

\* Where a thread may be when it returns.
LEMMA Returned ==
    ASSUME CallTypes, Shape, NEW t \in Threads, Return(t)
    PROVE  /\ pc[t] \in FlushSteps =>
                /\ CallTypes' /\ Shape'
                /\ \/ t = App /\ pc'[t] \in {"stop_unlock", "seek"}
                   \/ t # App /\ pc'[t] = "check"
           /\ pc[t] \in PairSteps \cup SyncSteps /\ job[t] = "headers" =>
                /\ CallTypes' /\ Shape'
                /\ pc'[t] = "flushed" \/ (t = App /\ pc'[t] = "opened")
           /\ pc[t] \in PutSteps /\ job[t] = "end" =>
                /\ CallTypes' /\ Shape'
                /\ IF t = App THEN pc'[t] = "stop_side" ELSE pc'[t] = "ended"
           /\ pc[t] \in PutSteps /\ job[t] = "nop" =>
                /\ CallTypes' /\ Shape'
                /\ t # App /\ pc'[t] = "drain"
           /\ t = App /\ pc[t] \in StopSteps =>
                /\ CallTypes' /\ Shape'
                /\ pc'[t] \in {"idle", "open"}
           /\ \A u \in Threads : u # t => pc'[u] = pc[u]
           /\ job' = job
<1> DEFINE p == pc[t]
           j == job[t]
           b == back[t]
           h == Head(b)
           r == Tail(b)
<1>1. Moves(t, h, j, r) /\ WellFormed(t, p, j, b) /\ j \in Jobs
  BY ReturnMoves DEF Shape, CallTypes
<1>2. /\ \A u \in Threads : u # t => pc'[u] = pc[u]
      /\ job' = job
      /\ pc'[t] = h
  BY DEF Return, CallTypes
<1>3. WellFormed(t, h, j, r) => CallTypes' /\ Shape'
  <2> HIDE DEF h, j, r
  <2> QED
    BY <1>1, Moved
<1>4. /\ b \in FlushBacks(t) =>
                \/ t = App /\ h = "stop_unlock" /\ r \in {<<"idle">>, <<"open">>}
                \/ t = App /\ h = "seek" /\ r = <<>>
                \/ t # App /\ h = "check" /\ r = <<>>
      /\ b \in HeadersBacks(t) =>
                \/ h = "flushed" /\ r \in FlushBacks(t)
                \/ t = App /\ h = "opened" /\ r = <<>>
      /\ b \in EndBacks(t) =>
                \/ t = App /\ h = "stop_side" /\ r \in {<<"idle">>, <<"open">>}
                \/ t # App /\ h = "ended" /\ r = <<>>
      /\ b = <<"drain">> => h = "drain" /\ r = <<>>
      /\ b \in {<<"idle">>, <<"open">>} => h \in {"idle", "open"} /\ r = <<>>
  BY Returns
<1> HIDE DEF p, j, b, h, r
<1>5. p \in FlushSteps => b \in FlushBacks(t)
  BY <1>1 DEF WellFormed, FlushSteps, DemuxSteps, AppSteps, StopSteps, AllocSteps, PutSteps,
              PairSteps, SyncSteps
<1>6. p \in PairSteps \cup SyncSteps /\ j = "headers" => b \in HeadersBacks(t)
  BY <1>1 DEF WellFormed, FlushSteps, DemuxSteps, AppSteps, StopSteps, AllocSteps, PutSteps,
              PairSteps, SyncSteps
<1>7. p \in PutSteps /\ j = "end" => b \in EndBacks(t)
  BY <1>1 DEF WellFormed, FlushSteps, DemuxSteps, AppSteps, StopSteps, AllocSteps, PutSteps,
              PairSteps, SyncSteps
<1>8. p \in PutSteps /\ j = "nop" => t # App /\ b = <<"drain">>
  BY <1>1 DEF WellFormed, FlushSteps, DemuxSteps, AppSteps, StopSteps, AllocSteps, PutSteps,
              PairSteps, SyncSteps
<1>9. t = App /\ p \in StopSteps => b \in {<<"idle">>, <<"open">>}
  BY <1>1 DEF WellFormed, FlushSteps, DemuxSteps, AppSteps, StopSteps, AllocSteps, PutSteps,
              PairSteps, SyncSteps
<1>10. /\ t = App /\ h = "stop_unlock" /\ r \in {<<"idle">>, <<"open">>} => WellFormed(t, h, j, r)
       /\ t = App /\ h = "stop_side" /\ r \in {<<"idle">>, <<"open">>} => WellFormed(t, h, j, r)
       /\ t = App /\ h \in {"seek", "opened", "idle", "open"} /\ r = <<>> => WellFormed(t, h, j, r)
       /\ t # App /\ h \in {"check", "ended", "drain"} /\ r = <<>> => WellFormed(t, h, j, r)
       /\ h = "flushed" /\ r \in FlushBacks(t) => WellFormed(t, h, j, r)
  BY DEF WellFormed, FlushSteps, DemuxSteps, AppSteps, StopSteps
<1> QED
  BY <1>2, <1>3, <1>4, <1>5, <1>6, <1>7, <1>8, <1>9, <1>10 DEF p, j, h

\* A thread calls the functions that put a pair.
LEMMA Sent ==
    ASSUME CallTypes, Shape, NEW t \in Threads, NEW kind \in Jobs, NEW next, SendPair(t, kind, next),
           \/ kind = "headers" /\ pc[t] \in FlushSteps /\ next = "flushed"
           \/ kind = "headers" /\ t = App /\ pc[t] \in AppSteps /\ next = "opened"
           \/ kind = "end" /\ t # App /\ pc[t] \in DemuxSteps /\ next = "ended"
           \/ kind = "nop" /\ t # App /\ pc[t] \in DemuxSteps /\ next = "drain"
    PROVE  /\ CallTypes' /\ Shape'
           /\ pc'[t] = "alloc_video" /\ job'[t] = kind
           /\ \A u \in Threads : u # t => pc'[u] = pc[u] /\ job'[u] = job[u]
<1> DEFINE p == pc[t]
           b == back[t]
           c == <<next>> \o b
           q == "alloc_video"
<1>1. Moves(t, q, kind, c) /\ WellFormed(t, p, job[t], b)
  BY SendMoves DEF Shape
<1>2. /\ b \in FlushBacks(t) /\ next = "flushed" => c \in HeadersBacks(t)
      /\ b = <<>> /\ t = App /\ next = "opened" => c \in HeadersBacks(t)
      /\ b = <<>> /\ t # App /\ next = "drain" => c = <<"drain">>
      /\ b = <<>> /\ t # App /\ next = "ended" => c \in EndBacks(t)
  BY Calls
<1> HIDE DEF p, b, c
<1>3. /\ p \in FlushSteps => b \in FlushBacks(t)
      /\ p \in (IF t = App THEN AppSteps ELSE DemuxSteps) => b = <<>>
  BY <1>1 DEF WellFormed, FlushSteps, DemuxSteps, AppSteps, StopSteps, AllocSteps, PutSteps,
              PairSteps, SyncSteps
<1>4. WellFormed(t, q, kind, c)
  BY <1>2, <1>3 DEF WellFormed, AllocSteps, PairSteps, p
<1> HIDE DEF q
<1>5. /\ CallTypes' /\ Shape'
      /\ pc'[t] = q /\ job'[t] = kind
      /\ \A u \in Threads : u # t => pc'[u] = pc[u] /\ job'[u] = job[u]
  BY <1>1, <1>4, Moved
<1> QED
  BY <1>5 DEF q

\* The application calls _x_demux_flush_engine, or a demuxer does.
LEMMA Flushes ==
    ASSUME CallTypes, Shape, NEW t \in Threads, NEW b \in FlushBacks(t), Moves(t, "flush", job[t], b)
    PROVE  /\ CallTypes' /\ Shape'
           /\ pc'[t] = "flush"
           /\ \A u \in Threads : u # t => pc'[u] = pc[u]
           /\ job' = job
<1>1. WellFormed(t, "flush", job[t], b) /\ job[t] \in Jobs
  BY DEF WellFormed, FlushSteps, CallTypes
<1> QED
  BY <1>1, Moved DEF Moves, CallTypes

-----------------------------------------------------------------------------
(* Who holds counter.lock, demux.pair and the locks of the demuxers. *)

\* The steps within demux_loop with demux.lock held; calls from there keep it.
LoopSteps == {"chunk", "data_video", "data_audio", "check", "drain", "delay", "again", "exit", "ended"}

PutsHeaders(p, j) == (p \in PutSteps /\ j = "headers") \/ p = "sync"

HasPair(p) == p \in {"put_audio", "reset_video", "reset_audio"}

HasLoop(p) == p \in LoopSteps \cup FlushSteps \cup PairSteps \cup SyncSteps

\* counter.lock, demux.pair and each demuxer's demux.lock are held where the code holds
\* them, and by nobody else.
CounterOwned == \A t \in Threads : counter = t <=> PutsHeaders(pc[t], job[t])

PairOwned == \A t \in Threads : pair = t <=> HasPair(pc[t])

LoopsLocked == \A s \in Sides : HasLoop(pc[s]) => lock[s] = s

\* The stacks of the application while it holds all locks for a seek, or one for a stop.
SeekBacks == {<<"seek">>, <<"flushed", "seek">>}

StopBacks == {<<"stop_unlock", "idle">>, <<"stop_unlock", "open">>,
              <<"flushed", "stop_unlock", "idle">>, <<"flushed", "stop_unlock", "open">>}

\* The application is seeking the demuxers, or stopping one.
Seeking == pc[App] = "seek" \/ back[App] \in SeekBacks

Stopping == pc[App] = "stop_unlock" \/ back[App] \in StopBacks

AppLocks ==
    /\ Seeking => \A r \in Sides : lock[r] = App
    /\ Stopping => side \in Sides /\ lock[side] = App
    /\ pc[App] = "stop_lock" => side \in Sides
    /\ pc[App] \in {"play_video", "play_audio"} => side = 1
    /\ pc[App] = "play_lock" => side \in Sides /\ \A r \in Sides : r < side => lock[r] = App
    /\ pc[App] = "go_on" => \A r \in Sides : r >= side => lock[r] = App
    /\ pc[App] = "start" => side \in Sides /\ \A r \in Sides : r > side => lock[r] = App

Own == CounterOwned /\ PairOwned /\ LoopsLocked /\ AppLocks

\* A step of another thread leaves the application its locks.
LEMMA AppLocksKept ==
    ASSUME AppLocks, \A r \in Sides : lock[r] = App => lock'[r] = App,
           pc'[App] = pc[App], back'[App] = back[App], side' = side
    PROVE  AppLocks'
<1>1. (Seeking' <=> Seeking) /\ (Stopping' <=> Stopping)
  BY DEF Seeking, Stopping
<1>2. /\ Seeking => \A r \in Sides : lock'[r] = App
      /\ Stopping => side \in Sides /\ lock'[side] = App
      /\ pc[App] = "stop_lock" => side \in Sides
      /\ pc[App] \in {"play_video", "play_audio"} => side = 1
      /\ pc[App] = "play_lock" => side \in Sides /\ \A r \in Sides : r < side => lock'[r] = App
      /\ pc[App] = "go_on" => \A r \in Sides : r >= side => lock'[r] = App
      /\ pc[App] = "start" => side \in Sides /\ \A r \in Sides : r > side => lock'[r] = App
  BY DEF AppLocks
<1> QED
  BY <1>1, <1>2 DEF AppLocks

\* A step of a demuxer in demux_loop itself.
LEMMA LoopGoes ==
    ASSUME CallTypes, Shape, Own, NEW s \in Sides, NEW p \in DemuxSteps, NEW step \in DemuxSteps,
           At(s, p), Go(s, step), UNCHANGED <<counter, pair, side>>,
           \A r \in Sides : r # s => lock'[r] = lock[r],
           lock[s] = App => lock'[s] = App,
           HasLoop(step) => lock'[s] = s
    PROVE  /\ CallTypes' /\ Shape' /\ Own'
           /\ pc'[s] = step
           /\ \A u \in Threads : u # s => pc'[u] = pc[u]
           /\ job' = job /\ back' = back
<1> USE Actors
<1>1. Within(s, p, step, job[s])
  BY DEF Within
<1>2. /\ CallTypes' /\ Shape'
      /\ pc'[s] = step
      /\ \A u \in Threads : u # s => pc'[u] = pc[u]
      /\ job' = job /\ back' = back
  <2>1. s \in Threads
    OBVIOUS
  <2> QED
    BY <1>1, <2>1, Went
<1>3. ~PutsHeaders(p, job[s]) /\ ~PutsHeaders(step, job[s]) /\ ~HasPair(p) /\ ~HasPair(step)
  BY DEF DemuxSteps, PutsHeaders, HasPair, PutSteps
<1>4. CounterOwned'
  <2>1. \A t \in Threads : PutsHeaders(pc'[t], job'[t]) <=> PutsHeaders(pc[t], job[t])
    BY <1>2, <1>3 DEF At
  <2> QED
    BY <2>1 DEF Own, CounterOwned
<1>5. PairOwned'
  <2>1. \A t \in Threads : HasPair(pc'[t]) <=> HasPair(pc[t])
    BY <1>2, <1>3 DEF At
  <2> QED
    BY <2>1 DEF Own, PairOwned
<1>6. LoopsLocked'
  BY <1>2 DEF Own, LoopsLocked
<1>7. AppLocks'
  <2>1. \A r \in Sides : lock[r] = App => lock'[r] = App
    OBVIOUS
  <2>2. pc'[App] = pc[App] /\ back'[App] = back[App]
    BY <1>2
  <2> QED
    BY <2>1, <2>2, AppLocksKept DEF Own
<1> QED
  BY <1>2, <1>4, <1>5, <1>6, <1>7 DEF Own

\* A demuxer thread starts.
LEMMA LoopStartTyped ==
    ASSUME Types, Shape, Own, NEW s \in Sides, LoopStart(s), UNCHANGED mixed
    PROVE  Types' /\ Shape' /\ Own'
<1> USE Actors
<1>1. QueueTypes' /\ CountTypes'
  BY TypesKept DEF Types, LoopStart
<1>2. StreamTypes'
  BY DEF Types, StreamTypes, LoopStart, streamVars, appVars
<1>3. SideTypes'
  <2>1. over' \in [Sides -> BOOLEAN]
    <3>1. over \in [Sides -> BOOLEAN]
      BY DEF Types, SideTypes
    <3>2. UNCHANGED over \/ over' = [over EXCEPT ![s] = left[s] = 0]
      BY DEF LoopStart
    <3> QED
      BY ONLY <3>1, <3>2, Zenon
  <2>2. /\ lock' \in [Sides -> Senders] /\ demuxers_running' \in Int
        /\ UNCHANGED <<pending, running, thread, left, non_user>>
    BY DEF Types, SideTypes, LoopStart
  <2> QED
    BY <2>1, <2>2 DEF Types, SideTypes
<1>4. UNCHANGED <<counter, pair, side>>
  BY DEF LoopStart, countVars, queueVars, appVars
<1>5. CASE At(s, "start") /\ Go(s, "enter") /\ UNCHANGED lock
  <2> DEFINE p == "start"
             step == "enter"
  <2>1. /\ p \in DemuxSteps /\ step \in DemuxSteps /\ ~HasLoop(step)
    BY DEF DemuxSteps, HasLoop, LoopSteps, FlushSteps, PairSteps, AllocSteps, PutSteps, SyncSteps
  <2>2. At(s, p) /\ Go(s, step)
    BY <1>5
  <2> HIDE DEF p, step
  <2>3. CallTypes' /\ Shape' /\ Own'
    BY <1>4, <1>5, <2>1, <2>2, LoopGoes DEF Types
  <2> QED
    BY <1>1, <1>2, <1>3, <2>3 DEF Types
<1>6. CASE /\ At(s, "enter") /\ Go(s, "chunk") /\ lock[s] = Nobody
           /\ lock' = [lock EXCEPT ![s] = s]
  <2> DEFINE p == "enter"
             step == "chunk"
  <2>1. /\ p \in DemuxSteps /\ step \in DemuxSteps
    BY DEF DemuxSteps
  <2>2. At(s, p) /\ Go(s, step)
    BY <1>6
  <2> HIDE DEF p, step
  <2>3. lock'[s] = s /\ (\A r \in Sides : r # s => lock'[r] = lock[r]) /\ lock[s] # App
    BY <1>6 DEF Types, SideTypes
  <2>4. CallTypes' /\ Shape' /\ Own'
    BY <1>4, <2>1, <2>2, <2>3, LoopGoes DEF Types
  <2> QED
    BY <1>1, <1>2, <1>3, <2>4 DEF Types
<1> QED
  BY <1>5, <1>6 DEF LoopStart

\* A call from demux_loop: the demuxer keeps its lock.
LEMMA LoopCalls ==
    ASSUME CallTypes', Shape', Own, NEW s \in Sides, pc[s] \in LoopSteps,
           pc'[s] \in {"alloc_video", "flush"},
           \A u \in Threads : u # s => pc'[u] = pc[u] /\ job'[u] = job[u] /\ back'[u] = back[u],
           UNCHANGED <<counter, pair, side, lock>>
    PROVE  Own'
<1> USE Actors
<1>1. ~PutsHeaders(pc[s], job[s]) /\ ~PutsHeaders(pc'[s], job'[s]) /\ ~HasPair(pc[s]) /\ ~HasPair(pc'[s])
  BY DEF LoopSteps, PutsHeaders, HasPair, PutSteps
<1>2. CounterOwned'
  <2>1. \A t \in Threads : PutsHeaders(pc'[t], job'[t]) <=> PutsHeaders(pc[t], job[t])
    BY <1>1
  <2> QED
    BY <2>1 DEF Own, CounterOwned
<1>3. PairOwned'
  <2>1. \A t \in Threads : HasPair(pc'[t]) <=> HasPair(pc[t])
    BY <1>1
  <2> QED
    BY <2>1 DEF Own, PairOwned
<1>4. LoopsLocked'
  <2>1. HasLoop(pc[s])
    BY DEF HasLoop
  <2> QED
    BY <2>1 DEF Own, LoopsLocked
<1>5. AppLocks'
  BY AppLocksKept DEF Own
<1> QED
  BY <1>2, <1>3, <1>4, <1>5 DEF Own

\* Within demux_loop's body and its calls, the demuxer has its lock.
LEMMA LoopAt ==
    ASSUME Own, NEW s \in Sides, HasLoop(pc[s])
    PROVE  lock[s] = s
  BY DEF Own, LoopsLocked

\* A chunk is due, or the loop ends.
LEMMA ChunkTyped ==
    ASSUME Types, Shape, Own, NEW s \in Sides, Chunk(s), UNCHANGED mixed
    PROVE  Types' /\ Shape' /\ Own'
<1> USE Actors
<1>1. QueueTypes' /\ CountTypes'
  BY TypesKept DEF Types, Chunk
<1>2. StreamTypes'
  BY TypesKept DEF Types, Chunk
<1>3. SideTypes'
  <2>1. over' \in [Sides -> BOOLEAN]
    <3>1. over \in [Sides -> BOOLEAN]
      BY DEF Types, SideTypes
    <3>2. UNCHANGED over \/ over' = [over EXCEPT ![s] = TRUE]
      BY DEF Chunk
    <3> QED
      BY ONLY <3>1, <3>2, Zenon
  <2> QED
    BY <2>1 DEF Types, SideTypes, Chunk
<1>4. UNCHANGED <<counter, pair, side, lock>>
  BY DEF Chunk, countVars, queueVars, appVars
<1>5. pc[s] = "chunk" /\ lock[s] = s
  <2>1. pc[s] = "chunk"
    BY DEF Chunk, At
  <2> QED
    BY <2>1, LoopAt DEF HasLoop, LoopSteps
<1>6. CASE \E f \in Fifos : Go(s, IF f = Video THEN "data_video" ELSE "data_audio")
  <2>1. PICK step : step \in {"data_video", "data_audio"} /\ Go(s, step)
    BY <1>6
  <2>2. step \in DemuxSteps /\ "chunk" \in DemuxSteps /\ At(s, "chunk")
    BY <1>5, <2>1 DEF DemuxSteps, At
  <2>3. CallTypes' /\ Shape' /\ Own'
    BY <1>4, <1>5, <2>1, <2>2, LoopGoes DEF Types
  <2> QED
    BY <1>1, <1>2, <1>3, <2>3 DEF Types
<1>7. CASE Go(s, "check")
  <2>2. "check" \in DemuxSteps /\ "chunk" \in DemuxSteps /\ At(s, "chunk")
    BY <1>5 DEF DemuxSteps, At
  <2>3. CallTypes' /\ Shape' /\ Own'
    BY <1>4, <1>5, <1>7, <2>2, LoopGoes DEF Types
  <2> QED
    BY <1>1, <1>2, <1>3, <2>3 DEF Types
<1>8. CASE SendPair(s, "nop", "drain")
  <2>1. pc[s] \in DemuxSteps /\ pc[s] \in LoopSteps /\ "nop" \in Jobs
    BY <1>5 DEF DemuxSteps, LoopSteps, Jobs
  <2>2. /\ CallTypes' /\ Shape'
        /\ pc'[s] = "alloc_video"
        /\ \A u \in Threads : u # s => pc'[u] = pc[u] /\ job'[u] = job[u]
    BY <1>8, <2>1, Sent DEF Types
  <2>3. \A u \in Threads : u # s => back'[u] = back[u]
    BY <1>8 DEF SendPair, Types, CallTypes
  <2>4. Own'
    BY <1>4, <2>1, <2>2, <2>3, LoopCalls
  <2> QED
    BY <1>1, <1>2, <1>3, <2>2, <2>4 DEF Types
<1> QED
  BY <1>6, <1>7, <1>8 DEF Chunk

\* What Unlock does.
LEMMA Unlocks ==
    ASSUME Types, NEW s \in Sides, Unlock(s)
    PROVE  /\ lock' \in [Sides -> Senders] /\ lock'[s] = Nobody
           /\ \A r \in Sides : r # s => lock'[r] = lock[r]
  BY DEF Types, SideTypes, Unlock, Senders

\* A demuxer puts data.
LEMMA SendDataTyped ==
    ASSUME Types, Shape, Own, NEW s \in Sides, SendData(s), UNCHANGED mixed
    PROVE  Types' /\ Shape' /\ Own'
<1> USE Actors
<1>1. PICK f \in Fifos : /\ At(s, IF f = Video THEN "data_video" ELSE "data_audio")
                         /\ Put(f, Item("data", s))
  BY DEF SendData
<1>2. StreamTypes' /\ CountTypes'
  BY TypesKept DEF Types, SendData
<1>3. QueueTypes'
  <2>1. Item("data", s) \in Items
    BY ItemTyped DEF Kinds
  <2>2. fifo' \in [Fifos -> Seq(Items)]
    BY <1>1, <2>1, PutTyped DEF Types
  <2> QED
    BY <2>2 DEF Types, QueueTypes, SendData
<1>4. SideTypes'
  <2>1. over' \in [Sides -> BOOLEAN]
    <3>1. over \in [Sides -> BOOLEAN]
      BY DEF Types, SideTypes
    <3>2. over' = [over EXCEPT ![s] = left[s] = 1]
      BY DEF SendData
    <3> QED
      BY ONLY <3>1, <3>2, Zenon
  <2>2. left' = [left EXCEPT ![s] = @ - 1] /\ UNCHANGED <<lock, pending, running, thread, non_user, demuxers_running>>
    BY DEF SendData
  <2> QED
    BY <2>1, <2>2 DEF Types, SideTypes
<1>5. UNCHANGED <<counter, pair, side, lock>> /\ Go(s, "check")
  BY DEF SendData, countVars, queueVars, appVars
<1>6. PICK p : p \in {"data_video", "data_audio"} /\ At(s, p)
  BY <1>1
<1>7. p \in DemuxSteps /\ "check" \in DemuxSteps
  BY <1>6 DEF DemuxSteps
<1>8. lock[s] = s
  BY <1>6, LoopAt DEF HasLoop, LoopSteps, At
<1>9. CallTypes' /\ Shape' /\ Own'
  BY <1>5, <1>6, <1>7, <1>8, LoopGoes DEF Types
<1> QED
  BY <1>2, <1>3, <1>4, <1>9 DEF Types

\* A demuxer lets others in.
LEMMA LetInTyped ==
    ASSUME Types, Shape, Own, NEW s \in Sides, LetIn(s), UNCHANGED mixed
    PROVE  Types' /\ Shape' /\ Own'
<1> USE Actors
<1>1. QueueTypes' /\ CountTypes' /\ StreamTypes'
  BY TypesKept DEF Types, LetIn
<1>2. SideTypes'
  BY DEF Types, SideTypes, LetIn, Unlock
<1>3. UNCHANGED <<counter, pair, side>>
  BY DEF LetIn, countVars, queueVars, appVars
<1>4. /\ "check" \in DemuxSteps /\ "suspended" \in DemuxSteps /\ "resume" \in DemuxSteps
      /\ "chunk" \in DemuxSteps /\ HasLoop("check") /\ ~HasLoop("suspended") /\ ~HasLoop("resume")
  BY DEF DemuxSteps, HasLoop, LoopSteps, FlushSteps, PairSteps, AllocSteps, PutSteps, SyncSteps
<1>5. CASE At(s, "check") /\ Unlock(s) /\ Go(s, "suspended")
  <2>1. lock[s] = s /\ \A r \in Sides : r # s => lock'[r] = lock[r]
    BY <1>4, <1>5, LoopAt DEF At, Unlock, Types, SideTypes
  <2> QED
    BY <1>1, <1>2, <1>3, <1>4, <1>5, <2>1, LoopGoes DEF Types
<1>6. CASE At(s, "check") /\ UNCHANGED lock /\ Go(s, "chunk")
  <2>1. lock[s] = s
    BY <1>4, <1>6, LoopAt DEF At
  <2> QED
    BY <1>1, <1>2, <1>3, <1>4, <1>6, <2>1, LoopGoes DEF Types
<1>7. CASE At(s, "suspended") /\ UNCHANGED lock /\ Go(s, "resume")
  BY <1>1, <1>2, <1>3, <1>4, <1>7, LoopGoes DEF Types
<1>8. CASE At(s, "resume") /\ lock[s] = Nobody /\ lock' = [lock EXCEPT ![s] = s] /\ Go(s, "chunk")
  <2>1. lock'[s] = s /\ (\A r \in Sides : r # s => lock'[r] = lock[r]) /\ lock[s] # App
    BY <1>8 DEF Types, SideTypes
  <2> QED
    BY <1>1, <1>2, <1>3, <1>4, <1>8, <2>1, LoopGoes DEF Types
<1> QED
  BY <1>5, <1>6, <1>7, <1>8 DEF LetIn

\* A demuxer waits until the fifos are empty.
LEMMA DrainTyped ==
    ASSUME Types, Shape, Own, NEW s \in Sides, Drain(s), UNCHANGED mixed
    PROVE  Types' /\ Shape' /\ Own'
<1> USE Actors
<1>1. QueueTypes' /\ CountTypes' /\ StreamTypes'
  BY TypesKept DEF Types, Drain
<1>2. SideTypes'
  <2>1. over' \in [Sides -> BOOLEAN]
    <3>1. over \in [Sides -> BOOLEAN]
      BY DEF Types, SideTypes
    <3>2. UNCHANGED over \/ over' = [over EXCEPT ![s] = left[s] = 0]
      BY DEF Drain
    <3> QED
      BY ONLY <3>1, <3>2, Zenon
  <2>2. lock' \in [Sides -> Senders]
    <3>1. Unlock(s) \/ UNCHANGED lock \/ lock' = [lock EXCEPT ![s] = s]
      BY DEF Drain
    <3> QED
      BY <3>1, Unlocks DEF Types, SideTypes
  <2> QED
    BY <2>1, <2>2 DEF Types, SideTypes, Drain
<1>3. UNCHANGED <<counter, pair, side>>
  BY DEF Drain, countVars, queueVars, appVars
<1>4. /\ "drain" \in DemuxSteps /\ "drain_wait" \in DemuxSteps /\ "delay" \in DemuxSteps
      /\ "delay_wait" \in DemuxSteps /\ "again" \in DemuxSteps
      /\ HasLoop("drain") /\ ~HasLoop("drain_wait")
  BY DEF DemuxSteps, HasLoop, LoopSteps, FlushSteps, PairSteps, AllocSteps, PutSteps, SyncSteps
<1>5. CASE At(s, "drain") /\ Unlock(s) /\ Go(s, "drain_wait")
  <2>1. lock[s] = s /\ \A r \in Sides : r # s => lock'[r] = lock[r]
    BY <1>4, <1>5, LoopAt DEF At, Unlock, Types, SideTypes
  <2> QED
    BY <1>1, <1>2, <1>3, <1>4, <1>5, <2>1, LoopGoes DEF Types
<1>6. CASE At(s, "drain") /\ UNCHANGED lock /\ Go(s, "delay")
  <2>1. lock[s] = s
    BY <1>4, <1>6, LoopAt DEF At
  <2> QED
    BY <1>1, <1>2, <1>3, <1>4, <1>6, <2>1, LoopGoes DEF Types
<1>7. CASE /\ At(s, "drain_wait") \/ At(s, "delay_wait")
           /\ lock[s] = Nobody /\ lock' = [lock EXCEPT ![s] = s]
           /\ Go(s, IF At(s, "drain_wait") THEN "drain" ELSE "again")
  <2>1. lock'[s] = s /\ (\A r \in Sides : r # s => lock'[r] = lock[r]) /\ lock[s] # App
    BY <1>7 DEF Types, SideTypes
  <2>2. PICK p, step : /\ p \in {"drain_wait", "delay_wait"} /\ At(s, p)
                       /\ step \in {"drain", "again"} /\ Go(s, step)
    BY <1>7
  <2>3. p \in DemuxSteps /\ step \in DemuxSteps
    BY <1>4, <2>2
  <2> QED
    BY <1>1, <1>2, <1>3, <2>1, <2>2, <2>3, LoopGoes DEF Types
<1> QED
  BY <1>5, <1>6, <1>7 DEF Drain

\* A demuxer delays the end.
LEMMA DelayTyped ==
    ASSUME Types, Shape, Own, NEW s \in Sides, Delay(s), UNCHANGED mixed
    PROVE  Types' /\ Shape' /\ Own'
<1> USE Actors
<1>1. QueueTypes' /\ CountTypes' /\ StreamTypes'
  BY TypesKept DEF Types, Delay
<1>2. SideTypes'
  <2>1. Unlock(s) \/ UNCHANGED lock
    BY DEF Delay
  <2>2. lock' \in [Sides -> Senders]
    BY <2>1, Unlocks DEF Types, SideTypes
  <2> QED
    BY <2>2 DEF Types, SideTypes, Delay
<1>3. UNCHANGED <<counter, pair, side>>
  BY DEF Delay, countVars, queueVars, appVars
<1>4. /\ "delay" \in DemuxSteps /\ "delay_wait" \in DemuxSteps /\ "again" \in DemuxSteps
      /\ HasLoop("delay") /\ ~HasLoop("delay_wait")
  BY DEF DemuxSteps, HasLoop, LoopSteps, FlushSteps, PairSteps, AllocSteps, PutSteps, SyncSteps
<1>5. lock[s] = s
  BY <1>4, LoopAt DEF Delay, At
<1>6. CASE Unlock(s) /\ Go(s, "delay_wait")
  <2>1. \A r \in Sides : r # s => lock'[r] = lock[r]
    BY <1>6 DEF Unlock, Types, SideTypes
  <2> QED
    BY <1>1, <1>2, <1>3, <1>4, <1>5, <1>6, <2>1, LoopGoes DEF Types, Delay
<1>7. CASE UNCHANGED lock /\ Go(s, "again")
  BY <1>1, <1>2, <1>3, <1>4, <1>5, <1>7, LoopGoes DEF Types, Delay
<1> QED
  BY <1>6, <1>7 DEF Delay

\* A demuxer loops again, or not.
LEMMA AgainTyped ==
    ASSUME Types, Shape, Own, NEW s \in Sides, Again(s), UNCHANGED mixed
    PROVE  Types' /\ Shape' /\ Own'
<1> USE Actors
<1>1. QueueTypes' /\ CountTypes' /\ StreamTypes'
  BY TypesKept DEF Types, Again
<1>2. SideTypes'
  <2>1. running' \in [Sides -> BOOLEAN] /\ non_user' \in [Sides -> BOOLEAN]
    <3>1. running \in [Sides -> BOOLEAN] /\ non_user \in [Sides -> BOOLEAN]
      BY DEF Types, SideTypes
    <3>2. \/ UNCHANGED <<running, non_user>>
          \/ /\ non_user' = [non_user EXCEPT ![s] = running[s]]
             /\ running' = [running EXCEPT ![s] = FALSE]
      BY DEF Again
    <3>3. running[s] \in BOOLEAN
      BY <3>1
    <3> QED
      BY ONLY <3>1, <3>2, <3>3, Zenon
  <2> QED
    BY <2>1 DEF Types, SideTypes, Again
<1>3. UNCHANGED <<counter, pair, side, lock>>
  BY DEF Again, countVars, queueVars, appVars
<1>4. /\ "again" \in DemuxSteps /\ "chunk" \in DemuxSteps /\ "exit" \in DemuxSteps
      /\ HasLoop("again")
  BY DEF DemuxSteps, HasLoop, LoopSteps
<1>5. lock[s] = s
  BY <1>4, LoopAt DEF Again, At
<1>6. PICK step : step \in {"chunk", "exit"} /\ Go(s, step)
  BY DEF Again
<1>7. step \in DemuxSteps
  BY <1>4, <1>6
<1> QED
  BY <1>1, <1>2, <1>3, <1>4, <1>5, <1>6, <1>7, LoopGoes DEF Types, Again

\* A demuxer leaves its loop.
LEMMA ExitTyped ==
    ASSUME Types, Shape, Own, NEW s \in Sides, LoopExit(s)
    PROVE  Types' /\ Shape' /\ Own'
<1> USE Actors
<1>1. QueueTypes'
  BY TypesKept DEF Types, LoopExit
<1>2. StreamTypes'
  <2>1. mixed' = mixed \/ mixed' = mixed \cup {"end"}
    BY DEF LoopExit, Mix
  <2> QED
    BY <2>1 DEF Types, StreamTypes, LoopExit, streamVars, brakeVars, appVars
<1>3. SideTypes'
  BY DEF Types, SideTypes, LoopExit, Unlock
<1>4. CountTypes'
  <2>1. target' \in [Threads -> [Fifos -> Nat]]
    <3>1. finisheds \in [Fifos -> Nat] /\ CountTypes
      BY DEF Types, CountTypes
    <3>2. UNCHANGED target \/ target' = [target EXCEPT ![s] = Goal(finisheds)]
      BY DEF LoopExit
    <3>3. target \in [Threads -> [Fifos -> Nat]]
      BY <3>1 DEF CountTypes
    <3> QED
      BY <3>1, <3>2, <3>3, GoalTyped
  <2> QED
    BY <2>1 DEF Types, CountTypes, LoopExit
<1>5. UNCHANGED <<counter, pair, side>>
  BY DEF LoopExit, queueVars, appVars
<1>6. pc[s] = "exit" /\ At(s, "exit") /\ lock[s] = s
  <2>1. pc[s] = "exit" /\ At(s, "exit")
    BY DEF LoopExit, At
  <2> QED
    BY <2>1, LoopAt DEF HasLoop, LoopSteps
<1>7. "exit" \in DemuxSteps /\ "exit" \in LoopSteps /\ "off" \in DemuxSteps /\ ~HasLoop("off") /\ "end" \in Jobs
  BY DEF DemuxSteps, HasLoop, LoopSteps, FlushSteps, PairSteps, AllocSteps, PutSteps, SyncSteps, Jobs
<1>8. CASE Go(s, "off") /\ Unlock(s)
  <2>1. \A r \in Sides : r # s => lock'[r] = lock[r]
    BY <1>8 DEF Unlock, Types, SideTypes
  <2> QED
    BY <1>1, <1>2, <1>3, <1>4, <1>5, <1>6, <1>7, <1>8, <2>1, LoopGoes DEF Types
<1>9. CASE SendPair(s, "end", "ended") /\ UNCHANGED lock
  <2>1. /\ CallTypes' /\ Shape'
        /\ pc'[s] = "alloc_video"
        /\ \A u \in Threads : u # s => pc'[u] = pc[u] /\ job'[u] = job[u]
    BY <1>6, <1>7, <1>9, Sent DEF Types
  <2>2. \A u \in Threads : u # s => back'[u] = back[u]
    BY <1>9 DEF SendPair, Types, CallTypes
  <2>3. Own'
    BY <1>5, <1>6, <1>7, <1>9, <2>1, <2>2, LoopCalls
  <2> QED
    BY <1>1, <1>2, <1>3, <1>4, <2>1, <2>3 DEF Types
<1> QED
  BY <1>8, <1>9 DEF LoopExit

\* The END pair is put; the stream is declared finished.
LEMMA EndedTyped ==
    ASSUME Types, Shape, Own, NEW s \in Sides, Ended(s) \/ StreamEnd(s), UNCHANGED mixed
    PROVE  Types' /\ Shape' /\ Own'
<1> USE Actors
<1>1. QueueTypes' /\ CountTypes'
  BY TypesKept DEF Types, Ended, StreamEnd
<1>2. UNCHANGED <<counter, pair, side>>
  BY DEF Ended, StreamEnd, countVars, queueVars, appVars
<1>3. SideTypes'
  <2>1. /\ Unlock(s) \/ UNCHANGED lock
        /\ UNCHANGED <<pending, running, thread, left, over, non_user, demuxers_running>>
    BY DEF Ended, StreamEnd, demuxVars
  <2>2. lock' \in [Sides -> Senders]
    BY <2>1, Unlocks DEF Types, SideTypes
  <2> QED
    BY <2>1, <2>2 DEF Types, SideTypes
<1>4. StreamTypes'
  <2>1. UNCHANGED <<streamVars, brakeVars, appVars, mixed>>
          \/ /\ status' = "stop"
             /\ finished_naturally' = (finished_naturally \/ non_user[s])
             /\ UNCHANGED <<gapless_switch, brakeVars, appVars, mixed>>
    BY DEF Ended, StreamEnd
  <2>2. finished_naturally' \in BOOLEAN
    BY <2>1 DEF Types, StreamTypes, streamVars
  <2> QED
    BY <2>1, <2>2 DEF Types, StreamTypes, streamVars, brakeVars, appVars
<1>5. /\ "ended" \in DemuxSteps /\ "end_wait" \in DemuxSteps /\ "finished" \in DemuxSteps /\ "off" \in DemuxSteps
      /\ HasLoop("ended") /\ ~HasLoop("end_wait") /\ ~HasLoop("off")
  BY DEF DemuxSteps, HasLoop, LoopSteps, FlushSteps, PairSteps, AllocSteps, PutSteps, SyncSteps
<1>6. CASE Ended(s)
  <2>1. Unlock(s) /\ At(s, "ended")
    BY <1>6 DEF Ended
  <2>2. lock[s] = s
    BY <1>5, <2>1, LoopAt DEF At
  <2>3. \A r \in Sides : r # s => lock'[r] = lock[r]
    BY <2>1, Unlocks
  <2> QED
    BY <1>1, <1>2, <1>3, <1>4, <1>5, <1>6, <2>2, <2>3, LoopGoes DEF Types, Ended
<1>7. CASE StreamEnd(s)
  <2>1. UNCHANGED lock
    BY <1>7 DEF StreamEnd, demuxVars
  <2> QED
    BY <1>1, <1>2, <1>3, <1>4, <1>5, <1>7, <2>1, LoopGoes DEF Types, StreamEnd
<1> QED
  BY <1>6, <1>7

\* A demuxer waits for its END.
LEMMA EndWaitTyped ==
    ASSUME Types, Shape, Own, NEW s \in Sides, EndWait(s), UNCHANGED mixed
    PROVE  Types' /\ Shape' /\ Own'
<1> USE Actors
<1>1. QueueTypes' /\ StreamTypes' /\ SideTypes'
  BY TypesKept DEF Types, EndWait
<1>2. CountTypes'
  BY DEF Types, CountTypes, EndWait
<1>3. UNCHANGED <<counter, pair, side, lock>>
  BY DEF EndWait, countVars, queueVars, demuxVars, appVars
<1>4. /\ "end_wait" \in DemuxSteps /\ "finished" \in DemuxSteps /\ ~HasLoop("finished")
  BY DEF DemuxSteps, HasLoop, LoopSteps, FlushSteps, PairSteps, AllocSteps, PutSteps, SyncSteps
<1>5. CASE Go(s, "finished")
  BY <1>1, <1>2, <1>3, <1>4, <1>5, LoopGoes DEF Types, EndWait
<1>6. CASE UNCHANGED callVars
  <2>1. CallTypes' /\ Shape'
    BY <1>6, TypesKept DEF Types
  <2>2. UNCHANGED <<pc, job, back>>
    BY <1>6 DEF callVars
  <2>3. CounterOwned' /\ PairOwned' /\ LoopsLocked'
    BY <1>3, <2>2 DEF Own, CounterOwned, PairOwned, LoopsLocked
  <2>4. AppLocks'
    BY <1>3, <2>2, AppLocksKept DEF Own
  <2> QED
    BY <1>1, <1>2, <2>1, <2>3, <2>4 DEF Types, Own
<1> QED
  BY <1>5, <1>6 DEF EndWait

CallSteps == FlushSteps \cup PairSteps \cup SyncSteps

\* A return keeps the application's locks in order,
LEMMA ReturnKeeps ==
    ASSUME NEW b \in FlushBacks(App) \cup HeadersBacks(App) \cup EndBacks(App) \cup {<<"idle">>, <<"open">>}
    PROVE  /\ Head(b) = "seek" \/ Tail(b) \in SeekBacks => b \in SeekBacks
           /\ Head(b) = "stop_unlock" \/ Tail(b) \in StopBacks => b \in StopBacks
           /\ Head(b) \in {"stop_unlock", "seek", "flushed", "opened", "stop_side", "idle", "open"}
<1> DEFINE Good(c) ==
             /\ Head(c) = "seek" \/ Tail(c) \in SeekBacks => c \in SeekBacks
             /\ Head(c) = "stop_unlock" \/ Tail(c) \in StopBacks => c \in StopBacks
             /\ Head(c) \in {"stop_unlock", "seek", "flushed", "opened", "stop_side", "idle", "open"}
<1>1. Good(<<"seek">>) /\ Good(<<"flushed", "seek">>) /\ Good(<<"opened">>)
  <2>1. /\ Head(<<"seek">>) = "seek" /\ Tail(<<"seek">>) = <<>>
        /\ Head(<<"flushed", "seek">>) = "flushed" /\ Tail(<<"flushed", "seek">>) = <<"seek">>
        /\ Head(<<"opened">>) = "opened" /\ Tail(<<"opened">>) = <<>>
    BY Tuples
  <2> QED
    BY <2>1 DEF SeekBacks, StopBacks
<1>2. ASSUME NEW x \in {"idle", "open"}
      PROVE  Good(<<"stop_unlock", x>>) /\ Good(<<"flushed", "stop_unlock", x>>)
             /\ Good(<<"stop_side", x>>) /\ Good(<<x>>)
  <2> DEFINE u == "stop_unlock"
             v == "flushed"
             w == "stop_side"
  <2>1. v # u /\ w # u /\ x # u /\ v # "seek" /\ u # "seek" /\ w # "seek" /\ x # "seek"
    OBVIOUS
  <2> HIDE DEF u, v, w
  <2>2. /\ Head(<<u, x>>) = u /\ Tail(<<u, x>>) = <<x>>
        /\ Head(<<v, u, x>>) = v /\ Tail(<<v, u, x>>) = <<u, x>>
        /\ Head(<<w, x>>) = w /\ Tail(<<w, x>>) = <<x>>
        /\ Head(<<x>>) = x /\ Tail(<<x>>) = <<>>
    BY Tuples
  <2>3. <<u, x>> \in StopBacks /\ <<v, u, x>> \in StopBacks
    BY DEF StopBacks, u, v
  <2>4. <<x>> \notin SeekBacks /\ <<u, x>> \notin SeekBacks /\ <<>> \notin SeekBacks
    BY <2>1 DEF SeekBacks
  <2>5. <<x>> \notin StopBacks /\ <<>> \notin StopBacks
    BY DEF StopBacks
  <2>6. Good(<<u, x>>)
    BY <2>1, <2>2, <2>3, <2>4, <2>5 DEF u
  <2>7. Good(<<v, u, x>>)
    BY <2>1, <2>2, <2>3, <2>4 DEF v
  <2>8. Good(<<w, x>>)
    BY <2>1, <2>2, <2>4, <2>5 DEF w
  <2>9. Good(<<x>>)
    BY <2>1, <2>2, <2>4, <2>5 DEF u
  <2> QED
    BY <2>6, <2>7, <2>8, <2>9 DEF u, v, w
<1> HIDE DEF Good
<1>3. Good(b)
  BY <1>1, <1>2 DEF FlushBacks, HeadersBacks, EndBacks
<1> QED
  BY <1>3 DEF Good

\* and so does a call.
LEMMA SendKeeps ==
    ASSUME NEW b
    PROVE  /\ b \in FlushBacks(App) => /\ <<"flushed">> \o b \in SeekBacks => b \in SeekBacks
                                       /\ <<"flushed">> \o b \in StopBacks => b \in StopBacks
           /\ <<"opened">> \o <<>> \notin SeekBacks /\ <<"opened">> \o <<>> \notin StopBacks
<1>1. /\ <<"flushed">> \o <<"seek">> = <<"flushed", "seek">>
      /\ <<"flushed">> \o <<"stop_unlock", "idle">> = <<"flushed", "stop_unlock", "idle">>
      /\ <<"flushed">> \o <<"stop_unlock", "open">> = <<"flushed", "stop_unlock", "open">>
      /\ <<"opened">> \o <<>> = <<"opened">>
  BY Pushes
<1>2. <<"flushed", "seek">> \notin StopBacks
  BY DEF StopBacks
<1>3. ASSUME NEW x PROVE <<"flushed", "stop_unlock", x>> \notin SeekBacks
  BY DEF SeekBacks
<1>4. b \in FlushBacks(App) => \/ b = <<"seek">> /\ b \in SeekBacks
                               \/ b = <<"stop_unlock", "idle">> /\ b \in StopBacks
                               \/ b = <<"stop_unlock", "open">> /\ b \in StopBacks
  BY DEF FlushBacks, SeekBacks, StopBacks
<1>5. <<"opened">> \notin SeekBacks /\ <<"opened">> \notin StopBacks
  BY DEF SeekBacks, StopBacks
<1> QED
  BY <1>1, <1>2, <1>3, <1>4, <1>5

\* Only t gets, or lets go, counter.lock or demux.pair.
LEMMA OwnedBy ==
    ASSUME Own, NEW t \in Threads,
           \A u \in Threads : u # t => pc'[u] = pc[u] /\ job'[u] = job[u],
           \A u \in Threads : counter' = u <=> (IF u = t THEN PutsHeaders(pc'[t], job'[t]) ELSE counter = u),
           \A u \in Threads : pair' = u <=> (IF u = t THEN HasPair(pc'[t]) ELSE pair = u)
    PROVE  CounterOwned' /\ PairOwned'
<1>1. CounterOwned'
  <2>1. \A u \in Threads : counter' = u <=> PutsHeaders(pc'[u], job'[u])
    BY DEF Own, CounterOwned
  <2> QED
    BY <2>1 DEF CounterOwned
<1>2. PairOwned'
  <2>1. \A u \in Threads : pair' = u <=> HasPair(pc'[u])
    BY DEF Own, PairOwned
  <2> QED
    BY <2>1 DEF PairOwned
<1> QED
  BY <1>1, <1>2

\* A step within a call: the locks of the demuxers stay as they are.
LEMMA CallGoes ==
    ASSUME CallTypes, Shape, Own, NEW t \in Threads, NEW p \in CallSteps, NEW step \in CallSteps,
           At(t, p), Go(t, step), Within(t, p, step, job[t]), UNCHANGED <<lock, side>>,
           \A u \in Threads : counter' = u <=> (IF u = t THEN PutsHeaders(step, job[t]) ELSE counter = u),
           \A u \in Threads : pair' = u <=> (IF u = t THEN HasPair(step) ELSE pair = u)
    PROVE  /\ CallTypes' /\ Shape' /\ Own'
           /\ pc'[t] = step
           /\ \A u \in Threads : u # t => pc'[u] = pc[u]
           /\ job' = job /\ back' = back
<1> USE Actors
<1>1. /\ CallTypes' /\ Shape'
      /\ pc'[t] = step
      /\ \A u \in Threads : u # t => pc'[u] = pc[u]
      /\ job' = job /\ back' = back
  BY Went
<1>2. CounterOwned' /\ PairOwned'
  BY <1>1, OwnedBy
<1>3. HasLoop(p)
  BY DEF CallSteps, HasLoop
<1>4. LoopsLocked'
  BY <1>1, <1>3 DEF Own, LoopsLocked, At
<1>5. AppLocks'
  <2>1. CASE t # App
    BY <1>1, <2>1, AppLocksKept DEF Own
  <2>2. CASE t = App
    <3>1. pc[App] = p /\ pc'[App] = step /\ back' = back
      BY <1>1, <2>2 DEF At
    <3>2. \A q \in CallSteps : q \notin {"seek", "stop_unlock", "stop_lock", "play_video", "play_audio",
                                         "play_lock", "go_on", "start"}
      BY DEF CallSteps, FlushSteps, PairSteps, AllocSteps, PutSteps, SyncSteps
    <3>3. (Seeking' => Seeking) /\ (Stopping' => Stopping)
      BY <3>1, <3>2 DEF Seeking, Stopping
    <3> QED
      BY <3>1, <3>2, <3>3 DEF Own, AppLocks
  <2> QED
    BY <2>1, <2>2
<1> QED
  BY <1>1, <1>2, <1>4, <1>5 DEF Own

\* A return, from a call or from stopping the demuxers.
LEMMA CallReturns ==
    ASSUME CallTypes, Shape, Own, NEW t \in Threads, Return(t),
           \/ pc[t] \in FlushSteps
           \/ pc[t] \in PairSteps \cup SyncSteps /\ job[t] = "headers"
           \/ pc[t] \in PutSteps
           \/ t = App /\ pc[t] \in StopSteps,
           UNCHANGED <<lock, side>>,
           \A u \in Threads : counter' = u <=> u # t /\ counter = u,
           \A u \in Threads : pair' = u <=> u # t /\ pair = u
    PROVE  /\ CallTypes' /\ Shape' /\ Own'
           /\ \A u \in Threads : u # t => pc'[u] = pc[u]
           /\ job' = job
           /\ pc[t] \in FlushSteps => pc'[t] \in {"stop_unlock", "seek", "check"}
           /\ pc[t] \in PairSteps \cup SyncSteps /\ job[t] = "headers" => pc'[t] \in {"flushed", "opened"}
           /\ pc[t] \in PutSteps /\ job[t] = "end" =>
                IF t = App THEN pc'[t] = "stop_side" ELSE pc'[t] = "ended"
           /\ pc[t] \in PutSteps /\ job[t] = "nop" => pc'[t] = "drain"
           /\ pc[t] \in StopSteps => pc'[t] \in {"idle", "open"}
<1> USE Actors
<1> DEFINE b == back[t]
<1>1. job[t] \in Jobs /\ WellFormed(t, pc[t], job[t], b)
  BY DEF CallTypes, Shape
<1>2. /\ CallTypes' /\ Shape'
      /\ \A u \in Threads : u # t => pc'[u] = pc[u]
      /\ job' = job
      /\ pc[t] \in FlushSteps => pc'[t] \in {"stop_unlock", "seek", "check"}
      /\ pc[t] \in PairSteps \cup SyncSteps /\ job[t] = "headers" => pc'[t] \in {"flushed", "opened"}
      /\ pc[t] \in PutSteps /\ job[t] = "end" =>
           IF t = App THEN pc'[t] = "stop_side" ELSE pc'[t] = "ended"
      /\ pc[t] \in PutSteps /\ job[t] = "nop" => pc'[t] = "drain"
      /\ t = App /\ pc[t] \in StopSteps => pc'[t] \in {"idle", "open"}
  <2>1. pc[t] \in PutSteps => pc[t] \in PairSteps \cup SyncSteps
    BY DEF PairSteps
  <2>2. job[t] = "headers" \/ job[t] = "end" \/ job[t] = "nop"
    BY <1>1 DEF Jobs
  <2> QED
    BY <2>1, <2>2, Returned
<1>3. pc[t] \in StopSteps => t = App
  BY <1>1 DEF WellFormed, StopSteps, DemuxSteps, FlushSteps, PairSteps, AllocSteps, PutSteps, SyncSteps
<1>4. pc'[t] \in {"stop_unlock", "seek", "check", "flushed", "opened", "stop_side", "ended", "drain",
                  "idle", "open"}
  <2>1. pc[t] \in PutSteps => pc[t] \in PairSteps \cup SyncSteps
    BY DEF PairSteps
  <2>2. job[t] = "headers" \/ job[t] = "end" \/ job[t] = "nop"
    BY <1>1 DEF Jobs
  <2> QED
    BY <1>2, <2>1, <2>2
<1>5. ~PutsHeaders(pc'[t], job'[t]) /\ ~HasPair(pc'[t])
  BY <1>4 DEF PutsHeaders, HasPair, PutSteps
<1>6. CounterOwned' /\ PairOwned'
  <2>1. /\ \A u \in Threads : counter' = u <=> (IF u = t THEN PutsHeaders(pc'[t], job'[t]) ELSE counter = u)
        /\ \A u \in Threads : pair' = u <=> (IF u = t THEN HasPair(pc'[t]) ELSE pair = u)
        /\ \A u \in Threads : u # t => pc'[u] = pc[u] /\ job'[u] = job[u]
    BY <1>2, <1>5
  <2> QED
    BY <2>1, OwnedBy
<1>7. t # App => HasLoop(pc[t])
  BY DEF HasLoop, PairSteps
<1>8. LoopsLocked'
  BY <1>2, <1>7 DEF Own, LoopsLocked
<1>9. AppLocks'
  <2>1. CASE t # App
    <3>1. back'[App] = back[App]
      BY <2>1 DEF Return, CallTypes
    <3> QED
      BY <1>2, <2>1, <3>1, AppLocksKept DEF Own
  <2>2. CASE t = App
    <3>1. b \in FlushBacks(App) \cup HeadersBacks(App) \cup EndBacks(App) \cup {<<"idle">>, <<"open">>}
      BY <1>1, <2>2 DEF WellFormed, FlushSteps, DemuxSteps, AppSteps, StopSteps, AllocSteps, PutSteps,
              PairSteps, SyncSteps
    <3>2. pc'[App] = Head(b) /\ back'[App] = Tail(b) /\ b = back[App]
      BY <2>2 DEF Return, CallTypes
    <3> HIDE DEF b
    <3>3. (Seeking' => b \in SeekBacks) /\ (Stopping' => b \in StopBacks)
          /\ pc'[App] \in {"stop_unlock", "seek", "flushed", "opened", "stop_side", "idle", "open"}
      <4>1. /\ Head(b) = "seek" \/ Tail(b) \in SeekBacks => b \in SeekBacks
            /\ Head(b) = "stop_unlock" \/ Tail(b) \in StopBacks => b \in StopBacks
            /\ Head(b) \in {"stop_unlock", "seek", "flushed", "opened", "stop_side", "idle", "open"}
        BY <3>1, ReturnKeeps
      <4>2. Seeking' => b \in SeekBacks
        BY <3>2, <4>1 DEF Seeking
      <4>3. Stopping' => b \in StopBacks
        BY <3>2, <4>1 DEF Stopping
      <4> QED
        BY <3>2, <4>1, <4>2, <4>3
    <3>4. (Seeking' => Seeking) /\ (Stopping' => Stopping)
      BY <3>2, <3>3 DEF Seeking, Stopping
    <3> QED
      BY <3>3, <3>4 DEF Own, AppLocks
  <2> QED
    BY <2>1, <2>2
<1> QED
  BY <1>2, <1>3, <1>6, <1>8, <1>9 DEF Own

\* Who has counter.lock, and who demux.pair.
LEMMA OwnAt ==
    ASSUME Own
    PROVE  /\ \A u \in Threads : counter = u <=> PutsHeaders(pc[u], job[u])
           /\ \A u \in Threads : pair = u <=> HasPair(pc[u])
  BY DEF Own, CounterOwned, PairOwned

\* The buffers that are put.
LEMMA PutItemTyped ==
    ASSUME Types, NEW t \in Threads
    PROVE  Item(job[t], t) \in Items /\ Item("reset", t) \in Items /\ Item(job[t], t).kind = job[t]
           /\ Item(job[t], t).by = t
<1>1. job[t] \in Kinds /\ t \in Senders /\ "reset" \in Kinds
  BY Actors DEF Types, CallTypes, Jobs, Kinds
<1> QED
  BY <1>1, ItemTyped

\* A pair is put.
LEMMA PairTyped ==
    ASSUME Types, Shape, Own, NEW t \in Threads, PairStep(t)
    PROVE  Types' /\ Shape' /\ Own'
<1> USE Actors
<1>1. SideTypes'
  BY TypesKept DEF Types, PairStep
<1>2. StreamTypes'
  <2>1. mixed' = mixed \/ mixed' = mixed \cup {"headers"}
    BY DEF PairStep, Count, Mix
  <2> QED
    BY <2>1 DEF Types, StreamTypes, PairStep, streamVars, brakeVars, appVars
<1>3. UNCHANGED <<lock, side>>
  BY DEF PairStep, demuxVars, appVars
<1>4. /\ \A u \in Threads : counter = u <=> PutsHeaders(pc[u], job[u])
      /\ \A u \in Threads : pair = u <=> HasPair(pc[u])
  BY OwnAt
<1>5. /\ "alloc_video" \in CallSteps /\ "alloc_audio" \in CallSteps /\ "count" \in CallSteps
      /\ "put_video" \in CallSteps /\ "put_audio" \in CallSteps /\ "sync" \in CallSteps
  BY DEF CallSteps, FlushSteps, PairSteps, AllocSteps, PutSteps, SyncSteps
<1>6. /\ ~HasPair("alloc_video") /\ ~HasPair("alloc_audio") /\ ~HasPair("count") /\ ~HasPair("put_video")
      /\ HasPair("put_audio") /\ ~HasPair("sync")
  BY DEF HasPair
<1>7. \A j : /\ ~PutsHeaders("alloc_video", j) /\ ~PutsHeaders("alloc_audio", j) /\ ~PutsHeaders("count", j)
             /\ PutsHeaders("put_video", j) <=> j = "headers"
             /\ PutsHeaders("put_audio", j) <=> j = "headers"
             /\ PutsHeaders("sync", j)
  BY DEF PutsHeaders, PutSteps
<1>8. \A j : /\ Within(t, "alloc_video", "alloc_audio", j)
             /\ j = "headers" => Within(t, "alloc_audio", "count", j)
             /\ Within(t, "alloc_audio", "put_video", j)
             /\ Within(t, "put_video", "put_audio", j)
             /\ j = "headers" => Within(t, "put_audio", "sync", j)
             /\ j = "headers" => Within(t, "count", "put_video", j)
  BY DEF Within, PairSteps, AllocSteps, PutSteps, SyncSteps
<1>9. CASE AllocVideo(t)
  <2>1. At(t, "alloc_video") /\ Go(t, "alloc_audio") /\ UNCHANGED <<counter, pair>>
    BY <1>9 DEF AllocVideo, countVars
  <2>2. CallTypes' /\ Shape' /\ Own'
    <3>1. /\ \A u \in Threads : counter' = u <=> (IF u = t THEN PutsHeaders("alloc_audio", job[t]) ELSE counter = u)
          /\ \A u \in Threads : pair' = u <=> (IF u = t THEN HasPair("alloc_audio") ELSE pair = u)
      BY <1>4, <1>6, <1>7, <2>1 DEF At
    <3> QED
      BY <1>3, <1>5, <1>8, <2>1, <3>1, CallGoes DEF Types
  <2>3. QueueTypes' /\ CountTypes'
    BY <1>9, TypesKept DEF Types, QueueTypes, AllocVideo, Took, PairStep
  <2> QED
    BY <1>1, <1>2, <2>2, <2>3 DEF Types
<1>10. CASE AllocAudio(t)
  <2>1. PICK step : /\ step \in {"count", "put_video"} /\ (step = "count" <=> job[t] = "headers")
                    /\ At(t, "alloc_audio") /\ Go(t, step) /\ UNCHANGED <<counter, pair>>
    BY <1>10 DEF AllocAudio, countVars
  <2>2. CallTypes' /\ Shape' /\ Own'
    <3>1. /\ \A u \in Threads : counter' = u <=> (IF u = t THEN PutsHeaders(step, job[t]) ELSE counter = u)
          /\ \A u \in Threads : pair' = u <=> (IF u = t THEN HasPair(step) ELSE pair = u)
      BY <1>4, <1>6, <1>7, <2>1 DEF At
    <3>2. step \in CallSteps /\ Within(t, "alloc_audio", step, job[t])
      BY <1>5, <1>8, <2>1
    <3> QED
      BY <1>3, <1>5, <2>1, <3>1, <3>2, CallGoes DEF Types
  <2>3. QueueTypes' /\ CountTypes'
    BY <1>10, TypesKept DEF Types, QueueTypes, AllocAudio, Took, PairStep
  <2> QED
    BY <1>1, <1>2, <2>2, <2>3 DEF Types
<1>11. CASE PutVideo(t)
  <2>1. At(t, "put_video") /\ Go(t, "put_audio") /\ UNCHANGED counter /\ pair = Nobody /\ pair' = t
    BY <1>11 DEF PutVideo, countVars, PairFree
  <2>2. CallTypes' /\ Shape' /\ Own'
    <3>1. /\ \A u \in Threads : counter' = u <=> (IF u = t THEN PutsHeaders("put_audio", job[t]) ELSE counter = u)
          /\ \A u \in Threads : pair' = u <=> (IF u = t THEN HasPair("put_audio") ELSE pair = u)
      BY <1>4, <1>6, <1>7, <2>1 DEF At
    <3> QED
      BY <1>3, <1>5, <1>8, <2>1, <3>1, CallGoes DEF Types
  <2>3. CountTypes'
    BY <1>11, TypesKept DEF Types, PutVideo
  <2>4. QueueTypes'
    <3>1. Put(Video, Item(job[t], t))
      BY <1>11 DEF PutVideo
    <3>2. fifo' \in [Fifos -> Seq(Items)]
      BY <3>1, PutTyped, PutItemTyped DEF Types
    <3> QED
      BY <1>11, <2>1, <3>2 DEF Types, QueueTypes, PutVideo, PairStep
  <2> QED
    BY <1>1, <1>2, <2>2, <2>3, <2>4 DEF Types
<1>12. CASE PutAudio(t)
  <2>1. At(t, "put_audio") /\ UNCHANGED counter /\ pair' = Nobody
    BY <1>12 DEF PutAudio, countVars
  <2>2. CountTypes'
    BY <1>12, TypesKept DEF Types, PutAudio
  <2>3. QueueTypes'
    <3>1. Put(Audio, Item(job[t], t))
      BY <1>12 DEF PutAudio
    <3>2. fifo' \in [Fifos -> Seq(Items)]
      BY <3>1, PutTyped, PutItemTyped DEF Types
    <3> QED
      BY <1>12, <2>1, <3>2 DEF Types, QueueTypes, PutAudio, PairStep
  <2>4. pair = t
    BY <1>4, <1>6, <2>1 DEF At
  <2>5. CASE job[t] = "headers" /\ Go(t, "sync")
    <3>1. /\ \A u \in Threads : counter' = u <=> (IF u = t THEN PutsHeaders("sync", job[t]) ELSE counter = u)
          /\ \A u \in Threads : pair' = u <=> (IF u = t THEN HasPair("sync") ELSE pair = u)
      BY <1>4, <1>6, <1>7, <2>1, <2>4, <2>5 DEF At
    <3>2. CallTypes' /\ Shape' /\ Own'
      BY <1>3, <1>5, <1>8, <2>1, <2>5, <3>1, CallGoes DEF Types
    <3> QED
      BY <1>1, <1>2, <2>2, <2>3, <3>2 DEF Types
  <2>6. CASE job[t] # "headers" /\ Return(t)
    <3>1. /\ \A u \in Threads : counter' = u <=> u # t /\ counter = u
          /\ \A u \in Threads : pair' = u <=> u # t /\ pair = u
      BY <1>4, <1>7, <2>1, <2>4, <2>6 DEF At
    <3>2. pc[t] \in PutSteps
      BY <2>1 DEF At, PutSteps
    <3>3. CallTypes' /\ Shape' /\ Own'
      BY <1>3, <2>6, <3>1, <3>2, CallReturns DEF Types
    <3> QED
      BY <1>1, <1>2, <2>2, <2>3, <3>3 DEF Types
  <2> QED
    BY <1>12, <2>5, <2>6 DEF PutAudio
<1>13. CASE Count(t)
  <2>1. At(t, "count") /\ Go(t, "put_video") /\ counter = Nobody /\ counter' = t /\ UNCHANGED pair
    BY <1>13 DEF Count, queueVars
  <2>2. job[t] = "headers"
    <3>1. WellFormed(t, "count", job[t], back[t])
      BY <2>1 DEF At, Shape
    <3> QED
      BY <3>1 DEF WellFormed, FlushSteps, DemuxSteps, AppSteps, StopSteps, AllocSteps, PutSteps
  <2>3. CallTypes' /\ Shape' /\ Own'
    <3>1. /\ \A u \in Threads : counter' = u <=> (IF u = t THEN PutsHeaders("put_video", job[t]) ELSE counter = u)
          /\ \A u \in Threads : pair' = u <=> (IF u = t THEN HasPair("put_video") ELSE pair = u)
      BY <1>4, <1>6, <1>7, <2>1, <2>2 DEF At
    <3> QED
      BY <1>3, <1>5, <1>8, <2>1, <2>2, <3>1, CallGoes DEF Types
  <2>4. QueueTypes'
    BY <1>13, TypesKept DEF Types, Count, PairStep
  <2>5. CountTypes'
    <3>1. headers \in [Fifos -> Nat] /\ CountTypes /\ target' = [target EXCEPT ![t] = Goal(headers)]
      BY <1>13 DEF Types, CountTypes, Count
    <3>2. target' \in [Threads -> [Fifos -> Nat]]
      BY <3>1, GoalTyped
    <3> QED
      BY <1>13, <2>1, <3>1, <3>2 DEF CountTypes, Count
  <2> QED
    BY <1>1, <1>2, <2>3, <2>4, <2>5 DEF Types
<1> QED
  BY <1>9, <1>10, <1>11, <1>12, <1>13 DEF PairStep

\* What Lower does.
LEMMA Lowers ==
    ASSUME Types, NEW s \in Sides, Lower(s)
    PROVE  pending' \in [Sides -> Int]
  BY DEF Types, SideTypes, Lower

\* A return from "sync" or "sync wait", with counter.lock let go.
LEMMA SyncReturns ==
    ASSUME CallTypes, Shape, Own, NEW t \in Threads, pc[t] \in SyncSteps, Return(t),
           UNCHANGED <<lock, side, pair>>,
           counter = t \/ counter = Nobody, counter' = Nobody
    PROVE  /\ CallTypes' /\ Shape' /\ Own'
           /\ \A u \in Threads : u # t => pc'[u] = pc[u]
           /\ job' = job
           /\ pc'[t] \in {"flushed", "opened"}
<1> USE Actors
<1>1. job[t] = "headers" /\ pc[t] \in PairSteps \cup SyncSteps
  <2>1. WellFormed(t, pc[t], job[t], back[t])
    BY DEF Shape
  <2> QED
    BY <2>1 DEF WellFormed, FlushSteps, DemuxSteps, AppSteps, StopSteps, AllocSteps, PutSteps, SyncSteps
<1>2. /\ \A u \in Threads : counter' = u <=> u # t /\ counter = u
      /\ \A u \in Threads : pair' = u <=> u # t /\ pair = u
  <2>1. ~HasPair(pc[t])
    BY DEF HasPair, SyncSteps
  <2>2. pair # t
    BY <2>1, OwnAt
  <2> QED
    BY <2>2
<1> QED
  BY <1>1, <1>2, CallReturns

\* A thread looks at the counts of HEADERS_DONE.
LEMMA SyncTyped ==
    ASSUME Types, Shape, Own, NEW t \in Threads, Sync(t), UNCHANGED mixed
    PROVE  Types' /\ Shape' /\ Own'
<1> USE Actors
<1>1. QueueTypes' /\ StreamTypes'
  BY TypesKept DEF Types, Sync
<1>2. CountTypes'
  BY DEF Types, CountTypes, Sync, SyncDone
<1>3. SideTypes'
  <2>1. /\ Lower(1) \/ UNCHANGED pending
        /\ UNCHANGED <<lock, running, thread, left, over, non_user, demuxers_running>>
    BY DEF Sync, SyncDone
  <2> QED
    BY <2>1, Lowers DEF Types, SideTypes
<1>4. UNCHANGED <<lock, side, pair>> /\ counter' = Nobody
  BY DEF Sync, SyncDone, queueVars, appVars
<1>5. PICK p : p \in SyncSteps /\ At(t, p) /\ (p = "sync_wait" => counter = Nobody)
               /\ (p = "sync" => counter = t)
  <2>1. At(t, "sync") => counter = t
    BY OwnAt DEF At, PutsHeaders
  <2> QED
    BY <2>1 DEF Sync, SyncSteps
<1>6. counter = t \/ counter = Nobody
  BY <1>5 DEF SyncSteps
<1>7. CASE Return(t)
  BY <1>1, <1>2, <1>3, <1>4, <1>5, <1>6, <1>7, SyncReturns DEF Types, At
<1>8. CASE Go(t, "sync_wait")
  <2>1. /\ \A j : ~PutsHeaders("sync_wait", j)
        /\ ~HasPair("sync_wait") /\ ~HasPair(p)
    BY <1>5 DEF PutsHeaders, HasPair, PutSteps, SyncSteps
  <2>2. /\ \A u \in Threads : counter' = u <=> (IF u = t THEN PutsHeaders("sync_wait", job[t]) ELSE counter = u)
        /\ \A u \in Threads : pair' = u <=> (IF u = t THEN HasPair("sync_wait") ELSE pair = u)
    BY <1>4, <1>5, <1>6, <2>1, OwnAt DEF At
  <2>3. p \in CallSteps /\ "sync_wait" \in CallSteps
    BY <1>5 DEF CallSteps, SyncSteps
  <2>4. Within(t, p, "sync_wait", job[t])
    <3>1. WellFormed(t, p, job[t], back[t])
      BY <1>5 DEF Shape, At
    <3>2. job[t] = "headers"
      BY <1>5, <3>1 DEF WellFormed, FlushSteps, DemuxSteps, AppSteps, StopSteps, AllocSteps, PutSteps, SyncSteps
    <3> QED
      BY <1>5, <3>2 DEF Within, SyncSteps
  <2>5. CallTypes' /\ Shape' /\ Own'
    BY <1>4, <1>5, <1>8, <2>2, <2>3, <2>4, CallGoes DEF Types
  <2> QED
    BY <1>1, <1>2, <1>3, <2>5 DEF Types
<1> QED
  BY <1>7, <1>8 DEF Sync, SyncDone

\* Where those who sleep are, and what a dummy fifo holds.
Asleep ==
    /\ \A t \in Threads : t \in asleep => pc[t] \in {"sync_wait", "end_wait"}
    /\ \A f \in Fifos : f \in asleep => f \in created /\ hand[f].kind = "barrier"

Dummies ==
    \A f \in Fifos : f \notin created =>
        hand[f] = NoItem /\ fifo[f] = <<>> /\ \A t \in Threads : target[t][f] = 0

\* The emergency exit.
LEMMA EmergencyTyped ==
    ASSUME Types, Shape, Own, Asleep, NEW t \in Threads, Emergency(t), UNCHANGED mixed
    PROVE  Types' /\ Shape' /\ Own'
<1> USE Actors
<1>1. QueueTypes'
  BY TypesKept DEF Types, Emergency
<1>2. StreamTypes'
  BY DEF Types, StreamTypes, Emergency, streamVars, appVars
<1>3. CountTypes'
  BY DEF Types, CountTypes, Emergency
<1>4. SideTypes'
  <2>1. /\ Lower(1) \/ UNCHANGED pending
        /\ UNCHANGED <<lock, running, thread, left, over, non_user, demuxers_running>>
    BY DEF Emergency
  <2> QED
    BY <2>1, Lowers DEF Types, SideTypes
<1>5. UNCHANGED <<lock, side, pair, counter>> /\ counter = Nobody
  BY DEF Emergency, queueVars, appVars
<1>6. pc[t] \in {"sync_wait", "end_wait"}
  BY DEF Emergency, Asleep
<1>7. CASE pc[t] = "sync_wait"
  <2>1. Return(t) /\ pc[t] \in SyncSteps
    BY <1>7 DEF Emergency, At, SyncSteps
  <2> QED
    BY <1>1, <1>2, <1>3, <1>4, <1>5, <2>1, SyncReturns DEF Types
<1>8. CASE pc[t] = "end_wait"
  <2>1. Go(t, "finished") /\ At(t, "end_wait")
    BY <1>8 DEF Emergency, At
  <2>2. t \in Sides
    <3>1. WellFormed(t, pc[t], job[t], back[t])
      BY DEF Shape
    <3>2. t # App
      BY <1>8, <3>1 DEF WellFormed, FlushSteps, AppSteps, StopSteps, PairSteps, AllocSteps, PutSteps, SyncSteps
    <3> QED
      BY <3>2
  <2>3. "end_wait" \in DemuxSteps /\ "finished" \in DemuxSteps /\ ~HasLoop("finished")
    BY DEF DemuxSteps, HasLoop, LoopSteps, FlushSteps, PairSteps, AllocSteps, PutSteps, SyncSteps
  <2>4. CallTypes' /\ Shape' /\ Own'
    BY <1>5, <2>1, <2>2, <2>3, LoopGoes DEF Types
  <2> QED
    BY <1>1, <1>2, <1>3, <1>4, <2>4 DEF Types
<1> QED
  BY <1>6, <1>7, <1>8

\* A jump of an input plugin.
LEMMA JumpTyped ==
    ASSUME Types, Shape, Own, NEW s \in Sides, Jump(s), UNCHANGED mixed
    PROVE  Types' /\ Shape' /\ Own'
<1> USE Actors
<1>1. QueueTypes' /\ CountTypes' /\ SideTypes'
  BY TypesKept DEF Types, Jump
<1>2. StreamTypes'
  BY DEF Types, StreamTypes, Jump, streamVars, brakeVars
<1>3. UNCHANGED <<counter, pair, side, lock, job>> /\ pc[s] = "chunk" /\ job' = job
  BY DEF Jump, At, countVars, queueVars, demuxVars
<1>4. Moves(s, "flush", job[s], <<"check">>)
  BY DEF Types, CallTypes, Jump, Moves
<1>5. <<"check">> \in FlushBacks(s)
  BY DEF FlushBacks
<1>6. /\ CallTypes' /\ Shape'
      /\ pc'[s] = "flush"
      /\ \A u \in Threads : u # s => pc'[u] = pc[u]
  BY <1>4, <1>5, Flushes DEF Types
<1>7. \A u \in Threads : u # s => back'[u] = back[u]
  BY DEF Types, CallTypes, Jump
<1>8. Own'
  BY <1>3, <1>6, <1>7, LoopCalls DEF LoopSteps
<1> QED
  BY <1>1, <1>2, <1>6, <1>8 DEF Types

\* The steps of the flush.
LEMMA FlushTyped ==
    ASSUME Types, Shape, Own, NEW t \in Threads, Flush(t), UNCHANGED mixed
    PROVE  Types' /\ Shape' /\ Own'
<1> USE Actors
<1>1. StreamTypes' /\ CountTypes'
  BY TypesKept DEF Types, Flush
<1>2. SideTypes'
  <2>1. /\ UNCHANGED pending \/ pending' = [pending EXCEPT ![1] = @ + 1]
        /\ UNCHANGED <<lock, running, thread, left, over, non_user, demuxers_running>>
    BY DEF Flush, FlushBegin, FlushClear, FlushReset, FlushEnd, HeadersDone
  <2> QED
    BY <2>1 DEF Types, SideTypes
<1>3. UNCHANGED <<lock, side, counter>>
  BY DEF Flush, countVars, appVars
<1>4. /\ \A u \in Threads : counter = u <=> PutsHeaders(pc[u], job[u])
      /\ \A u \in Threads : pair = u <=> HasPair(pc[u])
  BY OwnAt
<1>5. \A q \in FlushSteps : q \in CallSteps /\ \A j : ~PutsHeaders(q, j)
  BY DEF CallSteps, FlushSteps, PutsHeaders, PutSteps
<1>6. /\ "flush" \in FlushSteps /\ "clear_video" \in FlushSteps /\ "clear_audio" \in FlushSteps
      /\ "reset" \in FlushSteps /\ "reset_video" \in FlushSteps /\ "reset_audio" \in FlushSteps
      /\ "flushed" \in FlushSteps
  BY DEF FlushSteps
<1>7. /\ ~HasPair("flush") /\ ~HasPair("clear_video") /\ ~HasPair("clear_audio") /\ ~HasPair("reset")
      /\ HasPair("reset_video") /\ HasPair("reset_audio") /\ ~HasPair("flushed") /\ ~HasPair("alloc_video")
  BY DEF HasPair
<1>8. ASSUME NEW p \in FlushSteps, NEW step \in FlushSteps, At(t, p), Go(t, step),
             \/ UNCHANGED pair /\ (HasPair(p) <=> HasPair(step))
             \/ pair = Nobody /\ pair' = t /\ HasPair(step)
      PROVE  CallTypes' /\ Shape' /\ Own'
  <2>1. /\ \A u \in Threads : counter' = u <=> (IF u = t THEN PutsHeaders(step, job[t]) ELSE counter = u)
        /\ \A u \in Threads : pair' = u <=> (IF u = t THEN HasPair(step) ELSE pair = u)
    BY <1>3, <1>4, <1>5, <1>8 DEF At
  <2>2. Within(t, p, step, job[t]) /\ p \in CallSteps /\ step \in CallSteps
    BY <1>5 DEF Within
  <2> QED
    BY <1>3, <1>8, <2>1, <2>2, CallGoes DEF Types
<1>9. ASSUME NEW p \in FlushSteps, At(t, p), Return(t), UNCHANGED pair, ~HasPair(p)
      PROVE  CallTypes' /\ Shape' /\ Own'
  <2>1. /\ \A u \in Threads : counter' = u <=> u # t /\ counter = u
        /\ \A u \in Threads : pair' = u <=> u # t /\ pair = u
    BY <1>3, <1>4, <1>5, <1>9 DEF At
  <2>2. pc[t] \in FlushSteps
    BY <1>9 DEF At
  <2> QED
    BY <1>3, <1>9, <2>1, <2>2, CallReturns DEF Types
<1>10. QueueTypes'
  <2>1. /\ UNCHANGED <<created, hand, bufs>>
        /\ UNCHANGED pair \/ pair' \in {t, Nobody}
    BY DEF Flush, FlushBegin, FlushClear, FlushReset, FlushEnd, queueVars
  <2>2. \/ UNCHANGED fifo
        \/ \E f \in Fifos : Clear(f)
        \/ \E f \in Fifos : Put(f, Item("reset", t))
    BY DEF Flush, FlushBegin, FlushClear, FlushReset, FlushEnd, queueVars
  <2>3. fifo' \in [Fifos -> Seq(Items)]
    BY <2>2, PutTyped, ClearTyped, PutItemTyped DEF Types, QueueTypes
  <2> QED
    BY <2>1, <2>3 DEF Types, QueueTypes
<1>11. CASE FlushBegin(t) \/ FlushEnd(t)
  <2>1. UNCHANGED pair
    BY <1>11 DEF FlushBegin, FlushEnd, queueVars
  <2>2. \/ At(t, "flush") /\ Go(t, "clear_video")
        \/ At(t, "flush") /\ Return(t)
        \/ At(t, "flushed") /\ Return(t)
    BY <1>11 DEF FlushBegin, FlushEnd
  <2> QED
    BY <1>1, <1>2, <1>6, <1>7, <1>8, <1>9, <1>10, <2>1, <2>2 DEF Types
<1>12. CASE FlushClear(t)
  <2>1. UNCHANGED pair
    BY <1>12 DEF FlushClear
  <2>2. \/ At(t, "clear_video") /\ Go(t, "clear_audio")
        \/ At(t, "clear_audio") /\ Go(t, "reset")
    BY <1>12 DEF FlushClear
  <2> QED
    BY <1>1, <1>2, <1>6, <1>7, <1>8, <1>10, <2>1, <2>2 DEF Types
<1>13. CASE At(t, "reset") /\ pair = Nobody /\ pair' = t /\ Go(t, "reset_video")
  BY <1>1, <1>2, <1>6, <1>7, <1>8, <1>10, <1>13 DEF Types
<1>14. CASE At(t, "reset_video") /\ UNCHANGED pair /\ Go(t, "reset_audio")
  BY <1>1, <1>2, <1>6, <1>7, <1>8, <1>10, <1>14 DEF Types
<1>15. CASE At(t, "reset_audio") /\ pair' = Nobody /\ SendPair(t, "headers", "flushed")
  <2>1. pc[t] = "reset_audio" /\ pc[t] \in FlushSteps /\ "headers" \in Jobs
    BY <1>6, <1>15 DEF At, Jobs
  <2>2. /\ CallTypes' /\ Shape'
        /\ pc'[t] = "alloc_video" /\ job'[t] = "headers"
        /\ \A u \in Threads : u # t => pc'[u] = pc[u] /\ job'[u] = job[u]
    BY <1>15, <2>1, Sent DEF Types
  <2>3. CounterOwned' /\ PairOwned'
    <3>1. /\ \A u \in Threads : counter' = u <=> (IF u = t THEN PutsHeaders(pc'[t], job'[t]) ELSE counter = u)
          /\ \A u \in Threads : pair' = u <=> (IF u = t THEN HasPair(pc'[t]) ELSE pair = u)
      <4>1. ~PutsHeaders(pc'[t], job'[t]) /\ ~HasPair(pc'[t]) /\ counter # t /\ pair = t
        BY <1>4, <1>5, <1>7, <2>1, <2>2 DEF PutsHeaders, PutSteps
      <4> QED
        BY <1>3, <1>15, <4>1
    <3> QED
      BY <2>2, <3>1, OwnedBy
  <2>4. HasLoop(pc[t])
    BY <2>1 DEF HasLoop
  <2>5. LoopsLocked'
    BY <1>3, <2>2, <2>4 DEF Own, LoopsLocked
  <2>6. AppLocks'
    <3>1. CASE t # App
      <4>1. back'[App] = back[App]
        BY <1>15, <3>1 DEF SendPair, Types, CallTypes
      <4> QED
        BY <1>3, <2>2, <3>1, <4>1, AppLocksKept DEF Own
    <3>2. CASE t = App
      <4>1. back[App] \in FlushBacks(App)
        <5>1. WellFormed(App, pc[App], job[App], back[App])
          BY DEF Shape
        <5> QED
          BY <2>1, <3>2, <5>1 DEF WellFormed, DemuxSteps, AppSteps, StopSteps, AllocSteps, PutSteps,
                                  PairSteps, SyncSteps
      <4>2. back'[App] = <<"flushed">> \o back[App]
        BY <1>15, <3>2 DEF SendPair, Types, CallTypes
      <4>3. /\ back'[App] \in SeekBacks => back[App] \in SeekBacks
            /\ back'[App] \in StopBacks => back[App] \in StopBacks
        BY <4>1, <4>2, SendKeeps
      <4>4. (Seeking' => Seeking) /\ (Stopping' => Stopping)
        BY <2>2, <3>2, <4>3 DEF Seeking, Stopping
      <4> QED
        BY <1>3, <2>2, <3>2, <4>4 DEF Own, AppLocks
    <3> QED
      BY <3>1, <3>2
  <2> QED
    BY <1>1, <1>2, <1>10, <2>2, <2>3, <2>5, <2>6 DEF Types, Own
<1> QED
  BY <1>11, <1>12, <1>13, <1>14, <1>15 DEF Flush, FlushReset, PairFree, HeadersDone

-----------------------------------------------------------------------------
(* The application. *)

AppNeeds(p, lk, sd) ==
    /\ p = "seek" => \A r \in Sides : lk[r] = App
    /\ p = "stop_unlock" => sd \in Sides /\ lk[sd] = App
    /\ p = "stop_lock" => sd \in Sides
    /\ p \in {"play_video", "play_audio"} => sd = 1
    /\ p = "play_lock" => sd \in Sides /\ \A r \in Sides : r < sd => lk[r] = App
    /\ p = "go_on" => \A r \in Sides : r >= sd => lk[r] = App
    /\ p = "start" => sd \in Sides /\ \A r \in Sides : r > sd => lk[r] = App

\* The locks the application has.
LEMMA AppHas ==
    ASSUME Own
    PROVE  AppNeeds(pc[App], lock, side)
  BY DEF Own, AppLocks, AppNeeds, Seeking, Stopping

\* The application does not take the lock of a demuxer in its loop.
LEMMA AppKeepsLoops ==
    ASSUME Own, \A s \in Sides : pc'[s] = pc[s] \/ ~HasLoop(pc'[s]),
           \A s \in Sides : lock[s] = s => lock'[s] = s
    PROVE  LoopsLocked'
  BY DEF Own, LoopsLocked

\* A stack that is empty, or has no call on it.
LEMMA NoCall ==
    ASSUME Shape, pc[App] \in AppSteps \cup StopSteps
    PROVE  back[App] \notin SeekBacks /\ back[App] \notin StopBacks
<1>1. WellFormed(App, pc[App], job[App], back[App])
  BY Actors DEF Shape
<1>2. back[App] \in {<<>>, <<"idle">>, <<"open">>}
  BY <1>1 DEF WellFormed, AppSteps, StopSteps, FlushSteps, DemuxSteps, AllocSteps, PutSteps, PairSteps, SyncSteps
<1>3. ASSUME NEW x \in {"idle", "open"} PROVE <<x>> \notin SeekBacks /\ <<x>> \notin StopBacks
  <2>1. <<x>> \notin SeekBacks
    BY DEF SeekBacks
  <2>2. <<x>> \notin StopBacks
    BY DEF StopBacks
  <2> QED
    BY <2>1, <2>2
<1>4. <<>> \notin SeekBacks /\ <<>> \notin StopBacks
  BY DEF SeekBacks, StopBacks
<1> QED
  BY <1>2, <1>3, <1>4

\* The application goes on within the function it is in, or stays at a step.
LEMMA AppGoes ==
    ASSUME CallTypes, Shape, Own, NEW p, NEW step,
           \/ p \in AppSteps /\ step \in AppSteps
           \/ p \in StopSteps /\ step \in StopSteps,
           At(App, p), Go(App, step) \/ (step = p /\ UNCHANGED callVars),
           UNCHANGED <<counter, pair>>,
           \A s \in Sides : lock[s] = s => lock'[s] = s,
           AppNeeds(step, lock', side')
    PROVE  /\ CallTypes' /\ Shape' /\ Own'
           /\ pc'[App] = step
           /\ \A u \in Threads : u # App => pc'[u] = pc[u]
           /\ job' = job /\ back' = back
<1> USE Actors
<1>1. /\ CallTypes' /\ Shape'
      /\ pc'[App] = step
      /\ \A u \in Threads : u # App => pc'[u] = pc[u]
      /\ job' = job /\ back' = back
  <2>1. CASE Go(App, step)
    <3>1. Within(App, p, step, job[App])
      BY DEF Within
    <3> QED
      BY <2>1, <3>1, Went
  <2>2. CASE step = p /\ UNCHANGED callVars
    <3>1. CallTypes' /\ Shape'
      BY <2>2, TypesKept
    <3> QED
      BY <2>2, <3>1 DEF callVars, At
  <2> QED
    BY <2>1, <2>2
<1>2. \A q \in AppSteps \cup StopSteps : ~HasPair(q) /\ \A j : ~PutsHeaders(q, j)
  BY DEF AppSteps, StopSteps, HasPair, PutsHeaders, PutSteps
<1>3. CounterOwned' /\ PairOwned'
  <2>1. /\ \A u \in Threads : counter' = u <=> (IF u = App THEN PutsHeaders(pc'[App], job'[App]) ELSE counter = u)
        /\ \A u \in Threads : pair' = u <=> (IF u = App THEN HasPair(pc'[App]) ELSE pair = u)
        /\ \A u \in Threads : u # App => pc'[u] = pc[u] /\ job'[u] = job[u]
    BY <1>1, <1>2, OwnAt DEF At
  <2> QED
    BY <2>1, OwnedBy
<1>4. LoopsLocked'
  BY <1>1, AppKeepsLoops
<1>5. AppLocks'
  <2>1. back'[App] \notin SeekBacks /\ back'[App] \notin StopBacks
    BY <1>1, NoCall DEF At
  <2>2. (Seeking' => pc'[App] = "seek") /\ (Stopping' => pc'[App] = "stop_unlock")
    BY <2>1 DEF Seeking, Stopping
  <2> QED
    BY <1>1, <2>2 DEF AppLocks, AppNeeds
<1> QED
  BY <1>1, <1>3, <1>4, <1>5 DEF Own

\* The application calls: b is its stack then.
LEMMA AppCalls ==
    ASSUME CallTypes', Shape', Own, pc[App] \in AppSteps \cup StopSteps,
           pc'[App] \in {"flush", "alloc_video", "stop_side"},
           \A u \in Threads : u # App => pc'[u] = pc[u] /\ job'[u] = job[u],
           UNCHANGED <<counter, pair>>,
           \A s \in Sides : lock[s] = s => lock'[s] = s,
           back'[App] \in SeekBacks => \A r \in Sides : lock'[r] = App,
           back'[App] \in StopBacks => side' \in Sides /\ lock'[side'] = App
    PROVE  Own'
<1> USE Actors
<1>1. \A q \in AppSteps \cup StopSteps : ~HasPair(q) /\ \A j : ~PutsHeaders(q, j)
  BY DEF AppSteps, StopSteps, HasPair, PutsHeaders, PutSteps
<1>2. \A q \in {"flush", "alloc_video", "stop_side"} : ~HasPair(q) /\ \A j : ~PutsHeaders(q, j)
  BY DEF HasPair, PutsHeaders, PutSteps
<1>3. CounterOwned' /\ PairOwned'
  <2>1. /\ \A u \in Threads : counter' = u <=> (IF u = App THEN PutsHeaders(pc'[App], job'[App]) ELSE counter = u)
        /\ \A u \in Threads : pair' = u <=> (IF u = App THEN HasPair(pc'[App]) ELSE pair = u)
    BY <1>1, <1>2, OwnAt
  <2> QED
    BY <2>1, OwnedBy
<1>4. LoopsLocked'
  BY AppKeepsLoops
<1>5. (Seeking' => back'[App] \in SeekBacks) /\ (Stopping' => back'[App] \in StopBacks)
  BY DEF Seeking, Stopping
<1>6. AppLocks'
  BY <1>5 DEF AppLocks
<1> QED
  BY <1>3, <1>4, <1>6 DEF Own

\* The application's steps.
LEMMA AppStepKinds ==
    /\ AppSteps \cap StopSteps = {}
    /\ \A q \in {"idle", "open", "opened", "play_video", "play_audio", "play_lock", "seek", "go_on",
                 "start", "played"} : q \in AppSteps
    /\ \A q \in {"stop_side", "stop_lock", "stop_unlock", "stop_join"} : q \in StopSteps
  BY DEF AppSteps, StopSteps

\* The gapless switch is set.
LEMMA SetGaplessTyped ==
    ASSUME Types, Shape, Own, SetGapless, UNCHANGED mixed
    PROVE  Types' /\ Shape' /\ Own'
<1>1. QueueTypes' /\ CountTypes' /\ SideTypes'
  BY TypesKept DEF Types, SetGapless
<1>2. StreamTypes'
  BY DEF Types, StreamTypes, SetGapless, Request, brakeVars
<1>3. /\ At(App, "idle") /\ UNCHANGED callVars /\ UNCHANGED <<counter, pair, lock, side>>
  BY DEF SetGapless, countVars, queueVars, demuxVars
<1>4. AppNeeds("idle", lock', side')
  BY DEF AppNeeds
<1>5. "idle" \in AppSteps
  BY AppStepKinds
<1>6. CallTypes' /\ Shape' /\ Own'
  BY <1>3, <1>4, <1>5, AppGoes DEF Types
<1> QED
  BY <1>1, <1>2, <1>6 DEF Types

\* A request to stop.
LEMMA StopBeginTyped ==
    ASSUME Types, Shape, Own, StopBegin
    PROVE  Types' /\ Shape' /\ Own'
<1> USE Actors
<1>1. QueueTypes' /\ CountTypes' /\ SideTypes'
  BY TypesKept DEF Types, StopBegin
<1>2. StreamTypes'
  <2>1. /\ mixed' = mixed \/ mixed' = mixed \cup {"end"}
        /\ status' = "stop" \/ status' = status
        /\ side' = 1 /\ requests' = requests + 1
        /\ UNCHANGED <<finished_naturally, gapless_switch, emergency_brake, braked, seeked>>
    BY DEF StopBegin, Mix, Request, brakeVars
  <2>2. mixed' \subseteq {"headers", "end"} /\ status' \in {"stop", "play"} /\ side' \in Nat \ {0}
    <3>1. status \in {"stop", "play"} /\ mixed \subseteq {"headers", "end"}
      BY DEF Types, StreamTypes
    <3>2. mixed' \subseteq {"headers", "end"}
      BY <2>1, <3>1
    <3>3. status' \in {"stop", "play"}
      BY <2>1, <3>1
    <3>4. side' \in Nat \ {0}
      BY <2>1
    <3> QED
      BY <3>2, <3>3, <3>4
  <2>3. requests' \in Nat
    BY <2>1 DEF Types, StreamTypes
  <2> QED
    BY <2>1, <2>2, <2>3 DEF Types, StreamTypes
<1>3. pc[App] = "idle" /\ UNCHANGED <<counter, pair, lock>>
  BY DEF StopBegin, At, countVars, queueVars, demuxVars
<1>4. back[App] = <<>> /\ job[App] \in Jobs /\ pc[App] \in AppSteps \cup StopSteps
  <2>1. WellFormed(App, "idle", job[App], back[App]) /\ job[App] \in Jobs
    BY <1>3 DEF Shape, Types, CallTypes
  <2> QED
    BY <1>3, <2>1 DEF WellFormed, AppSteps, StopSteps, FlushSteps, DemuxSteps, AllocSteps, PutSteps, PairSteps,
                      SyncSteps
<1>5. PICK then \in {"idle", "open"} :
        \/ Moves(App, "stop_side", job[App], <<then>>)
        \/ Moves(App, "alloc_video", "end", <<"stop_side", then>>)
  <2>1. PICK then \in {"idle", "open"} :
           \/ /\ pc' = [pc EXCEPT ![App] = "stop_side"] /\ job' = job
              /\ back' = [back EXCEPT ![App] = <<then>>]
           \/ /\ pc' = [pc EXCEPT ![App] = "alloc_video"] /\ job' = [job EXCEPT ![App] = "end"]
              /\ back' = [back EXCEPT ![App] = <<"stop_side", then>>]
    BY DEF StopBegin
  <2>2. job = [job EXCEPT ![App] = job[App]]
    BY DEF Types, CallTypes
  <2> QED
    BY <2>1, <2>2 DEF Moves
<1>6. ASSUME NEW p \in {"stop_side", "alloc_video"}, NEW j \in Jobs, NEW b, Moves(App, p, j, b),
             WellFormed(App, p, j, b), b \notin SeekBacks, b \notin StopBacks
      PROVE  Types' /\ Shape' /\ Own'
  <2>1. /\ CallTypes' /\ Shape'
        /\ pc'[App] = p /\ back'[App] = b
        /\ \A u \in Threads : u # App => pc'[u] = pc[u] /\ job'[u] = job[u] /\ back'[u] = back[u]
    <3>1. CallTypes /\ Shape /\ App \in Threads
      BY DEF Types
    <3>2. Moves(App, p, j, b) /\ j \in Jobs /\ WellFormed(App, p, j, b)
      BY <1>6
    <3>3. /\ CallTypes' /\ Shape'
          /\ pc'[App] = p /\ job'[App] = j /\ back'[App] = b
          /\ \A u \in Threads : u # App => pc'[u] = pc[u] /\ job'[u] = job[u] /\ back'[u] = back[u]
      BY <3>1, <3>2, Moved
    <3> QED
      BY <3>3
  <2>2. Own'
    BY <1>3, <1>4, <1>6, <2>1, AppCalls
  <2> QED
    BY <1>1, <1>2, <2>1, <2>2 DEF Types
<1>7. CASE Moves(App, "stop_side", job[App], <<then>>)
  <2>1. WellFormed(App, "stop_side", job[App], <<then>>)
    BY DEF WellFormed, StopSteps
  <2>2. <<then>> \notin SeekBacks /\ <<then>> \notin StopBacks
    <3>1. then # "seek"
      OBVIOUS
    <3>2. <<then>> \notin SeekBacks
      BY <3>1 DEF SeekBacks
    <3>3. <<then>> \notin StopBacks
      BY DEF StopBacks
    <3> QED
      BY <3>2, <3>3
  <2> QED
    BY <1>4, <1>6, <1>7, <2>1, <2>2
<1>8. CASE Moves(App, "alloc_video", "end", <<"stop_side", then>>)
  <2>1. WellFormed(App, "alloc_video", "end", <<"stop_side", then>>)
    BY DEF WellFormed, AllocSteps, EndBacks
  <2>2. <<"stop_side", then>> \notin SeekBacks /\ <<"stop_side", then>> \notin StopBacks
    <3>1. then # "seek"
      OBVIOUS
    <3>2. <<"stop_side", then>> \notin SeekBacks
      BY <3>1 DEF SeekBacks
    <3>3. <<"stop_side", then>> \notin StopBacks
      BY DEF StopBacks
    <3> QED
      BY <3>2, <3>3
  <2>3. "end" \in Jobs
    BY DEF Jobs
  <2> QED
    BY <1>6, <1>8, <2>1, <2>2, <2>3
<1> QED
  BY <1>5, <1>7, <1>8


\* The side streams are numbered.
LEMMA SideRange ==
    /\ \A r : r \in Sides <=> r \in Nat /\ 1 <= r /\ r <= NumSides
    /\ \A r \in Sides : ~(r < 1)
<1>1. NumSides \in Nat
  BY SyncAssumption
<1> QED
  BY ONLY <1>1 DEF Sides

\* The application stops the demuxers one by one.
LEMMA StopSideTyped ==
    ASSUME Types, Shape, Own, StopSide, UNCHANGED mixed
    PROVE  Types' /\ Shape' /\ Own'
<1> USE Actors
<1>1. QueueTypes' /\ CountTypes'
  BY TypesKept DEF Types, StopSide
<1>2. UNCHANGED <<counter, pair>> /\ App \in Threads
  BY DEF StopSide, countVars, queueVars
<1>3. side \in Nat \ {0} /\ (side <= NumSides <=> side \in Sides)
  BY DEF Types, StreamTypes, Sides
<1>4. AppNeeds(pc[App], lock, side)
  BY AppHas
<1>5. CASE At(App, "stop_side")
  <2>1. UNCHANGED <<lock, running, thread>>
    BY <1>5 DEF StopSide, At
  <2>2. SideTypes'
    <3>1. /\ UNCHANGED pending \/ (side \in Sides /\ pending' = [pending EXCEPT ![side] = @ + 1])
          /\ UNCHANGED <<left, over, non_user, demuxers_running>>
      BY <1>3, <1>5 DEF StopSide, Hint, At
    <3> QED
      BY <2>1, <3>1 DEF Types, SideTypes
  <2>3. StreamTypes'
    <3>1. /\ UNCHANGED side \/ side' = side + 1
          /\ UNCHANGED <<streamVars, brakeVars, seeked, requests, mixed>>
      BY <1>5 DEF StopSide, At
    <3>2. side' \in Nat \ {0}
      BY <1>3, <3>1
    <3> QED
      BY <3>1, <3>2 DEF Types, StreamTypes, streamVars, brakeVars
  <2>4. CASE Return(App) /\ UNCHANGED side
    <3>1. pc[App] \in StopSteps
      BY <1>5, AppStepKinds DEF At
    <3>2. /\ \A u \in Threads : counter' = u <=> u # App /\ counter = u
          /\ \A u \in Threads : pair' = u <=> u # App /\ pair = u
      <4>1. ~HasPair("stop_side") /\ \A j : ~PutsHeaders("stop_side", j)
        BY DEF HasPair, PutsHeaders, PutSteps
      <4> QED
        BY <1>2, <1>5, <4>1, OwnAt DEF At
    <3>3. CallTypes' /\ Shape' /\ Own'
      BY <2>1, <2>4, <3>1, <3>2, CallReturns DEF Types
    <3> QED
      BY <1>1, <2>2, <2>3, <3>3 DEF Types
  <2>5. CASE UNCHANGED callVars
    <3>1. AppNeeds("stop_side", lock', side') /\ "stop_side" \in StopSteps
      BY AppStepKinds DEF AppNeeds
    <3>2. CallTypes' /\ Shape' /\ Own'
      BY <1>2, <1>5, <2>1, <2>5, <3>1, AppGoes DEF Types
    <3> QED
      BY <1>1, <2>2, <2>3, <3>2 DEF Types
  <2>6. CASE Go(App, "stop_lock") /\ UNCHANGED side /\ side \in Sides
    <3>1. AppNeeds("stop_lock", lock', side') /\ "stop_side" \in StopSteps /\ "stop_lock" \in StopSteps
      BY <2>6, AppStepKinds DEF AppNeeds
    <3>2. CallTypes' /\ Shape' /\ Own'
      BY <1>2, <1>5, <2>1, <2>6, <3>1, AppGoes DEF Types
    <3> QED
      BY <1>1, <2>2, <2>3, <3>2 DEF Types
  <2> QED
    BY <1>3, <1>5, <2>4, <2>5, <2>6 DEF StopSide, At
<1>6. CASE At(App, "stop_lock")
  <2>1. side \in Sides
    BY <1>4, <1>6 DEF AppNeeds, At
  <2>2. /\ lock[side] = Nobody /\ lock' = [lock EXCEPT ![side] = App]
        /\ running' = [running EXCEPT ![side] = FALSE]
        /\ Lower(side)
        /\ pc' = [pc EXCEPT ![App] = "flush"]
        /\ back' = [back EXCEPT ![App] = <<"stop_unlock">> \o @]
        /\ UNCHANGED <<job, side, thread, left, over, non_user, demuxers_running, streamVars, brakeVars,
                       seeked, requests, mixed>>
    BY <1>6 DEF StopSide, At
  <2>3. StreamTypes'
    BY <2>2 DEF Types, StreamTypes, streamVars, brakeVars
  <2>4. SideTypes'
    <3>1. running' \in [Sides -> BOOLEAN]
      <4>1. running \in [Sides -> BOOLEAN]
        BY DEF Types, SideTypes
      <4> QED
        BY ONLY <2>2, <4>1, Zenon
    <3>2. lock' \in [Sides -> Senders] /\ pending' \in [Sides -> Int]
      BY <2>1, <2>2, Lowers DEF Types, SideTypes
    <3> QED
      BY <2>2, <3>1, <3>2 DEF Types, SideTypes
  <2>5. \E x \in {"idle", "open"} : back[App] = <<x>>
    <3>1. WellFormed(App, "stop_lock", job[App], back[App])
      BY <1>6 DEF Shape, At
    <3> QED
      BY <3>1 DEF WellFormed, AppSteps, StopSteps, FlushSteps, DemuxSteps, AllocSteps, PutSteps, PairSteps,
                  SyncSteps
  <2>6. PICK x \in {"idle", "open"} : back[App] = <<x>>
    BY <2>5
  <2> DEFINE b == <<"stop_unlock">> \o <<x>>
  <2>7. b = <<"stop_unlock", x>> /\ b \in FlushBacks(App)
    <3>1. b = <<"stop_unlock", x>>
      BY Pushes
    <3> QED
      BY <3>1 DEF FlushBacks
  <2>8. b \notin SeekBacks
    <3>1. x # "seek"
      OBVIOUS
    <3>2. <<"stop_unlock", x>> \notin SeekBacks
      BY <3>1 DEF SeekBacks
    <3> HIDE DEF b
    <3> QED
      BY <2>7, <3>2
  <2> HIDE DEF b
  <2>9. back'[App] = b /\ Moves(App, "flush", job[App], b)
    BY <2>2, <2>6 DEF Types, CallTypes, Moves, b
  <2>10. /\ CallTypes' /\ Shape'
         /\ pc'[App] = "flush"
         /\ \A u \in Threads : u # App => pc'[u] = pc[u]
         /\ job' = job
    BY <2>7, <2>9, Flushes DEF Types
  <2>11. lock'[side'] = App /\ \A s \in Sides : lock[s] = s => lock'[s] = s
    BY <2>1, <2>2 DEF Types, SideTypes
  <2>12. pc[App] \in AppSteps \cup StopSteps
    BY <1>6, AppStepKinds DEF At
  <2>13. Own'
    BY <1>2, <2>1, <2>2, <2>8, <2>9, <2>10, <2>11, <2>12, AppCalls
  <2> QED
    BY <1>1, <2>3, <2>4, <2>10, <2>13 DEF Types
<1>7. CASE At(App, "stop_unlock")
  <2>1. side \in Sides /\ lock[side] = App
    BY <1>4, <1>7 DEF AppNeeds, At
  <2>2. /\ Unlock(side) /\ Go(App, "stop_join")
        /\ UNCHANGED <<side, pending, running, thread, left, over, non_user, demuxers_running, streamVars,
                       brakeVars, seeked, requests, mixed>>
    BY <1>7 DEF StopSide, At
  <2>3. StreamTypes'
    BY <2>2 DEF Types, StreamTypes, streamVars, brakeVars
  <2>4. SideTypes'
    BY <2>1, <2>2, Unlocks DEF Types, SideTypes
  <2>5. \A s \in Sides : lock[s] = s => lock'[s] = s
    BY <2>1, <2>2, Unlocks
  <2>6. AppNeeds("stop_join", lock', side') /\ "stop_unlock" \in StopSteps /\ "stop_join" \in StopSteps
    BY AppStepKinds DEF AppNeeds
  <2>7. CallTypes' /\ Shape' /\ Own'
    BY <1>2, <1>7, <2>2, <2>5, <2>6, AppGoes DEF Types
  <2> QED
    BY <1>1, <2>3, <2>4, <2>7 DEF Types
<1>8. CASE At(App, "stop_join")
  <2>1. /\ thread' = [thread EXCEPT ![side] = FALSE]
        /\ side' = side + 1 /\ Go(App, "stop_side")
        /\ UNCHANGED <<lock, pending, running, left, over, non_user, demuxers_running, streamVars,
                       brakeVars, seeked, requests, mixed>>
    BY <1>8 DEF StopSide, At
  <2>2. StreamTypes'
    <3>1. side' \in Nat \ {0}
      <4>1. side \in Nat /\ side' = side + 1
        BY <1>3, <2>1
      <4> QED
        BY ONLY <4>1
    <3>2. UNCHANGED <<streamVars, brakeVars, seeked, requests, mixed>>
      BY <2>1
    <3> QED
      BY <3>1, <3>2 DEF Types, StreamTypes, streamVars, brakeVars
  <2>3. SideTypes'
    <3>1. thread' \in [Sides -> BOOLEAN]
      <4>1. thread \in [Sides -> BOOLEAN]
        BY DEF Types, SideTypes
      <4> QED
        BY ONLY <2>1, <4>1, Zenon
    <3> QED
      BY <2>1, <3>1 DEF Types, SideTypes
  <2>4. AppNeeds("stop_side", lock', side') /\ "stop_side" \in StopSteps /\ "stop_join" \in StopSteps
    BY AppStepKinds DEF AppNeeds
  <2>5. CallTypes' /\ Shape' /\ Own'
    BY <1>2, <1>8, <2>1, <2>4, AppGoes DEF Types
  <2> QED
    BY <1>1, <2>2, <2>3, <2>5 DEF Types
<1>9. At(App, "stop_side") \/ At(App, "stop_lock") \/ At(App, "stop_unlock") \/ At(App, "stop_join")
  BY DEF StopSide
<1> QED
  BY <1>5, <1>6, <1>7, <1>8, <1>9

\* The application opens a stream.
LEMMA OpenTyped ==
    ASSUME Types, Shape, Own, Open, UNCHANGED mixed
    PROVE  Types' /\ Shape' /\ Own'
<1> USE Actors
<1>1. QueueTypes' /\ CountTypes'
  BY TypesKept DEF Types, Open
<1>2. StreamTypes'
  BY DEF Types, StreamTypes, Open, brakeVars, appVars
<1>3. SideTypes'
  <2>1. /\ UNCHANGED pending \/ pending' = [pending EXCEPT ![1] = @ + 1]
        /\ UNCHANGED <<lock, running, thread, left, over, non_user, demuxers_running>>
    BY DEF Open, HeadersDone
  <2> QED
    BY <2>1 DEF Types, SideTypes
<1>4. UNCHANGED <<counter, pair, lock, side>>
  BY DEF Open, countVars, queueVars, appVars
<1>5. CASE At(App, "open") /\ SendPair(App, "headers", "opened")
  <2>1. pc[App] = "open" /\ pc[App] \in AppSteps /\ "headers" \in Jobs
    BY <1>5, AppStepKinds DEF At, Jobs
  <2>2. /\ CallTypes' /\ Shape'
        /\ pc'[App] = "alloc_video" /\ job'[App] = "headers"
        /\ \A u \in Threads : u # App => pc'[u] = pc[u] /\ job'[u] = job[u]
    BY <1>5, <2>1, Sent DEF Types
  <2>3. back'[App] = <<"opened">> \o <<>>
    <3>1. WellFormed(App, "open", job[App], back[App])
      BY <2>1 DEF Shape
    <3>2. back[App] = <<>>
      BY <3>1 DEF WellFormed, AppSteps, StopSteps, FlushSteps, DemuxSteps, AllocSteps, PutSteps, PairSteps,
                  SyncSteps
    <3> QED
      BY <1>5, <3>2 DEF SendPair, Types, CallTypes
  <2>4. back'[App] \notin SeekBacks /\ back'[App] \notin StopBacks
    BY <2>3, SendKeeps
  <2>5. Own'
    BY <1>4, <2>1, <2>2, <2>4, AppCalls
  <2> QED
    BY <1>1, <1>2, <1>3, <2>2, <2>5 DEF Types
<1>6. CASE At(App, "opened") /\ Go(App, "idle")
  <2>1. AppNeeds("idle", lock', side') /\ "opened" \in AppSteps /\ "idle" \in AppSteps
    BY AppStepKinds DEF AppNeeds
  <2>2. CallTypes' /\ Shape' /\ Own'
    BY <1>4, <1>6, <2>1, AppGoes DEF Types
  <2> QED
    BY <1>1, <1>2, <1>3, <2>2 DEF Types
<1> QED
  BY <1>5, <1>6 DEF Open, HeadersDone

\* A request to play.
LEMMA PlayBeginTyped ==
    ASSUME Types, Shape, Own, PlayBegin, UNCHANGED mixed
    PROVE  Types' /\ Shape' /\ Own'
<1> USE Actors
<1>1. QueueTypes' /\ CountTypes'
  BY TypesKept DEF Types, PlayBegin
<1>2. StreamTypes'
  <2>1. /\ finished_naturally' \in {finished_naturally, FALSE}
        /\ side' = 1 /\ seeked' = FALSE /\ requests' = requests + 1
        /\ UNCHANGED <<status, gapless_switch, emergency_brake, braked, mixed>>
    BY DEF PlayBegin, Request, brakeVars
  <2>2. finished_naturally' \in BOOLEAN
    <3>1. finished_naturally \in BOOLEAN
      BY DEF Types, StreamTypes
    <3> QED
      BY ONLY <2>1, <3>1, Zenon
  <2>3. side' \in Nat \ {0} /\ seeked' \in BOOLEAN /\ requests' \in Nat
    <3>1. requests \in Nat /\ side' = 1 /\ seeked' = FALSE /\ requests' = requests + 1
      BY <2>1 DEF Types, StreamTypes
    <3>2. side' \in Nat \ {0} /\ requests' \in Nat
      BY ONLY <3>1
    <3> QED
      BY <3>1, <3>2, Zenon
  <2>4. UNCHANGED <<status, gapless_switch, emergency_brake, braked, mixed>>
    BY <2>1
  <2> QED
    BY <2>2, <2>3, <2>4 DEF Types, StreamTypes
<1>3. SideTypes'
  <2>1. /\ pending' = [s \in Sides |-> pending[s] + 1]
        /\ UNCHANGED <<lock, running, thread, left, over, non_user, demuxers_running>>
    BY DEF PlayBegin, Hint
  <2> QED
    BY <2>1 DEF Types, SideTypes
<1>4. UNCHANGED <<counter, pair, lock>> /\ side' = 1 /\ At(App, "idle")
  BY DEF PlayBegin, countVars, queueVars
<1>5. PICK step \in {"play_video", "play_lock"} : Go(App, step)
  BY DEF PlayBegin
<1>6. AppNeeds(step, lock', side') /\ step \in AppSteps /\ "idle" \in AppSteps
  <2>1. \A r \in Sides : ~(r < 1)
    BY SideRange
  <2>2. \A sd : sd = 1 => AppNeeds(step, lock', sd)
    BY <1>5, <2>1 DEF AppNeeds
  <2> QED
    BY <1>4, <1>5, <2>2, AppStepKinds
<1>7. CallTypes' /\ Shape' /\ Own'
  BY <1>4, <1>5, <1>6, AppGoes DEF Types
<1> QED
  BY <1>1, <1>2, <1>3, <1>7 DEF Types

\* The early clear of the fifos.
LEMMA PlayClearTyped ==
    ASSUME Types, Shape, Own, PlayClear, UNCHANGED mixed
    PROVE  Types' /\ Shape' /\ Own'
<1> USE Actors
<1>1. CountTypes' /\ SideTypes' /\ StreamTypes'
  BY TypesKept DEF Types, PlayClear
<1>2. QueueTypes'
  <2>1. \E f \in Fifos : Clear(f)
    BY DEF PlayClear
  <2>2. fifo' \in [Fifos -> Seq(Items)]
    BY <2>1, ClearTyped DEF Types
  <2> QED
    BY <2>2 DEF Types, QueueTypes, PlayClear
<1>3. UNCHANGED <<counter, pair, lock, side>>
  BY DEF PlayClear, countVars, demuxVars, appVars
<1>4. PICK p \in {"play_video", "play_audio"}, step \in {"play_audio", "play_lock"} :
           At(App, p) /\ Go(App, step)
  BY DEF PlayClear
<1>5. p \in AppSteps /\ step \in AppSteps
  BY AppStepKinds
<1>6. side = 1
  BY <1>4, AppHas DEF AppNeeds, At
<1>7. AppNeeds(step, lock', side')
  <2>1. \A r \in Sides : ~(r < 1)
    BY SideRange
  <2>2. \A sd : sd = 1 => AppNeeds(step, lock', sd)
    BY <1>4, <2>1 DEF AppNeeds
  <2> QED
    BY <1>3, <1>6, <2>2
<1>8. CallTypes' /\ Shape' /\ Own'
  BY <1>3, <1>4, <1>5, <1>7, AppGoes DEF Types
<1> QED
  BY <1>1, <1>2, <1>8 DEF Types

\* The application has started to play.
LEMMA PlayingTyped ==
    ASSUME Types, Shape, Own, Playing, UNCHANGED mixed
    PROVE  Types' /\ Shape' /\ Own'
<1> USE Actors
<1>1. QueueTypes' /\ CountTypes' /\ SideTypes'
  BY TypesKept DEF Types, Playing
<1>2. StreamTypes'
  BY DEF Types, StreamTypes, Playing, brakeVars, appVars
<1>3. UNCHANGED <<counter, pair, lock, side>>
  BY DEF Playing, countVars, queueVars, demuxVars, appVars
<1>4. PICK p \in {"go_on", "played"}, step \in {"played", "idle"} : At(App, p) /\ Go(App, step)
  BY DEF Playing
<1>5. p \in AppSteps /\ step \in AppSteps
  BY AppStepKinds
<1>6. AppNeeds(step, lock', side')
  BY DEF AppNeeds
<1>7. CallTypes' /\ Shape' /\ Own'
  BY <1>3, <1>4, <1>5, <1>6, AppGoes DEF Types
<1> QED
  BY <1>1, <1>2, <1>7 DEF Types

\* The application suspends the demuxers, and seeks them.
LEMMA SeekTyped ==
    ASSUME Types, Shape, Own, Seek, UNCHANGED mixed
    PROVE  Types' /\ Shape' /\ Own'
<1> USE Actors
<1>1. QueueTypes' /\ CountTypes'
  BY TypesKept DEF Types, Seek
<1>2. side \in Nat \ {0} /\ NumSides \in Nat /\ App \in Senders /\ Nobody # App
  BY DEF Types, StreamTypes
<1>3. UNCHANGED <<counter, pair>>
  BY DEF Seek, countVars, queueVars
<1>4. AppNeeds(pc[App], lock, side)
  BY AppHas
<1>5. StreamTypes'
  <2>1. /\ side' \in {1, side, side + 1}
        /\ seeked' = seeked \/ \E n \in 0 .. MaxChunks : seeked' = (seeked \/ n > 0)
        /\ UNCHANGED <<streamVars, brakeVars, requests, mixed>>
    BY DEF Seek
  <2>2. side' \in Nat \ {0}
    <3>1. side \in Nat /\ side' \in {1, side, side + 1} /\ side # 0
      BY <1>2, <2>1
    <3> QED
      BY ONLY <3>1
  <2>3. seeked' \in BOOLEAN
    <3>1. seeked \in BOOLEAN
      BY DEF Types, StreamTypes
    <3> QED
      BY ONLY <2>1, <3>1, Zenon
  <2> QED
    BY <2>1, <2>2, <2>3 DEF Types, StreamTypes, streamVars, brakeVars
<1>6. SideTypes'
  <2>1. /\ UNCHANGED left \/ \E n \in 0 .. MaxChunks : left' = [left EXCEPT ![side] = n]
        /\ UNCHANGED lock \/ lock' = [lock EXCEPT ![side] = App]
        /\ UNCHANGED <<pending, running, thread, over, non_user, demuxers_running>>
    BY DEF Seek
  <2>2. left' \in [Sides -> Int]
    BY <2>1 DEF Types, SideTypes
  <2>3. lock' \in [Sides -> Senders]
    BY <1>2, <2>1 DEF Types, SideTypes
  <2> QED
    BY <2>1, <2>2, <2>3 DEF Types, SideTypes
<1>7. CASE At(App, "play_lock")
  <2>1. /\ lock[side] = Nobody /\ lock' = [lock EXCEPT ![side] = App]
        /\ \/ side < NumSides /\ side' = side + 1 /\ UNCHANGED callVars
           \/ ~(side < NumSides) /\ side' = 1 /\ Go(App, "seek")
    BY <1>7 DEF Seek, At
  <2>2. side \in Sides /\ \A r \in Sides : r < side => lock[r] = App
    BY <1>4, <1>7 DEF AppNeeds, At
  <2>3. /\ \A s \in Sides : lock[s] = s => lock'[s] = s
        /\ \A r \in Sides : r < side \/ r = side => lock'[r] = App
    BY <1>2, <2>1, <2>2 DEF Types, SideTypes
  <2>4. CASE side < NumSides /\ side' = side + 1 /\ UNCHANGED callVars
    <3>1. side + 1 \in Sides
      BY <1>2, <2>4, SideRange
    <3>2. \A r \in Sides : r < side + 1 => lock'[r] = App
      BY <1>2, <2>3
    <3>3. AppNeeds("play_lock", lock', side') /\ "play_lock" \in AppSteps
      BY <2>4, <3>1, <3>2, AppStepKinds DEF AppNeeds
    <3>4. CallTypes' /\ Shape' /\ Own'
      BY <1>3, <1>7, <2>3, <2>4, <3>3, AppGoes DEF Types
    <3> QED
      BY <1>1, <1>5, <1>6, <3>4 DEF Types
  <2>5. CASE ~(side < NumSides) /\ side' = 1 /\ Go(App, "seek")
    <3>1. \A r \in Sides : lock'[r] = App
      <4>1. \A r \in Sides : r < side \/ r = side
        BY <1>2, <2>2, <2>5, SideRange
      <4> QED
        BY <2>3, <4>1
    <3>2. AppNeeds("seek", lock', side') /\ "play_lock" \in AppSteps /\ "seek" \in AppSteps
      BY <3>1, AppStepKinds DEF AppNeeds
    <3>3. CallTypes' /\ Shape' /\ Own'
      BY <1>3, <1>7, <2>3, <2>5, <3>2, AppGoes DEF Types
    <3> QED
      BY <1>1, <1>5, <1>6, <3>3 DEF Types
  <2> QED
    BY <2>1, <2>4, <2>5
<1>8. CASE At(App, "seek")
  <2>1. /\ UNCHANGED lock
        /\ \/ UNCHANGED callVars
           \/ /\ pc' = [pc EXCEPT ![App] = "flush"]
              /\ back' = [back EXCEPT ![App] = <<"seek">>]
              /\ UNCHANGED job
           \/ Go(App, "go_on")
    BY <1>8 DEF Seek, At
  <2>2. \A r \in Sides : lock[r] = App
    BY <1>4, <1>8 DEF AppNeeds, At
  <2>3. "seek" \in AppSteps /\ "go_on" \in AppSteps
    BY AppStepKinds
  <2>4. CASE UNCHANGED callVars
    <3>1. AppNeeds("seek", lock', side')
      BY <2>1, <2>2 DEF AppNeeds
    <3>2. CallTypes' /\ Shape' /\ Own'
      BY <1>3, <1>8, <2>1, <2>3, <2>4, <3>1, AppGoes DEF Types
    <3> QED
      BY <1>1, <1>5, <1>6, <3>2 DEF Types
  <2>5. CASE Go(App, "go_on")
    <3>1. AppNeeds("go_on", lock', side')
      BY <2>1, <2>2 DEF AppNeeds
    <3>2. CallTypes' /\ Shape' /\ Own'
      BY <1>3, <1>8, <2>1, <2>3, <2>5, <3>1, AppGoes DEF Types
    <3> QED
      BY <1>1, <1>5, <1>6, <3>2 DEF Types
  <2>6. CASE /\ pc' = [pc EXCEPT ![App] = "flush"]
             /\ back' = [back EXCEPT ![App] = <<"seek">>]
             /\ UNCHANGED job
    <3>1. <<"seek">> \in FlushBacks(App) /\ <<"seek">> \notin StopBacks
      BY DEF FlushBacks, StopBacks
    <3>2. Moves(App, "flush", job[App], <<"seek">>) /\ back'[App] = <<"seek">>
      BY <2>6 DEF Types, CallTypes, Moves
    <3>3. /\ CallTypes' /\ Shape'
          /\ pc'[App] = "flush"
          /\ \A u \in Threads : u # App => pc'[u] = pc[u]
          /\ job' = job
      BY <3>1, <3>2, Flushes DEF Types
    <3>4. pc[App] \in AppSteps \cup StopSteps
      BY <1>8, <2>3 DEF At
    <3>5. Own'
      BY <1>3, <2>1, <2>2, <3>1, <3>2, <3>3, <3>4, AppCalls
    <3> QED
      BY <1>1, <1>5, <1>6, <3>3, <3>5 DEF Types
  <2> QED
    BY <2>1, <2>4, <2>5, <2>6
<1>9. At(App, "play_lock") \/ At(App, "seek")
  BY DEF Seek
<1> QED
  BY <1>7, <1>8, <1>9

\* The application resumes or starts the demuxers.
LEMMA GoOnTyped ==
    ASSUME Types, Shape, Own, GoOn, UNCHANGED mixed
    PROVE  Types' /\ Shape' /\ Own'
<1> USE Actors
<1>1. QueueTypes' /\ CountTypes'
  BY TypesKept DEF Types, GoOn
<1>2. side \in Nat \ {0} /\ NumSides \in Nat /\ App \in Senders /\ Nobody # App
  BY DEF Types, StreamTypes
<1>3. UNCHANGED <<counter, pair>>
  BY DEF GoOn, countVars, queueVars
<1>4. AppNeeds(pc[App], lock, side)
  BY AppHas
<1>5. StreamTypes'
  <2>1. /\ side' \in {side, side + 1}
        /\ UNCHANGED <<streamVars, brakeVars, seeked, requests, mixed>>
    BY DEF GoOn
  <2>2. side' \in Nat \ {0}
    <3>1. side \in Nat /\ side' \in {side, side + 1} /\ side # 0
      BY <1>2, <2>1
    <3> QED
      BY ONLY <3>1
  <2> QED
    BY <2>1, <2>2 DEF Types, StreamTypes, streamVars, brakeVars
<1>6. CASE At(App, "go_on")
  <2>1. /\ side <= NumSides /\ Unlock(side) /\ Lower(side)
        /\ \/ Go(App, "start") /\ UNCHANGED side
           \/ side' = side + 1 /\ UNCHANGED callVars
        /\ UNCHANGED <<running, thread, left, over, non_user, demuxers_running>>
    BY <1>6 DEF GoOn, At
  <2>2. side \in Sides /\ \A r \in Sides : r >= side => lock[r] = App
    <3>1. side \in Sides
      BY <1>2, <2>1, SideRange
    <3>2. \A r \in Sides : r >= side => lock[r] = App
      BY <1>4, <1>6 DEF AppNeeds, At
    <3> QED
      BY <3>1, <3>2
  <2>3. SideTypes'
    BY <2>1, <2>2, Unlocks, Lowers DEF Types, SideTypes
  <2>4. /\ \A s \in Sides : lock[s] = s => lock'[s] = s
        /\ \A r \in Sides : r > side => lock'[r] = App
    <3>1. lock[side] = App /\ lock'[side] = Nobody /\ \A r \in Sides : r # side => lock'[r] = lock[r]
      BY <1>2, <2>1, <2>2, Unlocks
    <3>2. \A r \in Sides : r > side => r # side /\ r >= side
      BY <1>2, SideRange
    <3> QED
      BY <2>2, <3>1, <3>2
  <2>5. "go_on" \in AppSteps /\ "start" \in AppSteps
    BY AppStepKinds
  <2>6. CASE Go(App, "start") /\ UNCHANGED side
    <3>1. AppNeeds("start", lock', side')
      BY <2>2, <2>4, <2>6 DEF AppNeeds
    <3>2. CallTypes' /\ Shape' /\ Own'
      BY <1>3, <1>6, <2>4, <2>5, <2>6, <3>1, AppGoes DEF Types
    <3> QED
      BY <1>1, <1>5, <2>3, <3>2 DEF Types
  <2>7. CASE side' = side + 1 /\ UNCHANGED callVars
    <3>1. \A r \in Sides : r >= side + 1 => lock'[r] = App
      BY <1>2, <2>4, SideRange
    <3>2. AppNeeds("go_on", lock', side')
      BY <2>7, <3>1 DEF AppNeeds
    <3>3. CallTypes' /\ Shape' /\ Own'
      BY <1>3, <1>6, <2>4, <2>5, <2>7, <3>2, AppGoes DEF Types
    <3> QED
      BY <1>1, <1>5, <2>3, <3>3 DEF Types
  <2> QED
    BY <2>1, <2>6, <2>7
<1>7. CASE At(App, "start")
  <2>1. /\ lock[side] = Nobody /\ pc[side] = "off"
        /\ running' = [running EXCEPT ![side] = TRUE]
        /\ thread' = [thread EXCEPT ![side] = TRUE]
        /\ pc' = [pc EXCEPT ![App] = "go_on", ![side] = "start"]
        /\ side' = side + 1
        /\ UNCHANGED <<lock, pending, job, back, left, over, non_user, demuxers_running>>
    BY <1>7 DEF GoOn, At
  <2>2. side \in Sides /\ \A r \in Sides : r > side => lock[r] = App
    BY <1>4, <1>7 DEF AppNeeds, At
  <2>3. SideTypes'
    <3>1. running' \in [Sides -> BOOLEAN] /\ thread' \in [Sides -> BOOLEAN]
      <4>1. running \in [Sides -> BOOLEAN] /\ thread \in [Sides -> BOOLEAN]
        BY DEF Types, SideTypes
      <4> QED
        BY ONLY <2>1, <4>1, Zenon
    <3>2. UNCHANGED <<lock, pending, left, over, non_user, demuxers_running>>
      BY <2>1
    <3> QED
      BY <3>1, <3>2 DEF Types, SideTypes
  <2>4. /\ pc'[App] = "go_on" /\ pc'[side] = "start"
        /\ \A u \in Threads : u # App /\ u # side => pc'[u] = pc[u]
        /\ job' = job /\ back' = back
    BY <2>1, <2>2 DEF Types, CallTypes
  <2>5. "go_on" \in AppSteps /\ "start" \in AppSteps /\ "start" \in DemuxSteps /\ "off" \in DemuxSteps
    BY AppStepKinds DEF DemuxSteps
  <2>6. /\ WellFormed(App, "go_on", job[App], back[App])
        /\ WellFormed(side, "start", job[side], back[side])
    <3>1. WellFormed(App, "start", job[App], back[App]) /\ WellFormed(side, "off", job[side], back[side])
      BY <1>7, <2>1, <2>2 DEF Shape, At
    <3>2. Within(App, "start", "go_on", job[App]) /\ Within(side, "off", "start", job[side])
      BY <2>2, <2>5 DEF Within
    <3> QED
      BY <2>2, <3>1, <3>2, WithinFormed
  <2>7. CallTypes'
    <3>1. "go_on" \in Steps /\ "start" \in Steps
      BY <2>5 DEF Steps
    <3> QED
      BY <2>1, <2>2, <3>1 DEF Types, CallTypes
  <2>8. Shape'
    <3>1. ASSUME NEW u \in Threads PROVE WellFormed(u, pc'[u], job'[u], back'[u])
      <4>1. CASE u = App
        BY <2>4, <2>6, <4>1
      <4>2. CASE u = side
        BY <2>4, <2>6, <4>2
      <4>3. CASE u # App /\ u # side
        BY <2>4, <4>3 DEF Shape
      <4> QED
        BY <4>1, <4>2, <4>3
    <3> QED
      BY <3>1 DEF Shape
  <2>9. CounterOwned' /\ PairOwned'
    <3>1. \A q \in {"go_on", "start", "off"} : ~HasPair(q) /\ \A j : ~PutsHeaders(q, j)
      BY DEF HasPair, PutsHeaders, PutSteps
    <3>2. \A u \in Threads : /\ HasPair(pc'[u]) <=> HasPair(pc[u])
                             /\ PutsHeaders(pc'[u], job'[u]) <=> PutsHeaders(pc[u], job[u])
      BY <1>7, <2>1, <2>4, <3>1 DEF At
    <3> QED
      BY <1>3, <3>2 DEF Own, CounterOwned, PairOwned
  <2>10. LoopsLocked'
    <3>1. ~HasLoop("start")
      BY DEF HasLoop, LoopSteps, FlushSteps, PairSteps, AllocSteps, PutSteps, SyncSteps
    <3> QED
      BY <2>1, <2>4, <3>1, AppKeepsLoops
  <2>11. AppLocks'
    <3>1. back'[App] \notin SeekBacks /\ back'[App] \notin StopBacks
      <4>1. pc[App] \in AppSteps \cup StopSteps
        BY <1>7, <2>5 DEF At
      <4> QED
        BY <2>4, <4>1, NoCall
    <3>2. ~Seeking' /\ ~Stopping'
      BY <2>4, <3>1 DEF Seeking, Stopping
    <3>3. \A r \in Sides : r >= side' => lock'[r] = App
      <4>1. \A r \in Sides : r >= side + 1 => r > side
        BY <1>2, SideRange
      <4> QED
        BY <2>1, <2>2, <4>1
    <3> QED
      BY <2>4, <3>2, <3>3 DEF AppLocks
  <2> QED
    BY <1>1, <1>5, <2>3, <2>7, <2>8, <2>9, <2>10, <2>11 DEF Types, Own
<1>8. At(App, "go_on") \/ At(App, "start")
  BY DEF GoOn
<1> QED
  BY <1>6, <1>7, <1>8

-----------------------------------------------------------------------------
(* The decoders, and all steps together. *)

\* The first item of a queue, and the rest of it.
LEMMA HeadAndTail ==
    ASSUME NEW S, NEW s \in Seq(S), s # <<>>
    PROVE  Head(s) \in S /\ Tail(s) \in Seq(S)
OBVIOUS

\* A function stays one when an entry gets a value of its range.
LEMMA UpdateIn ==
    ASSUME NEW D, NEW R, NEW g \in [D -> R], NEW d, NEW v \in R
    PROVE  [g EXCEPT ![d] = v] \in [D -> R]
OBVIOUS

\* A decoder takes a step.
LEMMA DecoderTyped ==
    ASSUME Types, Shape, Own, NEW f \in Fifos, DecoderStep(f), UNCHANGED mixed
    PROVE  Types' /\ Shape' /\ Own'
<1> USE Actors
<1>1. SideTypes' /\ StreamTypes' /\ CallTypes' /\ Shape'
  BY TypesKept DEF Types, DecoderStep
<1>2. UNCHANGED <<created, bufs, pair, counter, target, lock, side, pc, job, back>>
  BY DEF DecoderStep, Take, Decode, HeadersSeen, EndSeen, Barrier, countVars, demuxVars, appVars, callVars
<1>3. Own'
  <2>1. CounterOwned' /\ PairOwned' /\ LoopsLocked'
    BY <1>2 DEF Own, CounterOwned, PairOwned, LoopsLocked
  <2>2. AppLocks'
    BY <1>2, AppLocksKept DEF Own
  <2> QED
    BY <2>1, <2>2 DEF Own
<1>4. QueueTypes'
  <2>1. fifo[f] \in Seq(Items) /\ hand[f] \in Items
    BY DEF Types, QueueTypes
  <2>2. NoItem \in Items /\ Item("barrier", hand[f].by) \in Items
    BY <2>1, ItemTyped DEF NoItem, Items, Senders, Kinds
  <2>3. \/ fifo' = fifo
        \/ fifo[f] # <<>> /\ fifo' = [fifo EXCEPT ![f] = Tail(@)]
    BY DEF DecoderStep, Take, Decode, HeadersSeen, EndSeen, Barrier
  <2>4. fifo' \in [Fifos -> Seq(Items)]
    <3>1. fifo[f] # <<>> => Tail(fifo[f]) \in Seq(Items)
      BY ONLY <2>1, HeadAndTail
    <3>2. fifo \in [Fifos -> Seq(Items)]
      BY DEF Types, QueueTypes
    <3>3. CASE fifo' = fifo
      BY <3>2, <3>3
    <3>4. CASE fifo[f] # <<>> /\ fifo' = [fifo EXCEPT ![f] = Tail(@)]
      <4>1. Tail(fifo[f]) \in Seq(Items)
        BY <3>1, <3>4
      <4>2. fifo' = [fifo EXCEPT ![f] = Tail(fifo[f])]
        BY <3>4
      <4> QED
        BY ONLY <4>1, <4>2, <3>2, UpdateIn
    <3> QED
      BY <2>3, <3>3, <3>4
  <2>5. \/ hand' = hand
        \/ fifo[f] # <<>> /\ hand' = [hand EXCEPT ![f] = Head(fifo[f])]
        \/ hand' = [hand EXCEPT ![f] = NoItem]
        \/ hand' = [hand EXCEPT ![f] = Item("barrier", hand[f].by)]
    BY DEF DecoderStep, Take, Decode, HeadersSeen, EndSeen, Barrier, Done
  <2>6. hand' \in [Fifos -> Items]
    <3>1. fifo[f] # <<>> => Head(fifo[f]) \in Items
      BY <2>1
    <3>2. hand \in [Fifos -> Items]
      BY DEF Types, QueueTypes
    <3>3. ASSUME NEW v \in Items, hand' = [hand EXCEPT ![f] = v]
          PROVE  hand' \in [Fifos -> Items]
      BY ONLY <3>2, <3>3, UpdateIn
    <3>4. CASE hand' = hand
      BY ONLY <3>2, <3>4
    <3>5. CASE fifo[f] # <<>> /\ hand' = [hand EXCEPT ![f] = Head(fifo[f])]
      BY <3>1, <3>3, <3>5
    <3>6. CASE hand' = [hand EXCEPT ![f] = NoItem]
      BY <2>2, <3>3, <3>6
    <3>7. CASE hand' = [hand EXCEPT ![f] = Item("barrier", hand[f].by)]
      BY <2>2, <3>3, <3>7
    <3> QED
      BY ONLY <2>5, <3>4, <3>5, <3>6, <3>7
  <2> QED
    BY <1>2, <2>4, <2>6 DEF Types, QueueTypes
<1>5. CountTypes'
  <2>1. /\ headers' = headers \/ headers' = [headers EXCEPT ![f] = @ + 1]
        /\ finisheds' = finisheds \/ finisheds' = [finisheds EXCEPT ![f] = finisheds[f] + 1]
        /\ asleep' = asleep \/ asleep' = asleep \cup {f} \/ asleep' = {}
    BY DEF DecoderStep, Take, Decode, HeadersSeen, EndSeen, Barrier, countVars
  <2>2. CountTypes
    BY DEF Types
  <2>3. headers' \in [Fifos -> Nat]
    BY <2>1, <2>2 DEF CountTypes
  <2>4. finisheds' \in [Fifos -> Nat]
    BY <2>1, <2>2 DEF CountTypes
  <2>5. asleep' \subseteq Threads \cup Fifos
    BY <2>1, <2>2 DEF CountTypes
  <2> QED
    BY <1>2, <2>2, <2>3, <2>4, <2>5 DEF CountTypes
<1> QED
  BY <1>1, <1>3, <1>4, <1>5 DEF Types

\* In the beginning.
LEMMA InitTyped ==
    ASSUME Init
    PROVE  Types /\ Shape /\ Own /\ Asleep /\ Dummies
<1> USE Actors
<1>1. QueueTypes
  <2>1. NoItem \in Items
    BY ItemTyped DEF NoItem, Kinds
  <2>2. <<>> \in Seq(Items)
    OBVIOUS
  <2> QED
    BY <2>1, <2>2 DEF Init, QueueTypes
<1>2. CountTypes
  BY DEF Init, CountTypes
<1>3. \A t \in Threads : pc[t] = (IF t = App THEN "idle" ELSE "off") /\ job[t] = "nop" /\ back[t] = <<>>
  BY DEF Init
<1>4. \A t \in Threads : WellFormed(t, pc[t], job[t], back[t])
  BY <1>3 DEF WellFormed, AppSteps, DemuxSteps
<1>5. CallTypes
  <2>1. "idle" \in Steps /\ "off" \in Steps /\ "nop" \in Jobs /\ <<>> \in Backs
    BY DEF Steps, AppSteps, DemuxSteps, Jobs, Backs
  <2> QED
    BY <2>1 DEF Init, CallTypes
<1>6. SideTypes
  BY DEF Init, SideTypes
<1>7. StreamTypes
  <2>1. /\ finished_naturally = FALSE /\ gapless_switch = FALSE /\ emergency_brake = FALSE
        /\ braked = FALSE /\ seeked = FALSE
    BY DEF Init
  <2>2. status = "stop" /\ side = 1 /\ requests = 0 /\ mixed = {}
    BY DEF Init
  <2>3. /\ finished_naturally \in BOOLEAN /\ gapless_switch \in BOOLEAN /\ emergency_brake \in BOOLEAN
        /\ braked \in BOOLEAN /\ seeked \in BOOLEAN
    BY ONLY <2>1, Zenon
  <2> QED
    BY ONLY <2>2, <2>3 DEF StreamTypes
<1>8. CounterOwned /\ PairOwned
  BY <1>3 DEF Init, CounterOwned, PairOwned, PutsHeaders, HasPair, PutSteps
<1>9. LoopsLocked
  BY <1>3 DEF LoopsLocked, HasLoop, LoopSteps, FlushSteps, PairSteps, AllocSteps, PutSteps, SyncSteps
<1>10. AppLocks
  <2>1. <<>> \notin SeekBacks /\ <<>> \notin StopBacks
    BY DEF SeekBacks, StopBacks
  <2> QED
    BY <1>3, <2>1 DEF AppLocks, Seeking, Stopping
<1>11. Asleep /\ Dummies
  BY DEF Init, Asleep, Dummies
<1> QED
  BY <1>1, <1>2, <1>4, <1>5, <1>6, <1>7, <1>8, <1>9, <1>10, <1>11 DEF Types, Shape, Own

-----------------------------------------------------------------------------
(* Who announces a pair, waits for the counts of it, or has waited. *)

\* Who has still to put f's buffer of a pair of HEADERS_DONE, or of END, and who waits.
PutsInto(p, f) == p = "put_video" \/ (p = "put_audio" /\ f = Audio)

AnnouncesH(p, j, f) == j = "headers" /\ PutsInto(p, f)

AnnouncesE(p, j, f) == j = "end" /\ (p \in AllocSteps \/ PutsInto(p, f))

AwaitsH(p, j) == (j = "headers" /\ p \in PutSteps) \/ p \in SyncSteps

AwaitsE(p, j) == (j = "end" /\ p \in AllocSteps \cup PutSteps) \/ p \in {"ended", "end_wait"}

\* The arguments of the two rounds.
AnnH == [f \in Fifos |-> {t \in Threads : AnnouncesH(pc[t], job[t], f)}]
AnnE == [f \in Fifos |-> {t \in Threads : AnnouncesE(pc[t], job[t], f)}]
WaitH == {t \in Threads : AwaitsH(pc[t], job[t])}
WaitE == {t \in Sides : AwaitsE(pc[t], job[t])}
PastH == {t \in Threads : pc[t] \in {"flushed", "opened"}}
PastE == {t \in Sides : pc[t] = "finished"}
Held == [t \in Threads |-> {s \in Sides : lock[s] = t}]
NoneHeld == [t \in Threads |-> {}]

RoundH == Round("headers", created, hand, fifo, headers, target, AnnH, WaitH, PastH, Held)
RoundE == Round("end", created, hand, fifo, finisheds, target, AnnE, WaitE, PastE, NoneHeld)

Rounds == /\ ~braked /\ "headers" \notin mixed => RoundH
          /\ ~braked /\ "end" \notin mixed => RoundE

\* The sets of a round, spelt out.
LEMMA Announced ==
    /\ \A f \in Fifos : AnnH[f] = {t \in Threads : AnnouncesH(pc[t], job[t], f)}
    /\ \A f \in Fifos : AnnE[f] = {t \in Threads : AnnouncesE(pc[t], job[t], f)}
    /\ \A t \in Threads : Held[t] = {s \in Sides : lock[s] = t} /\ NoneHeld[t] = {}
  BY DEF AnnH, AnnE, Held, NoneHeld

\* The arguments of the round of HEADERS_DONE,
LEMMA OverH ==
    ASSUME Types
    PROVE  RoundOver("headers", created, hand, fifo, headers, target, AnnH, WaitH, PastH, Held)
<1>1. AnnH \in [Fifos -> SUBSET Threads] /\ Held \in [Threads -> SUBSET Sides]
  BY DEF AnnH, Held
<1>2. WaitH \subseteq Threads /\ PastH \subseteq Threads
  BY DEF WaitH, PastH
<1>3. /\ created \subseteq Fifos /\ hand \in [Fifos -> Items] /\ fifo \in [Fifos -> Seq(Items)]
      /\ headers \in [Fifos -> Nat] /\ target \in [Threads -> [Fifos -> Nat]]
  BY DEF Types, QueueTypes, CountTypes
<1> QED
  BY <1>1, <1>2, <1>3 DEF RoundOver

\* of the round of END,
LEMMA OverE ==
    ASSUME Types
    PROVE  RoundOver("end", created, hand, fifo, finisheds, target, AnnE, WaitE, PastE, NoneHeld)
<1>1. AnnE \in [Fifos -> SUBSET Threads] /\ NoneHeld \in [Threads -> SUBSET Sides]
  BY DEF AnnE, NoneHeld
<1>2. WaitE \subseteq Threads /\ PastE \subseteq Threads
  BY Actors DEF WaitE, PastE
<1>3. /\ created \subseteq Fifos /\ hand \in [Fifos -> Items] /\ fifo \in [Fifos -> Seq(Items)]
      /\ finisheds \in [Fifos -> Nat] /\ target \in [Threads -> [Fifos -> Nat]]
  BY DEF Types, QueueTypes, CountTypes
<1> QED
  BY <1>1, <1>2, <1>3 DEF RoundOver

\* and of both, after a step.
LEMMA OverPrimed ==
    ASSUME Types'
    PROVE  /\ RoundOver("headers", created', hand', fifo', headers', target', AnnH', WaitH', PastH', Held')
           /\ RoundOver("end", created', hand', fifo', finisheds', target', AnnE', WaitE', PastE', NoneHeld')
<1>1. AnnH' \in [Fifos -> SUBSET Threads] /\ Held' \in [Threads -> SUBSET Sides]
  BY DEF AnnH, Held
<1>2. WaitH' \subseteq Threads /\ PastH' \subseteq Threads
  BY DEF WaitH, PastH
<1>3. /\ created' \subseteq Fifos /\ hand' \in [Fifos -> Items] /\ fifo' \in [Fifos -> Seq(Items)]
      /\ headers' \in [Fifos -> Nat] /\ target' \in [Threads -> [Fifos -> Nat]]
      /\ finisheds' \in [Fifos -> Nat]
  BY DEF Types, QueueTypes, CountTypes
<1>4. AnnE' \in [Fifos -> SUBSET Threads] /\ NoneHeld' \in [Threads -> SUBSET Sides]
  BY DEF AnnE, NoneHeld
<1>5. WaitE' \subseteq Threads /\ PastE' \subseteq Threads
  BY Actors DEF WaitE, PastE
<1>6. RoundOver("headers", created', hand', fifo', headers', target', AnnH', WaitH', PastH', Held')
  BY <1>1, <1>2, <1>3 DEF RoundOver
<1>7. RoundOver("end", created', hand', fifo', finisheds', target', AnnE', WaitE', PastE', NoneHeld')
  BY <1>3, <1>4, <1>5 DEF RoundOver
<1> QED
  BY <1>6, <1>7

\* A thread at such a step takes no part in a round.
\* Steps that take no part in a round, and after which nothing is claimed.
Calm(p, j) ==
    /\ p \notin SyncSteps \cup {"ended", "end_wait"}
    /\ p \in PutSteps => j \notin {"headers", "end"}
    /\ p \in AllocSteps => j # "end"

Idle(p, j) == Calm(p, j) /\ p \notin {"flushed", "opened", "finished"}

\* What it is to be no part of a round.
LEMMA CalmIs ==
    /\ \A p, j : Calm(p, j) => /\ ~AwaitsH(p, j) /\ ~AwaitsE(p, j)
                               /\ \A f : ~AnnouncesH(p, j, f) /\ ~AnnouncesE(p, j, f)
                               /\ p \notin {"sync_wait", "end_wait"}
    /\ \A p, j : Idle(p, j) <=> Calm(p, j) /\ p \notin {"flushed", "opened", "finished"}
  BY DEF Calm, Idle, AwaitsH, AwaitsE, AnnouncesH, AnnouncesE, PutsInto, PutSteps, AllocSteps, SyncSteps

\* The sleepers are told, spelt out.
\* WaitersTold, of other values.
Told(sleepers, p, hs, es, goal) ==
    /\ \A f \in Fifos : f \in sleepers => es[f] > es[Other(f)]
    /\ \A t \in Threads : t \in sleepers =>
            IF p[t] = "sync_wait" THEN \E f \in Fifos : ~(hs[f] >= goal[t][f])
                                  ELSE \E f \in Fifos : ~(es[f] >= goal[t][f])

\* WaitersTold is about the sleepers being told,
LEMMA ToldIs ==
    ASSUME Types, Asleep
    PROVE  WaitersTold <=> (~braked /\ mixed = {} => Told(asleep, pc, headers, finisheds, target))
<1> USE Actors
<1>1. ASSUME NEW t \in Threads, t \in asleep
      PROVE  Reached(t) <=> \A f \in Fifos : IF pc[t] = "sync_wait" THEN headers[f] >= target[t][f]
                                                                 ELSE finisheds[f] >= target[t][f]
  <2>1. pc[t] \in {"sync_wait", "end_wait"}
    BY <1>1 DEF Asleep
  <2> QED
    BY <2>1 DEF Reached, Counts, At
<1>2. asleep \subseteq Threads \cup Fifos
  BY DEF Types, CountTypes
<1>3. Told(asleep, pc, headers, finisheds, target)
        <=> \A w \in asleep : IF w \in Fifos THEN finisheds[w] > finisheds[Other(w)] ELSE ~Reached(w)
  BY <1>1, <1>2 DEF Told
<1> QED
  BY <1>3 DEF WaitersTold

\* and so it is after a step.
LEMMA ToldPrimed ==
    ASSUME Types', Asleep'
    PROVE  WaitersTold' <=> (~braked' /\ mixed' = {} => Told(asleep', pc', headers', finisheds', target'))
<1> USE Actors
<1>1. ASSUME NEW t \in Threads, t \in asleep'
      PROVE  Reached(t)' <=> \A f \in Fifos : IF pc'[t] = "sync_wait" THEN headers'[f] >= target'[t][f]
                                                                 ELSE finisheds'[f] >= target'[t][f]
  <2>1. pc'[t] \in {"sync_wait", "end_wait"}
    BY <1>1 DEF Asleep
  <2> QED
    BY <2>1 DEF Reached, Counts, At
<1>2. asleep' \subseteq Threads \cup Fifos
  BY DEF Types, CountTypes
<1>3. Told(asleep', pc', headers', finisheds', target')
        <=> \A w \in asleep' : IF w \in Fifos THEN finisheds'[w] > finisheds'[Other(w)] ELSE ~Reached(w)'
  BY <1>1, <1>2 DEF Told
<1> QED
  BY <1>3 DEF WaitersTold

\* The last part of a step: the threads go on.  Those who take part in a round
\* stay where they are and hold no more demuxers back, the others do not
\* become part of one.
LEMMA Settles ==
    ASSUME Types, Types', Asleep, Dummies, WaitersTold,
           UNCHANGED <<created, hand, headers, finisheds, target, asleep, braked, mixed>>,
           \A f \in Fifos : f \notin created => fifo'[f] = <<>>,
           \A u \in Threads :
             \/ /\ pc'[u] = pc[u] /\ job'[u] = job[u]
                /\ \A s \in Sides : lock'[s] = u => lock[s] = u
             \/ Calm(pc[u], job[u]) /\ Idle(pc'[u], job'[u]),
           ~braked /\ "headers" \notin mixed =>
             Round("headers", created, hand, fifo', headers, target, AnnH, WaitH, PastH, Held),
           ~braked /\ "end" \notin mixed =>
             Round("end", created, hand, fifo', finisheds, target, AnnE, WaitE, PastE, NoneHeld)
    PROVE  Asleep' /\ Dummies' /\ Rounds' /\ WaitersTold'
<1> USE Actors
<1>1. \A u \in Threads : u \in asleep => pc'[u] = pc[u]
  BY CalmIs DEF Asleep
<1>2. Asleep' /\ Dummies'
  BY <1>1 DEF Asleep, Dummies
<1>3. WaitersTold'
  <2>1. Told(asleep, pc, headers, finisheds, target) => Told(asleep', pc', headers', finisheds', target')
    BY <1>1 DEF Told
  <2> QED
    BY <1>2, <2>1, ToldIs, ToldPrimed
<1>4. \A f \in Fifos, u \in Threads :
        /\ AnnouncesH(pc'[u], job'[u], f) <=> AnnouncesH(pc[u], job[u], f)
        /\ AnnouncesE(pc'[u], job'[u], f) <=> AnnouncesE(pc[u], job[u], f)
  BY CalmIs
<1>5. \A f \in Fifos : AnnH'[f] = AnnH[f] /\ AnnE'[f] = AnnE[f]
  BY <1>4 DEF AnnH, AnnE
<1>6. \A u \in Threads : AwaitsH(pc'[u], job'[u]) \/ AwaitsE(pc'[u], job'[u])
            \/ pc'[u] \in {"flushed", "opened", "finished"} =>
        /\ pc'[u] = pc[u] /\ job'[u] = job[u]
        /\ \A s \in Sides : lock'[s] = u => lock[s] = u
  BY CalmIs
<1>7. WaitH' \subseteq WaitH /\ PastH' \subseteq PastH /\ WaitE' \subseteq WaitE /\ PastE' \subseteq PastE
  <2>1. \A u \in Threads : AwaitsH(pc'[u], job'[u]) => AwaitsH(pc[u], job[u])
    BY <1>6
  <2>2. \A u \in Threads : AwaitsE(pc'[u], job'[u]) => AwaitsE(pc[u], job[u])
    BY <1>6
  <2>3. \A u \in Threads : pc'[u] \in {"flushed", "opened", "finished"} => pc'[u] = pc[u]
    BY <1>6
  <2> QED
    BY <2>1, <2>2, <2>3 DEF WaitH, PastH, WaitE, PastE
<1>8. \A u \in Threads : u \in WaitH' \cup PastH' => Held'[u] \subseteq Held[u]
  <2>1. \A u \in Threads : u \in WaitH' \cup PastH' => \A s \in Sides : lock'[s] = u => lock[s] = u
    BY <1>6 DEF WaitH, PastH
  <2> QED
    BY <2>1 DEF Held
<1>9. ASSUME ~braked, "headers" \notin mixed
      PROVE  RoundH'
  <2>1. RoundOver("headers", created, hand, fifo', headers, target, AnnH, WaitH, PastH, Held)
    <3>1. RoundOver("headers", created, hand, fifo, headers, target, AnnH, WaitH, PastH, Held)
      BY OverH
    <3>2. fifo' \in [Fifos -> Seq(Items)]
      BY DEF Types, QueueTypes
    <3> QED
      BY <3>1, <3>2 DEF RoundOver
  <2>2. RoundOver("headers", created, hand, fifo', headers, target', AnnH', WaitH', PastH', Held')
    BY OverPrimed
  <2>3. Round("headers", created, hand, fifo', headers, target, AnnH, WaitH, PastH, Held)
    BY <1>9
  <2>4. created \subseteq Fifos /\ WaitH' \subseteq Threads /\ PastH' \subseteq Threads
    BY <2>1, <2>2 DEF RoundOver
  <2>5. Round("headers", created, hand, fifo', headers, target', AnnH', WaitH', PastH', Held')
    <3>1. /\ \A f \in created : AnnH'[f] = AnnH[f]
          /\ WaitH' \subseteq WaitH
          /\ \A u \in WaitH' : target'[u] = target[u] /\ Held'[u] \subseteq Held[u]
          /\ \A u \in PastH' : Held'[u] \subseteq Held[u]
          /\ PastH' \ PastH = {}
      BY <1>5, <1>7, <1>8, <2>4
    <3> QED
      BY <2>1, <2>2, <2>3, <3>1, RoundQuiet
  <2> QED
    BY <2>5 DEF RoundH
<1>10. ASSUME ~braked, "end" \notin mixed
       PROVE  RoundE'
  <2>1. RoundOver("end", created, hand, fifo', finisheds, target, AnnE, WaitE, PastE, NoneHeld)
    <3>1. RoundOver("end", created, hand, fifo, finisheds, target, AnnE, WaitE, PastE, NoneHeld)
      BY OverE
    <3>2. fifo' \in [Fifos -> Seq(Items)]
      BY DEF Types, QueueTypes
    <3> QED
      BY <3>1, <3>2 DEF RoundOver
  <2>2. RoundOver("end", created, hand, fifo', finisheds, target', AnnE', WaitE', PastE', NoneHeld')
    BY OverPrimed
  <2>3. Round("end", created, hand, fifo', finisheds, target, AnnE, WaitE, PastE, NoneHeld)
    BY <1>10
  <2>4. created \subseteq Fifos /\ NoneHeld' = NoneHeld
    BY <2>1 DEF RoundOver, NoneHeld
  <2>5. Round("end", created, hand, fifo', finisheds, target', AnnE', WaitE', PastE', NoneHeld')
    <3>1. /\ \A f \in created : AnnE'[f] = AnnE[f]
          /\ WaitE' \subseteq WaitE
          /\ \A u \in WaitE' : target'[u] = target[u] /\ NoneHeld'[u] \subseteq NoneHeld[u]
          /\ \A u \in PastE' : NoneHeld'[u] \subseteq NoneHeld[u]
          /\ PastE' \ PastE = {}
      BY <1>5, <1>7, <2>4
    <3> QED
      BY <2>1, <2>2, <2>3, <3>1, RoundQuiet
  <2> QED
    BY <2>5 DEF RoundE
<1>11. (~braked /\ "headers" \notin mixed => RoundH') /\ (~braked /\ "end" \notin mixed => RoundE')
  BY <1>9, <1>10
<1> QED
  BY <1>2, <1>3, <1>11 DEF Rounds

\* Who sleeps, what a dummy fifo holds, the two rounds, and the promise to the sleepers.
Syncs == Asleep /\ Dummies /\ Rounds /\ WaitersTold

\* A thread that takes no part in a round puts a buffer of another kind.
LEMMA RoundsPut ==
    ASSUME Types, Rounds, NEW t \in Threads, Idle(pc[t], job[t]),
           NEW f \in Fifos, NEW k \in {"data", "reset", "nop"}, Put(f, Item(k, t)),
           k = "data" => t \in Sides /\ lock[t] = t
    PROVE  /\ ~braked /\ "headers" \notin mixed =>
                Round("headers", created, hand, fifo', headers, target, AnnH, WaitH, PastH, Held)
           /\ ~braked /\ "end" \notin mixed =>
                Round("end", created, hand, fifo', finisheds, target, AnnE, WaitE, PastE, NoneHeld)
           /\ \A g \in Fifos : g \notin created => fifo'[g] = fifo[g]
<1> USE Actors
<1> DEFINE x == Item(k, t)
<1>1. x \in Items /\ x.kind = k /\ x.by = t
  <2>1. k \in Kinds /\ t \in Senders
    BY DEF Kinds
  <2> QED
    BY <2>1, ItemTyped
<1>2. /\ f \in created => fifo'[f] = Append(fifo[f], x)
      /\ f \notin created => fifo' = fifo
      /\ \A g \in Fifos : g # f => fifo'[g] = fifo[g]
  BY DEF Put, Types, QueueTypes
<1> HIDE DEF x
<1>3. t \notin WaitH /\ t \notin PastH /\ t \notin WaitE /\ t \notin PastE
  BY CalmIs DEF WaitH, PastH, WaitE, PastE
<1>4. \A u \in Threads : u # t => ~Older(x, u, Held[u]) /\ ~Older(x, u, NoneHeld[u])
  <2> SUFFICES ASSUME NEW u \in Threads, u # t
               PROVE  ~(x.by \in Held[u] /\ x.kind = "data")
    BY <1>1, Announced DEF Older
  <2> QED
    BY <1>1, Announced
<1>5. ASSUME ~braked, "headers" \notin mixed
      PROVE  Round("headers", created, hand, fifo', headers, target, AnnH, WaitH, PastH, Held)
  <2>1. Round("headers", created, hand, fifo, headers, target, AnnH, WaitH, PastH, Held)
    BY <1>5 DEF Rounds, RoundH
  <2>2. CASE f \notin created
    BY <1>2, <2>1, <2>2
  <2>3. CASE f \in created
    <3>1. RoundOver("headers", created, hand, fifo, headers, target, AnnH, WaitH, PastH, Held)
      BY OverH
    <3>2. /\ \A u \in WaitH : u \in AnnH[f] \/ ~Older(x, u, Held[u])
          /\ \A u \in PastH : ~Older(x, u, Held[u])
          /\ x.kind # "headers"
      BY <1>1, <1>3, <1>4 DEF WaitH, PastH
    <3>3. fifo'[f] = Append(fifo[f], x) /\ \A g \in created : g # f => fifo'[g] = fifo[g]
      BY <1>2, <2>3 DEF Types, QueueTypes
    <3> QED
      BY <1>1, <2>1, <2>3, <3>1, <3>2, <3>3, RoundPut
  <2> QED
    BY <2>2, <2>3
<1>6. ASSUME ~braked, "end" \notin mixed
      PROVE  Round("end", created, hand, fifo', finisheds, target, AnnE, WaitE, PastE, NoneHeld)
  <2>1. Round("end", created, hand, fifo, finisheds, target, AnnE, WaitE, PastE, NoneHeld)
    BY <1>6 DEF Rounds, RoundE
  <2>2. CASE f \notin created
    BY <1>2, <2>1, <2>2
  <2>3. CASE f \in created
    <3>1. RoundOver("end", created, hand, fifo, finisheds, target, AnnE, WaitE, PastE, NoneHeld)
      BY OverE
    <3>2. /\ \A u \in WaitE : u \in AnnE[f] \/ ~Older(x, u, NoneHeld[u])
          /\ \A u \in PastE : ~Older(x, u, NoneHeld[u])
          /\ x.kind # "end"
      BY <1>1, <1>3, <1>4 DEF WaitE, PastE
    <3>3. fifo'[f] = Append(fifo[f], x) /\ \A g \in created : g # f => fifo'[g] = fifo[g]
      BY <1>2, <2>3 DEF Types, QueueTypes
    <3> QED
      BY <1>1, <2>1, <2>3, <3>1, <3>2, <3>3, RoundPut
  <2> QED
    BY <2>2, <2>3
<1> QED
  BY <1>2, <1>5, <1>6

\* The data in a fifo is cleared.
LEMMA RoundsCleared ==
    ASSUME Types, Rounds, Dummies, NEW f \in Fifos, Clear(f)
    PROVE  /\ ~braked /\ "headers" \notin mixed =>
                Round("headers", created, hand, fifo', headers, target, AnnH, WaitH, PastH, Held)
           /\ ~braked /\ "end" \notin mixed =>
                Round("end", created, hand, fifo', finisheds, target, AnnE, WaitE, PastE, NoneHeld)
           /\ \A g \in Fifos : g \notin created => fifo'[g] = fifo[g]
<1>1. fifo'[f] = Kept(fifo[f]) /\ \A g \in Fifos : g # f => fifo'[g] = fifo[g]
  BY DEF Clear, Types, QueueTypes
<1>2. fifo' \in [Fifos -> Seq(Items)]
  BY ClearTyped DEF Types
<1>3. hand \in [Fifos -> Items] /\ fifo \in [Fifos -> Seq(Items)] /\ created \subseteq Fifos
  BY DEF Types, QueueTypes
<1>4. f \notin created => fifo' = fifo
  <2>1. Kept(<<>>) = <<>>
    BY WithoutEmpty DEF Kept
  <2> QED
    BY <1>1, <1>2, <1>3, <2>1 DEF Dummies
<1>5. ASSUME ~braked, "headers" \notin mixed
      PROVE  Round("headers", created, hand, fifo', headers, target, AnnH, WaitH, PastH, Held)
  <2>1. Round("headers", created, hand, fifo, headers, target, AnnH, WaitH, PastH, Held)
    BY <1>5 DEF Rounds, RoundH
  <2>2. CASE f \notin created
    BY <1>4, <2>1, <2>2
  <2>3. CASE f \in created
    <3>1. RoundOver("headers", created, hand, fifo, headers, target, AnnH, WaitH, PastH, Held)
      BY OverH
    <3>2. PICK e : Thins(e, hand[f], fifo'[f], hand[f], fifo[f], "headers")
      <4>1. hand[f] \in Items /\ fifo[f] \in Seq(Items)
        BY <1>3
      <4> QED
        BY <1>1, <4>1, ThinClear
    <3>3. \A g \in created : g # f => hand[g] = hand[g] /\ fifo'[g] = fifo[g]
      BY <1>1, <1>3
    <3> QED
      BY <1>2, <1>3, <2>1, <2>3, <3>1, <3>2, <3>3, RoundThins
  <2> QED
    BY <2>2, <2>3
<1>6. ASSUME ~braked, "end" \notin mixed
      PROVE  Round("end", created, hand, fifo', finisheds, target, AnnE, WaitE, PastE, NoneHeld)
  <2>1. Round("end", created, hand, fifo, finisheds, target, AnnE, WaitE, PastE, NoneHeld)
    BY <1>6 DEF Rounds, RoundE
  <2>2. CASE f \notin created
    BY <1>4, <2>1, <2>2
  <2>3. CASE f \in created
    <3>1. RoundOver("end", created, hand, fifo, finisheds, target, AnnE, WaitE, PastE, NoneHeld)
      BY OverE
    <3>2. PICK e : Thins(e, hand[f], fifo'[f], hand[f], fifo[f], "end")
      <4>1. hand[f] \in Items /\ fifo[f] \in Seq(Items)
        BY <1>3
      <4> QED
        BY <1>1, <4>1, ThinClear
    <3>3. \A g \in created : g # f => hand[g] = hand[g] /\ fifo'[g] = fifo[g]
      BY <1>1, <1>3
    <3> QED
      BY <1>2, <1>3, <2>1, <2>3, <3>1, <3>2, <3>3, RoundThins
  <2> QED
    BY <2>2, <2>3
<1> QED
  BY <1>1, <1>4, <1>5, <1>6

\* A step of one thread that takes no part in a round then.
LEMMA OneSettles ==
    ASSUME Types, Types', Syncs,
           UNCHANGED <<created, hand, headers, finisheds, target, asleep, braked, mixed>>,
           NEW t \in Threads, Calm(pc[t], job[t]), Idle(pc'[t], job'[t]),
           \A u \in Threads : u # t => /\ pc'[u] = pc[u] /\ job'[u] = job[u]
                                       /\ \A s \in Sides : lock'[s] = u => lock[s] = u,
           \/ UNCHANGED fifo
           \/ \E f \in Fifos : Clear(f)
           \/ /\ Idle(pc[t], job[t])
              /\ \E f \in Fifos, k \in {"data", "reset", "nop"} :
                    Put(f, Item(k, t)) /\ (k = "data" => t \in Sides /\ lock[t] = t)
    PROVE  Syncs'
<1>1. Asleep /\ Dummies /\ Rounds /\ WaitersTold
  BY DEF Syncs
<1>2. /\ ~braked /\ "headers" \notin mixed =>
           Round("headers", created, hand, fifo', headers, target, AnnH, WaitH, PastH, Held)
      /\ ~braked /\ "end" \notin mixed =>
           Round("end", created, hand, fifo', finisheds, target, AnnE, WaitE, PastE, NoneHeld)
      /\ \A g \in Fifos : g \notin created => fifo'[g] = fifo[g]
  <2>1. CASE UNCHANGED fifo
    BY <1>1, <2>1 DEF Rounds, RoundH, RoundE
  <2>2. CASE \E f \in Fifos : Clear(f)
    BY <1>1, <2>2, RoundsCleared
  <2>3. CASE /\ Idle(pc[t], job[t])
             /\ \E f \in Fifos, k \in {"data", "reset", "nop"} :
                   Put(f, Item(k, t)) /\ (k = "data" => t \in Sides /\ lock[t] = t)
    BY <1>1, <2>3, RoundsPut
  <2> QED
    BY <2>1, <2>2, <2>3
<1>3. \A f \in Fifos : f \notin created => fifo'[f] = <<>>
  BY <1>1, <1>2 DEF Dummies
<1>4. \A u \in Threads :
        \/ /\ pc'[u] = pc[u] /\ job'[u] = job[u]
           /\ \A s \in Sides : lock'[s] = u => lock[s] = u
        \/ Calm(pc[u], job[u]) /\ Idle(pc'[u], job'[u])
  OBVIOUS
<1>5. Asleep' /\ Dummies' /\ Rounds' /\ WaitersTold'
  BY <1>1, <1>2, <1>3, <1>4, Settles
<1> QED
  BY <1>5 DEF Syncs

-----------------------------------------------------------------------------
(* The steps that take no part in a round. *)

\* Steps that are in no call for a pair.
Plain == (DemuxSteps \cup AppSteps \cup FlushSteps \cup StopSteps)
            \ {"ended", "end_wait", "finished", "flushed", "opened"}

\* Most steps are no part of a round.
LEMMA PlainIdle ==
    /\ \A p \in Plain : \A j : Idle(p, j) /\ Calm(p, j)
    /\ \A p \in {"flushed", "opened", "finished"} : \A j : Calm(p, j)
    /\ \A j \in {"nop", "headers"} : Idle("alloc_video", j)
  BY DEF Plain, Idle, Calm, DemuxSteps, AppSteps, FlushSteps, StopSteps, AllocSteps, PutSteps, SyncSteps

\* What Go leaves alone.
LEMMA Gone ==
    ASSUME CallTypes, NEW t \in Threads, NEW step, Go(t, step)
    PROVE  pc'[t] = step /\ job' = job /\ \A u \in Threads : u # t => pc'[u] = pc[u]
  BY DEF CallTypes, Go

\* What SendPair leaves alone.
LEMMA CallSent ==
    ASSUME CallTypes, NEW t \in Threads, NEW kind, NEW next, SendPair(t, kind, next)
    PROVE  /\ pc'[t] = "alloc_video" /\ job'[t] = kind
           /\ \A u \in Threads : u # t => pc'[u] = pc[u] /\ job'[u] = job[u]
  BY DEF CallTypes, SendPair

\* A thread that takes no part in a round goes on, and still does not.
LEMMA PlainSettles ==
    ASSUME Types, Types', Syncs,
           UNCHANGED <<created, hand, headers, finisheds, target, asleep, braked, mixed>>,
           NEW t \in Threads,
           pc[t] \in Plain \cup {"flushed", "opened", "finished"},
           pc'[t] \in Plain \/ (pc'[t] = "alloc_video" /\ job'[t] \in {"nop", "headers"}),
           \A u \in Threads : u # t => pc'[u] = pc[u] /\ job'[u] = job[u],
           \A u \in Threads, s \in Sides : u # t /\ lock'[s] = u => lock[s] = u,
           \/ UNCHANGED fifo
           \/ \E f \in Fifos : Clear(f)
           \/ /\ pc[t] \in Plain
              /\ \E f \in Fifos, k \in {"data", "reset", "nop"} :
                    Put(f, Item(k, t)) /\ (k = "data" => t \in Sides /\ lock[t] = t)
    PROVE  Syncs'
<1>1. Calm(pc[t], job[t]) /\ (pc[t] \in Plain => Idle(pc[t], job[t]))
  BY PlainIdle
<1>2. Idle(pc'[t], job'[t])
  BY PlainIdle
<1>3. \A u \in Threads : u # t => /\ pc'[u] = pc[u] /\ job'[u] = job[u]
                                  /\ \A s \in Sides : lock'[s] = u => lock[s] = u
  OBVIOUS
<1>4. CASE UNCHANGED fifo
  BY <1>1, <1>2, <1>3, <1>4, OneSettles
<1>5. CASE \E f \in Fifos : Clear(f)
  BY <1>1, <1>2, <1>3, <1>5, OneSettles
<1>6. CASE /\ pc[t] \in Plain
           /\ \E f \in Fifos, k \in {"data", "reset", "nop"} :
                 Put(f, Item(k, t)) /\ (k = "data" => t \in Sides /\ lock[t] = t)
  BY <1>1, <1>2, <1>3, <1>6, OneSettles
<1> QED
  BY <1>4, <1>5, <1>6

\* The same for the steps of demux_loop that put no buffer.
LEMMA LoopSettles ==
    ASSUME Types, Types', Syncs,
           UNCHANGED <<created, fifo, hand, headers, finisheds, target, asleep, braked, mixed>>,
           NEW s \in Sides, pc[s] \in Plain \cup {"finished"},
           (\E step \in Plain : Go(s, step)) \/ (\E next : SendPair(s, "nop", next)),
           lock' = lock \/ Unlock(s) \/ lock' = [lock EXCEPT ![s] = s]
    PROVE  Syncs'
<1> USE Actors
<1>1. CallTypes /\ lock \in [Sides -> Senders]
  BY DEF Types, SideTypes
<1>2. /\ pc'[s] \in Plain \/ (pc'[s] = "alloc_video" /\ job'[s] \in {"nop", "headers"})
      /\ \A u \in Threads : u # s => pc'[u] = pc[u] /\ job'[u] = job[u]
  <2>1. CASE \E step \in Plain : Go(s, step)
    BY <1>1, <2>1, Gone
  <2>2. CASE \E next : SendPair(s, "nop", next)
    <3>1. PICK next : SendPair(s, "nop", next)
      BY <2>2
    <3>2. /\ pc'[s] = "alloc_video" /\ job'[s] = "nop"
          /\ \A u \in Threads : u # s => pc'[u] = pc[u] /\ job'[u] = job[u]
      BY <1>1, <3>1, CallSent
    <3> QED
      BY <3>2
  <2> QED
    BY <2>1, <2>2
<1>3. \A u \in Threads, r \in Sides : u # s /\ lock'[r] = u => lock[r] = u
  BY <1>1 DEF Unlock
<1>4. s \in Threads
  OBVIOUS
<1> QED
  BY <1>2, <1>3, <1>4, PlainSettles

\* Those steps.
LEMMA PlainSteps ==
    /\ \A p \in {"off", "start", "enter", "chunk", "data_video", "data_audio", "check", "suspended", "resume",
                 "drain", "drain_wait", "delay", "delay_wait", "again", "exit"} : p \in Plain
    /\ \A p \in {"flush", "clear_video", "clear_audio", "reset", "reset_video", "reset_audio"} : p \in Plain
    /\ \A p \in {"stop_side", "stop_lock", "stop_unlock", "stop_join", "idle", "open", "play_video",
                 "play_audio", "play_lock", "seek", "go_on", "start", "played"} : p \in Plain
  BY DEF Plain, DemuxSteps, AppSteps, FlushSteps, StopSteps

\* The steps of demux_loop that put no buffer.
LEMMA DemuxSettles ==
    ASSUME Types, Types', Shape, Own, Syncs, NEW s \in Sides, UNCHANGED mixed,
           \/ LoopStart(s) \/ Chunk(s) \/ LetIn(s) \/ Drain(s) \/ Delay(s) \/ Again(s)
           \/ StreamEnd(s)
    PROVE  Syncs'
<1>1. UNCHANGED <<created, fifo, hand, headers, finisheds, target, asleep, braked, mixed>>
  BY DEF LoopStart, Chunk, LetIn, Drain, Delay, Again, StreamEnd, queueVars, countVars, brakeVars
<1>2. CASE LoopStart(s)
  <2>1. /\ pc[s] \in Plain /\ \E step \in Plain : Go(s, step)
        /\ lock' = lock \/ lock' = [lock EXCEPT ![s] = s]
    BY <1>2, PlainSteps DEF LoopStart, At
  <2> QED
    BY <1>1, <2>1, LoopSettles
<1>3. CASE Chunk(s)
  <2>1. /\ pc[s] \in Plain /\ lock' = lock
        /\ (\E step \in Plain : Go(s, step)) \/ SendPair(s, "nop", "drain")
    BY <1>3, PlainSteps DEF Chunk, At
  <2> QED
    BY <1>1, <2>1, LoopSettles
<1>4. CASE LetIn(s)
  <2>1. /\ pc[s] \in Plain /\ \E step \in Plain : Go(s, step)
        /\ lock' = lock \/ Unlock(s) \/ lock' = [lock EXCEPT ![s] = s]
    BY <1>4, PlainSteps DEF LetIn, At
  <2> QED
    BY <1>1, <2>1, LoopSettles
<1>5. CASE Drain(s)
  <2>1. /\ pc[s] \in Plain /\ \E step \in Plain : Go(s, step)
        /\ lock' = lock \/ Unlock(s) \/ lock' = [lock EXCEPT ![s] = s]
    BY <1>5, PlainSteps DEF Drain, At
  <2> QED
    BY <1>1, <2>1, LoopSettles
<1>6. CASE Delay(s)
  <2>1. /\ pc[s] \in Plain /\ \E step \in Plain : Go(s, step)
        /\ lock' = lock \/ Unlock(s)
    BY <1>6, PlainSteps DEF Delay, At
  <2> QED
    BY <1>1, <2>1, LoopSettles
<1>7. CASE Again(s)
  <2>1. /\ pc[s] \in Plain /\ \E step \in Plain : Go(s, step)
        /\ lock' = lock
    BY <1>7, PlainSteps DEF Again, At
  <2> QED
    BY <1>1, <2>1, LoopSettles
<1>8. CASE StreamEnd(s)
  <2>1. /\ pc[s] = "finished" /\ \E step \in Plain : Go(s, step)
        /\ lock' = lock
    BY <1>8, PlainSteps DEF StreamEnd, At, demuxVars
  <2> QED
    BY <1>1, <2>1, LoopSettles
<1> QED
  BY <1>2, <1>3, <1>4, <1>5, <1>6, <1>7, <1>8

\* Data, which a demuxer puts with its lock held.
LEMMA SendDataSettles ==
    ASSUME Types, Types', Shape, Own, Syncs, NEW s \in Sides, SendData(s), UNCHANGED mixed
    PROVE  Syncs'
<1> USE Actors
<1>1. UNCHANGED <<created, hand, headers, finisheds, target, asleep, braked, mixed>> /\ UNCHANGED lock
  BY DEF SendData, countVars, brakeVars
<1>2. PICK f \in Fifos : /\ At(s, IF f = Video THEN "data_video" ELSE "data_audio")
                         /\ Put(f, Item("data", s))
  BY DEF SendData
<1>3. pc[s] \in Plain /\ lock[s] = s
  <2>1. pc[s] \in {"data_video", "data_audio"}
    BY <1>2 DEF At
  <2> QED
    BY <2>1, LoopAt, PlainSteps DEF HasLoop, LoopSteps
<1>4. pc'[s] \in Plain /\ \A u \in Threads : u # s => pc'[u] = pc[u] /\ job'[u] = job[u]
  BY Gone, PlainSteps DEF SendData, Types
<1>5. s \in Threads
  OBVIOUS
<1>6. \E g \in Fifos, k \in {"data", "reset", "nop"} :
            Put(g, Item(k, s)) /\ (k = "data" => s \in Sides /\ lock[s] = s)
  BY <1>2, <1>3
<1> QED
  BY <1>1, <1>3, <1>4, <1>5, <1>6, PlainSettles

\* A jump.
LEMMA JumpSettles ==
    ASSUME Types, Types', Shape, Own, Syncs, NEW s \in Sides, Jump(s), UNCHANGED mixed
    PROVE  Syncs'
<1> USE Actors
<1>1. UNCHANGED <<created, fifo, hand, headers, finisheds, target, asleep, braked, mixed>> /\ UNCHANGED lock
  BY DEF Jump, queueVars, countVars, brakeVars, demuxVars
<1>2. pc[s] \in Plain
  BY PlainSteps DEF Jump, At
<1>3. pc'[s] = "flush" /\ \A u \in Threads : u # s => pc'[u] = pc[u] /\ job'[u] = job[u]
  BY DEF Jump, Types, CallTypes
<1>4. s \in Threads /\ pc'[s] \in Plain
  BY <1>3, PlainSteps
<1> QED
  BY <1>1, <1>2, <1>3, <1>4, PlainSettles

\* The steps of the flush.
LEMMA FlushSettles ==
    ASSUME Types, Types', Shape, Own, Syncs, NEW t \in Threads, Flush(t), UNCHANGED mixed
    PROVE  Syncs'
<1> USE Actors
<1>1. UNCHANGED <<created, hand, headers, finisheds, target, asleep, braked, mixed>> /\ UNCHANGED lock
  BY DEF Flush, FlushBegin, FlushClear, FlushReset, FlushEnd, queueVars, countVars, brakeVars
<1>2. CallTypes
  BY DEF Types
<1>3. \A u \in Threads, r \in Sides : u # t /\ lock'[r] = u => lock[r] = u
  BY <1>1
<1>4. ASSUME Return(t), pc[t] \in FlushSteps
      PROVE  pc'[t] \in Plain /\ \A u \in Threads : u # t => pc'[u] = pc[u] /\ job'[u] = job[u]
  <2>1. pc'[t] \in {"stop_unlock", "seek", "check"}
    BY <1>2, <1>4, Returned
  <2>2. job' = job /\ \A u \in Threads : u # t => pc'[u] = pc[u]
    BY <1>2, <1>4, Returned
  <2> QED
    BY <2>1, <2>2, PlainSteps
<1>5. CASE FlushBegin(t)
  <2>1. pc[t] = "flush" /\ UNCHANGED fifo /\ (Return(t) \/ Go(t, "clear_video"))
    BY <1>5 DEF FlushBegin, At, queueVars
  <2>2. pc[t] \in Plain /\ pc[t] \in FlushSteps
    BY <2>1, PlainSteps DEF FlushSteps
  <2>3. pc'[t] \in Plain /\ \A u \in Threads : u # t => pc'[u] = pc[u] /\ job'[u] = job[u]
    BY <1>2, <1>4, <2>1, <2>2, Gone, PlainSteps
  <2> QED
    BY <1>1, <1>3, <2>1, <2>2, <2>3, PlainSettles
<1>6. CASE FlushEnd(t)
  <2>1. pc[t] = "flushed" /\ UNCHANGED fifo /\ Return(t)
    BY <1>6 DEF FlushEnd, At, queueVars
  <2>2. pc'[t] \in Plain /\ \A u \in Threads : u # t => pc'[u] = pc[u] /\ job'[u] = job[u]
    BY <1>4, <2>1 DEF FlushSteps
  <2> QED
    BY <1>1, <1>3, <2>1, <2>2, PlainSettles
<1>7. CASE FlushClear(t)
  <2>1. pc[t] \in Plain /\ (\E f \in Fifos : Clear(f)) /\ \E step \in Plain : Go(t, step)
    BY <1>7, PlainSteps DEF FlushClear, At
  <2>2. pc'[t] \in Plain /\ \A u \in Threads : u # t => pc'[u] = pc[u] /\ job'[u] = job[u]
    BY <1>2, <2>1, Gone
  <2> QED
    BY <1>1, <1>3, <2>1, <2>2, PlainSettles
<1>8. CASE FlushReset(t)
  <2>1. pc[t] \in Plain
    BY <1>8, PlainSteps DEF FlushReset, At
  <2>2. (\E step \in Plain : Go(t, step)) \/ SendPair(t, "headers", "flushed")
    BY <1>8, PlainSteps DEF FlushReset, HeadersDone
  <2>3. /\ pc'[t] \in Plain \/ (pc'[t] = "alloc_video" /\ job'[t] \in {"nop", "headers"})
        /\ \A u \in Threads : u # t => pc'[u] = pc[u] /\ job'[u] = job[u]
    BY <1>2, <2>2, Gone, CallSent
  <2>4. UNCHANGED fifo \/ \E f \in Fifos : Put(f, Item("reset", t))
    BY <1>8 DEF FlushReset
  <2>5. \/ UNCHANGED fifo
        \/ \E f \in Fifos, k \in {"data", "reset", "nop"} :
                Put(f, Item(k, t)) /\ (k = "data" => t \in Sides /\ lock[t] = t)
    <3>1. "reset" \in {"data", "reset", "nop"} /\ "reset" # "data"
      OBVIOUS
    <3> QED
      BY <2>4, <3>1
  <2> QED
    BY <1>1, <1>3, <2>1, <2>3, <2>5, PlainSettles
<1> QED
  BY <1>5, <1>6, <1>7, <1>8 DEF Flush

\* The application goes on, but for the END of a stopped stream.
LEMMA AppGoesOn ==
    ASSUME Types, Types', Syncs,
           UNCHANGED <<created, hand, headers, finisheds, target, asleep, braked, mixed>>,
           UNCHANGED fifo \/ \E f \in Fifos : Clear(f),
           pc[App] \in Plain \cup {"opened"},
           pc'[App] \in Plain \/ (pc'[App] = "alloc_video" /\ job'[App] \in {"nop", "headers"}),
           \A u \in Threads : u # App => pc'[u] = pc[u] /\ job'[u] = job[u],
           \A u \in Threads, r \in Sides : u # App /\ lock'[r] = u => lock[r] = u
    PROVE  Syncs'
<1>1. App \in Threads
  BY Actors
<1> QED
  BY <1>1, PlainSettles

\* The steps of the application that neither stop nor seek.
LEMMA AppSettles ==
    ASSUME Types, Types', Shape, Own, Syncs, UNCHANGED mixed,
           SetGapless \/ Open \/ PlayBegin \/ PlayClear \/ Playing
    PROVE  Syncs'
<1> USE Actors
<1>1. UNCHANGED <<created, hand, headers, finisheds, target, asleep, braked, mixed>> /\ UNCHANGED lock
  BY DEF SetGapless, Open, PlayBegin, PlayClear, Playing, queueVars, countVars, brakeVars, demuxVars
<1>2. CallTypes
  BY DEF Types
<1>3. \A u \in Threads, r \in Sides : u # App /\ lock'[r] = u => lock[r] = u
  BY <1>1
<1>4. UNCHANGED fifo \/ \E f \in Fifos : Clear(f)
  BY DEF SetGapless, Open, PlayBegin, PlayClear, Playing, queueVars
<1>5. pc[App] \in Plain \cup {"opened"}
  BY PlainSteps DEF SetGapless, Open, PlayBegin, PlayClear, Playing, At
<1>6. CASE SetGapless
  <2>1. UNCHANGED <<pc, job>> /\ pc[App] \in Plain
    BY <1>6, PlainSteps DEF SetGapless, callVars, At
  <2> QED
    BY <1>1, <1>3, <1>4, <1>5, <2>1, AppGoesOn
<1>7. CASE Open \/ PlayBegin \/ PlayClear \/ Playing
  <2>1. (\E step \in Plain : Go(App, step)) \/ SendPair(App, "headers", "opened")
    BY <1>7, PlainSteps DEF Open, PlayBegin, PlayClear, Playing, HeadersDone
  <2>2. /\ pc'[App] \in Plain \/ (pc'[App] = "alloc_video" /\ job'[App] \in {"nop", "headers"})
        /\ \A u \in Threads : u # App => pc'[u] = pc[u] /\ job'[u] = job[u]
    BY <1>2, <2>1, Gone, CallSent
  <2> QED
    BY <1>1, <1>3, <1>4, <1>5, <2>2, AppGoesOn
<1> QED
  BY <1>6, <1>7

\* The demuxers are stopped.
LEMMA StopSideSettles ==
    ASSUME Types, Types', Shape, Own, Syncs, UNCHANGED mixed, StopSide
    PROVE  Syncs'
<1> USE Actors
<1>1. UNCHANGED <<created, fifo, hand, headers, finisheds, target, asleep, braked, mixed>>
  BY DEF StopSide, queueVars, countVars, brakeVars
<1>2. CallTypes /\ lock \in [Sides -> Senders]
  BY DEF Types, SideTypes
<1>3. \A u \in Threads, r \in Sides : u # App /\ lock'[r] = u => lock[r] = u
  <2>1. lock' = lock \/ lock' = [lock EXCEPT ![side] = App] \/ Unlock(side)
    BY DEF StopSide
  <2> QED
    BY <1>2, <2>1 DEF Unlock
<1>4. pc[App] \in Plain
  BY PlainSteps DEF StopSide, At
<1>5. CASE pc' = pc /\ job' = job
  BY <1>1, <1>3, <1>4, <1>5, AppGoesOn
<1>6. CASE \E step \in {"stop_lock", "stop_join", "stop_side"} : Go(App, step)
  <2>1. pc'[App] \in Plain /\ \A u \in Threads : u # App => pc'[u] = pc[u] /\ job'[u] = job[u]
    <3>1. PICK step \in {"stop_lock", "stop_join", "stop_side"} : Go(App, step)
      BY <1>6
    <3>2. step \in Plain
      BY PlainSteps
    <3>3. pc'[App] = step /\ job' = job /\ \A u \in Threads : u # App => pc'[u] = pc[u]
      BY <1>2, <3>1, Gone
    <3> QED
      BY <3>2, <3>3
  <2> QED
    BY <1>1, <1>3, <1>4, <2>1, AppGoesOn
<1>7. CASE pc[App] = "stop_side" /\ Return(App)
  <2>1. pc[App] \in StopSteps
    BY <1>7 DEF StopSteps
  <2>2. pc'[App] \in {"idle", "open"} /\ job' = job /\ \A u \in Threads : u # App => pc'[u] = pc[u]
    BY <1>2, <1>7, <2>1, Returned
  <2>3. pc'[App] \in Plain
    BY <2>2, PlainSteps
  <2> QED
    BY <1>1, <1>3, <1>4, <2>2, <2>3, AppGoesOn
<1>8. CASE pc' = [pc EXCEPT ![App] = "flush"] /\ job' = job
  <2>1. pc'[App] \in Plain /\ \A u \in Threads : u # App => pc'[u] = pc[u] /\ job'[u] = job[u]
    BY <1>2, <1>8, PlainSteps DEF CallTypes
  <2> QED
    BY <1>1, <1>3, <1>4, <2>1, AppGoesOn
<1> QED
  BY <1>5, <1>6, <1>7, <1>8 DEF StopSide, callVars, At

\* The demuxers are seeked.
LEMMA SeekSettles ==
    ASSUME Types, Types', Shape, Own, Syncs, UNCHANGED mixed, Seek
    PROVE  Syncs'
<1> USE Actors
<1>1. UNCHANGED <<created, fifo, hand, headers, finisheds, target, asleep, braked, mixed>>
  BY DEF Seek, queueVars, countVars, brakeVars
<1>2. CallTypes /\ lock \in [Sides -> Senders]
  BY DEF Types, SideTypes
<1>3. \A u \in Threads, r \in Sides : u # App /\ lock'[r] = u => lock[r] = u
  <2>1. lock' = lock \/ lock' = [lock EXCEPT ![side] = App]
    BY DEF Seek
  <2> QED
    BY <1>2, <2>1
<1>4. pc[App] \in Plain
  BY PlainSteps DEF Seek, At
<1>5. CASE pc' = pc /\ job' = job
  BY <1>1, <1>3, <1>4, <1>5, AppGoesOn
<1>6. CASE \E step \in {"seek", "go_on"} : Go(App, step)
  <2>1. pc'[App] \in Plain /\ \A u \in Threads : u # App => pc'[u] = pc[u] /\ job'[u] = job[u]
    BY <1>2, <1>6, Gone, PlainSteps
  <2> QED
    BY <1>1, <1>3, <1>4, <2>1, AppGoesOn
<1>7. CASE pc' = [pc EXCEPT ![App] = "flush"] /\ job' = job
  <2>1. pc'[App] \in Plain /\ \A u \in Threads : u # App => pc'[u] = pc[u] /\ job'[u] = job[u]
    BY <1>2, <1>7, PlainSteps DEF CallTypes
  <2> QED
    BY <1>1, <1>3, <1>4, <2>1, AppGoesOn
<1> QED
  BY <1>5, <1>6, <1>7 DEF Seek, callVars

\* The demuxers go on.
LEMMA GoOnSettles ==
    ASSUME Types, Types', Shape, Own, Syncs, UNCHANGED mixed, GoOn
    PROVE  Syncs'
<1> USE Actors
<1>1. UNCHANGED <<created, fifo, hand, headers, finisheds, target, asleep, braked, mixed>>
  BY DEF GoOn, queueVars, countVars, brakeVars
<1>2. CallTypes /\ lock \in [Sides -> Senders]
  BY DEF Types, SideTypes
<1>3. CASE /\ At(App, "go_on") /\ (Go(App, "start") \/ UNCHANGED callVars)
           /\ Unlock(side)
  <2>1. \A u \in Threads, r \in Sides : u # App /\ lock'[r] = u => lock[r] = u
    BY <1>2, <1>3 DEF Unlock
  <2>2. /\ pc[App] \in Plain /\ pc'[App] \in Plain
        /\ \A u \in Threads : u # App => pc'[u] = pc[u] /\ job'[u] = job[u]
    <3>1. pc[App] \in Plain
      BY <1>3, PlainSteps DEF At
    <3>2. CASE Go(App, "start")
      BY <1>2, <3>1, <3>2, Gone, PlainSteps
    <3>3. CASE UNCHANGED callVars
      BY <3>1, <3>3 DEF callVars
    <3> QED
      BY <1>3, <3>2, <3>3
  <2> QED
    BY <1>1, <2>1, <2>2, AppGoesOn
<1>4. CASE /\ At(App, "start") /\ At(side, "off") /\ side \in Sides
           /\ pc' = [pc EXCEPT ![App] = "go_on", ![side] = "start"]
           /\ UNCHANGED <<lock, job>>
  <2>1. /\ pc'[App] = "go_on" /\ pc'[side] = "start"
        /\ \A u \in Threads : u # App /\ u # side => pc'[u] = pc[u]
    BY <1>2, <1>4 DEF CallTypes
  <2>2. \A u \in {App, side} : pc[u] \in Plain /\ pc'[u] \in Plain
    BY <1>4, <2>1, PlainSteps DEF At
  <2>3. \A u \in Threads :
          \/ /\ pc'[u] = pc[u] /\ job'[u] = job[u]
             /\ \A s \in Sides : lock'[s] = u => lock[s] = u
          \/ Calm(pc[u], job[u]) /\ Idle(pc'[u], job'[u])
    <3> SUFFICES ASSUME NEW u \in Threads, u = App \/ u = side
                 PROVE  Calm(pc[u], job[u]) /\ Idle(pc'[u], job'[u])
      BY <1>4, <2>1
    <3> QED
      BY <2>2, PlainIdle
  <2>4. Asleep /\ Dummies /\ Rounds /\ WaitersTold
    BY DEF Syncs
  <2>5. /\ ~braked /\ "headers" \notin mixed =>
             Round("headers", created, hand, fifo', headers, target, AnnH, WaitH, PastH, Held)
        /\ ~braked /\ "end" \notin mixed =>
             Round("end", created, hand, fifo', finisheds, target, AnnE, WaitE, PastE, NoneHeld)
    BY <1>1, <2>4 DEF Rounds, RoundH, RoundE
  <2>6. \A f \in Fifos : f \notin created => fifo'[f] = <<>>
    BY <1>1, <2>4 DEF Dummies
  <2>7. Asleep' /\ Dummies' /\ Rounds' /\ WaitersTold'
    BY <1>1, <2>3, <2>4, <2>5, <2>6, Settles
  <2> QED
    BY <2>7 DEF Syncs
<1>5. At(App, "start") => side \in Sides
  BY DEF Own, AppLocks, At
<1> QED
  BY <1>3, <1>4, <1>5 DEF GoOn

-----------------------------------------------------------------------------
(* The steps of a round. *)

\* The last part of such a step, for each kind: A is who announces afterwards.
LEMMA SettlesH ==
    ASSUME Types, Types', created' = created, headers' = headers, hand' = hand,
           NEW A \in [Fifos -> SUBSET Threads], \A f \in created : AnnH'[f] = A[f],
           Round("headers", created, hand, fifo', headers, target, A, WaitH, PastH, Held),
           \A u \in Threads : AwaitsH(pc'[u], job'[u]) =>
             AwaitsH(pc[u], job[u]) /\ target'[u] = target[u],
           \A u \in Threads : pc'[u] \in {"flushed", "opened"} =>
             \/ pc[u] \in {"flushed", "opened"}
             \/ AwaitsH(pc[u], job[u]) /\ \A f \in created : u \notin A[f] /\ headers[f] >= target[u][f],
           \A u \in Threads : AwaitsH(pc'[u], job'[u]) \/ pc'[u] \in {"flushed", "opened"} =>
             \A s \in Sides : lock'[s] = u => lock[s] = u
    PROVE  RoundH'
<1>1. RoundOver("headers", created, hand, fifo', headers, target, A, WaitH, PastH, Held)
  <2>1. RoundOver("headers", created, hand, fifo, headers, target, AnnH, WaitH, PastH, Held)
    BY OverH
  <2>2. fifo' \in [Fifos -> Seq(Items)]
    BY DEF Types, QueueTypes
  <2> QED
    BY <2>1, <2>2 DEF RoundOver
<1>2. RoundOver("headers", created, hand, fifo', headers, target', AnnH', WaitH', PastH', Held')
  BY OverPrimed
<1>3. \A u \in WaitH' : u \in WaitH /\ target'[u] = target[u]
  BY DEF WaitH
<1>4. \A u \in WaitH' \cup PastH' : \A s \in Sides : lock'[s] = u => lock[s] = u
  BY DEF WaitH, PastH
<1>5. WaitH' \subseteq Threads /\ PastH' \subseteq Threads
  BY <1>2 DEF RoundOver
<1>6. \A u \in WaitH' \cup PastH' : Held'[u] \subseteq Held[u]
  BY <1>4, <1>5 DEF Held
<1>7. \A u \in PastH' \ PastH : u \in WaitH /\ \A f \in created : u \notin A[f] /\ headers[f] >= target[u][f]
  BY <1>5 DEF PastH, WaitH
<1>8. Round("headers", created, hand, fifo', headers, target', AnnH', WaitH', PastH', Held')
  <2>1. /\ WaitH' \subseteq WaitH
        /\ \A u \in WaitH' : target'[u] = target[u] /\ Held'[u] \subseteq Held[u]
        /\ \A u \in PastH' : Held'[u] \subseteq Held[u]
    BY <1>3, <1>6
  <2> QED
    BY <1>1, <1>2, <1>7, <2>1, RoundQuiet
<1> QED
  BY <1>8 DEF RoundH

\* The same for END.
LEMMA SettlesE ==
    ASSUME Types, Types', created' = created, finisheds' = finisheds, hand' = hand,
           NEW A \in [Fifos -> SUBSET Threads], \A f \in created : AnnE'[f] = A[f],
           Round("end", created, hand, fifo', finisheds, target, A, WaitE, PastE, NoneHeld),
           \A u \in Sides : AwaitsE(pc'[u], job'[u]) =>
             AwaitsE(pc[u], job[u]) /\ target'[u] = target[u],
           \A u \in Sides : pc'[u] = "finished" =>
             \/ pc[u] = "finished"
             \/ AwaitsE(pc[u], job[u]) /\ \A f \in created : u \notin A[f] /\ finisheds[f] >= target[u][f]
    PROVE  RoundE'
<1>1. RoundOver("end", created, hand, fifo', finisheds, target, A, WaitE, PastE, NoneHeld)
  <2>1. RoundOver("end", created, hand, fifo, finisheds, target, AnnE, WaitE, PastE, NoneHeld)
    BY OverE
  <2>2. fifo' \in [Fifos -> Seq(Items)]
    BY DEF Types, QueueTypes
  <2> QED
    BY <2>1, <2>2 DEF RoundOver
<1>2. RoundOver("end", created, hand, fifo', finisheds, target', AnnE', WaitE', PastE', NoneHeld')
  BY OverPrimed
<1>3. \A u \in WaitE' : u \in WaitE /\ target'[u] = target[u]
  BY DEF WaitE
<1>4. NoneHeld' = NoneHeld
  BY DEF NoneHeld
<1>5. \A u \in PastE' \ PastE : u \in WaitE /\ \A f \in created : u \notin A[f] /\ finisheds[f] >= target[u][f]
  BY DEF PastE, WaitE
<1>6. Round("end", created, hand, fifo', finisheds, target', AnnE', WaitE', PastE', NoneHeld')
  <2>1. /\ WaitE' \subseteq WaitE
        /\ \A u \in WaitE' : target'[u] = target[u] /\ NoneHeld'[u] \subseteq NoneHeld[u]
        /\ \A u \in PastE' : NoneHeld'[u] \subseteq NoneHeld[u]
    BY <1>3, <1>4
  <2> QED
    BY <1>1, <1>2, <1>5, <2>1, RoundQuiet
<1> QED
  BY <1>6 DEF RoundE

\* A thread t goes on; who sleeps stays.
LEMMA SleepersStay ==
    ASSUME Types, Types', Asleep, Dummies, WaitersTold,
           UNCHANGED <<created, hand, headers, finisheds, asleep, braked>>,
           mixed \subseteq mixed',
           NEW t \in Threads, pc[t] \notin {"sync_wait", "end_wait"} \/ t \notin asleep,
           \A u \in Threads : u # t => pc'[u] = pc[u] /\ target'[u] = target[u],
           \A f \in Fifos : f \notin created => fifo'[f] = <<>> /\ target'[t][f] = 0
    PROVE  Asleep' /\ Dummies' /\ WaitersTold'
<1>1. t \notin asleep
  BY DEF Asleep
<1>2. Asleep' /\ Dummies'
  BY <1>1 DEF Asleep, Dummies
<1>3. Told(asleep, pc, headers, finisheds, target) => Told(asleep', pc', headers', finisheds', target')
  BY <1>1 DEF Told
<1> QED
  BY <1>2, <1>3, ToldIs, ToldPrimed

\* A kind that is not queued is not on its way.
LEMMA NotQueued ==
    ASSUME Types, NEW kind, ~Queued(kind), NEW f \in Fifos
    PROVE  ~Holds(hand[f], fifo[f], kind)
<1>1. fifo[f] \in Seq(Items)
  BY DEF Types, QueueTypes
<1>2. hand[f].kind # kind /\ \A i \in 1 .. Len(fifo[f]) : fifo[f][i].kind # kind
  BY DEF Queued
<1> QED
  BY <1>1, <1>2 DEF Holds, It

\* Whoever is not part of a round of a kind neither announces nor waits nor has.
LEMMA NoPart ==
    /\ \A p, j : \A f : j # "headers" /\ p \notin SyncSteps => ~AnnouncesH(p, j, f) /\ ~AwaitsH(p, j)
    /\ \A p, j : \A f : j # "end" /\ p \notin {"ended", "end_wait"} => ~AnnouncesE(p, j, f) /\ ~AwaitsE(p, j)
    /\ \A p \in Plain : \A j, f : /\ ~AnnouncesH(p, j, f) /\ ~AwaitsH(p, j) /\ ~AnnouncesE(p, j, f) /\ ~AwaitsE(p, j)
                                  /\ p \notin {"flushed", "opened", "finished", "sync_wait", "end_wait"}
    /\ \A f : ~AnnouncesH("alloc_video", "end", f) /\ ~AwaitsH("alloc_video", "end")
    /\ \A f : AnnouncesE("alloc_video", "end", f) /\ AwaitsE("alloc_video", "end")
<1>1. \A p \in Plain : \A j, f : /\ ~AnnouncesH(p, j, f) /\ ~AwaitsH(p, j) /\ ~AnnouncesE(p, j, f) /\ ~AwaitsE(p, j)
                                 /\ p \notin {"flushed", "opened", "finished", "sync_wait", "end_wait"}
  BY PlainIdle, CalmIs DEF Plain
<1>2. /\ \A p, j : \A f : j # "headers" /\ p \notin SyncSteps => ~AnnouncesH(p, j, f) /\ ~AwaitsH(p, j)
      /\ \A p, j : \A f : j # "end" /\ p \notin {"ended", "end_wait"} => ~AnnouncesE(p, j, f) /\ ~AwaitsE(p, j)
  BY DEF AnnouncesH, AnnouncesE, AwaitsH, AwaitsE
<1>3. /\ \A f : ~AnnouncesH("alloc_video", "end", f) /\ ~AwaitsH("alloc_video", "end")
      /\ \A f : AnnouncesE("alloc_video", "end", f) /\ AwaitsE("alloc_video", "end")
  BY DEF AnnouncesH, AnnouncesE, AwaitsH, AwaitsE, AllocSteps, SyncSteps
<1> QED
  BY <1>1, <1>2, <1>3

\* A pair of END is announced.
LEMMA EndBegins ==
    ASSUME Types, Types', Syncs,
           UNCHANGED <<created, fifo, hand, headers, finisheds, asleep, braked, lock>>,
           Mix("end", EndsUnderWay),
           NEW t \in Threads, pc[t] \in Plain, pc'[t] = "alloc_video", job'[t] = "end",
           \A u \in Threads : u # t => pc'[u] = pc[u] /\ job'[u] = job[u] /\ target'[u] = target[u],
           \A f \in Fifos : f \notin created => target'[t][f] = 0,
           t \in Sides => \A f \in created : target'[t][f] = finisheds[f] + 1
    PROVE  Syncs'
<1> USE Actors
<1>1. Asleep /\ Dummies /\ Rounds /\ WaitersTold
  BY DEF Syncs
<1>2. mixed \subseteq mixed' /\ ("end" \notin mixed' => ~EndsUnderWay)
  BY DEF Mix
<1>3. /\ \A f : ~AnnouncesH(pc[t], job[t], f) /\ ~AnnouncesE(pc[t], job[t], f)
      /\ ~AwaitsH(pc[t], job[t]) /\ ~AwaitsE(pc[t], job[t])
      /\ pc[t] \notin {"flushed", "opened", "finished", "sync_wait", "end_wait"}
  BY NoPart
<1>4. Asleep' /\ Dummies' /\ WaitersTold'
  <2>1. \A f \in Fifos : f \notin created => fifo'[f] = <<>> /\ target'[t][f] = 0
    BY <1>1 DEF Dummies
  <2> QED
    BY <1>1, <1>2, <1>3, <2>1, SleepersStay
<1>5. ASSUME ~braked', "headers" \notin mixed' PROVE RoundH'
  <2>1. Round("headers", created, hand, fifo', headers, target, AnnH, WaitH, PastH, Held)
    BY <1>1, <1>2, <1>5 DEF Rounds, RoundH
  <2>2. AnnH \in [Fifos -> SUBSET Threads] /\ \A f \in created : AnnH'[f] = AnnH[f]
    <3>1. ASSUME NEW f \in Fifos, NEW u \in Threads
          PROVE  AnnouncesH(pc'[u], job'[u], f) <=> AnnouncesH(pc[u], job[u], f)
      <4>1. CASE u = t
        BY <1>3, <4>1, NoPart
      <4>2. CASE u # t
        BY <4>2
      <4> QED
        BY <4>1, <4>2
    <3>2. \A f \in Fifos : AnnH'[f] = AnnH[f]
      BY <3>1 DEF AnnH
    <3> QED
      BY <3>2 DEF AnnH, Types, QueueTypes
  <2>3. \A u \in Threads : AwaitsH(pc'[u], job'[u]) => u # t
    BY NoPart
  <2>4. \A u \in Threads : pc'[u] \in {"flushed", "opened"} => u # t
    OBVIOUS
  <2>5. /\ \A u \in Threads : AwaitsH(pc'[u], job'[u]) => AwaitsH(pc[u], job[u]) /\ target'[u] = target[u]
        /\ \A u \in Threads : pc'[u] \in {"flushed", "opened"} => pc[u] \in {"flushed", "opened"}
        /\ \A u \in Threads : AwaitsH(pc'[u], job'[u]) \/ pc'[u] \in {"flushed", "opened"} =>
                \A s \in Sides : lock'[s] = u => lock[s] = u
    BY <2>3, <2>4
  <2> QED
    BY <2>1, <2>2, <2>5, SettlesH
<1>6. ASSUME ~braked', "end" \notin mixed' PROVE RoundE'
  <2>1. Round("end", created, hand, fifo, finisheds, target, AnnE, WaitE, PastE, NoneHeld)
    BY <1>1, <1>2, <1>6 DEF Rounds, RoundE
  <2>2. RoundOver("end", created, hand, fifo, finisheds, target, AnnE, WaitE, PastE, NoneHeld)
    BY OverE
  <2>3. ~Queued("end") /\ ~ \E u \in Threads : job[u] = "end" /\ pc[u] \in AllocSteps \cup PutSteps
    <3>1. AllocSteps \cup PutSteps = {"alloc_video", "alloc_audio", "put_video", "put_audio"}
      BY DEF AllocSteps, PutSteps
    <3> QED
      BY <1>2, <1>6, <3>1 DEF EndsUnderWay
  <2>4. \A f \in Fifos, u \in Threads : ~AnnouncesE(pc[u], job[u], f)
    BY <2>3 DEF AnnouncesE, PutsInto, PutSteps
  <2>5. \A f \in created : AnnE[f] = {} /\ ~Holds(hand[f], fifo[f], "end")
    <3>1. \A f \in Fifos : ~Holds(hand[f], fifo[f], "end")
      BY <2>3, NotQueued
    <3> QED
      BY <2>4, <3>1 DEF AnnE, Types, QueueTypes
  <2>6. \A f \in created : AnnE'[f] = {t}
    <3>1. ASSUME NEW f \in Fifos, NEW u \in Threads
          PROVE  AnnouncesE(pc'[u], job'[u], f) <=> u = t
      <4>1. CASE u = t
        BY <4>1, NoPart
      <4>2. CASE u # t
        BY <2>4, <4>2
      <4> QED
        BY <4>1, <4>2
    <3>2. \A f \in Fifos : AnnE'[f] = {u \in Threads : AnnouncesE(pc'[u], job'[u], f)}
      BY DEF AnnE
    <3>3. ASSUME NEW f \in Fifos PROVE AnnE'[f] = {t}
      <4>1. {u \in Threads : AnnouncesE(pc'[u], job'[u], f)} = {t}
        BY <3>1
      <4> QED
        BY <3>2, <4>1
    <3> QED
      BY <3>3 DEF Types, QueueTypes
  <2>7. /\ WaitE' \subseteq WaitE \cup {t} /\ PastE' = PastE /\ NoneHeld' = NoneHeld
        /\ \A u \in WaitE' : u # t => target'[u] = target[u]
        /\ t \in WaitE' => t \in Sides
        /\ t \notin PastE
    <3>1. \A u \in Sides : pc'[u] = "finished" <=> pc[u] = "finished"
      BY <1>3
    <3> QED
      BY <1>3, <3>1 DEF WaitE, PastE, NoneHeld
  <2>8. Round("end", created, hand, fifo, finisheds, target', AnnE', WaitE', PastE, NoneHeld)
    <3>1. t \in WaitE' => \A f \in created : target'[t][f] = finisheds[f] + 1
      BY <2>7
    <3>2. /\ WaitE' \subseteq WaitE \cup {t} /\ t \notin PastE
          /\ \A u \in WaitE' : u # t => target'[u] = target[u]
      BY <2>7
    <3>3. /\ \A f \in created : AnnE'[f] = {t}
          /\ t \notin PastE
          /\ \A u \in WaitE' : u = t \/ (u \in WaitE /\ target'[u] = target[u])
          /\ \A f \in created : t \in WaitE' => target'[t][f] = finisheds[f] + 1
      BY <2>6, <3>1, <3>2
    <3>4. /\ RoundOver("end", created, hand, fifo, finisheds, target, AnnE, WaitE, PastE, NoneHeld)
          /\ Round("end", created, hand, fifo, finisheds, target, AnnE, WaitE, PastE, NoneHeld)
          /\ \A f \in created : AnnE[f] = {} /\ ~Holds(hand[f], fifo[f], "end")
      BY <2>1, <2>2, <2>5
    <3> QED
      BY ONLY <3>3, <3>4, t \in Threads, RoundBegins
  <2> QED
    BY <2>7, <2>8 DEF RoundE
<1> QED
  BY <1>4, <1>5, <1>6 DEF Syncs, Rounds

\* The last demuxer announces its END.
LEMMA ExitSettles ==
    ASSUME Types, Types', Shape, Own, Syncs, NEW s \in Sides, LoopExit(s)
    PROVE  Syncs'
<1> USE Actors
<1>1. UNCHANGED <<created, fifo, hand, headers, finisheds, asleep, braked>> /\ pc[s] \in Plain
  BY PlainSteps DEF LoopExit, queueVars, brakeVars, At
<1>2. CASE Go(s, "off") /\ Unlock(s) /\ UNCHANGED <<target, mixed>>
  <2>1. \E step \in Plain : Go(s, step)
    BY <1>2, PlainSteps
  <2> QED
    BY <1>1, <1>2, <2>1, LoopSettles
<1>3. CASE /\ target' = [target EXCEPT ![s] = Goal(finisheds)]
           /\ SendPair(s, "end", "ended") /\ Mix("end", EndsUnderWay) /\ UNCHANGED lock
  <2>1. /\ pc'[s] = "alloc_video" /\ job'[s] = "end"
        /\ \A u \in Threads : u # s => pc'[u] = pc[u] /\ job'[u] = job[u]
    BY <1>3, CallSent DEF Types
  <2>2. /\ \A f \in Fifos : target'[s][f] = IF f \in created THEN finisheds[f] + 1 ELSE 0
        /\ \A u \in Threads : u # s => target'[u] = target[u]
    <3>1. finisheds \in [Fifos -> Nat] /\ CountTypes /\ s \in Threads
      BY DEF Types, CountTypes
    <3> QED
      BY <1>3, <3>1, GoalTyped
  <2>3. created \subseteq Fifos /\ s \in Threads
    BY DEF Types, QueueTypes
  <2>4. /\ \A f \in Fifos : f \notin created => target'[s][f] = 0
        /\ \A f \in created : target'[s][f] = finisheds[f] + 1
        /\ \A u \in Threads : u # s => pc'[u] = pc[u] /\ job'[u] = job[u] /\ target'[u] = target[u]
    BY <2>1, <2>2, <2>3
  <2> QED
    BY <1>1, <1>3, <2>1, <2>3, <2>4, EndBegins
<1> QED
  BY <1>2, <1>3 DEF LoopExit

\* A stop of a stopped stream announces an END.
LEMMA StopBeginSettles ==
    ASSUME Types, Types', Shape, Own, Syncs, StopBegin
    PROVE  Syncs'
<1> USE Actors
<1>1. UNCHANGED <<created, fifo, hand, headers, finisheds, target, asleep, braked, lock>> /\ pc[App] \in Plain
  BY PlainSteps DEF StopBegin, queueVars, countVars, demuxVars, brakeVars, At
<1>2. CallTypes
  BY DEF Types
<1>3. CASE pc' = [pc EXCEPT ![App] = "stop_side"] /\ UNCHANGED <<job, mixed>>
  <2>1. pc'[App] \in Plain /\ \A u \in Threads : u # App => pc'[u] = pc[u] /\ job'[u] = job[u]
    BY <1>2, <1>3, PlainSteps DEF CallTypes
  <2>2. \A u \in Threads, r \in Sides : u # App /\ lock'[r] = u => lock[r] = u
    BY <1>1
  <2> QED
    BY <1>1, <1>3, <2>1, <2>2, AppGoesOn
<1>4. CASE /\ pc' = [pc EXCEPT ![App] = "alloc_video"] /\ job' = [job EXCEPT ![App] = "end"]
           /\ Mix("end", EndsUnderWay)
  <2>1. /\ pc'[App] = "alloc_video" /\ job'[App] = "end"
        /\ \A u \in Threads : u # App => pc'[u] = pc[u] /\ job'[u] = job[u] /\ target'[u] = target[u]
    BY <1>1, <1>2, <1>4 DEF CallTypes
  <2>2. \A f \in Fifos : f \notin created => target'[App][f] = 0
    BY <1>1 DEF Syncs, Dummies
  <2> QED
    BY <1>1, <1>4, <2>1, <2>2, EndBegins
<1> QED
  BY <1>3, <1>4 DEF StopBegin

\* A step in which nobody's part in the rounds of a kind changes.
LEMMA SameH ==
    ASSUME Types, Types', Rounds, ~braked, "headers" \notin mixed,
           created' = created, headers' = headers, hand' = hand,
           Round("headers", created, hand, fifo', headers, target, AnnH, WaitH, PastH, Held),
           \A u \in Threads : AwaitsH(pc'[u], job'[u]) => target'[u] = target[u],
           \A u \in Threads :
             /\ AwaitsH(pc'[u], job'[u]) => AwaitsH(pc[u], job[u])
             /\ \A f \in Fifos : AnnouncesH(pc'[u], job'[u], f) <=> AnnouncesH(pc[u], job[u], f)
             /\ pc'[u] \in {"flushed", "opened"} => pc[u] \in {"flushed", "opened"},
           \A u \in Threads : AwaitsH(pc'[u], job'[u]) \/ pc'[u] \in {"flushed", "opened"} =>
             \A s \in Sides : lock'[s] = u => lock[s] = u
    PROVE  RoundH'
<1>1. \A f \in Fifos : AnnH'[f] = AnnH[f]
  BY DEF AnnH
<1>2. AnnH \in [Fifos -> SUBSET Threads] /\ \A f \in created : AnnH'[f] = AnnH[f]
  BY <1>1 DEF AnnH, Types, QueueTypes
<1>3. \A u \in Threads : pc'[u] \in {"flushed", "opened"} =>
             \/ pc[u] \in {"flushed", "opened"}
             \/ AwaitsH(pc[u], job[u]) /\ \A f \in created : u \notin AnnH[f] /\ headers[f] >= target[u][f]
  OBVIOUS
<1> QED
  BY <1>2, <1>3, SettlesH

\* The same for END.
LEMMA SameE ==
    ASSUME Types, Types', Rounds, ~braked, "end" \notin mixed,
           created' = created, finisheds' = finisheds, hand' = hand,
           Round("end", created, hand, fifo', finisheds, target, AnnE, WaitE, PastE, NoneHeld),
           \A u \in Sides : AwaitsE(pc'[u], job'[u]) => target'[u] = target[u],
           \A u \in Threads :
             /\ AwaitsE(pc'[u], job'[u]) => AwaitsE(pc[u], job[u]) \/ u = App
             /\ \A f \in Fifos : AnnouncesE(pc'[u], job'[u], f) <=> AnnouncesE(pc[u], job[u], f)
             /\ pc'[u] = "finished" => pc[u] = "finished"
    PROVE  RoundE'
<1>1. \A f \in Fifos : AnnE'[f] = AnnE[f]
  BY DEF AnnE
<1>2. AnnE \in [Fifos -> SUBSET Threads] /\ \A f \in created : AnnE'[f] = AnnE[f]
  BY <1>1 DEF AnnE, Types, QueueTypes
<1>3. \A u \in Sides : AwaitsE(pc'[u], job'[u]) => AwaitsE(pc[u], job[u]) /\ target'[u] = target[u]
  BY Actors
<1>4. \A u \in Sides : pc'[u] = "finished" =>
             \/ pc[u] = "finished"
             \/ AwaitsE(pc[u], job[u]) /\ \A f \in created : u \notin AnnE[f] /\ finisheds[f] >= target[u][f]
  BY Actors
<1> QED
  BY <1>2, <1>3, <1>4, SettlesE

\* What a thread at such a step has to put.
LEMMA PairJobs ==
    ASSUME Shape, NEW t \in Threads
    PROVE  /\ pc[t] = "count" => job[t] = "headers"
           /\ pc[t] \in SyncSteps => job[t] = "headers"
           /\ pc[t] \in AllocSteps \cup PutSteps => job[t] \in {"headers", "end", "nop"}
<1>1. WellFormed(t, pc[t], job[t], back[t])
  BY DEF Shape
<1> QED
  BY <1>1 DEF WellFormed, FlushSteps, DemuxSteps, AppSteps, StopSteps, PairSteps, AllocSteps, PutSteps, SyncSteps

\* The buffers of a pair are allocated.
LEMMA AllocSettles ==
    ASSUME Types, Types', Shape, Own, Syncs, NEW t \in Threads, UNCHANGED mixed,
           AllocVideo(t) \/ AllocAudio(t), UNCHANGED <<created, demuxVars, streamVars, brakeVars, appVars>>
    PROVE  Syncs'
<1> USE Actors
<1>1. UNCHANGED <<created, fifo, hand, headers, finisheds, target, asleep, braked, mixed, lock>>
  BY DEF AllocVideo, AllocAudio, countVars, brakeVars, demuxVars
<1>2. /\ pc[t] \in {"alloc_video", "alloc_audio"} /\ job' = job
      /\ pc'[t] = (IF pc[t] = "alloc_video" THEN "alloc_audio"
                   ELSE IF job[t] = "headers" THEN "count" ELSE "put_video")
      /\ \A u \in Threads : u # t => pc'[u] = pc[u]
  BY Gone DEF AllocVideo, AllocAudio, At, Types
<1>3. Asleep /\ Dummies /\ Rounds /\ WaitersTold
  BY DEF Syncs
<1>4. CASE job[t] # "end"
  <2>1. Calm(pc[t], job[t]) /\ Idle(pc'[t], job'[t])
    <3>1. job[t] \in {"headers", "nop"}
      BY <1>2, <1>4, PairJobs DEF AllocSteps
    <3> QED
      BY <1>2, <3>1 DEF Calm, Idle, AllocSteps, PutSteps, SyncSteps
  <2>2. \A u \in Threads : u # t => /\ pc'[u] = pc[u] /\ job'[u] = job[u]
                                    /\ \A s \in Sides : lock'[s] = u => lock[s] = u
    BY <1>1, <1>2
  <2> QED
    BY <1>1, <2>1, <2>2, OneSettles
<1>5. CASE job[t] = "end"
  <2>1. Asleep' /\ Dummies' /\ WaitersTold'
    <3>1. \A f \in Fifos : f \notin created => fifo'[f] = <<>> /\ target'[t][f] = 0
      BY <1>1, <1>3 DEF Dummies
    <3>2. \A u \in Threads : u # t => pc'[u] = pc[u] /\ target'[u] = target[u]
      BY <1>1, <1>2
    <3>3. mixed \subseteq mixed' /\ pc[t] \notin {"sync_wait", "end_wait"}
      BY <1>1, <1>2
    <3> QED
      BY <1>1, <1>3, <3>1, <3>2, <3>3, SleepersStay
  <2>2. /\ \A f : AnnouncesE(pc'[t], job'[t], f) /\ AnnouncesE(pc[t], job[t], f)
        /\ AwaitsE(pc'[t], job'[t]) /\ AwaitsE(pc[t], job[t])
        /\ \A f : ~AnnouncesH(pc'[t], job'[t], f) /\ ~AnnouncesH(pc[t], job[t], f)
        /\ ~AwaitsH(pc'[t], job'[t])
        /\ pc'[t] \notin {"flushed", "opened", "finished"}
    BY <1>2, <1>5 DEF AnnouncesE, AnnouncesH, AwaitsE, AwaitsH, PutsInto, AllocSteps, PutSteps, SyncSteps
  <2>3. \A u \in Threads :
          /\ AwaitsH(pc'[u], job'[u]) => AwaitsH(pc[u], job[u])
          /\ \A f \in Fifos : AnnouncesH(pc'[u], job'[u], f) <=> AnnouncesH(pc[u], job[u], f)
          /\ pc'[u] \in {"flushed", "opened"} => pc[u] \in {"flushed", "opened"}
    <3> SUFFICES ASSUME NEW u \in Threads, u # t
                 PROVE  pc'[u] = pc[u] /\ job'[u] = job[u]
      BY <2>2
    <3> QED
      BY <1>2
  <2>4. \A u \in Threads :
          /\ AwaitsE(pc'[u], job'[u]) => AwaitsE(pc[u], job[u])
          /\ \A f \in Fifos : AnnouncesE(pc'[u], job'[u], f) <=> AnnouncesE(pc[u], job[u], f)
          /\ pc'[u] = "finished" => pc[u] = "finished"
    <3> SUFFICES ASSUME NEW u \in Threads, u # t
                 PROVE  pc'[u] = pc[u] /\ job'[u] = job[u]
      BY <2>2
    <3> QED
      BY <1>2
  <2>5. ASSUME ~braked', "headers" \notin mixed' PROVE RoundH'
    <3>1. ~braked /\ "headers" \notin mixed /\ RoundH
      BY <1>1, <1>3, <2>5 DEF Rounds
    <3>2. Round("headers", created, hand, fifo', headers, target, AnnH, WaitH, PastH, Held)
      BY <1>1, <3>1 DEF RoundH
    <3> QED
      BY <1>1, <1>3, <2>3, <3>1, <3>2, SameH
  <2>6. ASSUME ~braked', "end" \notin mixed' PROVE RoundE'
    <3>1. ~braked /\ "end" \notin mixed /\ RoundE
      BY <1>1, <1>3, <2>6 DEF Rounds
    <3>2. Round("end", created, hand, fifo', finisheds, target, AnnE, WaitE, PastE, NoneHeld)
      BY <1>1, <3>1 DEF RoundE
    <3> QED
      BY <1>1, <1>3, <2>4, <3>1, <3>2, SameE
  <2> QED
    BY <2>1, <2>5, <2>6 DEF Syncs, Rounds
<1> QED
  BY <1>4, <1>5

\* A round of HEADERS_DONE begins.
LEMMA CountSettles ==
    ASSUME Types, Types', Shape, Own, Syncs, NEW t \in Threads, Count(t),
           UNCHANGED <<created, demuxVars, streamVars, brakeVars, appVars>>
    PROVE  Syncs'
<1> USE Actors
<1>1. UNCHANGED <<created, fifo, hand, headers, finisheds, asleep, braked, lock>>
  BY DEF Count, queueVars, brakeVars, demuxVars
<1>2. /\ pc[t] = "count" /\ pc'[t] = "put_video" /\ job' = job /\ job[t] = "headers"
      /\ \A u \in Threads : u # t => pc'[u] = pc[u]
  <2>1. pc[t] = "count" /\ Go(t, "put_video")
    BY DEF Count, At
  <2> QED
    BY <2>1, Gone, PairJobs DEF Types
<1>3. /\ \A f \in Fifos : target'[t][f] = IF f \in created THEN headers[f] + 1 ELSE 0
      /\ \A u \in Threads : u # t => target'[u] = target[u]
  <2>1. headers \in [Fifos -> Nat] /\ CountTypes
    BY DEF Types, CountTypes
  <2> QED
    BY <2>1, GoalTyped DEF Count
<1>4. Asleep /\ Dummies /\ Rounds /\ WaitersTold
  BY DEF Syncs
<1>5. mixed \subseteq mixed' /\ ("headers" \notin mixed' => ~Queued("headers"))
      /\ ("end" \in mixed' <=> "end" \in mixed)
  BY DEF Count, Mix
<1>6. created \subseteq Fifos
  BY DEF Types, QueueTypes
<1>7. /\ \A f : ~AnnouncesE(pc'[t], job'[t], f) /\ ~AnnouncesE(pc[t], job[t], f)
      /\ ~AwaitsE(pc'[t], job'[t])
      /\ \A f : AnnouncesH(pc'[t], job'[t], f)
      /\ pc[t] \notin {"flushed", "opened", "finished", "sync_wait", "end_wait"}
      /\ pc'[t] \notin {"flushed", "opened", "finished"}
  BY <1>2 DEF AnnouncesE, AnnouncesH, AwaitsE, PutsInto
<1>8. Asleep' /\ Dummies' /\ WaitersTold'
  <2>1. \A f \in Fifos : f \notin created => fifo'[f] = <<>> /\ target'[t][f] = 0
    BY <1>1, <1>3, <1>4 DEF Dummies
  <2>2. \A u \in Threads : u # t => pc'[u] = pc[u] /\ target'[u] = target[u]
    BY <1>2, <1>3
  <2> QED
    BY <1>1, <1>4, <1>5, <1>7, <2>1, <2>2, SleepersStay
<1>9. ASSUME ~braked', "headers" \notin mixed' PROVE RoundH'
  <2>1. Round("headers", created, hand, fifo, headers, target, AnnH, WaitH, PastH, Held)
    BY <1>1, <1>4, <1>5, <1>9 DEF Rounds, RoundH
  <2>2. RoundOver("headers", created, hand, fifo, headers, target, AnnH, WaitH, PastH, Held)
    BY OverH
  <2>3. \A f \in Fifos, u \in Threads : ~AnnouncesH(pc[u], job[u], f)
    <3>1. \A u \in Threads : ~PutsHeaders(pc[u], job[u])
      BY OwnAt DEF Count
    <3>2. \A f, p, j : AnnouncesH(p, j, f) => PutsHeaders(p, j)
      BY DEF AnnouncesH, PutsHeaders, PutsInto, PutSteps
    <3> QED
      BY <3>1, <3>2
  <2>4. \A f \in created : AnnH[f] = {} /\ ~Holds(hand[f], fifo[f], "headers")
    <3>1. \A f \in Fifos : ~Holds(hand[f], fifo[f], "headers")
      BY <1>5, <1>9, NotQueued
    <3>2. \A f \in Fifos : AnnH[f] = {}
      BY <2>3, Announced
    <3> QED
      BY <1>6, <3>1, <3>2
  <2>5. \A f \in created : AnnH'[f] = {t}
    <3>1. ASSUME NEW f \in Fifos, NEW u \in Threads
          PROVE  AnnouncesH(pc'[u], job'[u], f) <=> u = t
      <4>1. CASE u = t
        BY <1>7, <4>1
      <4>2. CASE u # t
        BY <1>2, <2>3, <4>2
      <4> QED
        BY <4>1, <4>2
    <3>2. \A f \in Fifos : AnnH'[f] = {u \in Threads : AnnouncesH(pc'[u], job'[u], f)}
      BY DEF AnnH
    <3>3. ASSUME NEW f \in Fifos PROVE AnnH'[f] = {t}
      <4>1. {u \in Threads : AnnouncesH(pc'[u], job'[u], f)} = {t}
        BY <3>1
      <4> QED
        BY <3>2, <4>1
    <3> QED
      BY <1>6, <3>3
  <2>6. /\ \A u \in WaitH' : u = t \/ (u \in WaitH /\ target'[u] = target[u])
        /\ \A f \in created : t \in WaitH' => target'[t][f] = headers[f] + 1
        /\ t \notin PastH
    BY <1>2, <1>3, <1>6, <1>7 DEF WaitH, PastH
  <2>7. PastH' = PastH /\ Held' = Held
    <3>1. \A u \in Threads : pc'[u] \in {"flushed", "opened"} <=> pc[u] \in {"flushed", "opened"}
      BY <1>2, <1>7
    <3> QED
      BY <1>1, <3>1 DEF PastH, Held
  <2>8. Round("headers", created, hand, fifo, headers, target', AnnH', WaitH', PastH, Held)
    BY ONLY <2>1, <2>2, <2>4, <2>5, <2>6, t \in Threads, RoundBegins
  <2> QED
    BY <1>1, <2>7, <2>8 DEF RoundH
<1>10. ASSUME ~braked', "end" \notin mixed' PROVE RoundE'
  <2>1. ~braked /\ "end" \notin mixed /\ RoundE
    BY <1>1, <1>4, <1>5, <1>10 DEF Rounds
  <2>2. Round("end", created, hand, fifo', finisheds, target, AnnE, WaitE, PastE, NoneHeld)
    BY <1>1, <2>1 DEF RoundE
  <2>3. /\ \A u \in Sides : AwaitsE(pc'[u], job'[u]) => target'[u] = target[u]
        /\ \A u \in Threads :
             /\ AwaitsE(pc'[u], job'[u]) => AwaitsE(pc[u], job[u])
             /\ \A f \in Fifos : AnnouncesE(pc'[u], job'[u], f) <=> AnnouncesE(pc[u], job[u], f)
             /\ pc'[u] = "finished" => pc[u] = "finished"
    <3>1. ASSUME NEW u \in Threads, u # t PROVE pc'[u] = pc[u] /\ job'[u] = job[u] /\ target'[u] = target[u]
      BY <1>2, <1>3, <3>1
    <3> QED
      BY <1>7, <3>1
  <2> QED
    BY <1>1, <1>4, <2>1, <2>2, <2>3, SameE
<1> QED
  BY <1>8, <1>9, <1>10 DEF Syncs, Rounds

\* What a put does.
LEMMA PutEffect ==
    ASSUME Types, NEW f \in Fifos, NEW t \in Threads, NEW k \in Jobs, Put(f, Item(k, t))
    PROVE  /\ Item(k, t) \in Items /\ Item(k, t).kind = k /\ Item(k, t).by = t
           /\ f \in created => fifo'[f] = Append(fifo[f], Item(k, t))
           /\ f \notin created => fifo' = fifo
           /\ \A g \in Fifos : g # f => fifo'[g] = fifo[g]
<1>1. Item(k, t) \in Items /\ Item(k, t).kind = k /\ Item(k, t).by = t
  <2>1. k \in Kinds /\ t \in Senders
    BY Actors DEF Jobs, Kinds
  <2> QED
    BY <2>1, ItemTyped
<1>2. /\ f \in created => fifo'[f] = Append(fifo[f], Item(k, t))
      /\ f \notin created => fifo' = fifo
      /\ \A g \in Fifos : g # f => fifo'[g] = fifo[g]
  BY DEF Put, Types, QueueTypes
<1> QED
  BY <1>1, <1>2

\* What t puts is no older than what others wait for.
LEMMA NotOlder ==
    ASSUME NEW x, NEW t, NEW u, NEW D, x.by = t, x.kind # "data", u # t
    PROVE  ~Older(x, u, D)
  BY DEF Older

\* A put of another kind, for the round of HEADERS_DONE,
LEMMA PutOtherH ==
    ASSUME Types, RoundH, NEW t \in Threads, NEW f \in Fifos, NEW k \in Jobs, k # "headers",
           Put(f, Item(k, t)), t \notin WaitH, t \notin PastH
    PROVE  Round("headers", created, hand, fifo', headers, target, AnnH, WaitH, PastH, Held)
<1>1. /\ Item(k, t) \in Items /\ Item(k, t).kind = k /\ Item(k, t).by = t
      /\ f \in created => fifo'[f] = Append(fifo[f], Item(k, t))
      /\ f \notin created => fifo' = fifo
      /\ \A g \in Fifos : g # f => fifo'[g] = fifo[g]
  BY PutEffect
<1>2. Round("headers", created, hand, fifo, headers, target, AnnH, WaitH, PastH, Held)
  BY DEF RoundH
<1>3. CASE f \notin created
  BY <1>1, <1>2, <1>3
<1>4. CASE f \in created
  <2> DEFINE x == Item(k, t)
  <2>1. x \in Items /\ x.kind # "headers" /\ x.kind # "data" /\ x.by = t
    BY <1>1 DEF Jobs
  <2> HIDE DEF x
  <2>2. (\A u \in WaitH : u \in AnnH[f] \/ ~Older(x, u, Held[u])) /\ \A u \in PastH : ~Older(x, u, Held[u])
    BY <2>1, NotOlder
  <2>3. RoundOver("headers", created, hand, fifo, headers, target, AnnH, WaitH, PastH, Held)
    BY OverH
  <2>4. fifo'[f] = Append(fifo[f], x) /\ \A g \in created : g # f => fifo'[g] = fifo[g]
    BY <1>1, <1>4 DEF x, Types, QueueTypes
  <2> QED
    BY <1>2, <1>4, <2>1, <2>2, <2>3, <2>4, RoundPut
<1> QED
  BY <1>3, <1>4

\* and of END.
LEMMA PutOtherE ==
    ASSUME Types, RoundE, NEW t \in Threads, NEW f \in Fifos, NEW k \in Jobs, k # "end",
           Put(f, Item(k, t)), t \notin WaitE, t \notin PastE
    PROVE  Round("end", created, hand, fifo', finisheds, target, AnnE, WaitE, PastE, NoneHeld)
<1>1. /\ Item(k, t) \in Items /\ Item(k, t).kind = k /\ Item(k, t).by = t
      /\ f \in created => fifo'[f] = Append(fifo[f], Item(k, t))
      /\ f \notin created => fifo' = fifo
      /\ \A g \in Fifos : g # f => fifo'[g] = fifo[g]
  BY PutEffect
<1>2. Round("end", created, hand, fifo, finisheds, target, AnnE, WaitE, PastE, NoneHeld)
  BY DEF RoundE
<1>3. CASE f \notin created
  BY <1>1, <1>2, <1>3
<1>4. CASE f \in created
  <2> DEFINE x == Item(k, t)
  <2>1. x \in Items /\ x.kind # "end" /\ x.kind # "data" /\ x.by = t
    BY <1>1 DEF Jobs
  <2> HIDE DEF x
  <2>2. (\A u \in WaitE : u \in AnnE[f] \/ ~Older(x, u, NoneHeld[u])) /\ \A u \in PastE : ~Older(x, u, NoneHeld[u])
    BY <2>1, NotOlder
  <2>3. RoundOver("end", created, hand, fifo, finisheds, target, AnnE, WaitE, PastE, NoneHeld)
    BY OverE
  <2>4. fifo'[f] = Append(fifo[f], x) /\ \A g \in created : g # f => fifo'[g] = fifo[g]
    BY <1>1, <1>4 DEF x, Types, QueueTypes
  <2> QED
    BY <1>2, <1>4, <2>1, <2>2, <2>3, <2>4, RoundPut
<1> QED
  BY <1>3, <1>4

\* The buffer of a pair that was announced is put: A is who announces then.
LEMMA PutOwnH ==
    ASSUME Types, RoundH, NEW t \in Threads, NEW f \in Fifos, Put(f, Item("headers", t)),
           t \in AnnH[f], t \notin PastH,
           NEW A, A[f] = AnnH[f] \ {t}, \A g \in created : g # f => A[g] = AnnH[g], f \in created
    PROVE  Round("headers", created, hand, fifo', headers, target, A, WaitH, PastH, Held)
<1>1. "headers" \in Jobs
  BY DEF Jobs
<1>2. /\ f \in created => fifo'[f] = Append(fifo[f], Item("headers", t))
      /\ \A g \in Fifos : g # f => fifo'[g] = fifo[g]
  BY <1>1, PutEffect
<1>3. fifo'[f] = Append(fifo[f], Item("headers", t)) /\ \A g \in created : g # f => fifo'[g] = fifo[g]
  BY <1>2 DEF Types, QueueTypes
<1>4. Round("headers", created, hand, fifo, headers, target, AnnH, WaitH, PastH, Held)
  BY DEF RoundH
<1>5. RoundOver("headers", created, hand, fifo, headers, target, AnnH, WaitH, PastH, Held)
  BY OverH
<1>6. \A g \in created : g # f => fifo'[g] = fifo[g] /\ A[g] = AnnH[g]
  BY <1>3
<1> QED
  BY <1>3, <1>4, <1>5, <1>6, RoundMark

\* The same for END.
LEMMA PutOwnE ==
    ASSUME Types, RoundE, NEW t \in Threads, NEW f \in Fifos, Put(f, Item("end", t)),
           t \in AnnE[f], t \notin PastE,
           NEW A, A[f] = AnnE[f] \ {t}, \A g \in created : g # f => A[g] = AnnE[g], f \in created
    PROVE  Round("end", created, hand, fifo', finisheds, target, A, WaitE, PastE, NoneHeld)
<1>1. "end" \in Jobs
  BY DEF Jobs
<1>2. /\ f \in created => fifo'[f] = Append(fifo[f], Item("end", t))
      /\ \A g \in Fifos : g # f => fifo'[g] = fifo[g]
  BY <1>1, PutEffect
<1>3. fifo'[f] = Append(fifo[f], Item("end", t)) /\ \A g \in created : g # f => fifo'[g] = fifo[g]
  BY <1>2 DEF Types, QueueTypes
<1>4. Round("end", created, hand, fifo, finisheds, target, AnnE, WaitE, PastE, NoneHeld)
  BY DEF RoundE
<1>5. RoundOver("end", created, hand, fifo, finisheds, target, AnnE, WaitE, PastE, NoneHeld)
  BY OverE
<1>6. \A g \in created : g # f => fifo'[g] = fifo[g] /\ A[g] = AnnE[g]
  BY <1>3
<1> QED
  BY <1>3, <1>4, <1>5, <1>6, RoundMark

\* The step that puts one buffer of a pair.
LEMMA PutGoes ==
    ASSUME Types, Shape, NEW t \in Threads, PutVideo(t) \/ PutAudio(t)
    PROVE  /\ job' = job /\ \A u \in Threads : u # t => pc'[u] = pc[u]
           /\ job[t] \in Jobs
           /\ \E f \in Fifos :
                /\ Put(f, Item(job[t], t))
                /\ pc[t] = IF f = Video THEN "put_video" ELSE "put_audio"
                /\ f = Video => pc'[t] = "put_audio"
                /\ f = Audio => pc'[t] = CASE job[t] = "headers" -> "sync"
                                           [] job[t] = "nop" -> "drain"
                                           [] OTHER -> IF t = App THEN "stop_side" ELSE "ended"
<1> USE Actors
<1>1. CallTypes /\ job[t] \in {"headers", "end", "nop"}
  BY DEF Types, CallTypes, Jobs
<1>2. CASE PutVideo(t)
  <2>1. pc[t] = "put_video" /\ Put(Video, Item(job[t], t)) /\ Go(t, "put_audio")
    BY <1>2 DEF PutVideo, At
  <2>2. pc'[t] = "put_audio" /\ job' = job /\ \A u \in Threads : u # t => pc'[u] = pc[u]
    BY <1>1, <2>1, Gone
  <2> QED
    BY <1>1, <2>1, <2>2 DEF Jobs
<1>3. CASE PutAudio(t)
  <2>1. pc[t] = "put_audio" /\ Put(Audio, Item(job[t], t)) /\ pc[t] \in PutSteps
        /\ IF job[t] = "headers" THEN Go(t, "sync") ELSE Return(t)
    BY <1>3 DEF PutAudio, At, PutSteps
  <2>2. job' = job /\ \A u \in Threads : u # t => pc'[u] = pc[u]
    <3>1. CASE job[t] = "headers"
      BY <1>1, <2>1, <3>1, Gone
    <3>2. CASE job[t] # "headers"
      BY <1>1, <2>1, <3>2, Returned
    <3> QED
      BY <3>1, <3>2
  <2>3. job[t] = "headers" => pc'[t] = "sync"
    BY <1>1, <2>1, Gone
  <2>4. job[t] = "nop" => pc'[t] = "drain"
    BY <1>1, <2>1, Returned
  <2>5. job[t] = "end" => pc'[t] = IF t = App THEN "stop_side" ELSE "ended"
    BY <1>1, <2>1, Returned
  <2> QED
    BY <1>1, <2>1, <2>2, <2>3, <2>4, <2>5 DEF Jobs
<1> QED
  BY <1>2, <1>3

\* A put, and what it does to the part a thread has in the rounds.
PutPath(f, p, j, q) ==
    /\ p = IF f = Video THEN "put_video" ELSE "put_audio"
    /\ f = Video => q = "put_audio"
    /\ f = Audio => q \in {"sync", "drain", "stop_side", "ended"}
    /\ q = "sync" => j = "headers"
    /\ q = "ended" => j = "end"

PutPart(f, p, j, q) ==
    /\ AwaitsH(q, j) => AwaitsH(p, j)
    /\ AwaitsE(q, j) => AwaitsE(p, j)
    /\ q \notin {"flushed", "opened", "finished"} /\ p \notin {"flushed", "opened", "finished"}
    /\ p \notin {"sync_wait", "end_wait"}
    /\ \A g \in Fifos : AnnouncesH(q, j, g) <=> AnnouncesH(p, j, g) /\ g # f
    /\ \A g \in Fifos : AnnouncesE(q, j, g) <=> AnnouncesE(p, j, g) /\ g # f
    /\ AwaitsH(p, j) <=> j = "headers"
    /\ AwaitsE(p, j) <=> j = "end"
    /\ AnnouncesH(p, j, f) <=> j = "headers"
    /\ AnnouncesE(p, j, f) <=> j = "end"
    /\ j = "nop" => Calm(p, j) /\ Idle(p, j)
    /\ j = "nop" /\ q # "sync" /\ q # "ended" => Idle(q, j)

\* The steps around a put.
LEMMA PutPathParts ==
    ASSUME NEW f \in Fifos, NEW p, NEW j, NEW q, PutPath(f, p, j, q)
    PROVE  PutPart(f, p, j, q)
<1> USE DEF PutPath
<1>1. (f = Video \/ f = Audio) /\ Video # Audio /\ p \in PutSteps /\ p \in {"put_video", "put_audio"}
  BY Actors DEF Fifos, PutSteps
<1>2. /\ AwaitsH(q, j) => AwaitsH(p, j)
      /\ AwaitsE(q, j) => AwaitsE(p, j)
      /\ AwaitsH(p, j) <=> j = "headers"
      /\ AwaitsE(p, j) <=> j = "end"
  BY <1>1 DEF AwaitsH, AwaitsE, AllocSteps, PutSteps, SyncSteps
<1>3. /\ q \notin {"flushed", "opened", "finished"} /\ p \notin {"flushed", "opened", "finished"}
      /\ p \notin {"sync_wait", "end_wait"}
  BY <1>1
<1>4. /\ \A g \in Fifos : PutsInto(q, g) <=> PutsInto(p, g) /\ g # f
      /\ PutsInto(p, f) /\ p \notin AllocSteps /\ q \notin AllocSteps
  BY <1>1 DEF PutsInto, AllocSteps, Fifos
<1>5. /\ \A g \in Fifos : AnnouncesH(q, j, g) <=> AnnouncesH(p, j, g) /\ g # f
      /\ \A g \in Fifos : AnnouncesE(q, j, g) <=> AnnouncesE(p, j, g) /\ g # f
      /\ AnnouncesH(p, j, f) <=> j = "headers"
      /\ AnnouncesE(p, j, f) <=> j = "end"
  BY <1>4 DEF AnnouncesH, AnnouncesE
<1>6. j = "nop" => Calm(p, j) /\ Idle(p, j)
  BY <1>1 DEF Calm, Idle, AllocSteps, PutSteps, SyncSteps
<1>7. j = "nop" /\ q # "sync" /\ q # "ended" => Idle(q, j)
  BY <1>1 DEF Calm, Idle, AllocSteps, PutSteps, SyncSteps
<1> QED
  BY <1>2, <1>3, <1>5, <1>6, <1>7 DEF PutPart

\* A buffer of a pair is put.
LEMMA PutSettles ==
    ASSUME Types, Types', Shape, Own, Syncs, NEW t \in Threads, UNCHANGED mixed,
           PutVideo(t) \/ PutAudio(t), UNCHANGED <<created, demuxVars, streamVars, brakeVars, appVars>>
    PROVE  Syncs'
<1> USE Actors
<1>1. UNCHANGED <<created, hand, headers, finisheds, target, asleep, braked, mixed, lock>>
  BY DEF PutVideo, PutAudio, countVars, brakeVars, demuxVars
<1>2. job' = job /\ (\A u \in Threads : u # t => pc'[u] = pc[u]) /\ job[t] \in {"headers", "end", "nop"}
  BY PutGoes DEF Jobs
<1>0. PICK p, q, j : p = pc[t] /\ q = pc'[t] /\ j = job[t]
  OBVIOUS
<1>3. PICK f \in Fifos :
            /\ Put(f, Item(job[t], t))
            /\ pc[t] = IF f = Video THEN "put_video" ELSE "put_audio"
            /\ f = Video => pc'[t] = "put_audio"
            /\ f = Audio => pc'[t] = CASE job[t] = "headers" -> "sync"
                                       [] job[t] = "nop" -> "drain"
                                       [] OTHER -> IF t = App THEN "stop_side" ELSE "ended"
  BY PutGoes
<1>4. /\ p = IF f = Video THEN "put_video" ELSE "put_audio"
      /\ f = Video => q = "put_audio"
      /\ f = Audio => q \in {"sync", "drain", "stop_side", "ended"}
      /\ q = "sync" => j = "headers"
      /\ q = "ended" => j = "end"
  BY <1>0, <1>2, <1>3, PutGoes DEF Fifos
<1>5. pc[t] = p /\ pc'[t] = q /\ job[t] = j /\ job'[t] = j
  BY <1>0, <1>2
<1>6. /\ AwaitsH(q, j) => AwaitsH(p, j)
      /\ AwaitsE(q, j) => AwaitsE(p, j)
      /\ q \notin {"flushed", "opened", "finished"} /\ p \notin {"flushed", "opened", "finished"}
      /\ p \notin {"sync_wait", "end_wait"}
      /\ \A g \in Fifos : AnnouncesH(q, j, g) <=> AnnouncesH(p, j, g) /\ g # f
      /\ \A g \in Fifos : AnnouncesE(q, j, g) <=> AnnouncesE(p, j, g) /\ g # f
      /\ AwaitsH(p, j) <=> j = "headers"
      /\ AwaitsE(p, j) <=> j = "end"
      /\ AnnouncesH(p, j, f) <=> j = "headers"
      /\ AnnouncesE(p, j, f) <=> j = "end"
      /\ j = "nop" => Calm(p, j) /\ Idle(p, j)
      /\ j = "nop" /\ q # "sync" /\ q # "ended" => Idle(q, j)
  <2>1. PutPart(f, p, j, q)
    <3>1. PutPath(f, p, j, q)
      BY <1>4 DEF PutPath
    <3> QED
      BY <3>1, PutPathParts
  <2> QED
    BY <2>1 DEF PutPart
<1>7. Asleep /\ Dummies /\ Rounds /\ WaitersTold
  BY DEF Syncs
<1>8. CASE j = "nop"
  <2>1. q # "sync" /\ q # "ended"
    BY <1>4, <1>8
  <2>2. Idle(pc[t], job[t]) /\ Calm(pc[t], job[t]) /\ Idle(pc'[t], job'[t])
    BY <1>5, <1>6, <1>8, <2>1
  <2>3. \E g \in Fifos, k \in {"data", "reset", "nop"} :
            Put(g, Item(k, t)) /\ (k = "data" => t \in Sides /\ lock[t] = t)
    BY <1>3, <1>5, <1>8
  <2>4. \A u \in Threads : u # t => /\ pc'[u] = pc[u] /\ job'[u] = job[u]
                                    /\ \A s \in Sides : lock'[s] = u => lock[s] = u
    BY <1>1, <1>2
  <2> QED
    BY <1>1, <2>2, <2>3, <2>4, OneSettles
<1>9. CASE j # "nop"
  <2>1. /\ j \in Jobs /\ Put(f, Item(j, t)) /\ j \in {"headers", "end"}
    BY <1>2, <1>3, <1>5, <1>9 DEF Jobs
  <2>2. \A g \in Fifos : g \notin created => fifo'[g] = <<>> /\ target'[t][g] = 0
    <3>1. f \notin created => fifo' = fifo
      BY <2>1, PutEffect
    <3>2. \A g \in Fifos : g # f => fifo'[g] = fifo[g]
      BY <2>1, PutEffect
    <3> QED
      BY <1>1, <1>7, <3>1, <3>2 DEF Dummies
  <2>3. Asleep' /\ Dummies' /\ WaitersTold'
    <3>1. \A u \in Threads : u # t => pc'[u] = pc[u] /\ target'[u] = target[u]
      BY <1>1, <1>2
    <3>2. mixed \subseteq mixed' /\ pc[t] \notin {"sync_wait", "end_wait"}
      BY <1>1, <1>5, <1>6
    <3> QED
      BY <1>1, <1>7, <2>2, <3>1, <3>2, SleepersStay
  <2>4. \A u \in Threads : u # t => pc'[u] = pc[u] /\ job'[u] = job[u]
    BY <1>2
  <2>5. /\ \A u \in Threads : AwaitsH(pc'[u], job'[u]) => AwaitsH(pc[u], job[u]) /\ target'[u] = target[u]
        /\ \A u \in Threads : pc'[u] \in {"flushed", "opened"} => pc[u] \in {"flushed", "opened"}
        /\ \A u \in Sides : AwaitsE(pc'[u], job'[u]) => AwaitsE(pc[u], job[u]) /\ target'[u] = target[u]
        /\ \A u \in Sides : pc'[u] = "finished" => pc[u] = "finished"
        /\ \A u \in Threads, s \in Sides : lock'[s] = u => lock[s] = u
    <3>1. /\ AwaitsH(pc'[t], job'[t]) => AwaitsH(pc[t], job[t])
          /\ AwaitsE(pc'[t], job'[t]) => AwaitsE(pc[t], job[t])
          /\ pc'[t] \notin {"flushed", "opened", "finished"}
      BY <1>5, <1>6
    <3> QED
      BY <1>1, <2>4, <3>1
  <2>6. ASSUME NEW g \in Fifos, NEW u \in Threads
        PROVE  /\ AnnouncesH(pc'[u], job'[u], g) <=> AnnouncesH(pc[u], job[u], g) /\ ~(u = t /\ g = f)
               /\ AnnouncesE(pc'[u], job'[u], g) <=> AnnouncesE(pc[u], job[u], g) /\ ~(u = t /\ g = f)
    <3>1. CASE u = t
      BY <1>5, <1>6, <3>1
    <3>2. CASE u # t
      BY <2>4, <3>2
    <3> QED
      BY <3>1, <3>2
  <2>7. /\ \A g \in Fifos : AnnH[g] = {u \in Threads : AnnouncesH(pc[u], job[u], g)}
        /\ \A g \in Fifos : AnnE[g] = {u \in Threads : AnnouncesE(pc[u], job[u], g)}
        /\ \A g \in Fifos : AnnH'[g] = {u \in Threads : AnnouncesH(pc'[u], job'[u], g)}
        /\ \A g \in Fifos : AnnE'[g] = {u \in Threads : AnnouncesE(pc'[u], job'[u], g)}
    BY DEF AnnH, AnnE
  <2>8. /\ AnnH'[f] = AnnH[f] \ {t} /\ \A g \in Fifos : g # f => AnnH'[g] = AnnH[g]
        /\ AnnE'[f] = AnnE[f] \ {t} /\ \A g \in Fifos : g # f => AnnE'[g] = AnnE[g]
    <3>1. \A u \in Threads : AnnouncesH(pc'[u], job'[u], f) <=> AnnouncesH(pc[u], job[u], f) /\ u # t
      BY <2>6
    <3>2. \A u \in Threads : AnnouncesE(pc'[u], job'[u], f) <=> AnnouncesE(pc[u], job[u], f) /\ u # t
      BY <2>6
    <3>3. \A g \in Fifos : g # f => AnnH'[g] = AnnH[g] /\ AnnE'[g] = AnnE[g]
      <4> SUFFICES ASSUME NEW g \in Fifos, g # f PROVE AnnH'[g] = AnnH[g] /\ AnnE'[g] = AnnE[g]
        OBVIOUS
      <4>1. \A u \in Threads : /\ AnnouncesH(pc'[u], job'[u], g) <=> AnnouncesH(pc[u], job[u], g)
                               /\ AnnouncesE(pc'[u], job'[u], g) <=> AnnouncesE(pc[u], job[u], g)
        BY <2>6
      <4>2. /\ {u \in Threads : AnnouncesH(pc'[u], job'[u], g)} = {u \in Threads : AnnouncesH(pc[u], job[u], g)}
            /\ {u \in Threads : AnnouncesE(pc'[u], job'[u], g)} = {u \in Threads : AnnouncesE(pc[u], job[u], g)}
        BY <4>1
      <4> QED
        BY <2>7, <4>2
    <3> QED
      BY <2>7, <3>1, <3>2, <3>3
  <2>9. /\ t \in AnnH[f] <=> j = "headers"
        /\ t \in AnnE[f] <=> j = "end"
        /\ t \in WaitH => j = "headers"
        /\ t \in WaitE => j = "end"
        /\ t \notin PastH /\ t \notin PastE
    <3>1. /\ AnnouncesH(pc[t], job[t], f) <=> j = "headers"
          /\ AnnouncesE(pc[t], job[t], f) <=> j = "end"
          /\ AwaitsH(pc[t], job[t]) <=> j = "headers"
          /\ AwaitsE(pc[t], job[t]) <=> j = "end"
          /\ pc[t] \notin {"flushed", "opened", "finished"}
      BY <1>5, <1>6
    <3>2. (t \in AnnH[f] <=> j = "headers") /\ (t \in AnnE[f] <=> j = "end")
      BY <2>7, <3>1
    <3>3. t \in WaitH => j = "headers"
      BY <3>1 DEF WaitH
    <3>4. t \in WaitE => j = "end"
      BY <3>1 DEF WaitE
    <3>5. t \notin PastH /\ t \notin PastE
      BY <3>1 DEF PastH, PastE
    <3> QED
      BY <3>2, <3>3, <3>4, <3>5
  <2>10. /\ AnnH \in [Fifos -> SUBSET Threads] /\ AnnE \in [Fifos -> SUBSET Threads]
         /\ AnnH' \in [Fifos -> SUBSET Threads] /\ AnnE' \in [Fifos -> SUBSET Threads]
         /\ created \subseteq Fifos
    BY DEF AnnH, AnnE, Types, QueueTypes
  <2>11. ASSUME ~braked', "headers" \notin mixed' PROVE RoundH'
    <3>1. RoundH
      BY <1>1, <1>7, <2>11 DEF Rounds
    <3>2. PICK A \in [Fifos -> SUBSET Threads] :
             /\ \A g \in created : AnnH'[g] = A[g] /\ A[g] \subseteq AnnH[g]
             /\ Round("headers", created, hand, fifo', headers, target, A, WaitH, PastH, Held)
      <4>1. CASE j = "headers" /\ f \in created
        <5>1. /\ t \in AnnH[f] /\ t \notin PastH /\ Put(f, Item("headers", t))
              /\ AnnH'[f] = AnnH[f] \ {t} /\ \A g \in created : g # f => AnnH'[g] = AnnH[g]
          BY <2>1, <2>8, <2>9, <2>10, <4>1
        <5>2. Round("headers", created, hand, fifo', headers, target, AnnH', WaitH, PastH, Held)
          BY <3>1, <4>1, <5>1, PutOwnH
        <5> QED
          BY <2>8, <2>10, <5>2
      <4>2. CASE j = "headers" /\ f \notin created
        <5>1. fifo' = fifo
          BY <2>1, <4>2, PutEffect
        <5>2. Round("headers", created, hand, fifo', headers, target, AnnH, WaitH, PastH, Held)
          BY <3>1, <5>1 DEF RoundH
        <5>3. \A g \in created : AnnH'[g] = AnnH[g]
          BY <2>8, <2>10, <4>2
        <5> QED
          BY <2>10, <5>2, <5>3
      <4>3. CASE j = "end"
        <5>1. Round("headers", created, hand, fifo', headers, target, AnnH, WaitH, PastH, Held)
          BY <2>1, <2>9, <3>1, <4>3, PutOtherH
        <5>2. \A g \in created : AnnH'[g] = AnnH[g]
          BY <2>8, <2>9, <2>10, <4>3
        <5> QED
          BY <2>10, <5>1, <5>2
      <4> QED
        BY <2>1, <4>1, <4>2, <4>3
    <3>3. \A u \in Threads : pc'[u] \in {"flushed", "opened"} =>
             \/ pc[u] \in {"flushed", "opened"}
             \/ AwaitsH(pc[u], job[u]) /\ \A g \in created : u \notin A[g] /\ headers[g] >= target[u][g]
      BY <2>5
    <3> QED
      BY <1>1, <2>5, <3>2, <3>3, SettlesH
  <2>12. ASSUME ~braked', "end" \notin mixed' PROVE RoundE'
    <3>1. RoundE
      BY <1>1, <1>7, <2>12 DEF Rounds
    <3>2. PICK A \in [Fifos -> SUBSET Threads] :
             /\ \A g \in created : AnnE'[g] = A[g] /\ A[g] \subseteq AnnE[g]
             /\ Round("end", created, hand, fifo', finisheds, target, A, WaitE, PastE, NoneHeld)
      <4>1. CASE j = "end" /\ f \in created
        <5>1. /\ t \in AnnE[f] /\ t \notin PastE /\ Put(f, Item("end", t))
              /\ AnnE'[f] = AnnE[f] \ {t} /\ \A g \in created : g # f => AnnE'[g] = AnnE[g]
          BY <2>1, <2>8, <2>9, <2>10, <4>1
        <5>2. Round("end", created, hand, fifo', finisheds, target, AnnE', WaitE, PastE, NoneHeld)
          BY <3>1, <4>1, <5>1, PutOwnE
        <5> QED
          BY <2>8, <2>10, <5>2
      <4>2. CASE j = "end" /\ f \notin created
        <5>1. fifo' = fifo
          BY <2>1, <4>2, PutEffect
        <5>2. Round("end", created, hand, fifo', finisheds, target, AnnE, WaitE, PastE, NoneHeld)
          BY <3>1, <5>1 DEF RoundE
        <5>3. \A g \in created : AnnE'[g] = AnnE[g]
          BY <2>8, <2>10, <4>2
        <5> QED
          BY <2>10, <5>2, <5>3
      <4>3. CASE j = "headers"
        <5>1. Round("end", created, hand, fifo', finisheds, target, AnnE, WaitE, PastE, NoneHeld)
          BY <2>1, <2>9, <3>1, <4>3, PutOtherE
        <5>2. AnnE[f] \ {t} = AnnE[f]
          <6>1. t \notin AnnE[f]
            BY <2>9, <4>3
          <6> QED
            BY <6>1
        <5>3. ASSUME NEW g \in created PROVE AnnE'[g] = AnnE[g]
          <6>1. CASE g = f
            BY <2>8, <5>2, <6>1
          <6>2. CASE g # f
            BY <2>8, <2>10, <6>2
          <6> QED
            BY <6>1, <6>2
        <5> QED
          BY <2>10, <5>1, <5>3
      <4> QED
        BY <2>1, <4>1, <4>2, <4>3
    <3>3. \A u \in Sides : pc'[u] = "finished" =>
             \/ pc[u] = "finished"
             \/ AwaitsE(pc[u], job[u]) /\ \A g \in created : u \notin A[g] /\ finisheds[g] >= target[u][g]
      BY <2>5
    <3> QED
      BY <1>1, <2>5, <3>2, <3>3, SettlesE
  <2> QED
    BY <2>3, <2>11, <2>12 DEF Syncs, Rounds
<1> QED
  BY <1>8, <1>9

\* The steps that put a pair.
LEMMA PairSettles ==
    ASSUME Types, Types', Shape, Own, Syncs, NEW t \in Threads, PairStep(t)
    PROVE  Syncs'
<1>1. UNCHANGED <<created, demuxVars, streamVars, brakeVars, appVars>>
  BY DEF PairStep
<1>2. CASE Count(t)
  BY <1>1, <1>2, CountSettles
<1>3. CASE UNCHANGED mixed /\ (AllocVideo(t) \/ AllocAudio(t))
  BY <1>1, <1>3, AllocSettles
<1>4. CASE UNCHANGED mixed /\ (PutVideo(t) \/ PutAudio(t))
  BY <1>1, <1>4, PutSettles
<1> QED
  BY <1>2, <1>3, <1>4 DEF PairStep

\* The END pair is put.
LEMMA EndedSettles ==
    ASSUME Types, Types', Shape, Own, Syncs, NEW s \in Sides, UNCHANGED mixed, Ended(s)
    PROVE  Syncs'
<1> USE Actors
<1>1. UNCHANGED <<created, fifo, hand, headers, finisheds, target, asleep, braked, mixed>> /\ Unlock(s)
  BY DEF Ended, queueVars, countVars, brakeVars
<1>2. /\ pc[s] = "ended" /\ pc'[s] = "end_wait" /\ job' = job
      /\ \A u \in Threads : u # s => pc'[u] = pc[u]
  <2>1. CallTypes /\ s \in Threads /\ Go(s, "end_wait") /\ pc[s] = "ended"
    BY DEF Types, Ended, At
  <2> QED
    BY <2>1, Gone
<1>3. Asleep /\ Dummies /\ Rounds /\ WaitersTold
  BY DEF Syncs
<1>4. Asleep' /\ Dummies' /\ WaitersTold'
  <2>1. \A f \in Fifos : f \notin created => fifo'[f] = <<>> /\ target'[s][f] = 0
    BY <1>1, <1>3 DEF Dummies
  <2>2. \A u \in Threads : u # s => pc'[u] = pc[u] /\ target'[u] = target[u]
    BY <1>1, <1>2
  <2>3. mixed \subseteq mixed' /\ s \in Threads /\ pc[s] \notin {"sync_wait", "end_wait"}
    BY <1>1, <1>2
  <2> QED
    BY <1>1, <1>3, <2>1, <2>2, <2>3, SleepersStay
<1>6. \A u \in Threads, r \in Sides : lock'[r] = u => lock[r] = u
  BY <1>1 DEF Unlock, Types, SideTypes
<1>7. \A u \in Threads :
        /\ AwaitsH(pc'[u], job'[u]) => AwaitsH(pc[u], job[u])
        /\ AwaitsE(pc'[u], job'[u]) => AwaitsE(pc[u], job[u])
        /\ \A f \in Fifos : AnnouncesH(pc'[u], job'[u], f) <=> AnnouncesH(pc[u], job[u], f)
        /\ \A f \in Fifos : AnnouncesE(pc'[u], job'[u], f) <=> AnnouncesE(pc[u], job[u], f)
        /\ pc'[u] \in {"flushed", "opened"} => pc[u] \in {"flushed", "opened"}
        /\ pc'[u] = "finished" => pc[u] = "finished"
  <2>1. \A j : /\ ~AwaitsH("end_wait", j) /\ AwaitsE("ended", j)
               /\ \A f : /\ ~AnnouncesH("end_wait", j, f) /\ ~AnnouncesH("ended", j, f)
                         /\ ~AnnouncesE("end_wait", j, f) /\ ~AnnouncesE("ended", j, f)
    BY DEF AwaitsH, AwaitsE, AnnouncesH, AnnouncesE, PutsInto, AllocSteps, PutSteps, SyncSteps
  <2> SUFFICES ASSUME NEW u \in Threads, u # s
               PROVE  pc'[u] = pc[u] /\ job'[u] = job[u]
    BY <1>2, <2>1
  <2> QED
    BY <1>2
<1>8. ASSUME ~braked', "headers" \notin mixed' PROVE RoundH'
  <2>1. ~braked /\ "headers" \notin mixed /\ RoundH
    BY <1>1, <1>3, <1>8 DEF Rounds
  <2>2. Round("headers", created, hand, fifo', headers, target, AnnH, WaitH, PastH, Held)
    BY <1>1, <2>1 DEF RoundH
  <2> QED
    BY <1>1, <1>3, <1>6, <1>7, <2>1, <2>2, SameH
<1>9. ASSUME ~braked', "end" \notin mixed' PROVE RoundE'
  <2>1. ~braked /\ "end" \notin mixed /\ RoundE
    BY <1>1, <1>3, <1>9 DEF Rounds
  <2>2. Round("end", created, hand, fifo', finisheds, target, AnnE, WaitE, PastE, NoneHeld)
    BY <1>1, <2>1 DEF RoundE
  <2> QED
    BY <1>1, <1>3, <1>7, <2>1, <2>2, SameE
<1> QED
  BY <1>4, <1>8, <1>9 DEF Syncs, Rounds

\* A thread that has looked at the counts falls asleep.
LEMMA FallsAsleep ==
    ASSUME Types, Types', Asleep, Dummies, WaitersTold,
           UNCHANGED <<created, fifo, hand, headers, finisheds, target, braked, mixed>>,
           NEW t \in Threads, asleep' = asleep \cup {t}, pc'[t] \in {"sync_wait", "end_wait"},
           \A u \in Threads : u # t => pc'[u] = pc[u],
           IF pc'[t] = "sync_wait" THEN \E f \in Fifos : ~(headers[f] >= target[t][f])
                                   ELSE \E f \in Fifos : ~(finisheds[f] >= target[t][f])
    PROVE  Asleep' /\ Dummies' /\ WaitersTold'
<1> USE Actors
<1>1. Asleep'
  <2>1. \A u \in Threads : u \in asleep' => pc'[u] \in {"sync_wait", "end_wait"}
    BY DEF Asleep
  <2>2. \A f \in Fifos : f \in asleep' => f \in created' /\ hand'[f].kind = "barrier"
    BY DEF Asleep
  <2> QED
    BY <2>1, <2>2 DEF Asleep
<1>2. Dummies'
  BY DEF Dummies
<1>3. Told(asleep, pc, headers, finisheds, target) => Told(asleep', pc', headers', finisheds', target')
  <2> SUFFICES ASSUME Told(asleep, pc, headers, finisheds, target)
               PROVE  Told(asleep', pc', headers', finisheds', target')
    OBVIOUS
  <2>1. \A f \in Fifos : f \in asleep' => finisheds'[f] > finisheds'[Other(f)]
    BY DEF Told
  <2>2. ASSUME NEW u \in Threads, u \in asleep'
        PROVE  IF pc'[u] = "sync_wait" THEN \E f \in Fifos : ~(headers'[f] >= target'[u][f])
                                       ELSE \E f \in Fifos : ~(finisheds'[f] >= target'[u][f])
    <3>1. CASE u = t
      BY <3>1
    <3>2. CASE u # t
      <4>1. u \in asleep /\ pc'[u] = pc[u]
        BY <2>2, <3>2
      <4> QED
        BY <4>1 DEF Told
    <3> QED
      BY <3>1, <3>2
  <2> QED
    BY <2>1, <2>2 DEF Told
<1> QED
  BY <1>1, <1>2, <1>3, ToldIs, ToldPrimed

\* After the emergency exit, only who sleeps and what a dummy holds matter.
LEMMA EmergencySettles ==
    ASSUME Types, Types', Shape, Own, Syncs, NEW t \in Threads, UNCHANGED mixed, Emergency(t)
    PROVE  Syncs'
<1> USE Actors
<1>1. /\ UNCHANGED <<created, fifo, hand, target>> /\ braked' = TRUE /\ asleep' = asleep \ {t}
      /\ \A u \in Threads : u # t => pc'[u] = pc[u]
  BY DEF Emergency, queueVars, Go, Return, Types, CallTypes
<1>2. Asleep /\ Dummies
  BY DEF Syncs
<1>3. Asleep'
  BY <1>1, <1>2 DEF Asleep
<1>4. Dummies'
  BY <1>1, <1>2 DEF Dummies
<1>5. Rounds' /\ WaitersTold'
  BY <1>1 DEF Rounds, WaitersTold
<1> QED
  BY <1>3, <1>4, <1>5 DEF Syncs

\* A thread looks at the counts of HEADERS_DONE.
LEMMA SyncSettles ==
    ASSUME Types, Types', Shape, Own, Syncs, NEW t \in Threads, UNCHANGED mixed, Sync(t)
    PROVE  Syncs'
<1> USE Actors
<1>1. UNCHANGED <<created, fifo, hand, headers, finisheds, target, braked, mixed, lock>>
  BY DEF Sync, queueVars, brakeVars
<1>2. Asleep /\ Dummies /\ Rounds /\ WaitersTold
  BY DEF Syncs
<1>3. pc[t] \in SyncSteps /\ t \notin asleep /\ AwaitsH(pc[t], job[t])
  BY <1>2 DEF Sync, At, SyncSteps, Asleep, AwaitsH
<1>4. Reached(t) <=> \A f \in Fifos : headers[f] >= target[t][f]
  <2>1. Counts(t) = headers
    BY <1>3 DEF Counts, At, SyncSteps
  <2> QED
    BY <2>1 DEF Reached
<1>5. \A j, f : ~AnnouncesH(pc[t], j, f) /\ ~AnnouncesE(pc[t], j, f) /\ ~AwaitsE(pc[t], j)
  BY <1>3 DEF AnnouncesH, AnnouncesE, AwaitsE, PutsInto, AllocSteps, PutSteps, SyncSteps
<1>6. CASE Reached(t)
  <2>1. SyncDone(t)
    BY <1>6 DEF Sync
  <2>2. /\ pc'[t] \in {"flushed", "opened"} /\ job' = job
        /\ \A u \in Threads : u # t => pc'[u] = pc[u]
    <3>1. UNCHANGED <<lock, side, pair>> /\ Return(t) /\ counter' = Nobody /\ CallTypes
      BY <2>1 DEF Sync, SyncDone, queueVars, appVars, Types
    <3>2. counter = t \/ counter = Nobody
      <4>1. At(t, "sync") => counter = t
        BY OwnAt DEF At, PutsHeaders
      <4> QED
        BY <4>1 DEF Sync
    <3> QED
      BY <1>3, <3>1, <3>2, SyncReturns
  <2>3. Asleep' /\ Dummies' /\ WaitersTold'
    <3>1. \A f \in Fifos : f \notin created => fifo'[f] = <<>> /\ target'[t][f] = 0
      BY <1>1, <1>2 DEF Dummies
    <3>2. \A u \in Threads : u # t => pc'[u] = pc[u] /\ target'[u] = target[u]
      BY <1>1, <2>2
    <3>3. asleep' = asleep /\ mixed \subseteq mixed'
      BY <1>1, <2>1 DEF SyncDone
    <3> QED
      BY <1>1, <1>2, <1>3, <3>1, <3>2, <3>3, SleepersStay
  <2>4. \A j, f : /\ ~AnnouncesH(pc'[t], j, f) /\ ~AnnouncesE(pc'[t], j, f)
                  /\ j # "end" => ~AwaitsH(pc'[t], j) /\ ~AwaitsE(pc'[t], j)
    BY <2>2 DEF AnnouncesH, AnnouncesE, AwaitsH, AwaitsE, PutsInto, AllocSteps, PutSteps, SyncSteps
  <2>5. ~AwaitsH(pc'[t], job'[t]) /\ ~AwaitsE(pc'[t], job'[t])
    BY <2>2 DEF AwaitsH, AwaitsE, AllocSteps, PutSteps, SyncSteps
  <2>6. \A u \in Threads : \A f \in Fifos :
          /\ AnnouncesH(pc'[u], job'[u], f) <=> AnnouncesH(pc[u], job[u], f)
          /\ AnnouncesE(pc'[u], job'[u], f) <=> AnnouncesE(pc[u], job[u], f)
    <3> SUFFICES ASSUME NEW u \in Threads, u # t
                 PROVE  pc'[u] = pc[u] /\ job'[u] = job[u]
      BY <1>5, <2>4
    <3> QED
      BY <2>2
  <2>7. ASSUME ~braked', "headers" \notin mixed' PROVE RoundH'
    <3>1. Round("headers", created, hand, fifo', headers, target, AnnH, WaitH, PastH, Held)
      BY <1>1, <1>2, <2>7 DEF Rounds, RoundH
    <3>2. AnnH \in [Fifos -> SUBSET Threads] /\ \A f \in created : AnnH'[f] = AnnH[f] /\ t \notin AnnH[f]
      <4>1. \A f \in Fifos : AnnH'[f] = AnnH[f] /\ t \notin AnnH[f]
        BY <1>5, <2>6 DEF AnnH
      <4> QED
        BY <4>1 DEF AnnH, Types, QueueTypes
    <3>3. \A u \in Threads : AwaitsH(pc'[u], job'[u]) => AwaitsH(pc[u], job[u]) /\ target'[u] = target[u]
      BY <1>1, <2>2, <2>5
    <3>4. \A u \in Threads : pc'[u] \in {"flushed", "opened"} =>
             \/ pc[u] \in {"flushed", "opened"}
             \/ AwaitsH(pc[u], job[u]) /\ \A f \in created : u \notin AnnH[f] /\ headers[f] >= target[u][f]
      <4>1. \A f \in created : t \notin AnnH[f] /\ headers[f] >= target[t][f]
        BY <1>4, <1>6, <3>2 DEF Types, QueueTypes
      <4> SUFFICES ASSUME NEW u \in Threads, u # t
                   PROVE  pc'[u] = pc[u]
        BY <1>3, <4>1
      <4> QED
        BY <2>2
    <3> QED
      BY <1>1, <3>1, <3>2, <3>3, <3>4, SettlesH
  <2>8. ASSUME ~braked', "end" \notin mixed' PROVE RoundE'
    <3>1. ~braked /\ "end" \notin mixed /\ RoundE
      BY <1>1, <1>2, <2>8 DEF Rounds
    <3>2. Round("end", created, hand, fifo', finisheds, target, AnnE, WaitE, PastE, NoneHeld)
      BY <1>1, <3>1 DEF RoundE
    <3>3. \A u \in Threads :
            /\ AwaitsE(pc'[u], job'[u]) => AwaitsE(pc[u], job[u])
            /\ pc'[u] = "finished" => pc[u] = "finished"
      <4> SUFFICES ASSUME NEW u \in Threads, u # t
                   PROVE  pc'[u] = pc[u] /\ job'[u] = job[u]
        BY <2>2, <2>5
      <4> QED
        BY <2>2
    <3> QED
      BY <1>1, <1>2, <2>6, <3>1, <3>2, <3>3, SameE
  <2> QED
    BY <2>3, <2>7, <2>8 DEF Syncs, Rounds
<1>7. CASE ~Reached(t)
  <2>1. asleep' = asleep \cup {t} /\ Go(t, "sync_wait")
    BY <1>7 DEF Sync
  <2>2. pc'[t] = "sync_wait" /\ job' = job /\ \A u \in Threads : u # t => pc'[u] = pc[u]
    BY <2>1, Gone DEF Types
  <2>3. Asleep' /\ Dummies' /\ WaitersTold'
    BY <1>1, <1>2, <1>4, <1>7, <2>1, <2>2, FallsAsleep
  <2>4. \A u \in Threads :
          /\ AwaitsH(pc'[u], job'[u]) => AwaitsH(pc[u], job[u])
          /\ AwaitsE(pc'[u], job'[u]) => AwaitsE(pc[u], job[u])
          /\ \A f \in Fifos : AnnouncesH(pc'[u], job'[u], f) <=> AnnouncesH(pc[u], job[u], f)
          /\ \A f \in Fifos : AnnouncesE(pc'[u], job'[u], f) <=> AnnouncesE(pc[u], job[u], f)
          /\ pc'[u] \in {"flushed", "opened"} => pc[u] \in {"flushed", "opened"}
          /\ pc'[u] = "finished" => pc[u] = "finished"
    <3>1. \A j, f : ~AnnouncesH("sync_wait", j, f) /\ ~AnnouncesE("sync_wait", j, f) /\ ~AwaitsE("sync_wait", j)
      BY DEF AnnouncesH, AnnouncesE, AwaitsE, PutsInto, AllocSteps, PutSteps, SyncSteps
    <3> SUFFICES ASSUME NEW u \in Threads, u # t
                 PROVE  pc'[u] = pc[u] /\ job'[u] = job[u]
      BY <1>3, <1>5, <2>2, <3>1
    <3> QED
      BY <2>2
  <2>5. ASSUME ~braked', "headers" \notin mixed' PROVE RoundH'
    <3>1. ~braked /\ "headers" \notin mixed /\ RoundH
      BY <1>1, <1>2, <2>5 DEF Rounds
    <3>2. Round("headers", created, hand, fifo', headers, target, AnnH, WaitH, PastH, Held)
      BY <1>1, <3>1 DEF RoundH
    <3> QED
      BY <1>1, <1>2, <2>4, <3>1, <3>2, SameH
  <2>6. ASSUME ~braked', "end" \notin mixed' PROVE RoundE'
    <3>1. ~braked /\ "end" \notin mixed /\ RoundE
      BY <1>1, <1>2, <2>6 DEF Rounds
    <3>2. Round("end", created, hand, fifo', finisheds, target, AnnE, WaitE, PastE, NoneHeld)
      BY <1>1, <3>1 DEF RoundE
    <3> QED
      BY <1>1, <1>2, <2>4, <3>1, <3>2, SameE
  <2> QED
    BY <2>3, <2>5, <2>6 DEF Syncs, Rounds
<1> QED
  BY <1>6, <1>7

\* A demuxer looks at the counts of END.
LEMMA EndWaitSettles ==
    ASSUME Types, Types', Shape, Own, Syncs, NEW t \in Sides, UNCHANGED mixed, EndWait(t)
    PROVE  Syncs'
<1> USE Actors
<1>1. UNCHANGED <<created, fifo, hand, headers, finisheds, target, braked, mixed, lock>>
  BY DEF EndWait, queueVars, brakeVars, demuxVars
<1>2. Asleep /\ Dummies /\ Rounds /\ WaitersTold
  BY DEF Syncs
<1>3. pc[t] = "end_wait" /\ t \notin asleep /\ AwaitsE(pc[t], job[t]) /\ t \in Threads
  BY DEF EndWait, At, AwaitsE
<1>4. Reached(t) <=> \A f \in Fifos : finisheds[f] >= target[t][f]
  <2>1. Counts(t) = finisheds
    BY <1>3 DEF Counts, At
  <2> QED
    BY <2>1 DEF Reached
<1>5. \A j, f : ~AnnouncesH(pc[t], j, f) /\ ~AnnouncesE(pc[t], j, f) /\ ~AwaitsH(pc[t], j)
  BY <1>3 DEF AnnouncesH, AnnouncesE, AwaitsH, PutsInto, AllocSteps, PutSteps, SyncSteps
<1>6. CASE Reached(t)
  <2>1. Go(t, "finished") /\ UNCHANGED asleep
    BY <1>6 DEF EndWait
  <2>2. /\ pc'[t] = "finished" /\ job' = job
        /\ \A u \in Threads : u # t => pc'[u] = pc[u]
    BY <1>3, <2>1, Gone DEF Types
  <2>3. Asleep' /\ Dummies' /\ WaitersTold'
    <3>1. \A f \in Fifos : f \notin created => fifo'[f] = <<>> /\ target'[t][f] = 0
      BY <1>1, <1>2, <1>3 DEF Dummies
    <3>2. \A u \in Threads : u # t => pc'[u] = pc[u] /\ target'[u] = target[u]
      BY <1>1, <2>2
    <3>3. asleep' = asleep /\ mixed \subseteq mixed'
      BY <1>1, <2>1
    <3> QED
      BY <1>1, <1>2, <1>3, <3>1, <3>2, <3>3, SleepersStay
  <2>4. \A j, f : /\ ~AnnouncesH(pc'[t], j, f) /\ ~AnnouncesE(pc'[t], j, f)
                  /\ ~AwaitsH(pc'[t], j) /\ ~AwaitsE(pc'[t], j)
    BY <2>2 DEF AnnouncesH, AnnouncesE, AwaitsH, AwaitsE, PutsInto, AllocSteps, PutSteps, SyncSteps
  <2>5. \A u \in Threads : \A f \in Fifos :
          /\ AnnouncesH(pc'[u], job'[u], f) <=> AnnouncesH(pc[u], job[u], f)
          /\ AnnouncesE(pc'[u], job'[u], f) <=> AnnouncesE(pc[u], job[u], f)
    <3> SUFFICES ASSUME NEW u \in Threads, u # t
                 PROVE  pc'[u] = pc[u] /\ job'[u] = job[u]
      BY <1>5, <2>4
    <3> QED
      BY <2>2
  <2>6. ASSUME ~braked', "end" \notin mixed' PROVE RoundE'
    <3>1. Round("end", created, hand, fifo', finisheds, target, AnnE, WaitE, PastE, NoneHeld)
      BY <1>1, <1>2, <2>6 DEF Rounds, RoundE
    <3>2. AnnE \in [Fifos -> SUBSET Threads] /\ \A f \in created : AnnE'[f] = AnnE[f] /\ t \notin AnnE[f]
      <4>1. \A f \in Fifos : AnnE'[f] = AnnE[f] /\ t \notin AnnE[f]
        BY <1>5, <2>5 DEF AnnE
      <4> QED
        BY <4>1 DEF AnnE, Types, QueueTypes
    <3>3. \A u \in Sides : AwaitsE(pc'[u], job'[u]) => AwaitsE(pc[u], job[u]) /\ target'[u] = target[u]
      BY <1>1, <2>2, <2>4
    <3>4. \A u \in Sides : pc'[u] = "finished" =>
             \/ pc[u] = "finished"
             \/ AwaitsE(pc[u], job[u]) /\ \A f \in created : u \notin AnnE[f] /\ finisheds[f] >= target[u][f]
      <4>1. \A f \in created : t \notin AnnE[f] /\ finisheds[f] >= target[t][f]
        BY <1>4, <1>6, <3>2 DEF Types, QueueTypes
      <4> SUFFICES ASSUME NEW u \in Sides, u # t
                   PROVE  pc'[u] = pc[u]
        BY <1>3, <4>1
      <4> QED
        BY <2>2
    <3> QED
      BY <1>1, <3>1, <3>2, <3>3, <3>4, SettlesE
  <2>7. ASSUME ~braked', "headers" \notin mixed' PROVE RoundH'
    <3>1. ~braked /\ "headers" \notin mixed /\ RoundH
      BY <1>1, <1>2, <2>7 DEF Rounds
    <3>2. Round("headers", created, hand, fifo', headers, target, AnnH, WaitH, PastH, Held)
      BY <1>1, <3>1 DEF RoundH
    <3>3. \A u \in Threads :
            /\ AwaitsH(pc'[u], job'[u]) => AwaitsH(pc[u], job[u])
            /\ pc'[u] \in {"flushed", "opened"} => pc[u] \in {"flushed", "opened"}
      <4> SUFFICES ASSUME NEW u \in Threads, u # t
                   PROVE  pc'[u] = pc[u] /\ job'[u] = job[u]
        BY <2>2, <2>4
      <4> QED
        BY <2>2
    <3> QED
      BY <1>1, <1>2, <2>5, <3>1, <3>2, <3>3, SameH
  <2> QED
    BY <2>3, <2>6, <2>7 DEF Syncs, Rounds
<1>7. CASE ~Reached(t)
  <2>1. asleep' = asleep \cup {t} /\ pc' = pc /\ job' = job
    BY <1>7 DEF EndWait, callVars
  <2>2. Asleep' /\ Dummies' /\ WaitersTold'
    <3>1. /\ pc'[t] \in {"sync_wait", "end_wait"} /\ \A u \in Threads : u # t => pc'[u] = pc[u]
          /\ IF pc'[t] = "sync_wait" THEN \E f \in Fifos : ~(headers[f] >= target[t][f])
                                     ELSE \E f \in Fifos : ~(finisheds[f] >= target[t][f])
      BY <1>3, <1>4, <1>7, <2>1
    <3> QED
      BY <1>1, <1>2, <1>3, <2>1, <3>1, FallsAsleep
  <2>3. Rounds'
    BY <1>1, <1>2, <2>1 DEF Rounds, RoundH, RoundE, AnnH, AnnE, WaitH, WaitE, PastH, PastE, Held, NoneHeld
  <2> QED
    BY <2>2, <2>3 DEF Syncs
<1> QED
  BY <1>6, <1>7

-----------------------------------------------------------------------------
(* The decoders. *)

\* When no thread moves, the sets of the rounds are as they were.
LEMMA Unmoved ==
    ASSUME UNCHANGED <<pc, job, lock>>
    PROVE  /\ AnnH' = AnnH /\ WaitH' = WaitH /\ PastH' = PastH /\ Held' = Held
           /\ AnnE' = AnnE /\ WaitE' = WaitE /\ PastE' = PastE /\ NoneHeld' = NoneHeld
  BY DEF AnnH, AnnE, WaitH, WaitE, PastH, PastE, Held, NoneHeld

\* The decoder of f takes a buffer, or is through with one of another kind.
LEMMA DecoderThins ==
    ASSUME Types, Types', UNCHANGED <<created, pc, job, lock, target>>, NEW f \in created,
           \A g \in Fifos : g # f => hand'[g] = hand[g] /\ fifo'[g] = fifo[g]
    PROVE  /\ /\ RoundH /\ headers' = headers
              /\ \E e : Thins(e, hand'[f], fifo'[f], hand[f], fifo[f], "headers")
              => RoundH'
           /\ /\ RoundE /\ finisheds' = finisheds
              /\ \E e : Thins(e, hand'[f], fifo'[f], hand[f], fifo[f], "end")
              => RoundE'
<1>1. /\ hand' \in [Fifos -> Items] /\ fifo' \in [Fifos -> Seq(Items)] /\ created \subseteq Fifos
  BY DEF Types, QueueTypes
<1>2. \A g \in created : g # f => hand'[g] = hand[g] /\ fifo'[g] = fifo[g]
  BY <1>1
<1>3. /\ AnnH' = AnnH /\ WaitH' = WaitH /\ PastH' = PastH /\ Held' = Held
      /\ AnnE' = AnnE /\ WaitE' = WaitE /\ PastE' = PastE /\ NoneHeld' = NoneHeld
  BY Unmoved
<1>4. ASSUME RoundH, headers' = headers, NEW e, Thins(e, hand'[f], fifo'[f], hand[f], fifo[f], "headers")
      PROVE  RoundH'
  <2>1. RoundOver("headers", created, hand, fifo, headers, target, AnnH, WaitH, PastH, Held)
    BY OverH
  <2>2. Round("headers", created, hand, fifo, headers, target, AnnH, WaitH, PastH, Held)
    BY <1>4 DEF RoundH
  <2>3. Round("headers", created, hand', fifo', headers, target, AnnH, WaitH, PastH, Held)
    BY ONLY <1>1, <1>2, <1>4, <2>1, <2>2, f \in created, RoundThins
  <2> QED
    BY <1>3, <1>4, <2>3 DEF RoundH
<1>5. ASSUME RoundE, finisheds' = finisheds, NEW e, Thins(e, hand'[f], fifo'[f], hand[f], fifo[f], "end")
      PROVE  RoundE'
  <2>1. RoundOver("end", created, hand, fifo, finisheds, target, AnnE, WaitE, PastE, NoneHeld)
    BY OverE
  <2>2. Round("end", created, hand, fifo, finisheds, target, AnnE, WaitE, PastE, NoneHeld)
    BY <1>5 DEF RoundE
  <2>3. Round("end", created, hand', fifo', finisheds, target, AnnE, WaitE, PastE, NoneHeld)
    BY ONLY <1>1, <1>2, <1>5, <2>1, <2>2, f \in created, RoundThins
  <2> QED
    BY <1>3, <1>5, <2>3 DEF RoundE
<1> QED
  BY <1>4, <1>5

\* The decoder of f counts the buffer of a pair.
LEMMA DecoderCounts ==
    ASSUME Types, Types', UNCHANGED <<created, fifo, pc, job, lock, target>>, NEW f \in created,
           \A g \in Fifos : g # f => hand'[g] = hand[g],
           hand'[f].kind \in {"none", "barrier"}
    PROVE  /\ RoundH /\ hand[f].kind = "headers" /\ headers' = [headers EXCEPT ![f] = @ + 1] => RoundH'
           /\ RoundE /\ hand[f].kind = "end" /\ finisheds' = [finisheds EXCEPT ![f] = @ + 1] => RoundE'
<1>1. /\ hand' \in [Fifos -> Items] /\ created \subseteq Fifos
      /\ headers \in [Fifos -> Nat] /\ finisheds \in [Fifos -> Nat]
  BY DEF Types, QueueTypes, CountTypes
<1>2. \A g \in created : g # f => hand'[g] = hand[g]
  BY <1>1
<1>3. /\ AnnH' = AnnH /\ WaitH' = WaitH /\ PastH' = PastH /\ Held' = Held
      /\ AnnE' = AnnE /\ WaitE' = WaitE /\ PastE' = PastE /\ NoneHeld' = NoneHeld
  BY Unmoved
<1>4. PICK x \in Items : hand'[f] = x /\ x.kind \in {"none", "barrier"}
  BY <1>1
<1>5. ASSUME RoundH, hand[f].kind = "headers", headers' = [headers EXCEPT ![f] = @ + 1]
      PROVE  RoundH'
  <2>1. RoundOver("headers", created, hand, fifo, headers, target, AnnH, WaitH, PastH, Held)
    BY OverH
  <2>2. Round("headers", created, hand, fifo, headers, target, AnnH, WaitH, PastH, Held)
    BY <1>5 DEF RoundH
  <2>3. headers'[f] = headers[f] + 1 /\ \A g \in created : g # f => hand'[g] = hand[g] /\ headers'[g] = headers[g]
    BY <1>1, <1>2, <1>5
  <2>4. Round("headers", created, hand', fifo, headers', target, AnnH, WaitH, PastH, Held)
    <3>1. /\ RoundOver("headers", created, hand, fifo, headers, target, AnnH, WaitH, PastH, Held)
          /\ Round("headers", created, hand, fifo, headers, target, AnnH, WaitH, PastH, Held)
          /\ hand[f].kind = "headers" /\ x.kind \in {"none", "barrier"}
          /\ hand'[f] = x /\ headers'[f] = headers[f] + 1
          /\ \A g \in created : g # f => hand'[g] = hand[g] /\ headers'[g] = headers[g]
      BY <1>4, <1>5, <2>1, <2>2, <2>3
    <3> QED
      BY ONLY <3>1, x \in Items, f \in created, RoundSeen
  <2> QED
    BY <1>3, <2>4 DEF RoundH
<1>6. ASSUME RoundE, hand[f].kind = "end", finisheds' = [finisheds EXCEPT ![f] = @ + 1]
      PROVE  RoundE'
  <2>1. RoundOver("end", created, hand, fifo, finisheds, target, AnnE, WaitE, PastE, NoneHeld)
    BY OverE
  <2>2. Round("end", created, hand, fifo, finisheds, target, AnnE, WaitE, PastE, NoneHeld)
    BY <1>6 DEF RoundE
  <2>3. finisheds'[f] = finisheds[f] + 1 /\ \A g \in created : g # f => hand'[g] = hand[g] /\ finisheds'[g] = finisheds[g]
    BY <1>1, <1>2, <1>6
  <2>4. Round("end", created, hand', fifo, finisheds', target, AnnE, WaitE, PastE, NoneHeld)
    <3>1. /\ RoundOver("end", created, hand, fifo, finisheds, target, AnnE, WaitE, PastE, NoneHeld)
          /\ Round("end", created, hand, fifo, finisheds, target, AnnE, WaitE, PastE, NoneHeld)
          /\ hand[f].kind = "end" /\ x.kind \in {"none", "barrier"}
          /\ hand'[f] = x /\ finisheds'[f] = finisheds[f] + 1
          /\ \A g \in created : g # f => hand'[g] = hand[g] /\ finisheds'[g] = finisheds[g]
      BY <1>4, <1>6, <2>1, <2>2, <2>3
    <3> QED
      BY ONLY <3>1, x \in Items, f \in created, RoundSeen
  <2> QED
    BY <1>3, <2>4 DEF RoundE
<1> QED
  BY <1>5, <1>6

\* The two fifos.
LEMMA Others ==
    /\ Other(Video) = Audio /\ Other(Audio) = Video
    /\ \A f \in Fifos : Other(f) \in Fifos /\ Other(f) # f /\ \A g \in Fifos : g = f \/ g = Other(f)
  BY Actors DEF Other, Fifos

\* A count of an incomplete pair reaches nobody's target.
LEMMA ToldOfHeaders ==
    ASSUME Types, Asleep, RoundH, NEW f \in created, Other(f) \in created, hand[f].kind = "headers",
           Told(asleep, pc, headers, finisheds, target),
           headers[f] + 1 > headers[Other(f)],
           NEW hs \in [Fifos -> Nat], hs = [headers EXCEPT ![f] = @ + 1]
    PROVE  Told(asleep, pc, hs, finisheds, target)
<1> USE Actors
<1> DEFINE g == Other(f)
<1>1. /\ f \in Fifos /\ g \in Fifos /\ f # g /\ (\A k \in Fifos : k = f \/ k = g)
      /\ headers \in [Fifos -> Nat] /\ target \in [Threads -> [Fifos -> Nat]]
  BY Others DEF Types, QueueTypes, CountTypes
<1>2. hs[f] = headers[f] + 1 /\ hs[g] = headers[g]
  BY <1>1
<1>3. g \in created /\ headers[f] + 1 > headers[g]
  OBVIOUS
<1> HIDE DEF g
<1>4. ASSUME NEW t \in Threads, t \in asleep, pc[t] = "sync_wait", \A k \in Fifos : hs[k] >= target[t][k]
      PROVE  FALSE
  <2>1. \E k \in Fifos : ~(headers[k] >= target[t][k])
    BY <1>4 DEF Told
  <2>2. /\ headers[f] \in Nat /\ headers[g] \in Nat /\ target[t][f] \in Nat /\ target[t][g] \in Nat
        /\ hs[f] >= target[t][f] /\ hs[g] >= target[t][g]
    <3>1. target[t] \in [Fifos -> Nat]
      BY <1>1
    <3>2. hs[f] >= target[t][f]
      BY <1>1, <1>4
    <3>3. hs[g] >= target[t][g]
      BY <1>1, <1>4
    <3> QED
      BY <1>1, <3>1, <3>2, <3>3
  <2>3. headers[g] >= target[t][g] /\ headers[f] < target[t][f]
    BY <1>1, <1>2, <2>1, <2>2
  <2>4. t \in WaitH /\ t \notin AnnH[g]
    <3>1. AwaitsH(pc[t], job[t]) /\ ~AnnouncesH(pc[t], job[t], g)
      BY <1>4 DEF AwaitsH, AnnouncesH, PutsInto, SyncSteps
    <3> QED
      BY <1>1, <3>1 DEF WaitH, AnnH
  <2>5. /\ RoundOver("headers", created, hand, fifo, headers, target, AnnH, WaitH, PastH, Held)
        /\ Round("headers", created, hand, fifo, headers, target, AnnH, WaitH, PastH, Held)
        /\ hand[f].kind = "headers" /\ f # g
    BY <1>1, OverH DEF RoundH
  <2>6. headers[f] + 1 = headers[g]
    BY ONLY <1>3, <2>3, <2>4, <2>5, f \in created, RoundTells
  <2> QED
    BY <1>3, <2>2, <2>6
<1>5. \A t \in Threads : t \in asleep /\ pc[t] = "sync_wait" => \E k \in Fifos : ~(hs[k] >= target[t][k])
  BY <1>4
<1> QED
  BY <1>5 DEF Told

\* A count of END that does not complete a pair: the decoder that is ahead waits.
LEMMA ToldOfEnds ==
    ASSUME Types, Shape, Asleep, RoundE, NEW f \in created, Other(f) \in created, hand[f].kind = "end",
           Told(asleep, pc, headers, finisheds, target),
           finisheds[f] + 1 # finisheds[Other(f)],
           NEW es \in [Fifos -> Nat], es = [finisheds EXCEPT ![f] = @ + 1],
           NEW sleepers,
           IF es[f] > finisheds[Other(f)] THEN sleepers = asleep \cup {f} ELSE sleepers = asleep
    PROVE  Told(sleepers, pc, headers, es, target)
<1> USE Actors
<1> DEFINE g == Other(f)
<1>1. /\ f \in Fifos /\ g \in Fifos /\ f # g /\ (\A k \in Fifos : k = f \/ k = g)
      /\ finisheds \in [Fifos -> Nat] /\ target \in [Threads -> [Fifos -> Nat]] /\ Other(g) = f
  BY Others DEF Types, QueueTypes, CountTypes, Other
<1>2. es[f] = finisheds[f] + 1 /\ es[g] = finisheds[g] /\ finisheds[f] \in Nat /\ finisheds[g] \in Nat
  BY <1>1
<1>3. g \in created /\ finisheds[f] + 1 # finisheds[g]
  OBVIOUS
<1>4. IF es[f] > finisheds[g] THEN sleepers = asleep \cup {f} ELSE sleepers = asleep
  OBVIOUS
<1>5. f \notin asleep
  BY <1>1 DEF Asleep
<1>6. Other(f) = g
  OBVIOUS
<1> HIDE DEF g
<1>7. ASSUME NEW t \in Threads, t \in asleep, pc[t] # "sync_wait", \A k \in Fifos : es[k] >= target[t][k]
      PROVE  FALSE
  <2>1. \E k \in Fifos : ~(finisheds[k] >= target[t][k])
    BY <1>7 DEF Told
  <2>2. /\ target[t][f] \in Nat /\ target[t][g] \in Nat
        /\ es[f] >= target[t][f] /\ es[g] >= target[t][g]
    <3>1. target[t] \in [Fifos -> Nat]
      BY <1>1
    <3>2. es[f] >= target[t][f]
      BY <1>1, <1>7
    <3>3. es[g] >= target[t][g]
      BY <1>1, <1>7
    <3> QED
      BY <1>1, <3>1, <3>2, <3>3
  <2>3. finisheds[g] >= target[t][g] /\ finisheds[f] < target[t][f]
    BY <1>1, <1>2, <2>1, <2>2
  <2>4. t \in WaitE /\ t \notin AnnE[g]
    <3>1. pc[t] = "end_wait"
      BY <1>7 DEF Asleep
    <3>2. t \in Sides
      <4>1. WellFormed(t, pc[t], job[t], back[t])
        BY DEF Shape
      <4>2. t # App
        BY <3>1, <4>1 DEF WellFormed, FlushSteps, AppSteps, StopSteps, PairSteps, AllocSteps, PutSteps, SyncSteps
      <4> QED
        BY <4>2
    <3>3. AwaitsE(pc[t], job[t]) /\ ~AnnouncesE(pc[t], job[t], g)
      BY <3>1 DEF AwaitsE, AnnouncesE, PutsInto, AllocSteps
    <3> QED
      BY <1>1, <3>2, <3>3 DEF WaitE, AnnE
  <2>5. /\ RoundOver("end", created, hand, fifo, finisheds, target, AnnE, WaitE, PastE, NoneHeld)
        /\ Round("end", created, hand, fifo, finisheds, target, AnnE, WaitE, PastE, NoneHeld)
        /\ hand[f].kind = "end" /\ f # g
    BY <1>1, OverE DEF RoundE
  <2>6. finisheds[f] + 1 = finisheds[g]
    BY ONLY <1>3, <2>3, <2>4, <2>5, f \in created, RoundTells
  <2> QED
    BY <1>3, <2>6
<1>8. ASSUME NEW k \in Fifos, k \in sleepers PROVE es[k] > es[Other(k)]
  <2>1. CASE k = f
    <3>1. es[f] > finisheds[g]
      BY <1>4, <1>5, <1>8, <2>1
    <3> QED
      BY <1>2, <1>6, <2>1, <3>1
  <2>2. CASE k = g
    <3>1. finisheds[g] > finisheds[f]
      BY <1>1, <1>4, <1>8, <2>2 DEF Told
    <3> QED
      BY <1>1, <1>2, <1>3, <2>2, <3>1
  <2> QED
    BY <1>1, <2>1, <2>2
<1>9. \A t \in Threads : t \in sleepers => t \in asleep
  BY <1>1, <1>4
<1>10. \A t \in Threads : t \in sleepers =>
            IF pc[t] = "sync_wait" THEN \E k \in Fifos : ~(headers[k] >= target[t][k])
                                   ELSE \E k \in Fifos : ~(es[k] >= target[t][k])
  <2>1. \A t \in Threads : t \in asleep /\ pc[t] = "sync_wait" => \E k \in Fifos : ~(headers[k] >= target[t][k])
    BY DEF Told
  <2>2. \A t \in Threads : t \in asleep /\ pc[t] # "sync_wait" => \E k \in Fifos : ~(es[k] >= target[t][k])
    BY <1>7
  <2> QED
    BY <1>9, <2>1, <2>2
<1> QED
  BY <1>8, <1>10 DEF Told

\* The steps of a decoder.
LEMMA DecoderSettles ==
    ASSUME Types, Types', Shape, Own, Syncs, NEW f \in Fifos, DecoderStep(f), UNCHANGED mixed
    PROVE  Syncs'
<1> USE Actors
<1>1. f \in created /\ UNCHANGED <<created, pc, job, lock, target, braked, mixed>>
  BY DEF DecoderStep, Take, Decode, HeadersSeen, EndSeen, Barrier, callVars, demuxVars, brakeVars, countVars
<1>2. Asleep /\ Dummies /\ Rounds /\ WaitersTold
  BY DEF Syncs
<1>3. /\ hand \in [Fifos -> Items] /\ fifo \in [Fifos -> Seq(Items)]
      /\ headers \in [Fifos -> Nat] /\ finisheds \in [Fifos -> Nat]
      /\ hand' \in [Fifos -> Items] /\ fifo' \in [Fifos -> Seq(Items)]
      /\ headers' \in [Fifos -> Nat] /\ finisheds' \in [Fifos -> Nat]
  BY DEF Types, QueueTypes, CountTypes
<1>4. \A g \in Fifos : g # f => hand'[g] = hand[g] /\ fifo'[g] = fifo[g]
  BY <1>3 DEF DecoderStep, Take, Decode, HeadersSeen, EndSeen, Barrier, Done
<1>5. Dummies'
  BY <1>1, <1>2, <1>4 DEF Dummies
<1>6. Asleep' /\ Rounds' /\ (~braked' /\ mixed' = {} => Told(asleep', pc', headers', finisheds', target')) => Syncs'
  <2>1. ASSUME Asleep', ~braked' /\ mixed' = {} => Told(asleep', pc', headers', finisheds', target')
        PROVE  WaitersTold'
    BY <2>1, ToldPrimed
  <2> QED
    BY <1>5, <2>1 DEF Syncs
<1>7. ~braked /\ mixed = {} => Told(asleep, pc, headers, finisheds, target) /\ RoundH /\ RoundE
  BY <1>2, ToldIs DEF Rounds
<1>8. NoItem \in Items /\ NoItem.kind = "none" /\ \A t : Item("barrier", t).kind = "barrier"
  BY ItemTyped DEF NoItem, Item, Kinds
<1>9. hand[f] \in Items /\ fifo[f] \in Seq(Items) /\ hand'[f] \in Items
  BY <1>3
\* Who sleeps, when a decoder that is awake goes on.
<1>10. ASSUME f \notin asleep, asleep' \subseteq asleep PROVE Asleep'
  BY <1>1, <1>2, <1>4, <1>10 DEF Asleep
<1>11. ASSUME f \notin asleep, asleep' = asleep \cup {f}, hand'[f].kind = "barrier" PROVE Asleep'
  BY <1>1, <1>2, <1>4, <1>11 DEF Asleep
<1>12. hand[f].kind # "barrier" => f \notin asleep
  BY <1>2 DEF Asleep
\* The rounds of which the decoder counts no buffer.
<1>13. /\ RoundH /\ headers' = headers /\ (\E e : Thins(e, hand'[f], fifo'[f], hand[f], fifo[f], "headers")) => RoundH'
       /\ RoundE /\ finisheds' = finisheds /\ (\E e : Thins(e, hand'[f], fifo'[f], hand[f], fifo[f], "end")) => RoundE'
  BY <1>1, <1>4, DecoderThins
<1>14. ASSUME NEW kind \in {"headers", "end"}, hand[f].kind # kind, hand'[f].kind \in {"none", "barrier"}, fifo' = fifo
       PROVE  \E e : Thins(e, hand'[f], fifo'[f], hand[f], fifo[f], kind)
  BY <1>9, <1>14, ThinDone
<1>15. CASE Take(f)
  <2>1. /\ hand[f].kind = "none" /\ fifo[f] # <<>> /\ hand'[f] = Head(fifo[f]) /\ fifo'[f] = Tail(fifo[f])
        /\ UNCHANGED <<headers, finisheds, asleep>>
    BY <1>3, <1>8, <1>15 DEF Take, countVars
  <2>2. \A kind \in {"headers", "end"} : \E e : Thins(e, hand'[f], fifo'[f], hand[f], fifo[f], kind)
    BY <1>9, <2>1, ThinTake
  <2>3. Rounds'
    BY <1>1, <1>2, <1>13, <2>1, <2>2 DEF Rounds
  <2>4. Asleep'
    BY <1>10, <1>12, <2>1
  <2>5. ~braked' /\ mixed' = {} => Told(asleep', pc', headers', finisheds', target')
    BY <1>1, <1>7, <2>1
  <2> QED
    BY <1>6, <2>3, <2>4, <2>5
<1>16. CASE Decode(f)
  <2>1. /\ hand[f].kind \in {"data", "reset", "nop"} /\ hand'[f].kind = "none" /\ fifo' = fifo
        /\ UNCHANGED <<headers, finisheds, asleep>>
    BY <1>3, <1>8, <1>16 DEF Decode, Done, countVars
  <2>2. \A kind \in {"headers", "end"} : \E e : Thins(e, hand'[f], fifo'[f], hand[f], fifo[f], kind)
    BY <1>14, <2>1
  <2>3. Rounds'
    BY <1>1, <1>2, <1>13, <2>1, <2>2 DEF Rounds
  <2>4. Asleep'
    BY <1>10, <1>12, <2>1
  <2>5. ~braked' /\ mixed' = {} => Told(asleep', pc', headers', finisheds', target')
    BY <1>1, <1>7, <2>1
  <2> QED
    BY <1>6, <2>3, <2>4, <2>5
<1>17. CASE Barrier(f)
  <2>1. /\ hand[f].kind = "barrier" /\ f \notin asleep /\ hand'[f].kind \in {"none", "barrier"} /\ fifo' = fifo
        /\ UNCHANGED <<headers, finisheds>>
    BY <1>3, <1>8, <1>17 DEF Barrier, Done
  <2>2. \A kind \in {"headers", "end"} : \E e : Thins(e, hand'[f], fifo'[f], hand[f], fifo[f], kind)
    BY <1>14, <2>1
  <2>3. Rounds'
    BY <1>1, <1>2, <1>13, <2>1, <2>2 DEF Rounds
  <2>4. CASE finisheds[f] > finisheds[Other(f)]
    <3>1. asleep' = asleep \cup {f} /\ hand' = hand
      BY <1>17, <2>4 DEF Barrier
    <3>2. Asleep'
      BY <1>11, <2>1, <3>1
    <3>3. ~braked' /\ mixed' = {} => Told(asleep', pc', headers', finisheds', target')
      <4>1. Told(asleep, pc, headers, finisheds, target) => Told(asleep', pc', headers', finisheds', target')
        BY <1>1, <2>1, <2>4, <3>1 DEF Told
      <4> QED
        BY <1>1, <1>7, <4>1
    <3> QED
      BY <1>6, <2>3, <3>2, <3>3
  <2>5. CASE ~(finisheds[f] > finisheds[Other(f)])
    <3>1. asleep' = asleep
      BY <1>17, <2>5 DEF Barrier
    <3>2. Asleep'
      BY <1>10, <2>1, <3>1
    <3>3. ~braked' /\ mixed' = {} => Told(asleep', pc', headers', finisheds', target')
      BY <1>1, <1>7, <2>1, <3>1
    <3> QED
      BY <1>6, <2>3, <3>2, <3>3
  <2> QED
    BY <2>4, <2>5
<1>18. CASE HeadersSeen(f)
  <2>1. /\ hand[f].kind = "headers" /\ hand'[f].kind \in {"none", "barrier"} /\ fifo' = fifo
        /\ headers' = [headers EXCEPT ![f] = @ + 1] /\ finisheds' = finisheds
        /\ asleep' = IF PairComplete(f) THEN {} ELSE asleep
    BY <1>3, <1>8, <1>18 DEF HeadersSeen, Done
  <2>2. \E e : Thins(e, hand'[f], fifo'[f], hand[f], fifo[f], "end")
    BY <1>14, <2>1
  <2>3. RoundH => RoundH'
    BY <1>1, <1>4, <2>1, DecoderCounts
  <2>4. Rounds'
    BY <1>1, <1>2, <1>13, <2>1, <2>2, <2>3 DEF Rounds
  <2>5. Asleep'
    BY <1>10, <1>12, <2>1
  <2>6. ASSUME ~braked', mixed' = {} PROVE Told(asleep', pc', headers', finisheds', target')
    <3>1. CASE PairComplete(f)
      BY <2>1, <3>1 DEF Told
    <3>2. CASE ~PairComplete(f)
      <4>1. Other(f) \in created /\ ~(headers[f] + 1 <= headers[Other(f)]) /\ asleep' = asleep
        BY <2>1, <3>2 DEF PairComplete
      <4>2. headers[f] \in Nat /\ headers[Other(f)] \in Nat
        BY <1>3, Others
      <4>3. headers[f] + 1 > headers[Other(f)]
        BY <4>1, <4>2
      <4>4. Told(asleep, pc, headers', finisheds, target)
        <5>1. Told(asleep, pc, headers, finisheds, target) /\ RoundH /\ headers' \in [Fifos -> Nat]
          BY <1>1, <1>3, <1>7, <2>6
        <5> QED
          BY <1>1, <1>2, <2>1, <4>1, <4>3, <5>1, ToldOfHeaders
      <4> QED
        BY <1>1, <2>1, <4>1, <4>4
    <3> QED
      BY <3>1, <3>2
  <2> QED
    BY <1>6, <2>4, <2>5, <2>6
<1>19. CASE EndSeen(f)
  <2>1. /\ hand[f].kind = "end" /\ hand'[f].kind \in {"none", "barrier"} /\ fifo' = fifo
        /\ finisheds' = [finisheds EXCEPT ![f] = finisheds[f] + 1] /\ headers' = headers
    BY <1>3, <1>8, <1>19 DEF EndSeen, Done
  <2>2. \E e : Thins(e, hand'[f], fifo'[f], hand[f], fifo[f], "headers")
    BY <1>14, <2>1
  <2>3. RoundE => RoundE'
    BY <1>1, <1>4, <2>1, DecoderCounts
  <2>4. Rounds'
    BY <1>1, <1>2, <1>13, <2>1, <2>2, <2>3 DEF Rounds
  <2>5. /\ finisheds'[f] = finisheds[f] + 1 /\ f \notin asleep
        /\ finisheds[f] \in Nat /\ finisheds[Other(f)] \in Nat
    BY <1>3, <1>12, <2>1, Others
  <2>6. CASE Other(f) \notin created \/ finisheds[f] + 1 = finisheds[Other(f)]
    <3>1. asleep' = {}
      BY <1>19, <2>5, <2>6 DEF EndSeen
    <3>2. Asleep'
      BY <1>10, <2>5, <3>1
    <3>3. Told(asleep', pc', headers', finisheds', target')
      BY <3>1 DEF Told
    <3> QED
      BY <1>6, <2>4, <3>2, <3>3
  <2>7. CASE Other(f) \in created /\ finisheds[f] + 1 # finisheds[Other(f)]
    <3>1. IF finisheds'[f] > finisheds[Other(f)] THEN asleep' = asleep \cup {f} /\ hand'[f].kind = "barrier"
                                                ELSE asleep' = asleep
      BY <1>3, <1>8, <1>19, <2>5, <2>7 DEF EndSeen, Done
    <3>2. Asleep'
      BY <1>10, <1>11, <2>5, <3>1
    <3>3. ASSUME ~braked', mixed' = {} PROVE Told(asleep', pc', headers', finisheds', target')
      <4>1. Told(asleep, pc, headers, finisheds, target) /\ RoundE /\ finisheds' \in [Fifos -> Nat]
        BY <1>1, <1>3, <1>7, <3>3
      <4>2. IF finisheds'[f] > finisheds[Other(f)] THEN asleep' = asleep \cup {f} ELSE asleep' = asleep
        BY <3>1
      <4>3. Told(asleep', pc, headers, finisheds', target)
        BY <1>1, <1>2, <2>1, <2>7, <4>1, <4>2, ToldOfEnds
      <4> QED
        BY <1>1, <2>1, <4>3
    <3> QED
      BY <1>6, <2>4, <3>2, <3>3
  <2> QED
    BY <2>6, <2>7
<1> QED
  BY <1>15, <1>16, <1>17, <1>18, <1>19 DEF DecoderStep

-----------------------------------------------------------------------------
(* The invariant, and what it says of the waits. *)

SyncInv == Types /\ Shape /\ Own /\ Syncs

\* A fifo that is clean holds nothing a thread waited for.
LEMMA CleanUnseen ==
    ASSUME Types, Dummies, NEW t \in Threads, NEW D \in SUBSET Sides,
           \A f \in created : Clean(hand[f], fifo[f], t, D)
    PROVE  /\ \A kinds : "none" \notin kinds /\ "barrier" \notin kinds => ~Unseen(t, kinds)
           /\ \A s \in D : ~Unseen(s, {"data"})
<1> USE Actors
<1>1. ASSUME NEW f \in Fifos, NEW u \in Threads, NEW i \in 0 .. Len(fifo[f]), It(hand[f], fifo[f], i).by = u
      PROVE  f \in created
  <2>1. CASE f \notin created
    <3>1. hand[f] = NoItem /\ fifo[f] = <<>>
      BY <2>1 DEF Dummies
    <3>2. Len(fifo[f]) = 0
      BY <3>1
    <3>3. It(hand[f], fifo[f], i) = NoItem
      BY <3>1, <3>2 DEF It
    <3> QED
      BY <1>1, <3>3 DEF NoItem, Item
  <2> QED
    BY <2>1
<1>2. ASSUME NEW u \in Threads, NEW kinds, Unseen(u, kinds)
      PROVE  \E f \in created : \E i \in 0 .. Len(fifo[f]) :
                It(hand[f], fifo[f], i).by = u /\ It(hand[f], fifo[f], i).kind \in kinds
  <2>1. PICK f \in Fifos : \/ hand[f].by = u /\ hand[f].kind \in kinds
                           \/ \E i \in 1 .. Len(fifo[f]) : fifo[f][i].by = u /\ fifo[f][i].kind \in kinds
    BY <1>2 DEF Unseen
  <2>2. Len(fifo[f]) \in Nat
    <3>1. fifo[f] \in Seq(Items)
      BY DEF Types, QueueTypes
    <3> QED
      BY <3>1
  <2>3. \E i \in 0 .. Len(fifo[f]) :
          It(hand[f], fifo[f], i).by = u /\ It(hand[f], fifo[f], i).kind \in kinds
    <3>1. CASE hand[f].by = u /\ hand[f].kind \in kinds
      <4>1. 0 \in 0 .. Len(fifo[f]) /\ It(hand[f], fifo[f], 0) = hand[f]
        BY <2>2 DEF It
      <4> QED
        BY <3>1, <4>1
    <3>2. CASE \E i \in 1 .. Len(fifo[f]) : fifo[f][i].by = u /\ fifo[f][i].kind \in kinds
      <4>1. PICK i \in 1 .. Len(fifo[f]) : fifo[f][i].by = u /\ fifo[f][i].kind \in kinds
        BY <3>2
      <4>2. i \in 0 .. Len(fifo[f]) /\ It(hand[f], fifo[f], i) = fifo[f][i]
        BY <2>2 DEF It
      <4> QED
        BY <4>1, <4>2
    <3> QED
      BY <2>1, <3>1, <3>2
  <2> QED
    BY <1>1, <2>3
<1>3. \A kinds : "none" \notin kinds /\ "barrier" \notin kinds => ~Unseen(t, kinds)
  BY <1>2 DEF Clean, Older
<1>4. \A s \in D : ~Unseen(s, {"data"})
  BY <1>2 DEF Clean, Older
<1> QED
  BY <1>3, <1>4

\* What the invariant says of who has waited for HEADERS_DONE,
LEMMA InvSynced ==
    ASSUME SyncInv PROVE Synced
<1> USE Actors
<1> SUFFICES ASSUME ~braked, "headers" \notin mixed, NEW t \in Threads, pc[t] \in {"flushed", "opened"}
             PROVE  /\ ~Unseen(t, {"data", "reset", "headers"})
                    /\ \A s \in Sides : lock[s] = t => ~Unseen(s, {"data"})
  BY DEF Synced
<1>1. Types /\ Dummies /\ RoundH
  BY DEF SyncInv, Syncs, Rounds
<1>2. \A f \in created : Clean(hand[f], fifo[f], t, Held[t])
  BY <1>1 DEF RoundH, Round, PastH
<1>3. Held[t] = {s \in Sides : lock[s] = t}
  BY DEF Held
<1>4. /\ \A kinds : "none" \notin kinds /\ "barrier" \notin kinds => ~Unseen(t, kinds)
      /\ \A s \in Held[t] : ~Unseen(s, {"data"})
  BY <1>1, <1>2, <1>3, CleanUnseen
<1> QED
  BY <1>3, <1>4

\* and for END.
LEMMA InvFinished ==
    ASSUME SyncInv PROVE FinishedIsPlayed
<1> USE Actors
<1> SUFFICES ASSUME ~braked, "end" \notin mixed, NEW s \in Sides, pc[s] = "finished"
             PROVE  ~Unseen(s, {"data", "end"})
  BY DEF FinishedIsPlayed, At
<1>1. Types /\ Dummies /\ RoundE
  BY DEF SyncInv, Syncs, Rounds
<1>2. NoneHeld[s] = {} /\ \A f \in created : Clean(hand[f], fifo[f], s, NoneHeld[s])
  BY <1>1 DEF RoundE, Round, PastE, NoneHeld
<1>3. \A kinds : "none" \notin kinds /\ "barrier" \notin kinds => ~Unseen(s, kinds)
  BY <1>1, <1>2, CleanUnseen
<1> QED
  BY <1>3

\* A round nobody takes part in.
LEMMA RoundEmpty ==
    ASSUME NEW kind, NEW C, NEW h, NEW q, NEW n, NEW goal, NEW ann, NEW held,
           \A f \in C : /\ Lone(h[f], q[f], kind, ann[f]) /\ n[f] = 0
                        /\ Underway(h[f], q[f], kind, ann[f]) = 0
                        /\ \A t : ~OutOf(h[f], q[f], kind, ann[f], t)
    PROVE  Round(kind, C, h, q, n, goal, ann, {}, {}, held)
  BY DEF Round

\* The invariant holds in the beginning.
LEMMA SyncInvInit ==
    ASSUME Init PROVE SyncInv
<1> USE Actors
<1>1. Types /\ Shape /\ Own /\ Asleep /\ Dummies
  BY InitTyped
<1>2. WaitersTold
  BY DEF Init, WaitersTold
<1>3. \A t \in Threads : pc[t] \in {"idle", "off"}
  BY DEF Init
<1>4. \A f \in Fifos : AnnH[f] = {} /\ AnnE[f] = {}
  BY <1>3 DEF AnnH, AnnE, AnnouncesH, AnnouncesE, PutsInto, AllocSteps
<1>5. WaitH = {} /\ WaitE = {} /\ PastH = {} /\ PastE = {}
  BY <1>3 DEF WaitH, WaitE, PastH, PastE, AwaitsH, AwaitsE, AllocSteps, PutSteps, SyncSteps
<1>6. ASSUME NEW f \in created
      PROVE  /\ f \in Fifos /\ headers[f] = 0 /\ finisheds[f] = 0
             /\ \A i \in 0 .. Len(fifo[f]) : It(hand[f], fifo[f], i) = NoItem
  BY DEF Init, It
<1>7. ASSUME NEW kind \in {"headers", "end"}, NEW f \in created
      PROVE  /\ ~Holds(hand[f], fifo[f], kind) /\ \A t : ~HoldsOf(hand[f], fifo[f], kind, t)
  BY <1>6 DEF Holds, HoldsOf, NoItem, Item
<1>8. ASSUME NEW kind \in {"headers", "end"}, NEW f \in created
      PROVE  /\ Lone(hand[f], fifo[f], kind, {}) /\ Underway(hand[f], fifo[f], kind, {}) = 0
             /\ \A t : ~OutOf(hand[f], fifo[f], kind, {}, t)
  BY <1>7 DEF Lone, OneOf, Holds, Underway, OutOf
<1>9. RoundH
  <2>1. \A f \in created : /\ Lone(hand[f], fifo[f], "headers", AnnH[f]) /\ headers[f] = 0
                           /\ Underway(hand[f], fifo[f], "headers", AnnH[f]) = 0
                           /\ \A t : ~OutOf(hand[f], fifo[f], "headers", AnnH[f], t)
    <3> SUFFICES ASSUME NEW f \in created
                 PROVE  /\ Lone(hand[f], fifo[f], "headers", AnnH[f]) /\ headers[f] = 0
                        /\ Underway(hand[f], fifo[f], "headers", AnnH[f]) = 0
                        /\ \A t : ~OutOf(hand[f], fifo[f], "headers", AnnH[f], t)
      OBVIOUS
    <3>1. AnnH[f] = {}
      BY <1>4, <1>6
    <3> QED
      BY <1>6, <1>8, <3>1
  <2>2. Round("headers", created, hand, fifo, headers, target, AnnH, {}, {}, Held)
    BY ONLY <2>1, RoundEmpty
  <2> QED
    BY <1>5, <2>2 DEF RoundH
<1>10. RoundE
  <2>1. \A f \in created : /\ Lone(hand[f], fifo[f], "end", AnnE[f]) /\ finisheds[f] = 0
                           /\ Underway(hand[f], fifo[f], "end", AnnE[f]) = 0
                           /\ \A t : ~OutOf(hand[f], fifo[f], "end", AnnE[f], t)
    <3> SUFFICES ASSUME NEW f \in created
                 PROVE  /\ Lone(hand[f], fifo[f], "end", AnnE[f]) /\ finisheds[f] = 0
                        /\ Underway(hand[f], fifo[f], "end", AnnE[f]) = 0
                        /\ \A t : ~OutOf(hand[f], fifo[f], "end", AnnE[f], t)
      OBVIOUS
    <3>1. AnnE[f] = {}
      BY <1>4, <1>6
    <3> QED
      BY <1>6, <1>8, <3>1
  <2>2. Round("end", created, hand, fifo, finisheds, target, AnnE, {}, {}, NoneHeld)
    BY ONLY <2>1, RoundEmpty
  <2> QED
    BY <1>5, <2>2 DEF RoundE
<1> QED
  BY <1>1, <1>2, <1>9, <1>10 DEF SyncInv, Syncs, Rounds

\* It holds when nothing changes.
LEMMA StutterSteps ==
    ASSUME SyncInv, UNCHANGED vars PROVE SyncInv'
<1>1. UNCHANGED <<created, queueVars, countVars, callVars, demuxVars, streamVars, brakeVars, appVars, mixed>>
  BY DEF vars
<1>2. UNCHANGED <<fifo, hand, bufs, pair, counter, headers, finisheds, target, asleep, pc, job, back>>
  BY <1>1 DEF queueVars, countVars, callVars
<1>3. UNCHANGED <<lock, pending, running, thread, left, over, non_user, demuxers_running, status,
                  finished_naturally, gapless_switch, emergency_brake, braked, side, seeked, requests>>
  BY <1>1 DEF demuxVars, streamVars, brakeVars, appVars
<1>4. Types' /\ Shape'
  BY <1>1, TypesKept DEF SyncInv, Types
<1>5. Own'
  <2>1. CounterOwned' /\ PairOwned' /\ LoopsLocked'
    BY <1>2, <1>3 DEF SyncInv, Own, CounterOwned, PairOwned, LoopsLocked
  <2>2. AppLocks'
    BY <1>2, <1>3, AppLocksKept DEF SyncInv, Own
  <2> QED
    BY <2>1, <2>2 DEF Own
<1>6. Syncs'
  <2>1. \A u \in Threads : /\ pc'[u] = pc[u] /\ job'[u] = job[u]
                           /\ \A s \in Sides : lock'[s] = u => lock[s] = u
    BY <1>2, <1>3
  <2>2. Asleep /\ Dummies /\ Rounds /\ WaitersTold /\ Types
    BY DEF SyncInv, Syncs
  <2>3. \A f \in Fifos : f \notin created => fifo'[f] = <<>>
    BY <1>2, <2>2 DEF Dummies
  <2>4. /\ ~braked /\ "headers" \notin mixed =>
             Round("headers", created, hand, fifo', headers, target, AnnH, WaitH, PastH, Held)
        /\ ~braked /\ "end" \notin mixed =>
             Round("end", created, hand, fifo', finisheds, target, AnnE, WaitE, PastE, NoneHeld)
    BY <1>2, <2>2 DEF Rounds, RoundH, RoundE
  <2>5. UNCHANGED <<created, hand, headers, finisheds, target, asleep, braked, mixed>>
    BY <1>1, <1>2, <1>3
  <2> QED
    BY <1>4, <2>1, <2>2, <2>3, <2>4, <2>5, Settles DEF Syncs
<1> QED
  BY <1>4, <1>5, <1>6 DEF SyncInv

\* A demuxer's step keeps it,
LEMMA DemuxKeeps ==
    ASSUME SyncInv, NEW s \in Sides, DemuxStep(s), UNCHANGED mixed PROVE SyncInv'
<1>1. Types /\ Shape /\ Own /\ Syncs
  BY DEF SyncInv
<1>2. CASE LoopStart(s)
  BY <1>1, <1>2, LoopStartTyped, DemuxSettles DEF SyncInv
<1>3. CASE Chunk(s)
  BY <1>1, <1>3, ChunkTyped, DemuxSettles DEF SyncInv
<1>4. CASE SendData(s)
  BY <1>1, <1>4, SendDataTyped, SendDataSettles DEF SyncInv
<1>5. CASE LetIn(s)
  BY <1>1, <1>5, LetInTyped, DemuxSettles DEF SyncInv
<1>6. CASE Drain(s)
  BY <1>1, <1>6, DrainTyped, DemuxSettles DEF SyncInv
<1>7. CASE Delay(s)
  BY <1>1, <1>7, DelayTyped, DemuxSettles DEF SyncInv
<1>8. CASE Again(s)
  BY <1>1, <1>8, AgainTyped, DemuxSettles DEF SyncInv
<1>9. CASE EndWait(s)
  BY <1>1, <1>9, EndWaitTyped, EndWaitSettles DEF SyncInv
<1>10. CASE Ended(s)
  BY <1>1, <1>10, EndedTyped, EndedSettles DEF SyncInv
<1>11. CASE StreamEnd(s)
  BY <1>1, <1>11, EndedTyped, DemuxSettles DEF SyncInv
<1> QED
  BY <1>2, <1>3, <1>4, <1>5, <1>6, <1>7, <1>8, <1>9, <1>10, <1>11 DEF DemuxStep

\* an application's,
LEMMA AppKeeps ==
    ASSUME SyncInv, UNCHANGED mixed, AppStep \/ SetGapless \/ PlayBegin PROVE SyncInv'
<1>1. Types /\ Shape /\ Own /\ Syncs
  BY DEF SyncInv
<1>2. CASE StopSide
  BY <1>1, <1>2, StopSideTyped, StopSideSettles DEF SyncInv
<1>3. CASE Open
  BY <1>1, <1>3, OpenTyped, AppSettles DEF SyncInv
<1>4. CASE PlayClear
  BY <1>1, <1>4, PlayClearTyped, AppSettles DEF SyncInv
<1>5. CASE Seek
  BY <1>1, <1>5, SeekTyped, SeekSettles DEF SyncInv
<1>6. CASE GoOn
  BY <1>1, <1>6, GoOnTyped, GoOnSettles DEF SyncInv
<1>7. CASE Playing
  BY <1>1, <1>7, PlayingTyped, AppSettles DEF SyncInv
<1>8. CASE SetGapless
  BY <1>1, <1>8, SetGaplessTyped, AppSettles DEF SyncInv
<1>9. CASE PlayBegin
  BY <1>1, <1>9, PlayBeginTyped, AppSettles DEF SyncInv
<1> QED
  BY <1>2, <1>3, <1>4, <1>5, <1>6, <1>7, <1>8, <1>9 DEF AppStep

\* any thread's,
LEMMA GoesOnKeeps ==
    ASSUME SyncInv, NEW t \in Threads, GoesOn(t) PROVE SyncInv'
<1>1. Types /\ Shape /\ Own /\ Syncs
  BY DEF SyncInv
<1>2. CASE PairStep(t)
  BY <1>1, <1>2, PairTyped, PairSettles DEF SyncInv
<1>3. CASE t \in Sides /\ LoopExit(t)
  BY <1>1, <1>3, ExitTyped, ExitSettles DEF SyncInv
<1>4. CASE UNCHANGED mixed /\ Sync(t)
  BY <1>1, <1>4, SyncTyped, SyncSettles DEF SyncInv
<1>5. CASE UNCHANGED mixed /\ Flush(t)
  BY <1>1, <1>5, FlushTyped, FlushSettles DEF SyncInv
<1>6. CASE UNCHANGED mixed /\ t \in Sides /\ DemuxStep(t)
  BY <1>6, DemuxKeeps
<1>7. CASE UNCHANGED mixed /\ t = App /\ AppStep
  BY <1>7, AppKeeps
<1> QED
  BY <1>2, <1>3, <1>4, <1>5, <1>6, <1>7 DEF GoesOn

\* and so every step.
LEMMA SyncInvNext ==
    ASSUME SyncInv, [Next]_vars PROVE SyncInv'
<1>1. Types /\ Shape /\ Own /\ Syncs
  BY DEF SyncInv
<1>2. CASE \E t \in Threads : GoesOn(t)
  BY <1>2, GoesOnKeeps
<1>3. CASE \E t \in Threads : Emergency(t) /\ UNCHANGED mixed
  <2>1. PICK t \in Threads : Emergency(t) /\ UNCHANGED mixed
    BY <1>3
  <2>2. Asleep
    BY <1>1 DEF Syncs
  <2> QED
    BY <1>1, <2>1, <2>2, EmergencyTyped, EmergencySettles DEF SyncInv
<1>4. CASE \E f \in Fifos : DecoderStep(f) /\ UNCHANGED mixed
  BY <1>1, <1>4, DecoderTyped, DecoderSettles DEF SyncInv
<1>5. CASE StopBegin
  BY <1>1, <1>5, StopBeginTyped, StopBeginSettles DEF SyncInv
<1>6. CASE (SetGapless \/ PlayBegin) /\ UNCHANGED mixed
  BY <1>6, AppKeeps
<1>7. CASE (\E s \in Sides : Jump(s)) /\ UNCHANGED mixed
  BY <1>1, <1>7, JumpTyped, JumpSettles DEF SyncInv
<1>8. CASE UNCHANGED vars
  BY <1>8, StutterSteps
<1> QED
  BY <1>2, <1>3, <1>4, <1>5, <1>6, <1>7, <1>8 DEF Next, Asks, Rest

\* The inductive invariant of the control buffers and of who waits for their counts.
THEOREM SyncInvariant == Spec => []SyncInv
<1>1. Init => SyncInv
  BY SyncInvInit
<1>2. SyncInv /\ [Next]_vars => SyncInv'
  BY SyncInvNext
<1> QED
  BY <1>1, <1>2, PTL DEF Spec

\* _x_demux_control_headers_done waits long enough: when it returns, both decoders
\* have passed all that its caller sent, and all data of the demuxers it holds
\* back, unless somebody took the emergency exit, or two pairs of HEADERS_DONE
\* were under way at a time.
THEOREM SyncedHolds == Spec => []Synced
<1>1. SyncInv => Synced
  BY InvSynced
<1> QED
  BY <1>1, SyncInvariant, PTL

\* demux_loop declares the stream finished when both decoders have passed all its
\* data and its END, with the same two exceptions.
THEOREM FinishedIsPlayedHolds == Spec => []FinishedIsPlayed
<1>1. SyncInv => FinishedIsPlayed
  BY InvFinished
<1> QED
  BY <1>1, SyncInvariant, PTL

\* The decoders may leave out a wake-up "on an incomplete pair": nobody sleeps on
\* counts that are reached, however many threads wait.
THEOREM WaitersToldHolds == Spec => []WaitersTold
<1>1. SyncInv => WaitersTold
  BY DEF SyncInv, Syncs
<1> QED
  BY <1>1, SyncInvariant, PTL

-----------------------------------------------------------------------------
(* Which demuxers run, and which one a play leaves. *)

\* Behind demux_loop: demuxers_running does not count the thread any more.
Closing(p, j) == (p \in AllocSteps \cup PutSteps /\ j = "end") \/ p \in {"ended", "end_wait", "finished"}

\* Where a demuxer thread is, calls from demux_loop included.
Phase(p, j) ==
    IF p \in {"off", "start", "exit"} THEN p
    ELSE IF Closing(p, j) THEN "closing" ELSE "looping"

PhaseOf(s) == Phase(pc[s], job[s])

\* The demuxers that are counted.
Loopers == {s \in Sides : PhaseOf(s) \in {"looping", "exit"}}

RunsCounted == demuxers_running = Cardinality(Loopers)

\* thread_running says that there is a thread, which has not left its loop.
Runners == \A s \in Sides : running[s] => PhaseOf(s) \in {"start", "looping"}

BrakeKnown == emergency_brake => braked

PlayServed == ~braked /\ status = "play" => \E s \in Sides : pc[s] # "off"

\* A demuxer that went on after a seek, and will wait for the application at
\* its end.
Stays(s) == running[s] /\ (pc[s] = "again" => ~over[s])

\* A seek that was accepted leaves a side stream with data to send, which has
\* its demuxer when the application has come past it.
SeekServed ==
    ~braked /\ seeked =>
        /\ pc[App] \notin {"play_video", "play_audio", "play_lock"}
        /\ Seeking => \E s \in Sides : s < side /\ left[s] > 0
        /\ pc[App] = "go_on" => \E s \in Sides : \/ s >= side /\ left[s] > 0
                                                 \/ s < side /\ Stays(s)

RunInv == RunsCounted /\ Runners /\ BrakeKnown /\ PlayServed /\ SeekServed

\* What the phases of the steps are.
LEMMA Phases ==
    ASSUME NEW p, NEW j
    PROVE  /\ Phase(p, j) \in {"off", "start", "exit"} <=> p \in {"off", "start", "exit"}
           /\ p \in {"off", "start", "exit"} => Phase(p, j) = p
           /\ Closing(p, j) => Phase(p, j) = "closing"
           /\ p \notin {"off", "start", "exit"} /\ ~Closing(p, j) => Phase(p, j) = "looping"
<1>1. Closing(p, j) => p \notin {"off", "start", "exit"}
  BY DEF Closing, AllocSteps, PutSteps
<1> QED
  BY <1>1 DEF Phase

\* Only t moves.
Alone(t) == \A u \in Threads : u # t => pc'[u] = pc[u] /\ job'[u] = job[u] /\ back'[u] = back[u]

LEMMA GoAlone ==
    ASSUME CallTypes, NEW t \in Threads, NEW step, Go(t, step)
    PROVE  Alone(t) /\ pc'[t] = step /\ job'[t] = job[t] /\ back'[t] = back[t]
  BY DEF CallTypes, Go, Alone

LEMMA ReturnAlone ==
    ASSUME CallTypes, NEW t \in Threads, Return(t)
    PROVE  /\ Alone(t) /\ pc'[t] = Head(back[t]) /\ job'[t] = job[t]
           /\ back'[t] = Tail(back[t])
  BY DEF CallTypes, Return, Alone

LEMMA SendAlone ==
    ASSUME CallTypes, NEW t \in Threads, NEW kind, NEW then, SendPair(t, kind, then)
    PROVE  /\ Alone(t) /\ pc'[t] = "alloc_video" /\ job'[t] = kind
           /\ back'[t] = <<then>> \o back[t]
  BY DEF CallTypes, SendPair, Alone

\* The counters are right as long as no demuxer changes its phase.
LEMMA PhasesKept ==
    ASSUME RunsCounted, Runners, BrakeKnown, PlayServed,
           \A s \in Sides : Phase(pc'[s], job'[s]) = PhaseOf(s),
           \A s \in Sides : running'[s] => running[s],
           UNCHANGED demuxers_running, braked => braked',
           emergency_brake' => emergency_brake \/ braked',
           status' = "play" => status = "play"
    PROVE  RunsCounted' /\ Runners' /\ BrakeKnown' /\ PlayServed'
<1>1. \A s \in Sides : PhaseOf(s)' = PhaseOf(s)
  BY DEF PhaseOf
<1>2. Loopers' = Loopers
  BY <1>1 DEF Loopers
<1>3. RunsCounted'
  BY <1>2 DEF RunsCounted
<1>4. Runners'
  BY <1>1 DEF Runners
<1>5. PlayServed'
  <2>1. \A s \in Sides : pc[s] # "off" => pc'[s] # "off"
    <3>1. \A s \in Sides : /\ PhaseOf(s) = "off" <=> pc[s] = "off"
                           /\ Phase(pc'[s], job'[s]) = "off" <=> pc'[s] = "off"
      BY Phases DEF PhaseOf
    <3> QED
      BY <3>1
  <2> QED
    BY <2>1 DEF PlayServed
<1> QED
  BY <1>3, <1>4, <1>5 DEF BrakeKnown

\* What a seek left is there as long as the application is at its step.
LEMMA SeekKept ==
    ASSUME SeekServed, Own, pc'[App] = pc[App], back'[App] = back[App],
           UNCHANGED <<side, seeked>>, braked => braked',
           \A s \in Sides : lock[s] = App => left'[s] = left[s],
           \A s \in Sides : ~braked' /\ pc[App] = "go_on" /\ s < side /\ Stays(s) => Stays(s)'
    PROVE  SeekServed'
<1>1. CASE ~(~braked' /\ seeked)
  BY <1>1 DEF SeekServed
<1>2. CASE ~braked' /\ seeked
  <2>1. /\ pc[App] \notin {"play_video", "play_audio", "play_lock"}
        /\ Seeking => \E s \in Sides : s < side /\ left[s] > 0
        /\ pc[App] = "go_on" => \E s \in Sides : \/ s >= side /\ left[s] > 0
                                                 \/ s < side /\ Stays(s)
    BY <1>2 DEF SeekServed
  <2>2. Seeking' <=> Seeking
    BY DEF Seeking
  <2>3. /\ Seeking => \A r \in Sides : lock[r] = App
        /\ pc[App] = "go_on" => \A r \in Sides : r >= side => lock[r] = App
    BY DEF Own, AppLocks
  <2>4. Seeking => \E s \in Sides : s < side /\ left'[s] > 0
    BY <2>1, <2>3
  <2>5. pc[App] = "go_on" => \E s \in Sides : \/ s >= side /\ left'[s] > 0
                                              \/ s < side /\ Stays(s)'
    BY <1>2, <2>1, <2>3
  <2> QED
    BY <2>1, <2>2, <2>4, <2>5 DEF SeekServed
<1> QED
  BY <1>1, <1>2

\* The application leaves the seek, or stays in a call from it.
LEMMA SeekLeft ==
    ASSUME SeekServed, Seeking' => Seeking, pc'[App] # "go_on",
           pc'[App] \notin {"play_video", "play_audio", "play_lock"},
           UNCHANGED <<side, seeked, left>>, braked => braked'
    PROVE  SeekServed'
  BY DEF SeekServed

\* A demuxer goes on within its loop, or behind it.
LEMMA LoopRuns ==
    ASSUME RunInv, Own, NEW s \in Sides, Alone(s), Phase(pc'[s], job'[s]) = PhaseOf(s),
           UNCHANGED <<side, seeked, running, demuxers_running>>,
           status' = "play" => status = "play",
           braked => braked', emergency_brake' => emergency_brake \/ braked',
           \A r \in Sides : lock[r] = App => left'[r] = left[r],
           \A r \in Sides : r # s => over'[r] = over[r],
           ~braked' /\ pc[App] = "go_on" /\ s < side /\ Stays(s) => Stays(s)'
    PROVE  RunInv'
<1> USE Actors
<1>1. \A r \in Sides : Phase(pc'[r], job'[r]) = PhaseOf(r)
  BY DEF Alone, PhaseOf
<1>2. pc'[App] = pc[App] /\ back'[App] = back[App]
  BY DEF Alone
<1>3. \A r \in Sides : ~braked' /\ pc[App] = "go_on" /\ r < side /\ Stays(r) => Stays(r)'
  BY DEF Alone, Stays
<1>4. RunsCounted' /\ Runners' /\ BrakeKnown' /\ PlayServed'
  BY <1>1, PhasesKept DEF RunInv
<1>5. SeekServed'
  BY <1>2, <1>3, SeekKept DEF RunInv
<1> QED
  BY <1>4, <1>5 DEF RunInv

\* The application does not move a demuxer.
LEMMA AppRuns ==
    ASSUME RunInv, Alone(App) \/ UNCHANGED <<pc, job>>, UNCHANGED demuxers_running,
           \A s \in Sides : running'[s] => running[s],
           status' = "play" => status = "play",
           braked => braked', emergency_brake' => emergency_brake \/ braked',
           SeekServed'
    PROVE  RunInv'
<1>1. \A r \in Sides : Phase(pc'[r], job'[r]) = PhaseOf(r)
  BY Actors DEF Alone, PhaseOf
<1>2. RunsCounted' /\ Runners' /\ BrakeKnown' /\ PlayServed'
  BY <1>1, PhasesKept DEF RunInv
<1> QED
  BY <1>2 DEF RunInv

\* A step in a call, or back from it: a demuxer stays in its phase, and the
\* application does not begin to seek, or to go on.
Calling(t) ==
    /\ Alone(t) /\ pc[t] \in CallSteps
    /\ t # App => Phase(pc'[t], job'[t]) = PhaseOf(t) /\ pc'[t] # "again"
    /\ t = App => /\ Seeking' => Seeking
                  /\ pc'[App] \notin {"go_on", "play_video", "play_audio", "play_lock"}

LEMMA CallSteps1 ==
    \A p \in CallSteps : /\ p \notin {"off", "start", "exit", "ended", "end_wait", "finished", "again",
                                      "seek", "go_on", "play_video", "play_audio", "play_lock"}
  BY DEF CallSteps, FlushSteps, PairSteps, AllocSteps, PutSteps, SyncSteps

LEMMA CallGoing ==
    ASSUME CallTypes, NEW t \in Threads, NEW p \in CallSteps, NEW step \in CallSteps,
           At(t, p), Go(t, step),
           job[t] = "end" => (p \in AllocSteps \cup PutSteps <=> step \in AllocSteps \cup PutSteps)
    PROVE  Calling(t)
<1>1. Alone(t) /\ pc[t] = p /\ pc'[t] = step /\ job'[t] = job[t] /\ back'[t] = back[t]
  BY GoAlone DEF At
<1>2. Closing(p, job[t]) <=> Closing(step, job[t])
  BY CallSteps1 DEF Closing
<1>3. Phase(step, job[t]) = Phase(p, job[t])
  BY <1>2, CallSteps1, Phases
<1>4. t = App => (Seeking' => Seeking)
  BY <1>1, CallSteps1 DEF Seeking
<1> QED
  BY <1>1, <1>3, <1>4, CallSteps1 DEF Calling, PhaseOf

LEMMA CallReturning ==
    ASSUME CallTypes, Shape, NEW t \in Threads, Return(t), pc[t] \in CallSteps,
           pc[t] \in PutSteps \/ pc[t] \in FlushSteps \/ job[t] = "headers"
    PROVE  Calling(t)
<1> USE Actors
<1>1. /\ Alone(t) /\ pc'[t] = Head(back[t]) /\ job'[t] = job[t]
      /\ back'[t] = Tail(back[t])
  BY ReturnAlone
<1>2. WellFormed(t, pc[t], job[t], back[t]) /\ job[t] \in Jobs
  BY DEF Shape, CallTypes
<1>3. /\ pc[t] \in FlushSteps =>
           \/ t = App /\ pc'[t] \in {"stop_unlock", "seek"}
           \/ t # App /\ pc'[t] = "check"
      /\ pc[t] \in PairSteps \cup SyncSteps /\ job[t] = "headers" =>
           pc'[t] = "flushed" \/ (t = App /\ pc'[t] = "opened")
      /\ pc[t] \in PutSteps /\ job[t] = "end" =>
           IF t = App THEN pc'[t] = "stop_side" ELSE pc'[t] = "ended"
      /\ pc[t] \in PutSteps /\ job[t] = "nop" => t # App /\ pc'[t] = "drain"
  BY Returned
<1>4. /\ pc[t] \in FlushSteps => pc[t] \notin AllocSteps \cup PutSteps
      /\ pc[t] \in PutSteps => pc[t] \in PairSteps
      /\ pc[t] \in FlushSteps \cup PairSteps \cup SyncSteps
  BY DEF CallSteps, FlushSteps, PairSteps, AllocSteps, PutSteps
<1>5. job[t] \in {"headers", "end", "nop"}
  BY <1>2 DEF Jobs
<1>6. ASSUME t # App
      PROVE  Phase(pc'[t], job'[t]) = PhaseOf(t) /\ pc'[t] # "again"
  <2>1. CASE pc[t] \in PutSteps /\ job[t] = "end"
    <3>1. pc'[t] = "ended"
      BY <1>3, <1>6, <2>1
    <3>2. Closing(pc[t], job[t]) /\ Closing(pc'[t], job'[t])
      BY <2>1, <3>1 DEF Closing
    <3> QED
      BY <3>1, <3>2, Phases DEF PhaseOf
  <2>2. CASE ~(pc[t] \in PutSteps /\ job[t] = "end")
    <3>1. pc'[t] \in {"check", "flushed", "drain"}
      BY <1>3, <1>4, <1>5, <1>6, <2>2
    <3>2. ~Closing(pc[t], job[t])
      BY <1>4, <2>2, CallSteps1 DEF Closing, AllocSteps, PutSteps
    <3>3. ~Closing(pc'[t], job'[t])
      BY <3>1 DEF Closing, AllocSteps, PutSteps
    <3>4. pc[t] \notin {"off", "start", "exit"} /\ pc'[t] \notin {"off", "start", "exit"}
      BY <3>1, CallSteps1
    <3> QED
      BY <3>1, <3>2, <3>3, <3>4, Phases DEF PhaseOf
  <2> QED
    BY <2>1, <2>2
<1>7. ASSUME t = App
      PROVE  /\ Seeking' => Seeking
             /\ pc'[App] \notin {"go_on", "play_video", "play_audio", "play_lock"}
  <2>1. pc[App] \notin AppSteps \cup StopSteps \cup DemuxSteps
    BY <1>4, <1>7 DEF FlushSteps, PairSteps, AllocSteps, PutSteps, SyncSteps, AppSteps, StopSteps, DemuxSteps
  <2>2. back[App] \in FlushBacks(App) \cup HeadersBacks(App) \cup EndBacks(App) \cup {<<"idle">>, <<"open">>}
    BY <1>2, <1>7, <2>1 DEF WellFormed
  <2>3. /\ Head(back[App]) = "seek" \/ Tail(back[App]) \in SeekBacks => back[App] \in SeekBacks
        /\ Head(back[App]) \in {"stop_unlock", "seek", "flushed", "opened", "stop_side", "idle", "open"}
    BY <2>2, ReturnKeeps
  <2>4. Seeking' => Seeking
    BY <1>1, <1>7, <2>3 DEF Seeking
  <2> QED
    BY <1>1, <1>7, <2>3, <2>4
<1> QED
  BY <1>1, <1>6, <1>7 DEF Calling

LEMMA PairCalling ==
    ASSUME CallTypes, Shape, NEW t \in Threads, PairStep(t)
    PROVE  Calling(t)
<1>1. /\ "alloc_video" \in CallSteps /\ "alloc_audio" \in CallSteps /\ "count" \in CallSteps
      /\ "put_video" \in CallSteps /\ "put_audio" \in CallSteps /\ "sync" \in CallSteps
      /\ {"alloc_video", "alloc_audio", "put_video", "put_audio"} = AllocSteps \cup PutSteps
      /\ "put_audio" \in PutSteps
  BY DEF CallSteps, FlushSteps, PairSteps, AllocSteps, PutSteps, SyncSteps
<1>2. CASE AllocVideo(t)
  BY <1>1, <1>2, CallGoing DEF AllocVideo
<1>3. CASE AllocAudio(t)
  <2>1. CASE job[t] = "headers" /\ Go(t, "count")
    BY <1>1, <1>3, <2>1, CallGoing DEF AllocAudio
  <2>2. CASE Go(t, "put_video")
    BY <1>1, <1>3, <2>2, CallGoing DEF AllocAudio
  <2> QED
    BY <1>3, <2>1, <2>2 DEF AllocAudio
<1>4. CASE Count(t)
  <2>1. At(t, "count") /\ Go(t, "put_video")
    BY <1>4 DEF Count
  <2>2. job[t] # "end"
    <3>1. WellFormed(t, "count", job[t], back[t])
      BY <2>1 DEF Shape, At
    <3> QED
      BY <3>1 DEF WellFormed, AppSteps, DemuxSteps, StopSteps, FlushSteps, AllocSteps, PutSteps
  <2> QED
    BY <1>1, <2>1, <2>2, CallGoing
<1>5. CASE PutVideo(t)
  BY <1>1, <1>5, CallGoing DEF PutVideo
<1>6. CASE PutAudio(t)
  <2>1. CASE job[t] = "headers" /\ Go(t, "sync")
    BY <1>1, <1>6, <2>1, CallGoing DEF PutAudio
  <2>2. CASE Return(t)
    <3>1. pc[t] \in PutSteps /\ pc[t] \in CallSteps
      BY <1>1, <1>6 DEF PutAudio, At
    <3> QED
      BY <2>2, <3>1, CallReturning
  <2> QED
    BY <1>6, <2>1, <2>2 DEF PutAudio
<1> QED
  BY <1>2, <1>3, <1>4, <1>5, <1>6 DEF PairStep

LEMMA SyncCalling ==
    ASSUME CallTypes, Shape, NEW t \in Threads, Sync(t)
    PROVE  Calling(t)
<1>1. PICK p : p \in SyncSteps /\ At(t, p)
  BY DEF Sync, SyncSteps
<1>2. p \in CallSteps /\ "sync_wait" \in CallSteps
      /\ p \notin AllocSteps \cup PutSteps /\ "sync_wait" \notin AllocSteps \cup PutSteps
  BY <1>1 DEF CallSteps, SyncSteps, AllocSteps, PutSteps
<1>3. CASE Go(t, "sync_wait")
  BY <1>1, <1>2, <1>3, CallGoing
<1>4. CASE Return(t)
  <2>1. WellFormed(t, p, job[t], back[t])
    BY <1>1 DEF Shape, At
  <2>2. job[t] = "headers"
    BY <1>1, <2>1 DEF WellFormed, FlushSteps, DemuxSteps, AppSteps, StopSteps, AllocSteps, PutSteps, SyncSteps
  <2> QED
    BY <1>1, <1>2, <1>4, <2>2, CallReturning DEF At
<1> QED
  BY <1>3, <1>4 DEF Sync, SyncDone

LEMMA FlushCalling ==
    ASSUME CallTypes, Shape, NEW t \in Threads, Flush(t)
    PROVE  Calling(t)
<1> USE Actors
<1>1. \A p \in FlushSteps : p \in CallSteps /\ p \notin AllocSteps \cup PutSteps
  BY DEF FlushSteps, CallSteps, AllocSteps, PutSteps
<1>2. {"flush", "clear_video", "clear_audio", "reset", "reset_video", "reset_audio", "flushed"} = FlushSteps
  BY DEF FlushSteps
<1>3. ASSUME NEW p \in FlushSteps, NEW step \in FlushSteps, At(t, p), Go(t, step)
      PROVE  Calling(t)
  BY <1>1, <1>3, CallGoing
<1>4. ASSUME NEW p \in FlushSteps, At(t, p), Return(t)
      PROVE  Calling(t)
  BY <1>1, <1>4, CallReturning DEF At
<1>5. CASE FlushBegin(t) \/ FlushEnd(t) \/ FlushClear(t)
  BY <1>2, <1>3, <1>4, <1>5 DEF FlushBegin, FlushEnd, FlushClear
<1>6. CASE FlushReset(t)
  <2>1. CASE At(t, "reset") /\ Go(t, "reset_video")
    BY <1>2, <1>3, <2>1
  <2>2. CASE At(t, "reset_video") /\ Go(t, "reset_audio")
    BY <1>2, <1>3, <2>2
  <2>3. CASE At(t, "reset_audio") /\ SendPair(t, "headers", "flushed")
    <3>1. /\ Alone(t) /\ pc'[t] = "alloc_video" /\ job'[t] = "headers"
          /\ back'[t] = <<"flushed">> \o back[t]
      BY <2>3, SendAlone
    <3>2. pc[t] = "reset_audio" /\ pc[t] \in CallSteps
      BY <1>1, <1>2, <2>3 DEF At
    <3>3. Phase(pc[t], job[t]) = "looping" /\ Phase(pc'[t], job'[t]) = "looping"
      <4>1. ~Closing(pc[t], job[t]) /\ ~Closing(pc'[t], job'[t])
        BY <3>1, <3>2 DEF Closing, AllocSteps, PutSteps
      <4> QED
        BY <3>1, <3>2, <4>1, Phases
    <3>4. ASSUME t = App
          PROVE  Seeking' => Seeking
      <4>1. WellFormed(App, "reset_audio", job[App], back[App])
        BY <3>2, <3>4 DEF Shape
      <4>2. back[App] \in FlushBacks(App)
        BY <4>1 DEF WellFormed, DemuxSteps, AppSteps, StopSteps, AllocSteps, PutSteps, PairSteps, SyncSteps
      <4>3. <<"flushed">> \o back[App] \in SeekBacks => back[App] \in SeekBacks
        BY <4>2, SendKeeps
      <4> QED
        BY <3>1, <3>4, <4>3 DEF Seeking
    <3> QED
      BY <3>1, <3>2, <3>3, <3>4 DEF Calling, PhaseOf
  <2> QED
    BY <1>6, <2>1, <2>2, <2>3 DEF FlushReset, HeadersDone
<1> QED
  BY <1>5, <1>6 DEF Flush

\* A step in a call, of a demuxer or of the application.
LEMMA CallRuns ==
    ASSUME RunInv, Own, NEW t \in Threads, Calling(t),
           UNCHANGED <<side, seeked, left, over, running, demuxers_running, status>>,
           braked => braked', emergency_brake' => emergency_brake \/ braked'
    PROVE  RunInv'
<1> USE Actors
<1>1. CASE t = App
  <2>1. SeekServed'
    BY <1>1, SeekLeft DEF RunInv, Calling
  <2> QED
    BY <1>1, <2>1, AppRuns DEF Calling
<1>2. CASE t # App
  <2>1. t \in Sides /\ Alone(t) /\ Phase(pc'[t], job'[t]) = PhaseOf(t) /\ pc'[t] # "again"
    BY <1>2 DEF Calling
  <2>2. Stays(t) => Stays(t)'
    BY <2>1 DEF Stays
  <2> QED
    BY <2>1, <2>2, LoopRuns
<1> QED
  BY <1>1, <1>2

LEMMA PairRuns ==
    ASSUME RunInv, CallTypes, Shape, Own, NEW t \in Threads, PairStep(t)
    PROVE  RunInv'
<1>1. /\ UNCHANGED <<side, seeked, left, over, running, demuxers_running, status>>
      /\ UNCHANGED <<braked, emergency_brake>>
  BY DEF PairStep, demuxVars, streamVars, brakeVars, appVars
<1> QED
  BY <1>1, PairCalling, CallRuns

LEMMA SyncRuns ==
    ASSUME RunInv, CallTypes, Shape, Own, NEW t \in Threads, Sync(t)
    PROVE  RunInv'
<1>1. /\ UNCHANGED <<side, seeked, left, over, running, demuxers_running, status>>
      /\ UNCHANGED <<braked, emergency_brake>>
  BY DEF Sync, streamVars, brakeVars, appVars
<1> QED
  BY <1>1, SyncCalling, CallRuns

LEMMA FlushRuns ==
    ASSUME RunInv, CallTypes, Shape, Own, NEW t \in Threads, Flush(t)
    PROVE  RunInv'
<1>1. /\ UNCHANGED <<side, seeked, left, over, running, demuxers_running, status>>
      /\ UNCHANGED <<braked, emergency_brake>>
  BY DEF Flush, streamVars, brakeVars, appVars
<1> QED
  BY <1>1, FlushCalling, CallRuns

\* A demuxer goes on at a step of its own.
LEMMA WentOn ==
    ASSUME RunInv, CallTypes, Own, NEW s \in Sides, NEW step, Go(s, step),
           pc[s] \notin {"off", "start", "exit"}, step \notin {"off", "start", "exit"},
           Closing(pc[s], job[s]) <=> Closing(step, job[s]),
           UNCHANGED <<side, seeked, running, demuxers_running, status, braked>>,
           emergency_brake' => emergency_brake,
           \A r \in Sides : lock[r] = App => left'[r] = left[r],
           \A r \in Sides : r # s => over'[r] = over[r],
           step = "again" => (pc[App] = "go_on" /\ Stays(s) => ~over'[s])
    PROVE  RunInv'
<1> USE Actors
<1>1. Alone(s) /\ pc'[s] = step /\ job'[s] = job[s]
  BY GoAlone
<1>2. Phase(pc'[s], job'[s]) = PhaseOf(s)
  BY <1>1, Phases DEF PhaseOf
<1>3. pc[App] = "go_on" /\ Stays(s) => Stays(s)'
  BY <1>1 DEF Stays
<1> QED
  BY <1>1, <1>2, <1>3, LoopRuns

\* The steps within demux_loop that are no part of a call.
InLoop == {"enter", "chunk", "data_video", "data_audio", "check", "suspended", "resume", "drain",
           "drain_wait", "delay", "delay_wait", "again"}

LEMMA InLoopIs ==
    ASSUME NEW p \in InLoop, NEW j
    PROVE  p \notin {"off", "start", "exit"} /\ ~Closing(p, j)
  BY DEF InLoop, Closing, AllocSteps, PutSteps

\* From one of them to another one.
LEMMA LoopedOn ==
    ASSUME RunInv, CallTypes, Own, NEW s \in Sides, NEW p \in InLoop, At(s, p),
           NEW step \in InLoop, Go(s, step),
           UNCHANGED <<side, seeked, running, demuxers_running, status, braked>>,
           emergency_brake' => emergency_brake,
           \A r \in Sides : lock[r] = App => left'[r] = left[r],
           \A r \in Sides : r # s => over'[r] = over[r],
           step = "again" => (pc[App] = "go_on" /\ Stays(s) => ~over'[s])
    PROVE  RunInv'
<1>1. pc[s] \notin {"off", "start", "exit"} /\ step \notin {"off", "start", "exit"}
  BY InLoopIs DEF At
<1>2. Closing(pc[s], job[s]) <=> Closing(step, job[s])
  BY InLoopIs DEF At
<1> QED
  BY <1>1, <1>2, WentOn

LEMMA ChunkRuns ==
    ASSUME RunInv, Types, Own, NEW s \in Sides, Chunk(s)
    PROVE  RunInv'
<1> USE Actors
<1>1. UNCHANGED <<side, seeked, left, running, demuxers_running, status, braked, emergency_brake>>
  BY DEF Chunk, streamVars, brakeVars, appVars
<1>2. \A r \in Sides : r # s => over'[r] = over[r]
  BY DEF Chunk, Types, SideTypes
<1>3. At(s, "chunk") /\ {"chunk", "data_video", "data_audio", "check"} \subseteq InLoop
  BY DEF Chunk, InLoop
<1>4. CASE \E step \in {"data_video", "data_audio", "check"} : Go(s, step)
  BY <1>1, <1>2, <1>3, <1>4, LoopedOn DEF Types
<1>5. CASE SendPair(s, "nop", "drain")
  <2>1. Alone(s) /\ pc'[s] = "alloc_video" /\ job'[s] = "nop"
    BY <1>5, SendAlone DEF Types
  <2>2. ~Closing("alloc_video", "nop") /\ ~Closing("chunk", job[s])
    BY DEF Closing, AllocSteps, PutSteps
  <2>3. Phase(pc'[s], job'[s]) = PhaseOf(s)
    BY <1>3, <2>1, <2>2, Phases DEF PhaseOf, At
  <2>4. Stays(s) => Stays(s)'
    BY <1>1, <2>1 DEF Stays
  <2> QED
    BY <1>1, <1>2, <2>1, <2>3, <2>4, LoopRuns
<1>6. \/ \E f \in Fifos : Go(s, IF f = Video THEN "data_video" ELSE "data_audio")
      \/ Go(s, "check") \/ SendPair(s, "nop", "drain")
  BY DEF Chunk
<1> QED
  BY <1>4, <1>5, <1>6

LEMMA SendDataRuns ==
    ASSUME RunInv, Types, Own, NEW s \in Sides, SendData(s)
    PROVE  RunInv'
<1> USE Actors
<1>1. UNCHANGED <<side, seeked, running, demuxers_running, status, braked, emergency_brake>>
  BY DEF SendData, streamVars, brakeVars, appVars
<1>2. \A r \in Sides : r # s => over'[r] = over[r] /\ left'[r] = left[r]
  BY DEF SendData, Types, SideTypes
<1>3. PICK p \in {"data_video", "data_audio"} : At(s, p)
  BY DEF SendData
<1>4. p \in InLoop /\ "check" \in InLoop /\ Go(s, "check") /\ HasLoop(p)
  BY <1>3 DEF InLoop, SendData, HasLoop, LoopSteps
<1>5. lock[s] = s
  BY <1>3, <1>4 DEF Own, LoopsLocked, At
<1> QED
  BY <1>1, <1>2, <1>3, <1>4, <1>5, LoopedOn DEF Types

LEMMA LetInRuns ==
    ASSUME RunInv, Types, Own, NEW s \in Sides, LetIn(s)
    PROVE  RunInv'
<1>1. UNCHANGED <<side, seeked, left, over, running, demuxers_running, status, braked, emergency_brake>>
  BY DEF LetIn, streamVars, brakeVars, appVars
<1>2. PICK p \in {"check", "suspended", "resume"} : At(s, p)
  BY DEF LetIn
<1>3. PICK step \in {"suspended", "chunk", "resume"} : Go(s, step)
  BY DEF LetIn
<1>4. p \in InLoop /\ step \in InLoop /\ step # "again"
  BY DEF InLoop
<1> QED
  BY <1>1, <1>2, <1>3, <1>4, LoopedOn DEF Types

LEMMA DrainRuns ==
    ASSUME RunInv, Types, Own, NEW s \in Sides, Drain(s)
    PROVE  RunInv'
<1>1. UNCHANGED <<side, seeked, left, running, demuxers_running, status, braked, emergency_brake>>
  BY DEF Drain, streamVars, brakeVars, appVars
<1>2. \A r \in Sides : r # s => over'[r] = over[r]
  BY DEF Drain, Types, SideTypes
<1>3. PICK p \in {"drain", "drain_wait", "delay_wait"} : At(s, p)
  BY DEF Drain
<1>4. CASE p # "delay_wait"
  <2>1. PICK step \in {"drain", "drain_wait", "delay"} : Go(s, step)
    BY <1>3, <1>4 DEF Drain, At
  <2>2. p \in InLoop /\ step \in InLoop /\ step # "again"
    BY DEF InLoop
  <2> QED
    BY <1>1, <1>2, <1>3, <2>1, <2>2, LoopedOn DEF Types
<1>5. CASE p = "delay_wait"
  <2>1. Go(s, "again") /\ DelayOver(s) /\ over' = [over EXCEPT ![s] = left[s] = 0]
    BY <1>3, <1>5 DEF Drain, At
  <2>2. left[s] # 0 => ~over'[s]
    <3>1. over \in [Sides -> BOOLEAN]
      BY DEF Types, SideTypes
    <3> QED
      BY ONLY <2>1, <3>1, s \in Sides, Zenon
  <2>3. pc[App] = "go_on" /\ Stays(s) => left[s] > 0
    BY <2>1 DEF DelayOver, AppInTime, At, Stays
  <2>4. left[s] > 0 => left[s] # 0
    BY DEF Types, SideTypes
  <2>5. pc[App] = "go_on" /\ Stays(s) => ~over'[s]
    BY ONLY <2>2, <2>3, <2>4, Zenon
  <2>6. p \in InLoop /\ "again" \in InLoop
    BY DEF InLoop
  <2> QED
    BY <1>1, <1>2, <1>3, <2>1, <2>5, <2>6, LoopedOn DEF Types
<1> QED
  BY <1>4, <1>5

LEMMA DelayRuns ==
    ASSUME RunInv, Types, Own, NEW s \in Sides, Delay(s)
    PROVE  RunInv'
<1>1. UNCHANGED <<side, seeked, left, over, running, demuxers_running, status, braked, emergency_brake>>
  BY DEF Delay, streamVars, brakeVars, appVars
<1>2. At(s, "delay") /\ {"delay", "delay_wait", "again"} \subseteq InLoop
  BY DEF Delay, InLoop
<1>3. CASE Go(s, "delay_wait")
  BY <1>1, <1>2, <1>3, LoopedOn DEF Types
<1>4. CASE Go(s, "again") /\ ~(running[s] /\ over[s])
  <2>1. Stays(s) => ~over'[s]
    BY <1>1, <1>4 DEF Stays
  <2> QED
    BY <1>1, <1>2, <1>4, <2>1, LoopedOn DEF Types
<1> QED
  BY <1>3, <1>4 DEF Delay

LEMMA JumpRuns ==
    ASSUME RunInv, Types, Own, NEW s \in Sides, Jump(s)
    PROVE  RunInv'
<1>1. UNCHANGED <<side, seeked, left, over, running, demuxers_running, status, braked, emergency_brake>>
  BY DEF Jump, streamVars, brakeVars, demuxVars
<1>2. Alone(s) /\ pc[s] = "chunk" /\ pc'[s] = "flush" /\ job'[s] = job[s]
  BY Actors DEF Jump, Types, CallTypes, Alone, At
<1>3. ~Closing("flush", job[s]) /\ ~Closing("chunk", job[s])
  BY DEF Closing, AllocSteps, PutSteps
<1>4. Phase(pc'[s], job'[s]) = PhaseOf(s)
  BY <1>2, <1>3, Phases DEF PhaseOf
<1>5. Stays(s) => Stays(s)'
  BY <1>1, <1>2 DEF Stays
<1> QED
  BY <1>1, <1>2, <1>4, <1>5, LoopRuns

\* A demuxer moves from one phase to another.
LEMMA SideMoves ==
    ASSUME RunInv, Own, NEW s \in Sides, Alone(s),
           UNCHANGED <<side, seeked, left, over>>,
           \A r \in Sides : running'[r] => running[r],
           \A r \in Sides : r # s => running'[r] = running[r],
           pc[App] = "go_on" /\ Stays(s) /\ ~braked' => Stays(s)',
           braked => braked', emergency_brake' => emergency_brake \/ braked',
           running'[s] => Phase(pc'[s], job'[s]) \in {"start", "looping"},
           RunsCounted', PlayServed'
    PROVE  RunInv'
<1> USE Actors
<1>1. pc'[App] = pc[App] /\ back'[App] = back[App]
  BY DEF Alone
<1>2. \A r \in Sides : ~braked' /\ pc[App] = "go_on" /\ r < side /\ Stays(r) => Stays(r)'
  BY DEF Alone, Stays
<1>3. SeekServed'
  BY <1>1, <1>2, SeekKept DEF RunInv
<1>4. BrakeKnown'
  BY DEF RunInv, BrakeKnown
<1>5. Runners'
  BY DEF RunInv, Runners, Alone, PhaseOf
<1> QED
  BY <1>3, <1>4, <1>5 DEF RunInv

\* The demuxers that are counted, when s moves.
LEMMA LoopersMoved ==
    ASSUME NEW s \in Sides, Alone(s)
    PROVE  /\ Phase(pc'[s], job'[s]) \in {"looping", "exit"} => Loopers' = Loopers \cup {s}
           /\ Phase(pc'[s], job'[s]) \notin {"looping", "exit"} => Loopers' = Loopers \ {s}
<1>1. Sides \subseteq Threads
  BY Actors
<1>2. \A r \in Sides : r # s => PhaseOf(r)' = PhaseOf(r)
  BY <1>1 DEF Alone, PhaseOf
<1>3. PhaseOf(s)' = Phase(pc'[s], job'[s])
  BY DEF PhaseOf
<1> HIDE DEF PhaseOf
<1> QED
  BY <1>2, <1>3 DEF Loopers

LEMMA LoopersFinite ==
    /\ IsFiniteSet(Loopers) /\ Cardinality(Loopers) \in Nat
    /\ \A s \in Sides : s \notin Loopers =>
            Cardinality(Loopers \cup {s}) = Cardinality(Loopers) + 1
    /\ \A s \in Loopers : Cardinality(Loopers \ {s}) = Cardinality(Loopers) - 1
    /\ Cardinality(Loopers) = 0 <=> Loopers = {}
<1>1. IsFiniteSet(Sides)
  BY Actors, FS_Interval DEF Sides
<1>2. Loopers \subseteq Sides
  BY DEF Loopers
<1>3. IsFiniteSet(Loopers)
  BY <1>1, <1>2, FS_Subset
<1> HIDE DEF Loopers
<1>4. Cardinality(Loopers) \in Nat /\ (Cardinality(Loopers) = 0 <=> Loopers = {})
  BY <1>3, FS_CardinalityType, FS_EmptySet
<1>5. \A s : Cardinality(Loopers \cup {s}) = IF s \in Loopers THEN Cardinality(Loopers) ELSE Cardinality(Loopers) + 1
  BY <1>3, FS_AddElement
<1>6. \A s \in Loopers : Cardinality(Loopers \ {s}) = Cardinality(Loopers) - 1
  BY <1>3, FS_RemoveElement
<1> QED
  BY <1>3, <1>4, <1>5, <1>6

\* A step that neither starts nor ends the loop of s.
LEMMA CountStays ==
    ASSUME RunsCounted, NEW s \in Sides, Alone(s), UNCHANGED demuxers_running,
           PhaseOf(s) \in {"looping", "exit"} <=> Phase(pc'[s], job'[s]) \in {"looping", "exit"}
    PROVE  RunsCounted'
<1>1. s \in Loopers <=> PhaseOf(s) \in {"looping", "exit"}
  BY DEF Loopers
<1>2. Loopers' = Loopers
  BY <1>1, LoopersMoved
<1> QED
  BY <1>2 DEF RunsCounted

LEMMA LoopStartRuns ==
    ASSUME RunInv, Types, Own, NEW s \in Sides, LoopStart(s)
    PROVE  RunInv'
<1> USE Actors
<1>1. UNCHANGED <<side, seeked, left, running, status, braked>>
  BY DEF LoopStart, streamVars, appVars
<1>2. CASE At(s, "start")
  <2>1. Go(s, "enter") /\ demuxers_running' = demuxers_running + 1 /\ UNCHANGED <<over, emergency_brake>>
    BY <1>2 DEF LoopStart, At
  <2>2. Alone(s) /\ pc[s] = "start" /\ pc'[s] = "enter" /\ job'[s] = job[s]
    BY <1>2, <2>1, GoAlone DEF Types, At
  <2>3. "enter" \in InLoop
    BY DEF InLoop
  <2>4. Phase(pc'[s], job'[s]) = "looping" /\ PhaseOf(s) = "start"
    BY <2>2, <2>3, InLoopIs, Phases DEF PhaseOf
  <2>5. s \notin Loopers /\ Loopers' = Loopers \cup {s}
    BY <2>2, <2>4, LoopersMoved DEF Loopers
  <2>6. RunsCounted'
    BY <2>1, <2>5, LoopersFinite DEF RunInv, RunsCounted
  <2>7. PlayServed'
    BY <1>1, <2>2 DEF RunInv, PlayServed, Alone
  <2>8. Stays(s) => Stays(s)'
    BY <1>1, <2>2 DEF Stays
  <2> QED
    BY <1>1, <2>1, <2>2, <2>4, <2>6, <2>7, <2>8, SideMoves
<1>3. CASE At(s, "enter")
  <2>1. Go(s, "chunk") /\ UNCHANGED demuxers_running /\ ~emergency_brake'
        /\ over' = [over EXCEPT ![s] = left[s] = 0]
    BY <1>3 DEF LoopStart, At
  <2>2. \A r \in Sides : r # s => over'[r] = over[r]
    BY <2>1 DEF Types, SideTypes
  <2>3. "enter" \in InLoop /\ "chunk" \in InLoop
    BY DEF InLoop
  <2> QED
    BY <1>1, <1>3, <2>1, <2>2, <2>3, LoopedOn DEF Types
<1> QED
  BY <1>2, <1>3 DEF LoopStart

LEMMA AgainRuns ==
    ASSUME RunInv, Types, Own, NEW s \in Sides, Again(s)
    PROVE  RunInv'
<1> USE Actors
<1>1. UNCHANGED <<side, seeked, left, over, demuxers_running, status, braked, emergency_brake>>
  BY DEF Again, streamVars, brakeVars, appVars
<1>2. At(s, "again") /\ "again" \in InLoop /\ "chunk" \in InLoop
  BY DEF Again, InLoop
<1>3. CASE Loops(s)
  <2>1. Go(s, "chunk") /\ UNCHANGED running
    BY <1>3 DEF Again
  <2> QED
    BY <1>1, <1>2, <2>1, LoopedOn DEF Types
<1>4. CASE ~Loops(s)
  <2>1. Go(s, "exit") /\ running' = [running EXCEPT ![s] = FALSE]
    BY <1>4 DEF Again
  <2>2. Alone(s) /\ pc[s] = "again" /\ pc'[s] = "exit" /\ job'[s] = job[s]
    BY <1>2, <2>1, GoAlone DEF Types, At
  <2>3. PhaseOf(s) = "looping" /\ Phase(pc'[s], job'[s]) = "exit"
    BY <1>2, <2>2, InLoopIs, Phases DEF PhaseOf
  <2>4. RunsCounted'
    BY <1>1, <2>2, <2>3, CountStays DEF RunInv
  <2>5. PlayServed'
    BY <1>1, <2>2 DEF RunInv, PlayServed, Alone
  <2>6. ~running'[s] /\ \A r \in Sides : r # s => running'[r] = running[r]
    BY <2>1 DEF Types, SideTypes
  <2>7. \A r \in Sides : running'[r] => running[r]
    BY <2>6
  <2>8. ~braked => ~Stays(s)
    BY <1>4, <2>2 DEF Loops, Stays, RunInv, BrakeKnown
  <2> QED
    BY <1>1, <2>2, <2>4, <2>5, <2>6, <2>7, <2>8, SideMoves
<1> QED
  BY <1>3, <1>4

LEMMA LoopExitRuns ==
    ASSUME RunInv, Types, Own, NEW s \in Sides, LoopExit(s)
    PROVE  RunInv'
<1> USE Actors
<1>1. UNCHANGED <<side, seeked, left, over, running, status, braked, emergency_brake>>
      /\ demuxers_running' = demuxers_running - 1
  BY DEF LoopExit, streamVars, brakeVars, appVars
<1>2. pc[s] = "exit" /\ PhaseOf(s) = "exit"
  BY Phases DEF LoopExit, At, PhaseOf
<1>3. s \in Loopers /\ ~running[s]
  BY <1>2 DEF Loopers, RunInv, Runners
<1>4. demuxers_running = Cardinality(Loopers)
  BY DEF RunInv, RunsCounted
<1>5. ~Stays(s)
  BY <1>3 DEF Stays
<1>6. ASSUME Alone(s), Phase(pc'[s], job'[s]) \notin {"looping", "exit"}, PlayServed'
      PROVE  RunInv'
  <2>1. Loopers' = Loopers \ {s}
    BY <1>6, LoopersMoved
  <2>2. RunsCounted'
    BY <1>1, <1>3, <1>4, <2>1, LoopersFinite DEF RunsCounted
  <2> QED
    BY <1>1, <1>3, <1>5, <1>6, <2>2, SideMoves
<1>7. CASE LastSide(demuxers_running - 1)
  <2>1. SendPair(s, "end", "ended")
    BY <1>7 DEF LoopExit
  <2>2. Alone(s) /\ pc'[s] = "alloc_video" /\ job'[s] = "end"
    BY <2>1, SendAlone DEF Types
  <2>3. Closing(pc'[s], job'[s])
    BY <2>2 DEF Closing, AllocSteps
  <2>4. Phase(pc'[s], job'[s]) = "closing"
    BY <2>3, Phases
  <2>5. PlayServed'
    BY <1>1, <2>2 DEF RunInv, PlayServed, Alone
  <2> QED
    BY <1>6, <2>2, <2>4, <2>5
<1>8. CASE ~LastSide(demuxers_running - 1)
  <2>1. Go(s, "off")
    BY <1>8 DEF LoopExit
  <2>2. Alone(s) /\ pc'[s] = "off"
    BY <2>1, GoAlone DEF Types
  <2>3. Phase(pc'[s], job'[s]) = "off"
    BY <2>2, Phases
  <2>4. PICK r \in Loopers : r # s
    <3>1. Cardinality(Loopers \ {s}) # 0
      BY <1>3, <1>4, <1>8, LoopersFinite DEF LastSide
    <3>2. Loopers \ {s} # {}
      BY <3>1, FS_EmptySet
    <3> QED
      BY <3>2
  <2>5. r \in Sides /\ pc'[r] = pc[r] /\ pc[r] # "off"
    <3>1. r \in Sides /\ PhaseOf(r) \in {"looping", "exit"}
      BY <2>4 DEF Loopers
    <3>2. pc[r] # "off"
      BY <3>1, Phases DEF PhaseOf
    <3> QED
      BY <2>2, <2>4, <3>1, <3>2 DEF Alone
  <2>6. PlayServed'
    BY <2>5 DEF PlayServed
  <2> QED
    BY <1>6, <2>2, <2>3, <2>6
<1> QED
  BY <1>7, <1>8

\* Behind demux_loop.
LEMMA EndedRuns ==
    ASSUME RunInv, Types, Own, NEW s \in Sides, Ended(s)
    PROVE  RunInv'
<1>1. UNCHANGED <<side, seeked, left, over, running, demuxers_running, status, braked, emergency_brake>>
  BY DEF Ended, streamVars, brakeVars, appVars
<1>2. pc[s] = "ended" /\ Go(s, "end_wait")
  BY DEF Ended, At
<1>3. Closing(pc[s], job[s]) /\ Closing("end_wait", job[s])
  BY <1>2 DEF Closing
<1> QED
  BY <1>1, <1>2, <1>3, WentOn DEF Types

LEMMA EndWaitRuns ==
    ASSUME RunInv, Types, Own, NEW s \in Sides, EndWait(s)
    PROVE  RunInv'
<1> USE Actors
<1>1. UNCHANGED <<side, seeked, left, over, running, demuxers_running, status, braked, emergency_brake>>
  BY DEF EndWait, demuxVars, streamVars, brakeVars, appVars
<1>2. pc[s] = "end_wait"
  BY DEF EndWait, At
<1>3. Closing(pc[s], job[s]) /\ Closing("finished", job[s])
  BY <1>2 DEF Closing
<1>4. CASE Go(s, "finished")
  BY <1>1, <1>2, <1>3, <1>4, WentOn DEF Types
<1>5. CASE UNCHANGED callVars
  <2>1. Alone(s) /\ pc'[s] = pc[s] /\ job'[s] = job[s]
    BY <1>5 DEF callVars, Alone
  <2> QED
    BY <1>1, <2>1, LoopRuns DEF PhaseOf, Stays
<1> QED
  BY <1>4, <1>5 DEF EndWait

LEMMA StreamEndRuns ==
    ASSUME RunInv, Types, Own, NEW s \in Sides, StreamEnd(s)
    PROVE  RunInv'
<1> USE Actors
<1>1. UNCHANGED <<side, seeked, left, over, running, demuxers_running, braked, emergency_brake>>
  BY DEF StreamEnd, demuxVars, brakeVars, appVars
<1>2. pc[s] = "finished" /\ Go(s, "off") /\ status' = "stop"
  BY DEF StreamEnd, At
<1>3. Alone(s) /\ pc'[s] = "off"
  BY <1>2, GoAlone DEF Types
<1>4. PhaseOf(s) = "closing" /\ Phase(pc'[s], job'[s]) = "off"
  BY <1>2, <1>3, Phases DEF PhaseOf, Closing
<1>5. RunsCounted'
  BY <1>1, <1>3, <1>4, CountStays DEF RunInv
<1>6. PlayServed'
  BY <1>2 DEF PlayServed
<1>7. ~running[s]
  BY <1>4 DEF RunInv, Runners
<1>8. ~Stays(s)
  BY <1>7 DEF Stays
<1> QED
  BY <1>1, <1>3, <1>5, <1>6, <1>7, <1>8, SideMoves

\* The emergency exit is known to the invariant.
LEMMA EmergencyRuns ==
    ASSUME RunInv, Types, Shape, Syncs, Own, NEW t \in Threads, Emergency(t)
    PROVE  RunInv'
<1> USE Actors
<1>1. UNCHANGED <<side, seeked, left, over, running, demuxers_running, status>> /\ braked'
  BY DEF Emergency, streamVars, appVars
<1>2. PlayServed' /\ BrakeKnown' /\ SeekServed'
  BY <1>1 DEF PlayServed, BrakeKnown, SeekServed
<1>3. CASE At(t, "end_wait")
  <2>1. pc[t] = "end_wait" /\ Alone(t) /\ pc'[t] = "finished" /\ job'[t] = job[t]
    BY <1>3, GoAlone DEF Emergency, At, Types
  <2>2. Closing(pc[t], job[t]) /\ Closing(pc'[t], job'[t])
    BY <2>1 DEF Closing
  <2>3. t # App
    <3>1. WellFormed(t, "end_wait", job[t], back[t])
      BY <2>1 DEF Shape
    <3> QED
      BY <3>1 DEF WellFormed, DemuxSteps, AppSteps, StopSteps, FlushSteps, AllocSteps, PutSteps, PairSteps, SyncSteps
  <2>4. t \in Sides /\ Phase(pc'[t], job'[t]) = "closing" /\ PhaseOf(t) = "closing"
    BY <2>2, <2>3, Phases DEF PhaseOf
  <2>5. RunsCounted' /\ Runners'
    <3>1. \A s \in Sides : Phase(pc'[s], job'[s]) = PhaseOf(s)
      BY <2>1, <2>4 DEF Alone, PhaseOf
    <3> QED
      BY <1>1, <3>1, PhasesKept DEF RunInv
  <2> QED
    BY <1>2, <2>5 DEF RunInv
<1>4. CASE ~At(t, "end_wait")
  <2>1. Return(t)
    BY <1>4 DEF Emergency
  <2>2. pc[t] = "sync_wait"
    BY <1>4 DEF Emergency, Syncs, Asleep, At
  <2>3. pc[t] \in SyncSteps /\ pc[t] \in CallSteps
    BY <2>2 DEF SyncSteps, CallSteps
  <2>4. job[t] = "headers"
    <3>1. WellFormed(t, "sync_wait", job[t], back[t])
      BY <2>2 DEF Shape
    <3> QED
      BY <3>1 DEF WellFormed, DemuxSteps, AppSteps, StopSteps, FlushSteps, AllocSteps, PutSteps, PairSteps, SyncSteps
  <2>5. Calling(t)
    BY <2>1, <2>3, <2>4, CallReturning DEF Types
  <2> QED
    BY <1>1, <2>5, CallRuns
<1> QED
  BY <1>3, <1>4

-----------------------------------------------------------------------------
(* The application. *)

\* It is not seeking, and not about to let the demuxers go on.
LEMMA SeekNone ==
    ASSUME pc'[App] \notin {"go_on", "play_video", "play_audio", "play_lock", "seek"},
           back'[App] \notin SeekBacks
    PROVE  SeekServed'
  BY DEF SeekServed, Seeking

LEMMA NoCallAfter ==
    ASSUME Shape', pc'[App] \in AppSteps \cup StopSteps
    PROVE  back'[App] \notin SeekBacks
<1>1. WellFormed(App, pc'[App], job'[App], back'[App])
  BY Actors DEF Shape
<1>2. back'[App] \in {<<>>, <<"idle">>, <<"open">>}
  BY <1>1 DEF WellFormed, AppSteps, StopSteps, FlushSteps, DemuxSteps, AllocSteps, PutSteps, PairSteps, SyncSteps
<1>3. ASSUME NEW x \in {"idle", "open"} PROVE <<x>> \notin SeekBacks
  BY DEF SeekBacks
<1>4. <<>> \notin SeekBacks
  BY DEF SeekBacks
<1> QED
  BY <1>2, <1>3, <1>4

\* The application is at a step of these, afterwards.
Elsewhere == (AppSteps \cup StopSteps) \ {"go_on", "play_video", "play_audio", "play_lock", "seek"}

LEMMA ElsewhereIs ==
    {"idle", "open", "opened", "stop_side", "stop_lock", "stop_unlock", "stop_join", "start", "played"}
        \subseteq Elsewhere
  BY DEF Elsewhere, AppSteps, StopSteps

LEMMA ElsewhereRuns ==
    ASSUME RunInv, CallTypes, Shape', NEW step \in Elsewhere, Go(App, step),
           UNCHANGED demuxers_running, \A s \in Sides : running'[s] => running[s],
           status' = "play" => status = "play",
           braked => braked', emergency_brake' => emergency_brake \/ braked'
    PROVE  RunInv'
<1>1. Alone(App) /\ pc'[App] = step
  BY Actors, GoAlone
<1>2. step \in AppSteps \cup StopSteps /\ step \notin {"go_on", "play_video", "play_audio", "play_lock", "seek"}
  BY DEF Elsewhere
<1>3. SeekServed'
  BY <1>1, <1>2, NoCallAfter, SeekNone
<1> QED
  BY <1>1, <1>3, AppRuns

\* Nobody moves, and no demuxer is changed.
LEMMA QuietRuns ==
    ASSUME RunInv, Own, UNCHANGED callVars, UNCHANGED <<side, seeked, left, over, running, demuxers_running>>,
           UNCHANGED <<status, braked, emergency_brake>>
    PROVE  RunInv'
<1>1. UNCHANGED <<pc, job, back>>
  BY DEF callVars
<1>2. \A s \in Sides : Stays(s) => Stays(s)'
  BY <1>1 DEF Stays
<1>3. SeekServed'
  BY <1>1, <1>2, SeekKept DEF RunInv
<1> QED
  BY <1>1, <1>3, AppRuns

LEMMA SetGaplessRuns ==
    ASSUME RunInv, Own, SetGapless
    PROVE  RunInv'
<1>1. UNCHANGED callVars /\ UNCHANGED <<side, seeked, left, over, running, demuxers_running>>
      /\ UNCHANGED <<status, braked, emergency_brake>>
  BY DEF SetGapless, demuxVars, brakeVars
<1> QED
  BY <1>1, QuietRuns

LEMMA DecoderRuns ==
    ASSUME RunInv, Own, NEW f \in Fifos, DecoderStep(f)
    PROVE  RunInv'
<1>1. UNCHANGED callVars /\ UNCHANGED <<side, seeked, left, over, running, demuxers_running>>
      /\ UNCHANGED <<status, braked, emergency_brake>>
  BY DEF DecoderStep, demuxVars, streamVars, appVars, brakeVars
<1> QED
  BY <1>1, QuietRuns

LEMMA StutterRuns ==
    ASSUME RunInv, Own, UNCHANGED vars
    PROVE  RunInv'
<1>1. UNCHANGED callVars /\ UNCHANGED <<side, seeked, left, over, running, demuxers_running>>
      /\ UNCHANGED <<status, braked, emergency_brake>>
  BY DEF vars, demuxVars, streamVars, appVars, brakeVars
<1> QED
  BY <1>1, QuietRuns

LEMMA StopBeginRuns ==
    ASSUME RunInv, Types, Shape', StopBegin
    PROVE  RunInv'
<1> USE Actors
<1>1. UNCHANGED <<running, demuxers_running, braked, emergency_brake>> /\ (status' = "play" => status = "play")
  BY DEF StopBegin, demuxVars, brakeVars
<1>2. PICK then \in {"idle", "open"} :
         \/ /\ pc' = [pc EXCEPT ![App] = "stop_side"] /\ job' = job
            /\ back' = [back EXCEPT ![App] = <<then>>]
         \/ /\ pc' = [pc EXCEPT ![App] = "alloc_video"] /\ job' = [job EXCEPT ![App] = "end"]
            /\ back' = [back EXCEPT ![App] = <<"stop_side", then>>]
  BY DEF StopBegin
<1>3. Alone(App) /\ pc'[App] \in {"stop_side", "alloc_video"}
      /\ back'[App] \in {<<then>>, <<"stop_side", then>>}
  BY <1>2 DEF Alone, Types, CallTypes
<1>4. <<then>> \notin SeekBacks /\ <<"stop_side", then>> \notin SeekBacks
  <2>1. then # "seek"
    OBVIOUS
  <2>2. <<then>> \notin SeekBacks
    BY <2>1 DEF SeekBacks
  <2>3. <<"stop_side", then>> \notin SeekBacks
    BY <2>1 DEF SeekBacks
  <2> QED
    BY <2>2, <2>3
<1>5. SeekServed'
  BY <1>3, <1>4, SeekNone
<1> QED
  BY <1>1, <1>3, <1>5, AppRuns

LEMMA StopSideRuns ==
    ASSUME RunInv, Types, Shape, Shape', Own, StopSide
    PROVE  RunInv'
<1> USE Actors
<1>1. UNCHANGED <<demuxers_running, status, braked, emergency_brake, left, over, seeked>>
  BY DEF StopSide, streamVars, brakeVars
<1>2. \A s \in Sides : running'[s] => running[s]
  <2>1. running' = running \/ running' = [running EXCEPT ![side] = FALSE]
    BY DEF StopSide
  <2> QED
    BY <2>1 DEF Types, SideTypes
<1>3. CASE \E step \in {"stop_lock", "stop_join", "stop_side"} : Go(App, step)
  <2>1. PICK step \in {"stop_lock", "stop_join", "stop_side"} : Go(App, step)
    BY <1>3
  <2>2. step \in Elsewhere
    BY ElsewhereIs
  <2> QED
    BY <1>1, <1>2, <2>1, <2>2, ElsewhereRuns DEF Types
<1>4. CASE At(App, "stop_side") /\ Return(App)
  <2>1. Alone(App) /\ pc'[App] = Head(back[App])
    BY <1>4, ReturnAlone DEF Types
  <2>2. WellFormed(App, "stop_side", job[App], back[App])
    BY <1>4 DEF Shape, At
  <2>3. back[App] \in {<<"idle">>, <<"open">>}
    BY <2>2 DEF WellFormed, AppSteps, StopSteps, FlushSteps, DemuxSteps, AllocSteps, PutSteps, PairSteps, SyncSteps
  <2>4. pc'[App] \in {"idle", "open"}
    BY <2>1, <2>3, Tuples
  <2>5. pc'[App] \in AppSteps \cup StopSteps /\ pc'[App] \notin {"go_on", "play_video", "play_audio", "play_lock", "seek"}
    BY <2>4 DEF AppSteps
  <2>6. SeekServed'
    BY <2>5, NoCallAfter, SeekNone
  <2> QED
    BY <1>1, <1>2, <2>1, <2>6, AppRuns
<1>5. CASE At(App, "stop_side") /\ UNCHANGED callVars
  <2>1. pc'[App] = "stop_side" /\ UNCHANGED <<pc, job>>
    BY <1>5 DEF callVars, At
  <2>2. pc'[App] \in AppSteps \cup StopSteps
    BY <2>1 DEF StopSteps
  <2>3. SeekServed'
    BY <2>1, <2>2, NoCallAfter, SeekNone
  <2> QED
    BY <1>1, <1>2, <2>1, <2>3, AppRuns
<1>6. CASE /\ At(App, "stop_lock") /\ UNCHANGED job
           /\ pc' = [pc EXCEPT ![App] = "flush"]
           /\ back' = [back EXCEPT ![App] = <<"stop_unlock">> \o @]
  <2>1. Alone(App) /\ pc'[App] = "flush" /\ back'[App] = <<"stop_unlock">> \o back[App]
    BY <1>6 DEF Alone, Types, CallTypes
  <2>2. WellFormed(App, "stop_lock", job[App], back[App])
    BY <1>6 DEF Shape, At
  <2>3. back[App] \in {<<"idle">>, <<"open">>}
    BY <2>2 DEF WellFormed, AppSteps, StopSteps, FlushSteps, DemuxSteps, AllocSteps, PutSteps, PairSteps, SyncSteps
  <2>4. back'[App] \in {<<"stop_unlock", "idle">>, <<"stop_unlock", "open">>}
    BY <2>1, <2>3, Pushes, Zenon
  <2>5. <<"stop_unlock", "idle">> \notin SeekBacks /\ <<"stop_unlock", "open">> \notin SeekBacks
    BY DEF SeekBacks
  <2>6. SeekServed'
    BY <2>1, <2>4, <2>5, SeekNone
  <2> QED
    BY <1>1, <1>2, <2>1, <2>6, AppRuns
<1> QED
  BY <1>3, <1>4, <1>5, <1>6 DEF StopSide

LEMMA OpenRuns ==
    ASSUME RunInv, Types, Shape, Shape', Open
    PROVE  RunInv'
<1> USE Actors
<1>1. UNCHANGED <<running, demuxers_running, braked, emergency_brake>> /\ (status' = "play" => status = "play")
  BY DEF Open, brakeVars
<1>2. CASE Go(App, "idle")
  <2>1. "idle" \in Elsewhere
    BY ElsewhereIs
  <2> QED
    BY <1>1, <1>2, <2>1, ElsewhereRuns DEF Types
<1>3. CASE At(App, "open") /\ SendPair(App, "headers", "opened")
  <2>1. Alone(App) /\ pc'[App] = "alloc_video" /\ back'[App] = <<"opened">> \o back[App]
    BY <1>3, SendAlone DEF Types
  <2>2. WellFormed(App, "open", job[App], back[App])
    BY <1>3 DEF Shape, At
  <2>3. back[App] = <<>>
    BY <2>2 DEF WellFormed, AppSteps, StopSteps, FlushSteps, DemuxSteps, AllocSteps, PutSteps, PairSteps, SyncSteps
  <2>4. back'[App] = <<"opened">>
    BY <2>1, <2>3
  <2>5. <<"opened">> \notin SeekBacks
    BY DEF SeekBacks
  <2>6. SeekServed'
    BY <2>1, <2>4, <2>5, SeekNone
  <2> QED
    BY <1>1, <2>1, <2>6, AppRuns
<1> QED
  BY <1>2, <1>3 DEF Open, HeadersDone

LEMMA PlayBeginRuns ==
    ASSUME RunInv, Types, PlayBegin
    PROVE  RunInv'
<1> USE Actors
<1>1. UNCHANGED <<running, demuxers_running, status, braked, emergency_brake>> /\ ~seeked'
  BY DEF PlayBegin, brakeVars
<1>2. PICK step : Go(App, step)
  BY DEF PlayBegin
<1>3. Alone(App)
  BY <1>2, GoAlone DEF Types
<1>4. SeekServed'
  BY <1>1 DEF SeekServed
<1> QED
  BY <1>1, <1>3, <1>4, AppRuns

LEMMA PlayClearRuns ==
    ASSUME RunInv, Types, PlayClear
    PROVE  RunInv'
<1> USE Actors
<1>1. UNCHANGED <<running, demuxers_running, status, braked, emergency_brake, seeked>>
  BY DEF PlayClear, brakeVars, demuxVars, streamVars, appVars
<1>2. PICK step : Go(App, step)
  BY DEF PlayClear
<1>3. Alone(App)
  BY <1>2, GoAlone DEF Types
<1>4. SeekServed'
  BY <1>1 DEF SeekServed, RunInv, PlayClear, At
<1> QED
  BY <1>1, <1>3, <1>4, AppRuns

LEMMA SeekRuns ==
    ASSUME RunInv, Types, Shape, Seek
    PROVE  RunInv'
<1> USE Actors
<1>1. UNCHANGED <<running, demuxers_running, status, braked, emergency_brake>>
  BY DEF Seek, brakeVars, streamVars
<1>2. CASE At(App, "play_lock")
  <2>1. UNCHANGED seeked /\ (UNCHANGED callVars \/ Go(App, "seek"))
    BY <1>2 DEF Seek, At
  <2>2. Alone(App)
    BY <2>1, GoAlone DEF Types, callVars, Alone
  <2>3. SeekServed'
    BY <1>1, <1>2, <2>1 DEF SeekServed, RunInv, At
  <2> QED
    BY <1>1, <2>2, <2>3, AppRuns
<1>3. CASE At(App, "seek") /\ side <= NumSides
  <2>0. ~(side > NumSides) /\ ~At(App, "play_lock")
    BY <1>3 DEF Types, StreamTypes, At
  <2>1. PICK n \in 0 .. MaxChunks :
            left' = [left EXCEPT ![side] = n] /\ seeked' = (seeked \/ n > 0)
    BY <2>0 DEF Seek
  <2>2. /\ side' = side + 1
        /\ \/ /\ pc' = [pc EXCEPT ![App] = "flush"]
              /\ back' = [back EXCEPT ![App] = <<"seek">>]
              /\ UNCHANGED job
           \/ UNCHANGED callVars
    BY <2>0 DEF Seek
  <2>3. Alone(App) /\ pc'[App] \in {"flush", "seek"}
    BY <1>3, <2>2 DEF Types, CallTypes, callVars, Alone, At
  <2>4. side \in Sides /\ side < side' /\ (\A s \in Sides : s < side => s < side')
        /\ (\A s \in Sides : s # side => left'[s] = left[s]) /\ left'[side] = n
    <3>1. side \in Nat /\ side >= 1 /\ left \in [Sides -> Int]
      BY DEF Types, StreamTypes, SideTypes
    <3>2. side \in Sides
      BY <1>3, <3>1 DEF Sides
    <3>3. side < side' /\ (\A s \in Sides : s < side => s < side')
      BY <2>2, <3>1
    <3> QED
      BY <2>1, <3>1, <3>2, <3>3
  <2>5. seeked' => seeked \/ n > 0
    BY ONLY <2>1, Zenon
  <2>6. ~braked /\ seeked => \E s \in Sides : s < side /\ left[s] > 0
    BY <1>3 DEF RunInv, SeekServed, Seeking, At
  <2>7. ~braked /\ seeked' => \E s \in Sides : s < side' /\ left'[s] > 0
    <3>1. CASE n > 0
      BY <2>4, <3>1
    <3>2. CASE ~(n > 0) /\ ~braked /\ seeked'
      <4>1. PICK s \in Sides : s < side /\ left[s] > 0
        BY <2>5, <2>6, <3>2
      <4>2. s # side
        BY <2>4, <4>1
      <4>3. left'[s] > 0 /\ s < side'
        BY <2>4, <4>1, <4>2
      <4> QED
        BY <4>3
    <3> QED
      BY <3>1, <3>2
  <2>8. SeekServed'
    BY <1>1, <2>3, <2>7 DEF SeekServed
  <2> QED
    BY <1>1, <2>3, <2>8, AppRuns
<1>4. CASE At(App, "seek") /\ side > NumSides
  <2>1. side' = 1 /\ Go(App, "go_on") /\ UNCHANGED <<left, seeked>>
    BY <1>4 DEF Seek, At, Types, StreamTypes
  <2>2. Alone(App) /\ pc'[App] = "go_on" /\ back'[App] = back[App]
    BY <2>1, GoAlone DEF Types
  <2>3. ~braked /\ seeked => \E s \in Sides : left[s] > 0
    BY <1>4 DEF RunInv, SeekServed, Seeking, At
  <2>4. \A s \in Sides : s >= side'
    BY <2>1 DEF Sides
  <2>5. ~Seeking'
    <3>1. back[App] \notin SeekBacks
      BY <1>4, NoCall DEF At, AppSteps
    <3> QED
      BY <2>2, <3>1 DEF Seeking
  <2>6. SeekServed'
    BY <1>1, <2>1, <2>2, <2>3, <2>4, <2>5 DEF SeekServed
  <2> QED
    BY <1>1, <2>2, <2>6, AppRuns
<1> QED
  BY <1>2, <1>3, <1>4 DEF Seek

LEMMA GoOnRuns ==
    ASSUME RunInv, Types, Shape, Shape', Own, GoOn
    PROVE  RunInv'
<1> USE Actors
<1>1. UNCHANGED <<demuxers_running, status, braked, emergency_brake, left, over, seeked>>
  BY DEF GoOn, streamVars, brakeVars
<1>2. CASE At(App, "start")
  <2>1. /\ At(side, "off") /\ side' = side + 1
        /\ running' = [running EXCEPT ![side] = TRUE]
        /\ pc' = [pc EXCEPT ![App] = "go_on", ![side] = "start"]
        /\ UNCHANGED <<job, back>>
    BY <1>2 DEF GoOn, At
  <2>2. PICK a \in Sides : a = side /\ side \in Nat
    BY <1>2 DEF Own, AppLocks, At
  <2>3. /\ pc[a] = "off" /\ pc'[App] = "go_on" /\ pc'[a] = "start" /\ running'[a] /\ a < side'
        /\ \A s \in Sides : s # a => pc'[s] = pc[s] /\ running'[s] = running[s]
    BY <2>1, <2>2 DEF Types, CallTypes, SideTypes, At
  <2>4. PhaseOf(a) = "off" /\ PhaseOf(a)' = "start"
    BY <2>1, <2>3, Phases DEF PhaseOf
  <2>5. \A s \in Sides : s # a => PhaseOf(s)' = PhaseOf(s)
    BY <2>1, <2>3 DEF PhaseOf
  <2>6. Loopers' = Loopers
    <3> HIDE DEF PhaseOf
    <3> QED
      BY <2>4, <2>5 DEF Loopers
  <2>7. RunsCounted'
    BY <1>1, <2>6 DEF RunInv, RunsCounted
  <2>8. Runners'
    <3> HIDE DEF PhaseOf
    <3> QED
      BY <2>3, <2>4, <2>5 DEF RunInv, Runners
  <2>9. BrakeKnown'
    BY <1>1 DEF RunInv, BrakeKnown
  <2>10. PlayServed'
    BY <2>3 DEF PlayServed
  <2>11. SeekServed'
    <3>1. Stays(a)'
      BY <2>3 DEF Stays
    <3>2. back'[App] \notin SeekBacks
      <4>1. pc[App] \in AppSteps \cup StopSteps /\ UNCHANGED back
        BY <1>2, <2>1 DEF At, AppSteps
      <4> QED
        BY <4>1, NoCall
    <3> QED
      BY <2>3, <3>1, <3>2 DEF SeekServed, Seeking
  <2> QED
    BY <2>7, <2>8, <2>9, <2>10, <2>11 DEF RunInv
<1>3. CASE At(App, "go_on") /\ side <= NumSides
  <2>1. /\ Lower(side) /\ Unlock(side) /\ UNCHANGED running
        /\ IF NeedsThread(side) /\ left[side] > 0
           THEN Go(App, "start") /\ UNCHANGED side
           ELSE side' = side + 1 /\ UNCHANGED callVars
    BY <1>3 DEF GoOn, At
  <2>2. side \in Sides /\ side \in Nat /\ \A s \in Sides : s \in Nat
    <3>1. side \in Nat \ {0}
      BY DEF Types, StreamTypes
    <3> QED
      BY <1>3, <3>1 DEF Sides
  <2>3. CASE NeedsThread(side) /\ left[side] > 0
    <3>1. "start" \in Elsewhere
      BY ElsewhereIs
    <3> QED
      BY <1>1, <2>1, <2>3, <3>1, ElsewhereRuns DEF Types
  <2>4. CASE ~(NeedsThread(side) /\ left[side] > 0)
    <3>1. side' = side + 1 /\ UNCHANGED <<pc, job, back>>
      BY <2>1, <2>4 DEF callVars
    <3>2. pc[side] # "again"
      <4>1. lock[side] = App
        BY <1>3, <2>2 DEF Own, AppLocks, At
      <4>2. HasLoop("again")
        BY DEF HasLoop, LoopSteps
      <4> QED
        BY <2>2, <4>1, <4>2 DEF Own, LoopsLocked
    <3>3. \A s \in Sides : s = side /\ left[s] > 0 => Stays(s)'
      BY <2>1, <2>4, <3>1, <3>2 DEF NeedsThread, Stays
    <3>4. \A s \in Sides : Stays(s) => Stays(s)'
      BY <1>1, <2>1, <3>1 DEF Stays
    <3>5. ~Seeking'
      <4>1. back[App] \notin SeekBacks
        BY <1>3, NoCall DEF At, AppSteps
      <4> QED
        BY <1>3, <3>1, <4>1 DEF Seeking, At
    <3>6. ~braked /\ seeked => \E s \in Sides : \/ s >= side /\ left[s] > 0
                                                \/ s < side /\ Stays(s)
      BY <1>3 DEF RunInv, SeekServed, At
    <3>7. ~braked /\ seeked => \E s \in Sides : \/ s >= side' /\ left[s] > 0
                                                \/ s < side' /\ Stays(s)'
      <4>1. SUFFICES ASSUME ~braked, seeked
                     PROVE  \E s \in Sides : \/ s >= side' /\ left[s] > 0
                                             \/ s < side' /\ Stays(s)'
        OBVIOUS
      <4>2. PICK s \in Sides : \/ s >= side /\ left[s] > 0
                               \/ s < side /\ Stays(s)
        BY <3>6, <4>1
      <4>3. CASE s = side
        <5>1. left[side] > 0 /\ s < side'
          BY <2>2, <3>1, <4>2, <4>3
        <5> QED
          BY <3>3, <4>3, <5>1
      <4>4. CASE s # side
        <5>1. (s >= side => s >= side') /\ (s < side => s < side')
          BY <2>2, <3>1, <4>4
        <5> QED
          BY <3>4, <4>2, <5>1
      <4> QED
        BY <4>3, <4>4
    <3>8. SeekServed'
      BY <1>1, <1>3, <3>1, <3>5, <3>7 DEF SeekServed, At
    <3> QED
      BY <1>1, <2>1, <3>1, <3>8, AppRuns
  <2> QED
    BY <2>3, <2>4
<1> QED
  BY <1>2, <1>3 DEF GoOn

LEMMA PlayingRuns ==
    ASSUME RunInv, Types, Shape, Shape', Playing
    PROVE  RunInv'
<1> USE Actors
<1>1. UNCHANGED <<demuxers_running, running, braked, emergency_brake, left, over, seeked, side>>
  BY DEF Playing, brakeVars, demuxVars, appVars
<1>2. CASE At(App, "played")
  <2>1. Go(App, "idle") /\ UNCHANGED status
    BY <1>2 DEF Playing, At
  <2>2. "idle" \in Elsewhere
    BY ElsewhereIs
  <2> QED
    BY <1>1, <2>1, <2>2, ElsewhereRuns DEF Types
<1>3. CASE At(App, "go_on") /\ side > NumSides
  <2>1. Go(App, "played") /\ (status' = status \/ seeked)
    BY <1>3 DEF Playing, At
  <2>2. Alone(App) /\ pc'[App] = "played"
    BY <2>1, GoAlone DEF Types
  <2>3. SeekServed'
    <3>1. pc'[App] \in AppSteps \cup StopSteps
      BY <2>2 DEF AppSteps
    <3> QED
      BY <2>2, <3>1, NoCallAfter, SeekNone
  <2>4. \A s \in Sides : Phase(pc'[s], job'[s]) = PhaseOf(s)
    BY <2>2 DEF Alone, PhaseOf
  <2>5. \A s \in Sides : pc'[s] = pc[s]
    BY <2>2 DEF Alone
  <2>6. ~braked /\ seeked => \E s \in Sides : pc[s] # "off"
    <3>1. ASSUME ~braked, seeked
          PROVE  \E s \in Sides : pc[s] # "off"
      <4>1. PICK s \in Sides : \/ s >= side /\ left[s] > 0
                               \/ s < side /\ Stays(s)
        BY <1>3, <3>1 DEF RunInv, SeekServed, At
      <4>2. ~(s >= side)
        BY <1>3 DEF Sides, Types, StreamTypes
      <4>3. running[s]
        BY <4>1, <4>2 DEF Stays
      <4>4. PhaseOf(s) \in {"start", "looping"}
        BY <4>3 DEF RunInv, Runners
      <4>5. pc[s] # "off"
        BY <4>4, Phases DEF PhaseOf
      <4> QED
        BY <4>5
    <3> QED
      BY <3>1
  <2>7. PlayServed'
    BY <1>1, <2>1, <2>5, <2>6 DEF RunInv, PlayServed
  <2>8. Loopers' = Loopers /\ \A s \in Sides : PhaseOf(s)' = PhaseOf(s)
    BY <2>4 DEF Loopers, PhaseOf
  <2>9. RunsCounted' /\ Runners' /\ BrakeKnown'
    BY <1>1, <2>8 DEF RunInv, RunsCounted, Runners, BrakeKnown
  <2> QED
    BY <2>3, <2>7, <2>9 DEF RunInv
<1> QED
  BY <1>2, <1>3 DEF Playing

-----------------------------------------------------------------------------
(* RunInv is inductive, next to SyncInv. *)

LEMMA RunInvInit ==
    ASSUME Init PROVE RunInv
<1> USE Actors
<1>1. \A s \in Sides : PhaseOf(s) = "off" /\ ~running[s]
  BY Phases DEF Init, PhaseOf
<1>2. Loopers = {}
  BY <1>1 DEF Loopers
<1>3. RunsCounted
  BY <1>2, FS_EmptySet DEF RunsCounted, Init
<1>4. Runners /\ BrakeKnown
  BY <1>1 DEF Runners, BrakeKnown, Init
<1>5. PlayServed /\ SeekServed
  BY DEF PlayServed, SeekServed, Init
<1> QED
  BY <1>3, <1>4, <1>5 DEF RunInv

LEMMA RunInvNext ==
    ASSUME SyncInv, RunInv, [Next]_vars PROVE RunInv'
<1>1. Types /\ CallTypes /\ Shape /\ Own /\ Syncs
  BY DEF SyncInv, Types
<1>2. Shape'
  BY SyncInvNext DEF SyncInv
<1>3. ASSUME NEW t \in Threads, GoesOn(t)
      PROVE  RunInv'
  <2>1. CASE PairStep(t)
    BY <1>1, <2>1, PairRuns
  <2>2. CASE t \in Sides /\ LoopExit(t)
    BY <1>1, <2>2, LoopExitRuns
  <2>3. CASE Sync(t)
    BY <1>1, <2>3, SyncRuns
  <2>4. CASE Flush(t)
    BY <1>1, <2>4, FlushRuns
  <2>5. CASE t \in Sides /\ DemuxStep(t)
    <3>1. \/ LoopStart(t) \/ Chunk(t) \/ SendData(t) \/ LetIn(t) \/ Drain(t) \/ Delay(t)
          \/ Again(t) \/ EndWait(t) \/ Ended(t) \/ StreamEnd(t)
      BY <2>5 DEF DemuxStep
    <3> QED
      BY <1>1, <2>5, <3>1, LoopStartRuns, ChunkRuns, SendDataRuns, LetInRuns, DrainRuns, DelayRuns,
         AgainRuns, EndWaitRuns, EndedRuns, StreamEndRuns
  <2>6. CASE t = App /\ AppStep
    <3>1. StopSide \/ Open \/ PlayClear \/ Seek \/ GoOn \/ Playing
      BY <2>6 DEF AppStep
    <3> QED
      BY <1>1, <1>2, <3>1, StopSideRuns, OpenRuns, PlayClearRuns, SeekRuns, GoOnRuns, PlayingRuns
  <2> QED
    BY <1>3, <2>1, <2>2, <2>3, <2>4, <2>5, <2>6 DEF GoesOn
<1>4. CASE \E t \in Threads : Emergency(t)
  BY <1>1, <1>4, EmergencyRuns
<1>5. CASE \E f \in Fifos : DecoderStep(f)
  BY <1>1, <1>5, DecoderRuns
<1>6. CASE StopBegin \/ SetGapless \/ PlayBegin
  BY <1>1, <1>2, <1>6, StopBeginRuns, SetGaplessRuns, PlayBeginRuns
<1>7. CASE \E s \in Sides : Jump(s)
  BY <1>1, <1>7, JumpRuns
<1>8. CASE UNCHANGED vars
  BY <1>1, <1>8, StutterRuns
<1> QED
  BY <1>3, <1>4, <1>5, <1>6, <1>7, <1>8 DEF Next, Asks, Rest

\* demuxers_running is the number of demuxers in their loops, thread_running
\* is true of demuxers in their loops only, and a seek that was accepted leaves
\* a demuxer that plays.
THEOREM RunInvariant == Spec => []RunInv
<1>1. Init => RunInv
  BY RunInvInit
<1>2. SyncInv /\ RunInv /\ [Next]_vars => RunInv'
  BY RunInvNext
<1> QED
  BY <1>1, <1>2, SyncInvariant, PTL DEF Spec

\* xine_play never leaves a stream with XINE_STATUS_PLAY that has no demuxer,
\* for any number of side streams, requests and buffers, unless the emergency
\* exit was taken: the demuxer that accepted the seek went on, or waits at its
\* end until the application has set the status.
THEOREM PlayHasDemuxerHolds == Spec => []PlayHasDemuxer
<1>1. RunInv => PlayHasDemuxer
  BY DEF RunInv, PlayServed, PlayHasDemuxer, At
<1> QED
  BY <1>1, RunInvariant, PTL

\* Only LoopExit takes a demuxer away from the end of its loop.
LEMMA ExitLeft ==
    ASSUME Types, Shape, Syncs, [Next]_vars, NEW s \in Sides, At(s, "exit"), pc'[s] # "exit"
    PROVE  LoopExit(s)
<1> USE Actors
<1>1. s \in Threads /\ s # App /\ pc[s] = "exit" /\ CallTypes /\ pc[s] \notin CallSteps
  BY CallSteps1 DEF At, Types
<1>2. ASSUME NEW t \in Threads, Alone(t)
      PROVE  t = s
  BY <1>1, <1>2 DEF Alone
<1>3. ASSUME NEW t \in Threads, PairStep(t) \/ Sync(t) \/ Flush(t)
      PROVE  FALSE
  <2>1. Calling(t)
    BY <1>1, <1>3, PairCalling, SyncCalling, FlushCalling
  <2> QED
    BY <1>1, <1>2, <2>1 DEF Calling
<1>4. ASSUME NEW t \in Sides, DemuxStep(t)
      PROVE  FALSE
  <2>1. pc[t] # "exit"
    BY <1>4 DEF DemuxStep, LoopStart, Chunk, SendData, LetIn, Drain, Delay, Again, EndWait, Ended,
                StreamEnd, At
  <2>2. (\E step : Go(t, step)) \/ SendPair(t, "nop", "drain") \/ UNCHANGED callVars
    BY <1>4 DEF DemuxStep, LoopStart, Chunk, SendData, LetIn, Drain, Delay, Again, EndWait, Ended,
                StreamEnd
  <2>3. Alone(t)
    BY <1>1, <2>2, GoAlone, SendAlone DEF callVars, Alone
  <2> QED
    BY <1>1, <1>2, <2>1, <2>3
<1>5. ASSUME AppStep \/ StopBegin \/ SetGapless \/ PlayBegin
      PROVE  FALSE
  <2>1. CASE GoOn /\ At(App, "start")
    <3>1. pc' = [pc EXCEPT ![App] = "go_on", ![side] = "start"] /\ pc[side] = "off"
      BY <2>1 DEF GoOn, At
    <3> QED
      BY <1>1, <3>1 DEF CallTypes
  <2>2. CASE ~(GoOn /\ At(App, "start"))
    <3>1. ASSUME StopSide PROVE pc'[s] = pc[s]
      <4>1. \/ \E step : Go(App, step)
            \/ Return(App) \/ UNCHANGED callVars
            \/ pc' = [pc EXCEPT ![App] = "flush"]
        BY <3>1 DEF StopSide
      <4> QED
        BY <1>1, <4>1, GoAlone, ReturnAlone DEF callVars, Alone, CallTypes
    <3>2. ASSUME Open \/ PlayClear \/ Playing \/ PlayBegin PROVE pc'[s] = pc[s]
      <4>1. (\E step : Go(App, step)) \/ SendPair(App, "headers", "opened")
        BY <3>2 DEF Open, PlayClear, Playing, PlayBegin, HeadersDone
      <4> QED
        BY <1>1, <4>1, GoAlone, SendAlone DEF Alone
    <3>3. ASSUME Seek PROVE pc'[s] = pc[s]
      <4>1. (\E step : Go(App, step)) \/ UNCHANGED callVars \/ pc' = [pc EXCEPT ![App] = "flush"]
        BY <3>3 DEF Seek
      <4> QED
        BY <1>1, <4>1, GoAlone DEF callVars, Alone, CallTypes
    <3>4. ASSUME GoOn PROVE pc'[s] = pc[s]
      <4>1. Go(App, "start") \/ UNCHANGED callVars
        BY <2>2, <3>4 DEF GoOn
      <4> QED
        BY <1>1, <4>1, GoAlone DEF callVars, Alone
    <3>5. ASSUME StopBegin \/ SetGapless PROVE pc'[s] = pc[s]
      <4>1. \/ pc' = [pc EXCEPT ![App] = "stop_side"] \/ pc' = [pc EXCEPT ![App] = "alloc_video"]
            \/ UNCHANGED callVars
        BY <3>5 DEF StopBegin, SetGapless
      <4> QED
        BY <1>1, <4>1 DEF callVars, CallTypes
    <3> QED
      BY <1>1, <1>5, <3>1, <3>2, <3>3, <3>4, <3>5 DEF AppStep, At
  <2> QED
    BY <2>1, <2>2
<1>6. ASSUME NEW t \in Threads, Emergency(t)
      PROVE  FALSE
  <2>1. pc[t] \in {"sync_wait", "end_wait"}
    BY <1>6 DEF Emergency, Syncs, Asleep
  <2>2. Go(t, "finished") \/ Return(t)
    BY <1>6 DEF Emergency
  <2>3. Alone(t)
    BY <1>1, <2>2, GoAlone, ReturnAlone
  <2> QED
    BY <1>1, <1>2, <2>1, <2>3
<1>7. ASSUME (\E f \in Fifos : DecoderStep(f)) \/ UNCHANGED vars
      PROVE  FALSE
  BY <1>1, <1>7 DEF DecoderStep, vars, callVars
<1>8. ASSUME NEW t \in Sides, Jump(t)
      PROVE  FALSE
  <2>1. pc[t] = "chunk" /\ pc' = [pc EXCEPT ![t] = "flush"]
    BY <1>8 DEF Jump, At
  <2> QED
    BY <1>1, <2>1 DEF CallTypes
<1>9. ASSUME NEW t \in Sides, LoopExit(t)
      PROVE  t = s
  <2>1. SendPair(t, "end", "ended") \/ Go(t, "off")
    BY <1>9 DEF LoopExit
  <2>2. Alone(t)
    BY <1>1, <2>1, SendAlone, GoAlone
  <2> QED
    BY <1>2, <2>2
<1> QED
  BY <1>3, <1>4, <1>5, <1>6, <1>7, <1>8, <1>9 DEF Next, GoesOn, Asks, Rest

\* The demuxer that ends the stream is the last one in its loop; when threads
\* run as soon as they are made (Punctual), none is about to start either.
THEOREM LastSideEndsHolds ==
    ASSUME Punctual
    PROVE  Spec => LastSideEnds
<1>1. ASSUME SyncInv, RunInv, [Next]_vars, NEW s \in Sides,
             At(s, "exit"), pc'[s] # "exit", pc'[s] # "off", NEW r \in Sides \ {s}
      PROVE  ~running[r]
  <2> USE Actors
  <2>1. Types /\ CallTypes /\ Shape /\ Own /\ Syncs
    BY <1>1 DEF SyncInv, Types
  <2>2. LoopExit(s)
    BY <1>1, <2>1, ExitLeft
  <2>3. demuxers_running - 1 = 0 /\ \A q \in Sides : Counted(q)
    <3>1. ~Go(s, "off")
      BY <1>1, <2>1, GoAlone
    <3> QED
      BY <2>2, <3>1, Punctual DEF LoopExit, LastSide
  <2>4. s \in Loopers
    BY <1>1, Phases DEF Loopers, PhaseOf, At
  <2>5. Cardinality(Loopers) = 1
    BY <1>1, <2>3, LoopersFinite DEF RunInv, RunsCounted
  <2>6. Loopers \ {s} = {}
    <3>1. IsFiniteSet(Loopers \ {s}) /\ Cardinality(Loopers \ {s}) = 0
      BY <2>4, <2>5, LoopersFinite, FS_RemoveElement
    <3> QED
      BY <3>1, FS_EmptySet
  <2>7. r \notin Loopers /\ pc[r] # "start"
    BY <2>3, <2>6 DEF Counted, At
  <2>8. PhaseOf(r) \notin {"looping", "start"}
    BY <2>7, Phases DEF Loopers, PhaseOf
  <2> QED
    BY <1>1, <2>8 DEF RunInv, Runners
<1>2. SyncInv /\ RunInv /\ [Next]_vars =>
        [\A s \in Sides : At(s, "exit") /\ pc'[s] # "exit" /\ pc'[s] # "off" =>
            \A r \in Sides \ {s} : ~running[r]]_vars
  BY <1>1
<1> QED
  BY <1>2, SyncInvariant, RunInvariant, PTL DEF Spec, LastSideEnds
=============================================================================
