----------------------------- MODULE SharedProofs -----------------------------
(***************************************************************************)
(* Proofs about what threads share (MCShared).                              *)
(*                                                                          *)
(* Video frames, for any number of frames and clients: whatever the clients *)
(* of a video port do, a frame has exactly the locks that are taken for it  *)
(* and is in one place only, and a flush leaves none of the frames of       *)
(* before it behind.  The invariant follows the frames through the two      *)
(* queues and the hands of the clients and the loop; the first part has the *)
(* lemmas on the sequences that the queues are.                             *)
(*                                                                          *)
(* Discontinuities, for any number of them: what takes effect does so once  *)
(* and in order, and no decoder passes it before.  The properties are not   *)
(* inductive: what a side that waits will find when it is told has to be    *)
(* known (Behind).                                                          *)
(*                                                                          *)
(* Post plugins, for any number of plugins with one input port each: a use  *)
(* count is what needs the port, and the last use of a plugin that was      *)
(* disposed of frees it, once.  What has to be known is how far the dispose *)
(* of each plugin has got (Stage), that one call at a time disposes of it,  *)
(* and that the ports are not wired in a circle (NoLoops).                  *)
(***************************************************************************)
EXTENDS MCShared, SumLemmas, SequenceTheorems

\* No element is in the sequence twice.
Distinct(s) == \A i, j \in 1 .. Len(s) : s[i] = s[j] => i = j

\* Membership in the range of a sequence.
LEMMA InRange ==
    ASSUME NEW S, NEW s \in Seq(S)
    PROVE  /\ \A x : x \in Vo!Range(s) <=> \E i \in 1 .. Len(s) : s[i] = x
           /\ Vo!Range(s) \subseteq S
  BY LenProperties DEF Vo!Range

\* The empty sequence.
LEMMA NothingIn == Distinct(<<>>) /\ Vo!Range(<<>>) = {}
  BY DEF Distinct, Vo!Range

\* A sequence whose range is empty is empty, and only that one.
LEMMA EmptyRange ==
    ASSUME NEW S, NEW s \in Seq(S)
    PROVE  s = <<>> <=> Vo!Range(s) = {}
<1>1. CASE s = <<>>
  BY <1>1, NothingIn
<1>2. CASE s # <<>>
  <2>1. Len(s) \in Nat /\ Len(s) # 0
    BY <1>2, EmptySeq, LenProperties
  <2>2. s[1] \in Vo!Range(s)
    BY <2>1, InRange
  <2> QED
    BY <1>2, <2>2
<1> QED
  BY <1>1, <1>2

\* Sequences without common elements, one after the other.
LEMMA JoinDistinct ==
    ASSUME NEW S, NEW s \in Seq(S), NEW t \in Seq(S), Distinct(s), Distinct(t),
           Vo!Range(s) \cap Vo!Range(t) = {}
    PROVE  /\ s \o t \in Seq(S)
           /\ Len(s \o t) = Len(s) + Len(t)
           /\ Distinct(s \o t)
           /\ Vo!Range(s \o t) = Vo!Range(s) \cup Vo!Range(t)
<1>1. /\ s \o t \in Seq(S)
      /\ Len(s \o t) = Len(s) + Len(t)
      /\ \A i \in 1 .. Len(s) + Len(t) : (s \o t)[i] =
             IF i <= Len(s) THEN s[i] ELSE t[i - Len(s)]
  BY ConcatProperties
<1>2. Len(s) \in Nat /\ Len(t) \in Nat
  BY LenProperties
<1>3. \A x : /\ x \in Vo!Range(s) <=> \E i \in 1 .. Len(s) : s[i] = x
             /\ x \in Vo!Range(t) <=> \E i \in 1 .. Len(t) : t[i] = x
             /\ x \in Vo!Range(s \o t) <=> \E i \in 1 .. Len(s) + Len(t) : (s \o t)[i] = x
  <2>1. \A x : x \in Vo!Range(s) <=> \E i \in 1 .. Len(s) : s[i] = x
    BY InRange
  <2>2. \A x : x \in Vo!Range(t) <=> \E i \in 1 .. Len(t) : t[i] = x
    BY InRange
  <2>3. \A x : x \in Vo!Range(s \o t) <=> \E i \in 1 .. Len(s \o t) : (s \o t)[i] = x
    <3>1. s \o t \in Seq(S)
      BY <1>1
    <3> QED
      BY <3>1, InRange, Zenon
  <2> QED
    BY <2>1, <2>2, <2>3, <1>1
<1>4. Distinct(s \o t)
  <2> SUFFICES ASSUME NEW i \in 1 .. Len(s) + Len(t), NEW j \in 1 .. Len(s) + Len(t),
                      (s \o t)[i] = (s \o t)[j]
               PROVE  i = j
    BY <1>1 DEF Distinct
  <2>1. CASE i <= Len(s) /\ j <= Len(s)
    BY <2>1, <1>1, <1>2 DEF Distinct
  <2>2. CASE ~(i <= Len(s)) /\ ~(j <= Len(s))
    <3>1. i - Len(s) \in 1 .. Len(t) /\ j - Len(s) \in 1 .. Len(t)
      BY <2>2, <1>2
    <3>2. t[i - Len(s)] = t[j - Len(s)]
      BY <2>2, <1>1
    <3>3. i - Len(s) = j - Len(s)
      BY <3>1, <3>2 DEF Distinct
    <3> QED
      BY <3>3, <1>2
  <2>3. CASE i <= Len(s) /\ ~(j <= Len(s))
    <3>1. (s \o t)[i] \in Vo!Range(s)
      BY <2>3, <1>1, <1>2, <1>3
    <3>2. j - Len(s) \in 1 .. Len(t) /\ (s \o t)[j] = t[j - Len(s)]
      BY <2>3, <1>1, <1>2
    <3> QED
      BY <3>1, <3>2, <1>3
  <2>4. CASE ~(i <= Len(s)) /\ j <= Len(s)
    <3>1. (s \o t)[j] \in Vo!Range(s)
      BY <2>4, <1>1, <1>2, <1>3
    <3>2. i - Len(s) \in 1 .. Len(t) /\ (s \o t)[i] = t[i - Len(s)]
      BY <2>4, <1>1, <1>2
    <3> QED
      BY <3>1, <3>2, <1>3
  <2> QED
    BY <2>1, <2>2, <2>3, <2>4
<1>5. ASSUME NEW x
      PROVE  x \in Vo!Range(s \o t) <=> x \in Vo!Range(s) \/ x \in Vo!Range(t)
  <2>1. ASSUME x \in Vo!Range(s \o t)
        PROVE  x \in Vo!Range(s) \/ x \in Vo!Range(t)
    <3>1. PICK i \in 1 .. Len(s) + Len(t) : (s \o t)[i] = x
      BY <2>1, <1>3
    <3>2. i <= Len(s) \/ i - Len(s) \in 1 .. Len(t)
      BY <1>2
    <3> QED
      BY <3>1, <3>2, <1>1, <1>2, <1>3
  <2>2. ASSUME x \in Vo!Range(s)
        PROVE  x \in Vo!Range(s \o t)
    BY <2>2, <1>1, <1>2, <1>3
  <2>3. ASSUME x \in Vo!Range(t)
        PROVE  x \in Vo!Range(s \o t)
    <3>1. PICK i \in 1 .. Len(t) : t[i] = x
      BY <2>3, <1>3
    <3>2. i + Len(s) \in 1 .. Len(s) + Len(t) /\ (s \o t)[i + Len(s)] = t[i]
      <4>1. i + Len(s) \in 1 .. Len(s) + Len(t) /\ ~(i + Len(s) <= Len(s))
                /\ (i + Len(s)) - Len(s) = i
        BY <1>2
      <4> QED
        BY <4>1, <1>1
    <3> QED
      BY <3>1, <3>2, <1>3
  <2> QED
    BY <2>1, <2>2, <2>3
<1> QED
  BY <1>1, <1>4, <1>5

\* A sequence without its first element.
LEMMA TailDistinct ==
    ASSUME NEW S, NEW s \in Seq(S), s # <<>>, Distinct(s)
    PROVE  /\ Head(s) \in S
           /\ Head(s) \in Vo!Range(s)
           /\ Tail(s) \in Seq(S)
           /\ Len(Tail(s)) = Len(s) - 1
           /\ Distinct(Tail(s))
           /\ Vo!Range(Tail(s)) = Vo!Range(s) \ {Head(s)}
<1>1. /\ Head(s) \in S
      /\ Tail(s) \in Seq(S)
      /\ Len(Tail(s)) = Len(s) - 1
      /\ \A i \in 1 .. Len(Tail(s)) : Tail(s)[i] = s[i + 1]
  BY HeadTailProperties
<1>2. Len(s) \in Nat /\ Len(s) # 0 /\ Head(s) = s[1]
  BY EmptySeq, LenProperties
<1>3. \A x : /\ x \in Vo!Range(s) <=> \E i \in 1 .. Len(s) : s[i] = x
             /\ x \in Vo!Range(Tail(s)) <=> \E i \in 1 .. Len(Tail(s)) : Tail(s)[i] = x
  <2>1. \A x : x \in Vo!Range(s) <=> \E i \in 1 .. Len(s) : s[i] = x
    BY InRange
  <2>2. \A x : x \in Vo!Range(Tail(s)) <=> \E i \in 1 .. Len(Tail(s)) : Tail(s)[i] = x
    BY <1>1, InRange
  <2> QED
    BY <2>1, <2>2
<1>4. \A i \in 1 .. Len(Tail(s)) : i + 1 \in 1 .. Len(s)
  BY <1>1, <1>2
<1>5. Distinct(Tail(s))
  <2> SUFFICES ASSUME NEW i \in 1 .. Len(Tail(s)), NEW j \in 1 .. Len(Tail(s)),
                      Tail(s)[i] = Tail(s)[j]
               PROVE  i = j
    BY DEF Distinct
  <2>1. i + 1 = j + 1
    BY <1>1, <1>4 DEF Distinct
  <2> QED
    BY <2>1
<1>6. ASSUME NEW x
      PROVE  x \in Vo!Range(Tail(s)) <=> x \in Vo!Range(s) /\ x # Head(s)
  <2>1. ASSUME x \in Vo!Range(Tail(s))
        PROVE  x \in Vo!Range(s) /\ x # Head(s)
    <3>1. PICK i \in 1 .. Len(Tail(s)) : Tail(s)[i] = x
      BY <2>1, <1>3
    <3>2. i + 1 \in 1 .. Len(s) /\ 1 \in 1 .. Len(s) /\ s[i + 1] = x /\ i + 1 # 1
      BY <3>1, <1>1, <1>2, <1>4
    <3> QED
      BY <3>2, <1>2, <1>3 DEF Distinct
  <2>2. ASSUME x \in Vo!Range(s), x # Head(s)
        PROVE  x \in Vo!Range(Tail(s))
    <3>1. PICK i \in 1 .. Len(s) : s[i] = x
      BY <2>2, <1>3
    <3>2. i - 1 \in 1 .. Len(Tail(s)) /\ (i - 1) + 1 = i
      BY <3>1, <2>2, <1>1, <1>2
    <3>3. Tail(s)[i - 1] = x
      BY <3>1, <3>2, <1>1
    <3> QED
      BY <3>2, <3>3, <1>3
  <2> QED
    BY <2>1, <2>2
<1> QED
  BY <1>1, <1>2, <1>3, <1>5, <1>6

\* A sequence with one more element.
LEMMA AppendDistinct ==
    ASSUME NEW S, NEW s \in Seq(S), NEW e \in S, Distinct(s), e \notin Vo!Range(s)
    PROVE  /\ Append(s, e) \in Seq(S)
           /\ Append(s, e) # <<>>
           /\ Distinct(Append(s, e))
           /\ Vo!Range(Append(s, e)) = Vo!Range(s) \cup {e}
<1>1. PICK t : t = <<e>>
  OBVIOUS
<1>2. t \in Seq(S) /\ Len(t) = 1 /\ t[1] = e
  BY <1>1
<1>3. Distinct(t) /\ Vo!Range(t) = {e}
  BY <1>2 DEF Distinct, Vo!Range
<1>4. Append(s, e) = s \o t
  BY <1>1, AppendIsConcat
<1>5. Append(s, e) # <<>>
  BY AppendProperties
<1>6. Vo!Range(s) \cap Vo!Range(t) = {}
  BY <1>3
<1>7. /\ s \o t \in Seq(S)
      /\ Distinct(s \o t)
      /\ Vo!Range(s \o t) = Vo!Range(s) \cup Vo!Range(t)
  BY <1>2, <1>3, <1>6, JoinDistinct
<1> QED
  BY <1>3, <1>4, <1>5, <1>7

\* A part of a sequence, which Vo!RemoveAt joins with another part.
LEMMA PartDistinct ==
    ASSUME NEW S, NEW s \in Seq(S), Distinct(s), NEW m \in Nat \ {0}, NEW n \in Nat,
           n <= Len(s)
    PROVE  /\ SubSeq(s, m, n) \in Seq(S)
           /\ Distinct(SubSeq(s, m, n))
           /\ \A x : x \in Vo!Range(SubSeq(s, m, n)) <=> \E i \in m .. n : s[i] = x
<1>1. Len(s) \in Nat /\ \A i \in m .. n : i \in 1 .. Len(s) /\ s[i] \in S
  BY LenProperties
<1>2. /\ SubSeq(s, m, n) \in Seq(S)
      /\ Len(SubSeq(s, m, n)) = IF m <= n THEN n - m + 1 ELSE 0
      /\ \A i \in 1 .. n - m + 1 : SubSeq(s, m, n)[i] = s[m + i - 1]
  BY <1>1, SubSeqProperties
<1>3. \A i \in 1 .. Len(SubSeq(s, m, n)) :
          m + i - 1 \in m .. n /\ SubSeq(s, m, n)[i] = s[m + i - 1]
  BY <1>2
<1>4. \A i \in m .. n : i - m + 1 \in 1 .. Len(SubSeq(s, m, n)) /\ m + (i - m + 1) - 1 = i
  BY <1>2
<1>5. Distinct(SubSeq(s, m, n))
  <2> SUFFICES ASSUME NEW i \in 1 .. Len(SubSeq(s, m, n)), NEW j \in 1 .. Len(SubSeq(s, m, n)),
                      SubSeq(s, m, n)[i] = SubSeq(s, m, n)[j]
               PROVE  i = j
    BY DEF Distinct
  <2>1. m + i - 1 \in 1 .. Len(s) /\ m + j - 1 \in 1 .. Len(s) /\ s[m + i - 1] = s[m + j - 1]
    BY <1>1, <1>3
  <2>2. m + i - 1 = m + j - 1
    BY <2>1 DEF Distinct
  <2> QED
    BY <2>2
<1>6. ASSUME NEW x
      PROVE  x \in Vo!Range(SubSeq(s, m, n)) <=> \E i \in m .. n : s[i] = x
  <2>1. x \in Vo!Range(SubSeq(s, m, n)) <=>
            \E i \in 1 .. Len(SubSeq(s, m, n)) : SubSeq(s, m, n)[i] = x
    BY <1>2, InRange
  <2>2. ASSUME NEW i \in 1 .. Len(SubSeq(s, m, n)), SubSeq(s, m, n)[i] = x
        PROVE  \E j \in m .. n : s[j] = x
    BY <2>2, <1>3
  <2>3. ASSUME NEW i \in m .. n, s[i] = x
        PROVE  \E j \in 1 .. Len(SubSeq(s, m, n)) : SubSeq(s, m, n)[j] = x
    BY <2>3, <1>3, <1>4
  <2> QED
    BY <2>1, <2>2, <2>3
<1> QED
  BY <1>2, <1>5, <1>6

\* A sequence without its i-th element.
LEMMA RemoveDistinct ==
    ASSUME NEW S, NEW s \in Seq(S), Distinct(s), NEW i \in 1 .. Len(s)
    PROVE  /\ s[i] \in Vo!Range(s)
           /\ Vo!RemoveAt(s, i) \in Seq(S)
           /\ Distinct(Vo!RemoveAt(s, i))
           /\ Vo!Range(Vo!RemoveAt(s, i)) = Vo!Range(s) \ {s[i]}
<1>1. /\ Len(s) \in Nat
      /\ i - 1 \in Nat /\ i - 1 <= Len(s) /\ i + 1 \in Nat \ {0} /\ 1 \in Nat \ {0}
      /\ \A j \in 1 .. i - 1 : j \in 1 .. Len(s) /\ j # i
      /\ \A j \in i + 1 .. Len(s) : j \in 1 .. Len(s) /\ j # i /\ j \notin 1 .. i - 1
      /\ \A j \in 1 .. Len(s) : j = i \/ j \in 1 .. i - 1 \/ j \in i + 1 .. Len(s)
  BY LenProperties
<1>2. PICK t : t = SubSeq(s, 1, i - 1)
  OBVIOUS
<1>3. PICK u : u = SubSeq(s, i + 1, Len(s))
  OBVIOUS
<1>4. /\ t \in Seq(S) /\ Distinct(t)
      /\ \A x : x \in Vo!Range(t) <=> \E j \in 1 .. i - 1 : s[j] = x
  BY <1>1, <1>2, PartDistinct
<1>5. /\ u \in Seq(S) /\ Distinct(u)
      /\ \A x : x \in Vo!Range(u) <=> \E j \in i + 1 .. Len(s) : s[j] = x
  BY <1>1, <1>3, PartDistinct
<1>6. \A x : x \in Vo!Range(s) <=> \E j \in 1 .. Len(s) : s[j] = x
  BY InRange
<1>7. ASSUME NEW x, x \in Vo!Range(t), x \in Vo!Range(u)
      PROVE  FALSE
  <2>1. PICK j \in 1 .. i - 1 : s[j] = x
    BY <1>4, <1>7
  <2>2. PICK k \in i + 1 .. Len(s) : s[k] = x
    BY <1>5, <1>7
  <2>3. j \in 1 .. Len(s) /\ k \in 1 .. Len(s) /\ j # k
    BY <2>1, <2>2, <1>1
  <2> QED
    BY <2>1, <2>2, <2>3 DEF Distinct
<1>8. Vo!Range(t) \cap Vo!Range(u) = {}
  BY <1>7
<1>9. /\ t \o u \in Seq(S)
      /\ Distinct(t \o u)
      /\ Vo!Range(t \o u) = Vo!Range(t) \cup Vo!Range(u)
  BY <1>4, <1>5, <1>8, JoinDistinct
<1>10. Vo!RemoveAt(s, i) = t \o u
  BY <1>2, <1>3 DEF Vo!RemoveAt
<1>11. ASSUME NEW x
       PROVE  x \in Vo!Range(t) \cup Vo!Range(u) <=> x \in Vo!Range(s) \ {s[i]}
  <2>1. ASSUME x \in Vo!Range(t) \cup Vo!Range(u)
        PROVE  x \in Vo!Range(s) \ {s[i]}
    <3>1. \E j \in 1 .. Len(s) : s[j] = x /\ j # i
      BY <2>1, <1>1, <1>4, <1>5
    <3> QED
      BY <3>1, <1>6 DEF Distinct
  <2>2. ASSUME x \in Vo!Range(s) \ {s[i]}
        PROVE  x \in Vo!Range(t) \cup Vo!Range(u)
    <3>1. PICK j \in 1 .. Len(s) : s[j] = x
      BY <2>2, <1>6
    <3>2. j # i
      BY <3>1, <2>2
    <3> QED
      BY <3>1, <3>2, <1>1, <1>4, <1>5
  <2> QED
    BY <2>1, <2>2
<1>12. s[i] \in Vo!Range(s)
  BY <1>6
<1> QED
  BY <1>9, <1>10, <1>11, <1>12

\* Vo!LastIn finds an element of the list in the set when there is one.
LEMMA LastInFits ==
    ASSUME NEW S, NEW list \in Seq(S), NEW C, NEW e
    PROVE  \/ Vo!LastIn(list, C, e) \in C \cap Vo!Range(list)
           \/ Vo!LastIn(list, C, e) = e /\ C \cap Vo!Range(list) = {}
<1> DEFINE places == {i \in DOMAIN list : list[i] \in C}
<1>1. DOMAIN list = 1 .. Len(list) /\ Len(list) \in Nat
  BY LenProperties
<1>2. \A x : x \in Vo!Range(list) <=> \E i \in 1 .. Len(list) : list[i] = x
  BY InRange
<1>3. Vo!LastIn(list, C, e) = IF places = {} THEN e ELSE list[Vo!Max(places)]
  BY DEF Vo!LastIn
<1>4. CASE places = {}
  BY <1>1, <1>2, <1>3, <1>4
<1>5. CASE places # {}
  <2>1. IsFiniteSet(1 .. Len(list))
    BY <1>1, FS_Interval
  <2>2. places \subseteq 1 .. Len(list) /\ places \subseteq Int
    BY <1>1
  <2>3. IsFiniteSet(places)
    BY <2>1, <2>2, FS_Subset
  <2>4. \E x \in places : \A y \in places : x >= y
    <3> HIDE DEF places
    <3> QED
      BY <2>2, <2>3, <1>5, Extremes
  <2>5. Vo!Max(places) \in places
    <3> HIDE DEF places
    <3> QED
      BY <2>4 DEF Vo!Max
  <2>6. list[Vo!Max(places)] \in C /\ list[Vo!Max(places)] \in Vo!Range(list)
    BY <2>5, <1>1, <1>2
  <2> QED
    BY <2>6, <1>3, <1>5
<1> QED
  BY <1>4, <1>5

-----------------------------------------------------------------------------
\* Frames in one of the lists.
Listed == Vo!Range(queue) \cup Vo!Range(ready)

\* What the frame in the render thread's hand is counted for.
HandRefs == IF rpc \in {"grab", "step_grab", "clone", "pause_clone"} THEN 1 ELSE 2

\* The references of the holders of a frame.
Refs(f) ==
    (IF f \in mine THEN 1 ELSE 0) + (IF f = still THEN 1 ELSE 0) + (IF f \in Listed THEN 2 ELSE 0)
        + (IF f = filler THEN 2 ELSE 0) + (IF f = hand THEN HandRefs ELSE 0)

Holding == {"show", "step", "clone", "pause_clone", "grab", "step_grab", "tell"}

Places == {"next", "tell", "scan", "show", "grab", "idle", "relax", "clone", "sleep", "pause",
           "paused", "step", "step_grab", "pause_clone", "pause_wait", "pause_tell", "unpause"}

VoTypes ==
    /\ lock \in [Frames -> Int] /\ free \subseteq Frames /\ mine \subseteq Frames
    /\ queue \in Seq(Frames) /\ ready \in Seq(Frames)
    /\ hand \in Frames \cup {None} /\ filler \in Frames \cup {None}
    /\ still \in Frames \cup {None} /\ fresh \in Frames \cup {None}
    /\ flush_extra \in Nat /\ reserved \in Nat
    /\ rpc \in Places
    /\ dpc \in {"get", "draw", "append"}

\* A frame is in one list at most, and once; the filler is in none.
Apart ==
    /\ Distinct(queue) /\ Distinct(ready)
    /\ Vo!Range(queue) \cap Vo!Range(ready) = {}
    /\ filler \notin Listed

\* The render thread has a frame in its hand while it shows it, and the decoder
\* alone has the frame it is about to queue.
Hands ==
    /\ hand # None => rpc \in Holding
    /\ fresh # None => fresh \in mine /\ fresh \notin Listed /\ fresh \notin {still, filler, hand}
    /\ dpc # "get" => fresh # None

\* The counters, and which frames are free.
Counted == \A f \in Frames : lock[f] = Refs(f) /\ (f \in free <=> lock[f] = 0)

\* What a flush waits for.
Flushing ==
    /\ ready # <<>> => flush_extra > 0
    /\ rpc \in {"show", "step"} /\ flush_extra = 0 => hand \in first
    /\ rpc = "tell" /\ hand # None => hand \in first

VoInv == VoTypes /\ Apart /\ Hands /\ Counted /\ Flushing

\* What an invariant has to say of the frames in the lists.
LEMMA ListedFrames ==
    ASSUME VoTypes
    PROVE  Listed \subseteq Frames
  BY InRange DEF VoTypes, Listed

\* Nobody refers to a frame whose references are none.
LEMMA NoRefs ==
    ASSUME NEW f
    PROVE  /\ Refs(f) \in Nat
           /\ Refs(f) = 0 <=> /\ f \notin mine /\ f \notin Listed
                             /\ f # still /\ f # filler /\ f # hand
<1>1. HandRefs \in {1, 2}
  BY DEF HandRefs
<1> QED
  BY <1>1 DEF Refs

\* The invariant holds at first.
LEMMA VoInitInv ==
    ASSUME Vo!Init
    PROVE  VoInv
<1>1. VoTypes
  BY DEF Vo!Init, VoTypes, Places
<1>2. Listed = {}
  BY NothingIn DEF Vo!Init, Listed
<1>3. Apart
  BY <1>2, NothingIn DEF Vo!Init, Apart
<1>4. Hands
  BY DEF Vo!Init, Hands
<1>5. Counted
  BY <1>2, VideoAssumption DEF Vo!Init, Counted, Refs
<1>6. Flushing
  BY DEF Vo!Init, Flushing
<1> QED
  BY <1>1, <1>3, <1>4, <1>5, <1>6 DEF VoInv

\* The invariant implies what the run checks.
LEMMA VoInvLocks ==
    ASSUME VoInv
    PROVE  Vo!LocksExact /\ Vo!FlushedAway
<1>1. Vo!LocksExact
  <2> SUFFICES ASSUME NEW f \in Frames
               PROVE  /\ lock[f] = Vo!B2N(f \in mine) + Vo!B2N(f = still)
                          + 2 * Vo!B2N(f \in Vo!Range(queue) \cup Vo!Range(ready))
                          + 2 * Vo!B2N(f = filler)
                          + Vo!B2N(f = hand)
                             * (CASE rpc \in {"grab", "step_grab", "clone", "pause_clone"} -> 1
                                  [] OTHER -> 2)
                      /\ f \in free <=> lock[f] = 0
    BY DEF Vo!LocksExact
  <2>1. (CASE rpc \in {"grab", "step_grab", "clone", "pause_clone"} -> 1 [] OTHER -> 2) = HandRefs
    BY DEF HandRefs
  <2>2. Vo!B2N(f = hand) * HandRefs = IF f = hand THEN HandRefs ELSE 0
    <3>1. HandRefs \in Int
      BY DEF HandRefs
    <3>2. Vo!B2N(f = hand) = IF f = hand THEN 1 ELSE 0
      BY DEF Vo!B2N
    <3>3. CASE f = hand
      BY <3>1, <3>2, <3>3
    <3>4. CASE f # hand
      BY <3>1, <3>2, <3>4
    <3> QED
      BY <3>3, <3>4
  <2>3. /\ Vo!B2N(f \in mine) = (IF f \in mine THEN 1 ELSE 0)
        /\ Vo!B2N(f = still) = (IF f = still THEN 1 ELSE 0)
        /\ 2 * Vo!B2N(f \in Vo!Range(queue) \cup Vo!Range(ready)) = (IF f \in Listed THEN 2 ELSE 0)
        /\ 2 * Vo!B2N(f = filler) = (IF f = filler THEN 2 ELSE 0)
    BY DEF Vo!B2N, Listed
  <2>4. lock[f] = Refs(f) /\ (f \in free <=> lock[f] = 0)
    BY DEF VoInv, Counted
  <2> QED
    BY <2>1, <2>2, <2>3, <2>4 DEF Refs
<1>2. Vo!FlushedAway
  <2>1. flush_extra \in Nat /\ Flushing
    BY DEF VoInv, VoTypes
  <2>2. ~ Vo!Pending => flush_extra = 0
    BY <2>1 DEF Vo!Pending
  <2>3. flush_extra = 0 => ready = <<>> /\ (rpc \in {"show", "step"} => hand \in first)
    BY <2>1 DEF Flushing
  <2> QED
    BY <2>2, <2>3 DEF Vo!FlushedAway
<1> QED
  BY <1>1, <1>2

\* References dropped: the frames without any left become free.
LEMMA DroppedFrees ==
    ASSUME VoTypes, NEW n, \A f \in Frames : n[f] \in Nat, Vo!Dropped(n),
           \A f \in Frames : lock[f] >= n[f],
           \A f \in Frames : f \in free <=> lock[f] = 0
    PROVE  /\ lock' \in [Frames -> Int] /\ free' \subseteq Frames
           /\ \A f \in Frames : lock'[f] = lock[f] - n[f] /\ (f \in free' <=> lock'[f] = 0)
<1>1. /\ lock \in [Frames -> Int] /\ free \subseteq Frames
      /\ lock' = [f \in Frames |-> lock[f] - n[f]]
      /\ free' = free \cup {f \in Frames : n[f] > 0 /\ lock[f] <= n[f]}
  BY DEF Vo!Dropped, VoTypes
<1>2. lock' \in [Frames -> Int] /\ free' \subseteq Frames
  BY <1>1
<1>3. ASSUME NEW f \in Frames
      PROVE  lock'[f] = lock[f] - n[f] /\ (f \in free' <=> lock'[f] = 0)
  <2>1. lock[f] \in Int /\ n[f] \in Nat /\ lock'[f] = lock[f] - n[f]
    BY <1>1
  <2>2. f \in free' <=> f \in free \/ (n[f] > 0 /\ lock[f] <= n[f])
    BY <1>1
  <2> QED
    BY <2>1, <2>2
<1> QED
  BY <1>2, <1>3

\* ADD_READY_FRAMES moves the queue to the end of the ready frames, or leaves it.
LEMMA AddReadyMoves ==
    ASSUME VoTypes, NEW list \in Seq(Frames), Distinct(list), Distinct(queue),
           Vo!Range(queue) \cap Vo!Range(list) = {},
           list # <<>> => flush_extra > 0,
           Vo!AddReadyFrames(list)
    PROVE  /\ queue' \in Seq(Frames) /\ ready' \in Seq(Frames) /\ flush_extra' \in Nat
           /\ Distinct(queue') /\ Distinct(ready')
           /\ Vo!Range(queue') \cap Vo!Range(ready') = {}
           /\ Listed' = Vo!Range(queue) \cup Vo!Range(list)
           /\ ready' # <<>> => flush_extra' > 0
           /\ list # <<>> => ready' # <<>>
<1>1. queue \in Seq(Frames) /\ flush_extra \in Nat
  BY DEF VoTypes
<1>2. CASE Vo!Refill(list)
  <2>1. /\ list \o queue \in Seq(Frames)
        /\ Len(list \o queue) = Len(list) + Len(queue)
        /\ Distinct(list \o queue)
        /\ Vo!Range(list \o queue) = Vo!Range(list) \cup Vo!Range(queue)
    BY <1>1, JoinDistinct
  <2>2. ready' = list \o queue /\ flush_extra' = Len(list) + Len(queue) /\ queue' = <<>>
    BY <1>2 DEF Vo!Refill, Vo!Extra
  <2>3. Len(list) \in Nat /\ Len(queue) \in Nat
    BY <1>1, LenProperties
  <2>4. ready' # <<>> => Len(ready') # 0
    BY <2>1, <2>2, EmptySeq
  <2>5. list # <<>> => Len(list) # 0
    BY EmptySeq
  <2>6. Listed' = Vo!Range(queue') \cup Vo!Range(ready')
    BY DEF Listed
  <2>7. queue' \in Seq(Frames) /\ ready' \in Seq(Frames) /\ flush_extra' \in Nat
    BY <2>1, <2>2, <2>3
  <2>8. Len(ready') = Len(list) + Len(queue)
    BY <2>1, <2>2
  <2>9. /\ ready' # <<>> => flush_extra' > 0
        /\ list # <<>> => ready' # <<>>
    BY <2>2, <2>3, <2>4, <2>5, <2>8, EmptySeq
  <2> QED
    BY <2>1, <2>2, <2>6, <2>7, <2>9, NothingIn
<1>3. CASE ready' = list /\ UNCHANGED <<flush_extra, queue>>
  <2>1. Listed' = Vo!Range(queue') \cup Vo!Range(ready')
    BY DEF Listed
  <2> QED
    BY <2>1, <1>1, <1>3
<1> QED
  BY <1>2, <1>3 DEF Vo!AddReadyFrames

\* Steps that leave the lists and the frame in hand keep most of it.
LEMMA SameLists ==
    ASSUME VoInv, UNCHANGED <<queue, ready, filler>>
    PROVE  /\ Listed' = Listed
           /\ Apart'
           /\ queue' \in Seq(Frames) /\ ready' \in Seq(Frames)
           /\ filler' \in Frames \cup {None}
  BY DEF VoInv, VoTypes, Apart, Listed

\* Steps that leave all that is counted keep the counters exact.
LEMMA SameCounts ==
    ASSUME VoInv, UNCHANGED <<lock, free, queue, ready, filler, still, hand, mine>>,
           hand # None => HandRefs' = HandRefs
    PROVE  /\ Listed' = Listed
           /\ Apart'
           /\ Counted'
<1>1. Listed' = Listed /\ Apart'
  BY SameLists
<1>2. \A f \in Frames : Refs(f)' = Refs(f)
  <2> TAKE f \in Frames
  <2>1. f # None
    BY VideoAssumption
  <2> QED
    BY <1>1, <2>1 DEF Refs
<1>3. Counted'
  BY <1>2 DEF VoInv, Counted
<1> QED
  BY <1>1, <1>3

\* vo_get_frame takes a frame that nobody refers to.
LEMMA VoGetFrame ==
    ASSUME VoInv, Vo!GetFrame
    PROVE  VoInv'
<1>1. /\ VoTypes /\ Apart /\ Hands /\ Counted /\ Flushing
      /\ UNCHANGED <<first, queue, flush_extra, ready, hand, filler, still, rpc, reserved>>
  BY DEF VoInv, Vo!GetFrame, Vo!queueVars, Vo!renderVars, Vo!clientVars
<1>2. PICK g : g = Vo!Unused
  OBVIOUS
<1>3. g \in free
  <2>1. IsFiniteSet(free) /\ free \subseteq Int
    BY <1>1, VideoAssumption, FS_Subset DEF VoTypes
  <2>2. free # {}
    <3>1. Cardinality(free) > reserved /\ reserved \in Nat
      <4>1. Cardinality(free) > reserved
        BY DEF Vo!GetFrame, Vo!Cardinality, Cardinality
      <4>2. reserved \in Nat
        BY <1>1 DEF VoTypes
      <4> QED
        BY <4>1, <4>2
    <3>2. Cardinality({}) = 0
      BY FS_EmptySet
    <3> QED
      BY <3>1, <3>2
  <2>3. \E x \in free : \A y \in free : x <= y
    BY <2>1, <2>2, Extremes
  <2> QED
    BY <1>2, <2>3 DEF Vo!Unused, Vo!Min
<1>4. /\ free' = free \ {g} /\ lock' = [lock EXCEPT ![g] = 1]
      /\ mine' = mine \cup {g} /\ fresh' = g /\ dpc' = "draw" /\ dpc = "get"
  BY <1>2 DEF Vo!GetFrame
<1>5. g \in Frames /\ lock[g] = 0 /\ lock[g] = Refs(g)
  BY <1>1, <1>3 DEF Counted, VoTypes
<1>6. g \notin mine /\ g \notin Listed /\ g \notin {still, filler, hand}
  BY <1>5, NoRefs
<1>7. Listed' = Listed /\ Apart'
  BY <1>1, SameLists
<1>8. VoTypes'
  <2>1. lock' \in [Frames -> Int] /\ free' \subseteq Frames /\ mine' \subseteq Frames
        /\ fresh' \in Frames \cup {None}
    BY <1>1, <1>4, <1>5 DEF VoTypes
  <2> QED
    BY <2>1, <1>1, <1>4 DEF VoTypes
<1>9. Hands'
  <2>1. /\ fresh' \in mine' /\ fresh' \notin Listed' /\ fresh' # None
        /\ fresh' # still' /\ fresh' # filler' /\ fresh' # hand'
    BY <1>1, <1>4, <1>5, <1>6, <1>7, VideoAssumption
  <2>2. hand' # None => rpc' \in Holding
    BY <1>1 DEF Hands
  <2> QED
    BY <2>1, <2>2 DEF Hands
<1>10. Counted'
  <2> SUFFICES ASSUME NEW f \in Frames
               PROVE  lock'[f] = Refs(f)' /\ (f \in free' <=> lock'[f] = 0)
    BY DEF Counted
  <2>1. lock[f] = Refs(f) /\ (f \in free <=> lock[f] = 0) /\ lock \in [Frames -> Int]
    BY <1>1 DEF Counted, VoTypes
  <2>2. CASE f = g
    <3>1. lock'[f] = 1 /\ f \notin free'
      BY <2>1, <2>2, <1>4
    <3>2. Refs(f)' = 1
      BY <2>2, <1>1, <1>4, <1>6, <1>7 DEF Refs
    <3> QED
      BY <3>1, <3>2
  <2>3. CASE f # g
    <3>1. lock'[f] = lock[f] /\ (f \in free' <=> f \in free)
      BY <2>1, <2>3, <1>4
    <3>2. Refs(f)' = Refs(f)
      BY <2>3, <1>1, <1>4, <1>7 DEF Refs, HandRefs
    <3> QED
      BY <3>1, <3>2, <2>1
  <2> QED
    BY <2>2, <2>3
<1>11. Flushing'
  BY <1>1 DEF Flushing
<1> QED
  BY <1>7, <1>8, <1>9, <1>10, <1>11 DEF VoInv

\* vo_frame_draw looks at discard_frames.
LEMMA VoDraw ==
    ASSUME VoInv, Vo!Draw
    PROVE  VoInv'
<1>1. /\ VoTypes /\ Apart /\ Hands /\ Counted /\ Flushing
      /\ UNCHANGED <<lock, free, first, queue, flush_extra, ready, hand, filler, still, rpc,
                     reserved, mine>>
      /\ fresh' \in {fresh, None} /\ dpc' \in {"get", "append"}
      /\ dpc' = "append" => fresh' = fresh /\ dpc = "draw"
  BY DEF VoInv, Vo!Draw, Vo!freeVars, Vo!queueVars, Vo!renderVars, Vo!clientVars
<1>2. VoTypes'
  BY <1>1 DEF VoTypes
<1>3. Listed' = Listed /\ Apart' /\ Counted'
  BY <1>1, SameCounts DEF HandRefs
<1>4. Hands'
  BY <1>1, <1>3 DEF Hands
<1>5. Flushing'
  BY <1>1 DEF Flushing
<1> QED
  BY <1>2, <1>3, <1>4, <1>5 DEF VoInv

\* The decoder queues its frame: one reference to render it, one to keep it.
LEMMA VoRerefAppend ==
    ASSUME VoInv, Vo!RerefAppend
    PROVE  VoInv'
<1>1. /\ VoTypes /\ Apart /\ Hands /\ Counted /\ Flushing
      /\ UNCHANGED <<free, flush_extra, ready, hand, filler, still, rpc, reserved, mine>>
      /\ lock' = [lock EXCEPT ![fresh] = @ + 2]
      /\ queue' = Append(queue, fresh)
      /\ first \subseteq first'
      /\ fresh' = None /\ dpc' = "get" /\ dpc = "append"
  BY DEF VoInv, Vo!RerefAppend, Vo!renderVars, Vo!clientVars
<1>2. PICK g : g = fresh
  OBVIOUS
<1>3. /\ g \in Frames /\ g \in mine /\ g \notin Listed
      /\ g # still /\ g # filler /\ g # hand
  BY <1>1, <1>2 DEF Hands, VoTypes
<1>4. queue \in Seq(Frames) /\ Distinct(queue) /\ g \notin Vo!Range(queue)
  BY <1>1, <1>3 DEF VoTypes, Apart, Listed
<1>5. /\ queue' \in Seq(Frames) /\ Distinct(queue')
      /\ Vo!Range(queue') = Vo!Range(queue) \cup {g}
  BY <1>1, <1>2, <1>3, <1>4, AppendDistinct
<1>6. Listed' = Listed \cup {g}
  BY <1>1, <1>5 DEF Listed
<1>7. VoTypes'
  <2>1. lock' \in [Frames -> Int]
    BY <1>1, <1>2, <1>3 DEF VoTypes
  <2> QED
    BY <1>1, <1>5, <2>1 DEF VoTypes
<1>8. Apart'
  <2>1. Vo!Range(queue') \cap Vo!Range(ready') = {}
    BY <1>1, <1>3, <1>5 DEF Apart, Listed
  <2>2. filler' \notin Listed'
    BY <1>1, <1>3, <1>6 DEF Apart
  <2> QED
    BY <1>1, <1>5, <2>1, <2>2 DEF Apart
<1>9. Hands'
  BY <1>1 DEF Hands
<1>10. Counted'
  <2> SUFFICES ASSUME NEW f \in Frames
               PROVE  lock'[f] = Refs(f)' /\ (f \in free' <=> lock'[f] = 0)
    BY DEF Counted
  <2>1. lock[f] = Refs(f) /\ (f \in free <=> lock[f] = 0) /\ lock \in [Frames -> Int]
    BY <1>1 DEF Counted, VoTypes
  <2>2. CASE f = g
    <3>1. lock'[f] = lock[f] + 2
      BY <2>1, <2>2, <1>1, <1>2
    <3>2. Refs(f) = 1 /\ Refs(f)' = 3
      BY <2>2, <1>1, <1>3, <1>6 DEF Refs
    <3> QED
      BY <3>1, <3>2, <2>1, <1>1
  <2>3. CASE f # g
    <3>1. lock'[f] = lock[f] /\ (f \in free' <=> f \in free)
      BY <2>1, <2>3, <1>1, <1>2
    <3>2. Refs(f)' = Refs(f)
      BY <2>3, <1>1, <1>6 DEF Refs, HandRefs
    <3> QED
      BY <3>1, <3>2, <2>1
  <2> QED
    BY <2>2, <2>3
<1>11. Flushing'
  BY <1>1 DEF Flushing
<1> QED
  BY <1>7, <1>8, <1>9, <1>10, <1>11 DEF VoInv

\* The decoder lets one of its frames go.
LEMMA VoFreeFrame ==
    ASSUME VoInv, NEW g \in Frames, Vo!FreeFrame(g)
    PROVE  VoInv'
<1>1. /\ VoTypes /\ Apart /\ Hands /\ Counted /\ Flushing
      /\ UNCHANGED <<first, queue, flush_extra, ready, hand, filler, still, rpc, reserved,
                     dpc, fresh>>
      /\ g \in mine /\ g # fresh /\ mine' = mine \ {g}
      /\ Vo!Dropped(Vo!Once(g))
  BY DEF VoInv, Vo!FreeFrame, Vo!queueVars, Vo!renderVars, Vo!clientVars
<1>2. Listed' = Listed /\ Apart'
  BY <1>1, SameLists
<1>3. \A f \in Frames : Vo!Once(g)[f] = IF f = g THEN 1 ELSE 0
  BY DEF Vo!Once
<1>4. \A f \in Frames : lock[f] = Refs(f) /\ (f \in free <=> lock[f] = 0)
  BY <1>1 DEF Counted
<1>5. \A f \in Frames : lock[f] >= Vo!Once(g)[f]
  BY <1>1, <1>3, <1>4, NoRefs
<1>6. /\ lock' \in [Frames -> Int] /\ free' \subseteq Frames
      /\ \A f \in Frames : lock'[f] = lock[f] - Vo!Once(g)[f] /\ (f \in free' <=> lock'[f] = 0)
  BY <1>1, <1>3, <1>4, <1>5, DroppedFrees
<1>7. VoTypes'
  BY <1>1, <1>6 DEF VoTypes
<1>8. Hands'
  BY <1>1, <1>2 DEF Hands
<1>9. Counted'
  <2> SUFFICES ASSUME NEW f \in Frames
               PROVE  lock'[f] = Refs(f)'
    BY <1>6 DEF Counted
  <2>1. HandRefs' = HandRefs /\ HandRefs \in {1, 2}
    BY <1>1 DEF HandRefs
  <2>2. Refs(f)' = Refs(f) - Vo!Once(g)[f]
    BY <1>1, <1>2, <1>3, <2>1 DEF Refs
  <2> QED
    BY <2>2, <1>4, <1>6
<1>10. Flushing'
  BY <1>1 DEF Flushing
<1> QED
  BY <1>2, <1>7, <1>8, <1>9, <1>10 DEF VoInv

\* Steps that change neither the frames nor who has them.
LEMMA SameHolders ==
    ASSUME VoInv,
           UNCHANGED <<lock, free, queue, flush_extra, ready, filler, still, hand, mine, fresh,
                       dpc>>,
           first' = first, reserved' \in Nat, rpc' \in Places,
           hand # None => rpc' \in Holding /\ HandRefs' = HandRefs,
           Flushing'
    PROVE  VoInv'
<1>1. Listed' = Listed /\ Apart' /\ Counted'
  BY SameCounts
<1>2. VoTypes'
  BY DEF VoInv, VoTypes
<1>3. Hands'
  BY <1>1 DEF VoInv, Hands
<1> QED
  BY <1>1, <1>2, <1>3 DEF VoInv

\* next_frame drops everything, and keeps a first frame and a filler.
LEMMA VoNextFlush ==
    ASSUME VoInv, Vo!NextFlush
    PROVE  VoInv'
<1>1. VoTypes /\ Apart /\ Hands /\ Counted /\ Flushing
  BY DEF VoInv
<1>2. PICK all : all = ready \o queue
  OBVIOUS
<1>3. PICK latest : latest = Vo!LastIn(all, first, None)
  OBVIOUS
<1>4. PICK other : other = Vo!LastIn(all, Frames \ first, filler)
  OBVIOUS
<1>5. PICK gone : gone = Vo!Twice(Vo!Replaced(all, {latest, other}))
  OBVIOUS
<1>6. PICK backup \in BOOLEAN : backup = (other # None /\ still = None)
  OBVIOUS
<1>7. /\ Vo!GetAll("tell", IF latest = None THEN "relax" ELSE "show")
      /\ filler' = other
      /\ still' = IF backup THEN other ELSE still
      /\ lock' = [f \in Frames |-> lock[f] - gone[f] + (IF backup /\ f = other THEN 1 ELSE 0)]
      /\ free' = free \cup {f \in Frames : gone[f] > 0 /\ lock[f] <= 2}
      /\ hand' = latest
      /\ first' = first \cap {latest}
      /\ UNCHANGED <<reserved, mine, fresh, dpc>>
      /\ rpc = "next"
  BY <1>2, <1>3, <1>4, <1>5, <1>6 DEF Vo!NextFlush, Vo!decoderVars, Vo!clientVars
<1>8. /\ ready' = <<>> /\ queue' = <<>> /\ flush_extra' = 0
      /\ rpc' \in {"tell", "relax", "show"}
      /\ rpc' = "relax" => latest = None
      /\ rpc' = "show" => latest # None
  BY <1>7 DEF Vo!GetAll
<1>9. all \in Seq(Frames) /\ Vo!Range(all) = Listed
  <2>1. /\ queue \in Seq(Frames) /\ ready \in Seq(Frames)
        /\ Distinct(queue) /\ Distinct(ready)
        /\ Vo!Range(ready) \cap Vo!Range(queue) = {}
    BY <1>1 DEF VoTypes, Apart
  <2>2. all \in Seq(Frames) /\ Vo!Range(all) = Vo!Range(ready) \cup Vo!Range(queue)
    BY <2>1, <1>2, JoinDistinct
  <2> QED
    BY <2>2 DEF Listed
<1>10. Listed \subseteq Frames /\ filler \notin Listed /\ None \notin Frames
       /\ filler \in Frames \cup {None}
  BY <1>1, ListedFrames, VideoAssumption DEF Apart, VoTypes
<1>11. latest \in first \cap Listed \/ latest = None
  BY <1>3, <1>9, LastInFits
<1>12. other \in Listed \ first \/ other = filler
  BY <1>4, <1>9, LastInFits
<1>13. other # latest \/ (other = None /\ latest = None)
  BY <1>10, <1>11, <1>12
<1>14. \A f \in Frames : gone[f] = IF (f \in Listed \/ f = filler) /\ f # latest /\ f # other
                                   THEN 2 ELSE 0
  BY <1>5, <1>9, <1>10 DEF Vo!Twice, Vo!Replaced
<1>15. hand = None
  BY <1>1, <1>7 DEF Hands, Holding
<1>16. Listed' = {} /\ Apart'
  BY <1>8, NothingIn DEF Listed, Apart
<1>17. VoTypes'
  <2>1. lock' \in [Frames -> Int]
    <3>1. ASSUME NEW f \in Frames
          PROVE  lock[f] - gone[f] + (IF backup /\ f = other THEN 1 ELSE 0) \in Int
      <4>1. lock[f] \in Int /\ gone[f] \in Int
        BY <1>1, <1>14 DEF VoTypes
      <4> QED
        BY <4>1
    <3> QED
      BY <3>1, <1>7
  <2>2. free' \subseteq Frames /\ mine' \subseteq Frames /\ reserved' \in Nat
        /\ fresh' \in Frames \cup {None} /\ still' \in Frames \cup {None}
        /\ dpc' \in {"get", "draw", "append"}
    BY <1>1, <1>7, <1>10, <1>12 DEF VoTypes
  <2>3. hand' \in Frames \cup {None} /\ filler' \in Frames \cup {None}
    BY <1>7, <1>10, <1>11, <1>12
  <2>4. rpc' \in Places
    BY <1>8 DEF Places
  <2> QED
    BY <1>8, <2>1, <2>2, <2>3, <2>4 DEF VoTypes
<1>18. Hands'
  <2>1. hand' # None => rpc' \in Holding
    BY <1>7, <1>8 DEF Holding
  <2>2. ASSUME fresh' # None
        PROVE  fresh' \in mine' /\ fresh' \notin Listed' /\ fresh' \notin {still', filler', hand'}
    <3>1. fresh \in mine /\ fresh \notin Listed /\ fresh # still /\ fresh # filler /\ fresh # None
      BY <1>1, <1>7, <2>2 DEF Hands
    <3> QED
      BY <3>1, <1>7, <1>11, <1>12, <1>16
  <2>3. dpc' # "get" => fresh' # None
    BY <1>1, <1>7 DEF Hands
  <2> QED
    BY <2>1, <2>2, <2>3 DEF Hands
<1>19. Counted'
  <2> SUFFICES ASSUME NEW f \in Frames
               PROVE  lock'[f] = Refs(f)' /\ (f \in free' <=> lock'[f] = 0)
    BY DEF Counted
  <2>1. /\ lock[f] = Refs(f) /\ (f \in free <=> lock[f] = 0) /\ f # None
        /\ lock[f] \in Int /\ gone[f] \in {0, 2}
    BY <1>1, <1>10, <1>14 DEF Counted, VoTypes
  <2>2. /\ lock'[f] = lock[f] - gone[f] + (IF backup /\ f = other THEN 1 ELSE 0)
        /\ f \in free' <=> f \in free \/ (gone[f] > 0 /\ lock[f] <= 2)
    BY <1>7
  <2>3. Refs(f) = (IF f \in mine THEN 1 ELSE 0) + (IF f = still THEN 1 ELSE 0)
                      + (IF f \in Listed \/ f = filler THEN 2 ELSE 0)
    BY <2>1, <1>10, <1>15 DEF Refs
  <2>4. Refs(f)' = (IF f \in mine THEN 1 ELSE 0)
                      + (IF f = (IF backup THEN other ELSE still) THEN 1 ELSE 0)
                      + (IF f = other \/ f = latest THEN 2 ELSE 0)
    <3>1. f = latest => HandRefs' = 2
      BY <1>8 DEF HandRefs
    <3> QED
      BY <3>1, <2>1, <1>7, <1>13, <1>16 DEF Refs
  <2>5. f = other \/ f = latest => f \in Listed \/ f = filler
    BY <2>1, <1>11, <1>12
  <2>6. (IF f = (IF backup THEN other ELSE still) THEN 1 ELSE 0)
            = (IF f = still THEN 1 ELSE 0) + (IF backup /\ f = other THEN 1 ELSE 0)
    <3>1. CASE backup
      <4>1. f # still
        BY <3>1, <2>1, <1>6
      <4> QED
        BY <3>1, <4>1
    <3>2. CASE ~backup
      BY <3>2
    <3> QED
      BY <3>1, <3>2, <1>6
  <2>7. lock'[f] = Refs(f)'
    <3>1. CASE f = other \/ f = latest
      BY <3>1, <2>1, <2>2, <2>3, <2>4, <2>5, <2>6, <1>14
    <3>2. CASE ~(f = other \/ f = latest)
      BY <3>2, <2>1, <2>2, <2>3, <2>4, <2>6, <1>14
    <3> QED
      BY <3>1, <3>2
  <2>8. f \in free' <=> lock'[f] = 0
    <3>1. CASE gone[f] = 2
      BY <3>1, <2>1, <2>2, <2>3, <1>14
    <3>2. CASE gone[f] = 0
      BY <3>2, <2>1, <2>2, <2>3, <2>5
    <3> QED
      BY <3>1, <3>2, <2>1
  <2> QED
    BY <2>7, <2>8
<1>20. Flushing'
  BY <1>7, <1>8, <1>11 DEF Flushing
<1> QED
  BY <1>16, <1>17, <1>18, <1>19, <1>20 DEF VoInv

\* What the steps of the render thread start from.
LEMMA VoStart ==
    ASSUME VoInv
    PROVE  /\ VoTypes /\ Apart /\ Hands /\ Counted /\ Flushing
           /\ queue \in Seq(Frames) /\ ready \in Seq(Frames) /\ flush_extra \in Nat
           /\ Distinct(queue) /\ Distinct(ready)
           /\ Vo!Range(queue) \cap Vo!Range(ready) = {}
           /\ filler \notin Listed
           /\ Listed \subseteq Frames /\ None \notin Frames
           /\ \A f \in Frames : /\ lock[f] = Refs(f) /\ lock[f] \in Int
                                /\ f \in free <=> lock[f] = 0
                                /\ f # None
           /\ rpc \notin Holding => hand = None
  BY ListedFrames, VideoAssumption DEF VoInv, VoTypes, Apart, Hands, Counted

\* "Make sure clients dont miss this": the render thread goes on to show its frame.
LEMMA VoNextTell ==
    ASSUME VoInv, Vo!NextTell
    PROVE  VoInv'
<1>1. /\ UNCHANGED <<lock, free, queue, flush_extra, ready, filler, still, hand, mine, fresh,
                     dpc>>
      /\ first' = first /\ reserved' = reserved
      /\ rpc = "tell" /\ rpc' = IF hand = None THEN "relax" ELSE "show"
  BY DEF Vo!NextTell, Vo!freeVars, Vo!queueVars, Vo!decoderVars
<1>2. reserved' \in Nat /\ rpc' \in Places
  BY <1>1 DEF VoInv, VoTypes, Places
<1>3. hand # None => rpc' \in Holding /\ HandRefs' = HandRefs
  BY <1>1 DEF HandRefs, Holding
<1>4. Flushing'
  BY <1>1 DEF VoInv, Flushing
<1> QED
  BY <1>1, <1>2, <1>3, <1>4, SameHolders

\* A step that changes no more than where the render thread is, to a place
\* where it has nothing in hand.
LEMMA VoIdle ==
    ASSUME VoInv, rpc \notin Holding, rpc' \in Places \ Holding,
           UNCHANGED <<lock, free, queue, flush_extra, ready, filler, still, hand, mine, fresh,
                       dpc>>,
           first' = first, reserved' \in Nat
    PROVE  VoInv'
<1>1. hand = None
  BY VoStart
<1>2. Flushing'
  BY DEF VoInv, Flushing, Holding
<1> QED
  BY <1>1, <1>2, SameHolders

\* Too early, the moment of sleep, the moments of the pause.
LEMMA VoWaits ==
    ASSUME VoInv, Vo!NoneDue \/ Vo!Sleep \/ Vo!PauseTell \/ Vo!Unpause
    PROVE  VoInv'
<1>1. /\ UNCHANGED <<lock, free, queue, flush_extra, ready, filler, still, hand, mine, fresh,
                     dpc>>
      /\ first' = first
      /\ reserved' \in {reserved, 0, Reserve}
      /\ rpc \in {"scan", "sleep", "pause_tell", "unpause"}
      /\ rpc' \in {"idle", "next", "pause", "unpause"}
  BY DEF Vo!NoneDue, Vo!Sleep, Vo!PauseTell, Vo!Unpause, Vo!freeVars, Vo!queueVars,
         Vo!decoderVars
<1>2. reserved' \in Nat
  <2>1. reserved \in Nat /\ Reserve \in Nat
    BY VideoAssumption DEF VoInv, VoTypes
  <2>2. reserved' = reserved \/ reserved' = 0 \/ reserved' = Reserve
    BY <1>1
  <2> QED
    BY <2>1, <2>2
<1>3. rpc \notin Holding /\ rpc' \in Places \ Holding
  BY <1>1 DEF Places, Holding
<1> QED
  BY <1>1, <1>2, <1>3, VoIdle

\* Ready frames are refilled before the next one is looked for, and after.
LEMMA VoRefills ==
    ASSUME VoInv, Vo!NextRefill \/ Vo!Relax
    PROVE  VoInv'
<1>1. /\ Vo!AddReadyFrames(ready)
      /\ UNCHANGED <<lock, free, filler, still, hand, mine, fresh, dpc, reserved>>
      /\ rpc \in {"next", "idle", "relax"} /\ rpc' \in {"scan", "sleep"}
  BY DEF Vo!NextRefill, Vo!Relax, Vo!freeVars, Vo!decoderVars, Vo!clientVars
<1>2. hand = None
  <2>1. rpc \notin Holding
    BY <1>1 DEF Holding
  <2> QED
    BY <2>1, VoStart
<1>3. ready # <<>> => flush_extra > 0
  BY DEF VoInv, Flushing
<1>4. /\ queue' \in Seq(Frames) /\ ready' \in Seq(Frames) /\ flush_extra' \in Nat
      /\ Distinct(queue') /\ Distinct(ready')
      /\ Vo!Range(queue') \cap Vo!Range(ready') = {}
      /\ Listed' = Listed
      /\ ready' # <<>> => flush_extra' > 0
  <2>1. /\ VoTypes /\ ready \in Seq(Frames) /\ Distinct(ready) /\ Distinct(queue)
        /\ Vo!Range(queue) \cap Vo!Range(ready) = {}
    BY VoStart
  <2> QED
    BY <2>1, <1>1, <1>3, AddReadyMoves DEF Listed
<1>5. VoTypes'
  <2>1. rpc' \in Places
    BY <1>1 DEF Places
  <2> QED
    BY <2>1, <1>1, <1>4, VoStart DEF VoTypes
<1>6. Apart'
  BY <1>1, <1>4, VoStart DEF Apart
<1>7. Hands'
  BY <1>1, <1>2, <1>4, VoStart DEF Hands
<1>8. Counted'
  <2> SUFFICES ASSUME NEW f \in Frames
               PROVE  Refs(f)' = Refs(f)
    BY <1>1, VoStart DEF Counted
  <2>1. f # None
    BY VoStart
  <2> QED
    BY <2>1, <1>1, <1>2, <1>4 DEF Refs
<1>9. Flushing'
  BY <1>1, <1>4 DEF Flushing
<1> QED
  BY <1>5, <1>6, <1>7, <1>8, <1>9 DEF VoInv

\* While a first frame waits for the decoder the filler may be shown.
LEMMA VoPoll ==
    ASSUME VoInv, Vo!Poll
    PROVE  VoInv'
<1>1. /\ UNCHANGED <<lock, free, first, queue, flush_extra, ready, still, reserved, mine, fresh,
                     dpc>>
      /\ rpc = "scan" /\ ready # <<>>
      /\ \/ filler # None /\ hand' = filler /\ filler' = None /\ rpc' = "show"
         \/ rpc' = "idle" /\ UNCHANGED <<hand, filler>>
  BY DEF Vo!Poll, Vo!freeVars, Vo!queueVars, Vo!decoderVars, Vo!clientVars
<1>2. rpc \notin Holding /\ hand = None
  <2>1. rpc \notin Holding
    BY <1>1 DEF Holding
  <2> QED
    BY <2>1, VoStart
<1>3. CASE rpc' = "idle" /\ UNCHANGED <<hand, filler>>
  <2>1. rpc' \in Places \ Holding /\ reserved' \in Nat
    BY <1>1, <1>3 DEF Places, Holding, VoInv, VoTypes
  <2> QED
    BY <2>1, <1>1, <1>2, <1>3, VoIdle
<1>4. CASE filler # None /\ hand' = filler /\ filler' = None /\ rpc' = "show"
  <2>1. Listed' = Listed
    BY <1>1 DEF Listed
  <2>2. VoTypes'
    <3>1. rpc' \in Places
      BY <1>4 DEF Places
    <3> QED
      BY <3>1, <1>1, <1>4 DEF VoInv, VoTypes
  <2>3. Apart'
    BY <2>1, <1>1, <1>4, VoStart DEF Apart
  <2>4. Hands'
    <3>1. rpc' \in Holding
      BY <1>4 DEF Holding
    <3>2. ASSUME fresh' # None
          PROVE  /\ fresh' \in mine' /\ fresh' \notin Listed'
                 /\ fresh' \notin {still', filler', hand'}
      BY <2>1, <3>2, <1>1, <1>4 DEF VoInv, Hands
    <3>3. dpc' # "get" => fresh' # None
      BY <1>1 DEF VoInv, Hands
    <3> QED
      BY <3>1, <3>2, <3>3 DEF Hands
  <2>5. Counted'
    <3> SUFFICES ASSUME NEW f \in Frames
                 PROVE  Refs(f)' = Refs(f)
      BY <1>1, VoStart DEF Counted
    <3>1. f # None
      BY VoStart
    <3>2. HandRefs' = 2
      BY <1>4 DEF HandRefs
    <3> QED
      BY <2>1, <3>1, <3>2, <1>1, <1>2, <1>4 DEF Refs
  <2>6. Flushing'
    BY <1>1, <1>4 DEF VoInv, VoTypes, Flushing
  <2> QED
    BY <2>2, <2>3, <2>4, <2>5, <2>6 DEF VoInv
<1> QED
  BY <1>1, <1>3, <1>4

\* The head of the ready frames, taken off.
LEMMA HeadOff ==
    ASSUME VoInv, ready # <<>>
    PROVE  /\ Head(ready) \in Frames /\ Head(ready) \in Listed
           /\ Tail(ready) \in Seq(Frames) /\ Distinct(Tail(ready))
           /\ Vo!Range(Tail(ready)) \cup Vo!Range(queue) = Listed \ {Head(ready)}
           /\ Vo!Range(queue) \cap Vo!Range(Tail(ready)) = {}
           /\ flush_extra > 0
<1>1. /\ ready \in Seq(Frames) /\ Distinct(ready)
      /\ Vo!Range(queue) \cap Vo!Range(ready) = {}
  BY VoStart
<1>2. /\ Head(ready) \in Frames /\ Head(ready) \in Vo!Range(ready)
      /\ Tail(ready) \in Seq(Frames) /\ Distinct(Tail(ready))
      /\ Vo!Range(Tail(ready)) = Vo!Range(ready) \ {Head(ready)}
  BY <1>1, TailDistinct
<1>3. flush_extra > 0
  BY DEF VoInv, Flushing
<1> QED
  BY <1>1, <1>2, <1>3 DEF Listed

\* A frame that is too old is thrown away, or kept as the still frame.
LEMMA VoTooOld ==
    ASSUME VoInv, Vo!TooOld
    PROVE  VoInv'
<1>1. PICK h : h = Head(ready)
  OBVIOUS
<1>2. PICK backup \in BOOLEAN : backup = (ready' = <<>>)
  OBVIOUS
<1>3. PICK n : n = Vo!Thrown(h, backup)
  OBVIOUS
<1>4. /\ UNCHANGED <<first, hand, filler, reserved, rpc, mine, fresh, dpc>>
      /\ rpc = "scan" /\ ready # <<>>
      /\ Vo!AddReadyFrames(Tail(ready))
      /\ Vo!Dropped(n)
      /\ still' = IF backup THEN h ELSE still
  BY <1>1, <1>2, <1>3 DEF Vo!TooOld, Vo!decoderVars, Vo!clientVars
<1>5. hand = None
  <2>1. rpc \notin Holding
    BY <1>4 DEF Holding
  <2> QED
    BY <2>1, VoStart
<1>6. /\ h \in Frames /\ h \in Listed
      /\ Tail(ready) \in Seq(Frames) /\ Distinct(Tail(ready))
      /\ Vo!Range(Tail(ready)) \cup Vo!Range(queue) = Listed \ {h}
      /\ Vo!Range(queue) \cap Vo!Range(Tail(ready)) = {}
      /\ flush_extra > 0
  BY <1>1, <1>4, HeadOff
<1>7. /\ queue' \in Seq(Frames) /\ ready' \in Seq(Frames) /\ flush_extra' \in Nat
      /\ Distinct(queue') /\ Distinct(ready')
      /\ Vo!Range(queue') \cap Vo!Range(ready') = {}
      /\ Listed' = Listed \ {h}
      /\ ready' # <<>> => flush_extra' > 0
  <2>1. VoTypes /\ Distinct(queue)
    BY VoStart
  <2> QED
    BY <2>1, <1>4, <1>6, AddReadyMoves
<1>8. \A f \in Frames : n[f] = IF backup THEN (IF f = h THEN 1 ELSE 0) + (IF f = still THEN 1 ELSE 0)
                               ELSE (IF f = h THEN 2 ELSE 0)
  BY <1>3 DEF Vo!Thrown
<1>9. ASSUME NEW f \in Frames
      PROVE  Refs(f)' = Refs(f) - n[f] /\ n[f] \in Nat /\ lock[f] >= n[f]
  <2>1. f # None /\ lock[f] = Refs(f)
    BY VoStart
  <2>2. Refs(f) = (IF f \in mine THEN 1 ELSE 0) + (IF f = still THEN 1 ELSE 0)
                      + (IF f \in Listed THEN 2 ELSE 0) + (IF f = filler THEN 2 ELSE 0)
    BY <2>1, <1>5 DEF Refs
  <2>3. Refs(f)' = (IF f \in mine THEN 1 ELSE 0) + (IF f = still' THEN 1 ELSE 0)
                      + (IF f \in Listed /\ f # h THEN 2 ELSE 0) + (IF f = filler THEN 2 ELSE 0)
    BY <2>1, <1>4, <1>5, <1>7 DEF Refs
  <2>4. CASE backup
    <3>1. still' = h
      BY <2>4, <1>4
    <3>2. n[f] = (IF f = h THEN 1 ELSE 0) + (IF f = still THEN 1 ELSE 0)
      BY <2>4, <1>8
    <3>3. f = h => f \in Listed
      BY <1>6
    <3> QED
      BY <2>1, <2>2, <2>3, <3>1, <3>2, <3>3
  <2>5. CASE ~backup
    <3>1. still' = still /\ n[f] = IF f = h THEN 2 ELSE 0
      BY <2>5, <1>4, <1>8
    <3>2. f = h => f \in Listed
      BY <1>6
    <3> QED
      BY <2>1, <2>2, <2>3, <3>1, <3>2
  <2> QED
    BY <2>4, <2>5
<1>10. /\ lock' \in [Frames -> Int] /\ free' \subseteq Frames
       /\ \A f \in Frames : lock'[f] = lock[f] - n[f] /\ (f \in free' <=> lock'[f] = 0)
  <2>1. VoTypes /\ \A f \in Frames : n[f] \in Nat /\ lock[f] >= n[f]
    BY <1>9, VoStart
  <2>2. \A f \in Frames : f \in free <=> lock[f] = 0
    BY VoStart
  <2> QED
    BY <2>1, <2>2, <1>4, DroppedFrees
<1>11. VoTypes'
  <2>1. still' \in Frames \cup {None}
    BY <1>4, <1>6 DEF VoInv, VoTypes
  <2> QED
    BY <2>1, <1>4, <1>7, <1>10, VoStart DEF VoTypes
<1>12. Apart'
  BY <1>4, <1>7, VoStart DEF Apart
<1>13. Hands'
  <2>1. ASSUME fresh' # None
        PROVE  fresh' \in mine' /\ fresh' \notin Listed' /\ fresh' \notin {still', filler', hand'}
    <3>1. fresh \in mine /\ fresh \notin Listed /\ fresh # still /\ fresh # filler /\ fresh # None
      BY <2>1, <1>4, VoStart DEF Hands
    <3> QED
      BY <3>1, <1>4, <1>5, <1>6, <1>7
  <2>2. hand' = None /\ (dpc' # "get" => fresh' # None)
    BY <1>4, <1>5, VoStart DEF Hands
  <2> QED
    BY <2>1, <2>2 DEF Hands
<1>14. Counted'
  BY <1>9, <1>10, VoStart DEF Counted
<1>15. Flushing'
  BY <1>4, <1>7 DEF Flushing
<1> QED
  BY <1>11, <1>12, <1>13, <1>14, <1>15 DEF VoInv

\* A frame is due: it is taken in hand, and the filler is let go.
LEMMA VoDue ==
    ASSUME VoInv, Vo!Due
    PROVE  VoInv'
<1>1. PICK h : h = Head(ready)
  OBVIOUS
<1>2. PICK n : n = Vo!Twice({filler} \ {None})
  OBVIOUS
<1>3. /\ UNCHANGED <<first, queue, flush_extra, still, reserved, mine, fresh, dpc>>
      /\ rpc = "scan" /\ ready # <<>> /\ rpc' = "show"
      /\ hand' = h /\ ready' = Tail(ready) /\ filler' = None
      /\ Vo!Dropped(n)
  BY <1>1, <1>2 DEF Vo!Due, Vo!queueVars, Vo!decoderVars, Vo!clientVars
<1>4. hand = None
  <2>1. rpc \notin Holding
    BY <1>3 DEF Holding
  <2> QED
    BY <2>1, VoStart
<1>5. /\ h \in Frames /\ h \in Listed
      /\ ready' \in Seq(Frames) /\ Distinct(ready')
      /\ Vo!Range(queue) \cap Vo!Range(ready') = {}
      /\ Listed' = Listed \ {h}
      /\ flush_extra > 0
  <2>1. /\ h \in Frames /\ h \in Listed
        /\ Tail(ready) \in Seq(Frames) /\ Distinct(Tail(ready))
        /\ Vo!Range(Tail(ready)) \cup Vo!Range(queue) = Listed \ {h}
        /\ Vo!Range(queue) \cap Vo!Range(Tail(ready)) = {}
        /\ flush_extra > 0
    BY <1>1, <1>3, HeadOff
  <2>2. Listed' = Vo!Range(queue') \cup Vo!Range(ready')
    BY DEF Listed
  <2> QED
    BY <2>1, <2>2, <1>3
<1>6. \A f \in Frames : n[f] = IF f = filler THEN 2 ELSE 0
  <2>1. \A f \in Frames : f # None
    BY VoStart
  <2> QED
    BY <2>1, <1>2 DEF Vo!Twice
<1>7. ASSUME NEW f \in Frames
      PROVE  Refs(f)' = Refs(f) - n[f] /\ n[f] \in Nat /\ lock[f] >= n[f]
  <2>1. f # None /\ lock[f] = Refs(f) /\ filler \notin Listed
    BY VoStart
  <2>2. Refs(f) = (IF f \in mine THEN 1 ELSE 0) + (IF f = still THEN 1 ELSE 0)
                      + (IF f \in Listed THEN 2 ELSE 0) + (IF f = filler THEN 2 ELSE 0)
    BY <2>1, <1>4 DEF Refs
  <2>3. HandRefs' = 2
    BY <1>3 DEF HandRefs
  <2>4. Refs(f)' = (IF f \in mine THEN 1 ELSE 0) + (IF f = still THEN 1 ELSE 0)
                      + (IF f \in Listed /\ f # h THEN 2 ELSE 0) + (IF f = h THEN 2 ELSE 0)
    BY <2>1, <2>3, <1>3, <1>5 DEF Refs
  <2>5. f = h => f \in Listed
    BY <1>5
  <2> QED
    BY <2>1, <2>2, <2>4, <2>5, <1>6
<1>8. /\ lock' \in [Frames -> Int] /\ free' \subseteq Frames
      /\ \A f \in Frames : lock'[f] = lock[f] - n[f] /\ (f \in free' <=> lock'[f] = 0)
  <2>1. VoTypes /\ \A f \in Frames : n[f] \in Nat /\ lock[f] >= n[f]
    BY <1>7, VoStart
  <2>2. \A f \in Frames : f \in free <=> lock[f] = 0
    BY VoStart
  <2> QED
    BY <2>1, <2>2, <1>3, DroppedFrees
<1>9. VoTypes'
  <2>1. rpc' \in Places
    BY <1>3 DEF Places
  <2> QED
    BY <2>1, <1>3, <1>5, <1>8, VoStart DEF VoTypes
<1>10. Apart'
  <2>1. None \notin Listed
    BY VoStart
  <2> QED
    BY <2>1, <1>3, <1>5, VoStart DEF Apart
<1>11. Hands'
  <2>1. ASSUME fresh' # None
        PROVE  fresh' \in mine' /\ fresh' \notin Listed' /\ fresh' \notin {still', filler', hand'}
    <3>1. fresh \in mine /\ fresh \notin Listed /\ fresh # still /\ fresh # None
      BY <2>1, <1>3, VoStart DEF Hands
    <3> QED
      BY <3>1, <1>3, <1>5
  <2>2. rpc' \in Holding
    BY <1>3 DEF Holding
  <2>3. dpc' # "get" => fresh' # None
    BY <1>3, VoStart DEF Hands
  <2> QED
    BY <2>1, <2>2, <2>3 DEF Hands
<1>12. Counted'
  BY <1>7, <1>8, VoStart DEF Counted
<1>13. Flushing'
  BY <1>3, <1>5, VoStart DEF Flushing
<1> QED
  BY <1>9, <1>10, <1>11, <1>12, <1>13 DEF VoInv

\* The frame is shown: one of its two references is left for the still frame.
LEMMA VoShow ==
    ASSUME VoInv, Vo!Show
    PROVE  VoInv'
<1>1. PICK n : n = Vo!Once(hand)
  OBVIOUS
<1>2. /\ UNCHANGED <<queue, flush_extra, ready, filler, still, reserved, mine, fresh, dpc>>
      /\ rpc \in {"show", "step", "clone", "pause_clone"}
      /\ Vo!Dropped(n)
      /\ \/ /\ rpc \in {"show", "step"} /\ rpc' \in {"grab", "step_grab"} /\ hand' = hand
         \/ /\ rpc \in {"clone", "pause_clone"} /\ rpc' \in {"relax", "pause_wait"}
            /\ hand' = None
      /\ first' = first \ {hand}
  BY <1>1 DEF Vo!Show, Vo!queueVars, Vo!decoderVars, Vo!clientVars
<1>3. Listed' = Listed /\ Apart'
  BY <1>2, SameLists
<1>4. \A f \in Frames : n[f] = IF f = hand THEN 1 ELSE 0
  BY <1>1 DEF Vo!Once
<1>5. \/ HandRefs = 2 /\ HandRefs' = 1 /\ hand' = hand
      \/ HandRefs = 1 /\ hand' = None
  BY <1>2 DEF HandRefs
<1>6. ASSUME NEW f \in Frames
      PROVE  Refs(f)' = Refs(f) - n[f] /\ n[f] \in Nat /\ lock[f] >= n[f]
  <2>1. f # None /\ lock[f] = Refs(f)
    BY VoStart
  <2>2. PICK r \in Nat : r = (IF f \in mine THEN 1 ELSE 0) + (IF f = still THEN 1 ELSE 0)
                      + (IF f \in Listed THEN 2 ELSE 0) + (IF f = filler THEN 2 ELSE 0)
    OBVIOUS
  <2>3. Refs(f) = r + (IF f = hand THEN HandRefs ELSE 0)
    BY <2>2 DEF Refs
  <2>4. Refs(f)' = r + (IF f = hand' THEN HandRefs' ELSE 0)
    BY <2>2, <1>2, <1>3 DEF Refs
  <2>5. CASE HandRefs = 2 /\ HandRefs' = 1 /\ hand' = hand
    BY <2>1, <2>3, <2>4, <2>5, <1>4
  <2>6. CASE HandRefs = 1 /\ hand' = None
    BY <2>1, <2>3, <2>4, <2>6, <1>4
  <2> QED
    BY <2>5, <2>6, <1>5
<1>7. /\ lock' \in [Frames -> Int] /\ free' \subseteq Frames
      /\ \A f \in Frames : lock'[f] = lock[f] - n[f] /\ (f \in free' <=> lock'[f] = 0)
  <2>1. VoTypes /\ \A f \in Frames : n[f] \in Nat /\ lock[f] >= n[f]
    BY <1>6, VoStart
  <2>2. \A f \in Frames : f \in free <=> lock[f] = 0
    BY VoStart
  <2> QED
    BY <2>1, <2>2, <1>2, DroppedFrees
<1>8. VoTypes'
  <2>1. rpc' \in Places
    BY <1>2 DEF Places
  <2>2. hand' \in Frames \cup {None}
    BY <1>2 DEF VoInv, VoTypes
  <2> QED
    BY <2>1, <2>2, <1>2, <1>7, VoStart DEF VoTypes
<1>9. Hands'
  <2>1. hand' # None => rpc' \in Holding
    BY <1>2 DEF Holding
  <2>2. ASSUME fresh' # None
        PROVE  fresh' \in mine' /\ fresh' \notin Listed' /\ fresh' \notin {still', filler', hand'}
    <3>1. /\ fresh \in mine /\ fresh \notin Listed /\ fresh # None
          /\ fresh # still /\ fresh # filler /\ fresh # hand
      BY <2>2, <1>2, VoStart DEF Hands
    <3>2. hand' \in {hand, None}
      BY <1>2
    <3> QED
      BY <3>1, <3>2, <1>2, <1>3
  <2>3. dpc' # "get" => fresh' # None
    BY <1>2, VoStart DEF Hands
  <2> QED
    BY <2>1, <2>2, <2>3 DEF Hands
<1>10. Counted'
  BY <1>6, <1>7, VoStart DEF Counted
<1>11. Flushing'
  <2>1. rpc' \notin {"show", "step", "tell"} /\ (ready' # <<>> => flush_extra' > 0)
    BY <1>2, VoStart DEF Flushing
  <2> QED
    BY <2>1 DEF Flushing
<1> QED
  BY <1>3, <1>8, <1>9, <1>10, <1>11 DEF VoInv

\* The frame that was shown becomes the still frame, its predecessor is let go.
LEMMA VoGrab ==
    ASSUME VoInv, Vo!Grab
    PROVE  VoInv'
<1>1. /\ UNCHANGED <<first, queue, flush_extra, ready, filler, reserved, mine, fresh, dpc>>
      /\ rpc \in {"grab", "step_grab"} /\ rpc' \in {"relax", "pause_wait"}
      /\ still' = hand /\ hand' = None
  BY DEF Vo!Grab, Vo!queueVars, Vo!decoderVars, Vo!clientVars
<1>2. Listed' = Listed /\ Apart'
  BY <1>1, SameLists
<1>3. HandRefs = 1
  BY <1>1 DEF HandRefs
<1>4. ASSUME NEW f \in Frames
      PROVE  /\ Refs(f)' = Refs(f) - (IF f = still THEN 1 ELSE 0)
             /\ lock[f] >= (IF f = still THEN 1 ELSE 0)
  <2>1. f # None /\ lock[f] = Refs(f)
    BY VoStart
  <2>2. PICK r \in Nat : r = (IF f \in mine THEN 1 ELSE 0) + (IF f \in Listed THEN 2 ELSE 0)
                              + (IF f = filler THEN 2 ELSE 0)
    OBVIOUS
  <2>3. Refs(f) = r + (IF f = still THEN 1 ELSE 0) + (IF f = hand THEN 1 ELSE 0)
    BY <2>2, <1>3 DEF Refs
  <2>4. Refs(f)' = r + (IF f = hand THEN 1 ELSE 0)
    <3>1. f # hand' /\ still' = hand /\ mine' = mine /\ filler' = filler /\ Listed' = Listed
      BY <2>1, <1>1, <1>2
    <3>2. Refs(f)' = (IF f \in mine THEN 1 ELSE 0) + (IF f = hand THEN 1 ELSE 0)
                        + (IF f \in Listed THEN 2 ELSE 0) + (IF f = filler THEN 2 ELSE 0)
      BY <3>1 DEF Refs
    <3> QED
      BY <3>2, <2>2
  <2> QED
    BY <2>1, <2>2, <2>3, <2>4
<1>5. /\ lock' \in [Frames -> Int] /\ free' \subseteq Frames
      /\ \A f \in Frames : /\ lock'[f] = lock[f] - (IF f = still THEN 1 ELSE 0)
                           /\ f \in free' <=> lock'[f] = 0
  <2>1. CASE still = None
    <3>1. UNCHANGED <<lock, free>>
      BY <2>1 DEF Vo!Grab, Vo!freeVars
    <3> QED
      BY <2>1, <3>1, VoStart DEF VoTypes
  <2>2. CASE still # None
    <3>1. PICK n : n = Vo!Once(still)
      OBVIOUS
    <3>2. Vo!Dropped(n)
      BY <2>2, <3>1 DEF Vo!Grab
    <3>3. \A f \in Frames : n[f] = IF f = still THEN 1 ELSE 0
      BY <3>1 DEF Vo!Once
    <3>4. VoTypes /\ \A f \in Frames : n[f] \in Nat /\ lock[f] >= n[f]
      BY <1>4, <3>3, VoStart
    <3>5. \A f \in Frames : f \in free <=> lock[f] = 0
      BY VoStart
    <3>6. /\ lock' \in [Frames -> Int] /\ free' \subseteq Frames
          /\ \A f \in Frames : lock'[f] = lock[f] - n[f] /\ (f \in free' <=> lock'[f] = 0)
      BY <3>2, <3>4, <3>5, DroppedFrees
    <3> QED
      BY <3>3, <3>6
  <2> QED
    BY <2>1, <2>2
<1>6. VoTypes'
  <2>1. rpc' \in Places
    BY <1>1 DEF Places
  <2> QED
    BY <2>1, <1>1, <1>5, VoStart DEF VoTypes
<1>7. Hands'
  <2>1. ASSUME fresh' # None
        PROVE  fresh' \in mine' /\ fresh' \notin Listed' /\ fresh' \notin {still', filler', hand'}
    <3>1. /\ fresh \in mine /\ fresh \notin Listed /\ fresh # None
          /\ fresh # still /\ fresh # filler /\ fresh # hand
      BY <2>1, <1>1, VoStart DEF Hands
    <3> QED
      BY <3>1, <1>1, <1>2
  <2>2. hand' = None /\ (dpc' # "get" => fresh' # None)
    BY <1>1, VoStart DEF Hands
  <2> QED
    BY <2>1, <2>2 DEF Hands
<1>8. Counted'
  BY <1>4, <1>5, VoStart DEF Counted
<1>9. Flushing'
  <2>1. rpc' \notin {"show", "step", "tell"} /\ (ready' # <<>> => flush_extra' > 0)
    BY <1>1, VoStart DEF Flushing
  <2> QED
    BY <2>1 DEF Flushing
<1> QED
  BY <1>2, <1>6, <1>7, <1>8, <1>9 DEF VoInv

\* A frame nobody else refers to is taken in hand, for a copy of the still frame.
LEMMA TakenInHand ==
    ASSUME VoInv, NEW g \in Frames, hand = None, rpc \in {"idle", "paused"},
           Vo!CloneFrom(g),
           g \notin mine, g \notin {still, filler},
           queue' \in Seq(Frames), ready' \in Seq(Frames), flush_extra' \in Nat,
           Distinct(queue'), Distinct(ready'), Vo!Range(queue') \cap Vo!Range(ready') = {},
           Listed' = Listed \ {g},
           free' = free \ {g},
           ready' # <<>> => flush_extra' > 0,
           UNCHANGED <<filler, still, reserved, mine, fresh, dpc>>
    PROVE  VoInv'
<1>1. /\ lock' = [lock EXCEPT ![g] = 1] /\ hand' = g
      /\ rpc' \in {"clone", "pause_clone"}
  BY DEF Vo!CloneFrom
<1>2. VoTypes'
  <2>1. rpc' \in Places
    BY <1>1 DEF Places
  <2>2. lock \in [Frames -> Int] /\ free \subseteq Frames
    BY VoStart DEF VoTypes
  <2>3. lock' \in [Frames -> Int] /\ free' \subseteq Frames
    <3>1. lock' \in [Frames -> Int]
      <4>1. \A l \in [Frames -> Int] : [l EXCEPT ![g] = 1] \in [Frames -> Int]
        OBVIOUS
      <4> QED
        BY <4>1, <2>2, <1>1, Zenon
    <3>2. free' \subseteq Frames
      BY <2>2
    <3> QED
      BY <3>1, <3>2
  <2> QED
    BY <2>1, <2>3, <1>1, VoStart DEF VoTypes
<1>3. Apart'
  BY VoStart DEF Apart
<1>4. Hands'
  <2>1. ASSUME fresh' # None
        PROVE  fresh' \in mine' /\ fresh' \notin Listed' /\ fresh' \notin {still', filler', hand'}
    <3>1. /\ fresh \in mine /\ fresh \notin Listed /\ fresh # None
          /\ fresh # still /\ fresh # filler
      BY <2>1, VoStart DEF Hands
    <3> QED
      BY <3>1, <1>1
  <2>2. rpc' \in Holding
    BY <1>1 DEF Holding
  <2>3. dpc' # "get" => fresh' # None
    BY VoStart DEF Hands
  <2> QED
    BY <2>1, <2>2, <2>3 DEF Hands
<1>5. Counted'
  <2> SUFFICES ASSUME NEW f \in Frames
               PROVE  lock'[f] = Refs(f)' /\ (f \in free' <=> lock'[f] = 0)
    BY DEF Counted
  <2>1. /\ lock[f] = Refs(f) /\ (f \in free <=> lock[f] = 0) /\ lock \in [Frames -> Int]
        /\ f # None
    BY VoStart DEF VoTypes
  <2>2. HandRefs' = 1
    BY <1>1 DEF HandRefs
  <2>3. CASE f = g
    <3>1. lock'[f] = 1 /\ f \notin free'
      BY <2>1, <2>3, <1>1
    <3>2. f \notin mine' /\ f # still' /\ f # filler' /\ f \notin Listed' /\ f = hand'
      BY <2>3, <1>1
    <3>3. Refs(f)' = 1
      BY <2>2, <3>2 DEF Refs
    <3> QED
      BY <3>1, <3>3
  <2>4. CASE f # g
    <3>1. lock'[f] = lock[f] /\ (f \in free' <=> f \in free)
      BY <2>1, <2>4, <1>1
    <3>2. Refs(f)' = Refs(f)
      BY <2>1, <2>4, <1>1 DEF Refs
    <3> QED
      BY <3>1, <3>2, <2>1
  <2> QED
    BY <2>3, <2>4
<1>6. Flushing'
  BY <1>1 DEF Flushing
<1> QED
  BY <1>2, <1>3, <1>4, <1>5, <1>6 DEF VoInv

\* The least element of some free frames is one of them, referred to by nobody.
LEMMA UnusedFrame ==
    ASSUME VoInv, free # {}
    PROVE  /\ Vo!Unused \in free /\ Vo!Unused \in Frames
           /\ Vo!Unused \notin mine /\ Vo!Unused \notin Listed
           /\ Vo!Unused \notin {still, filler, hand}
<1>1. IsFiniteSet(free) /\ free \subseteq Int /\ free \subseteq Frames
  BY VideoAssumption, FS_Subset DEF VoInv, VoTypes
<1>2. \E x \in free : \A y \in free : x <= y
  BY <1>1, Extremes
<1>3. Vo!Unused \in free
  BY <1>2 DEF Vo!Unused, Vo!Min
<1>4. Vo!Unused \in Frames
  BY <1>1, <1>3
<1>5. Refs(Vo!Unused) = 0
  BY <1>3, <1>4, VoStart
<1> QED
  BY <1>3, <1>4, <1>5, NoRefs

\* All listed frames, in one list.
LEMMA Joined ==
    ASSUME VoInv
    PROVE  /\ ready \o queue \in Seq(Frames)
           /\ Len(ready \o queue) = Len(ready) + Len(queue)
           /\ Len(ready) \in Nat /\ Len(queue) \in Nat
           /\ Distinct(ready \o queue)
           /\ Vo!Range(ready \o queue) = Listed
<1>1. /\ queue \in Seq(Frames) /\ ready \in Seq(Frames)
      /\ Distinct(queue) /\ Distinct(ready)
      /\ Vo!Range(ready) \cap Vo!Range(queue) = {}
  BY VoStart
<1>2. /\ ready \o queue \in Seq(Frames)
      /\ Len(ready \o queue) = Len(ready) + Len(queue)
      /\ Distinct(ready \o queue)
      /\ Vo!Range(ready \o queue) = Vo!Range(ready) \cup Vo!Range(queue)
  BY <1>1, JoinDistinct
<1>3. Len(ready) \in Nat /\ Len(queue) \in Nat
  BY <1>1, LenProperties
<1> QED
  BY <1>2, <1>3 DEF Listed

\* A still frame is copied to a free frame, or to a ready one that is lost.
LEMMA VoDuplicate ==
    ASSUME VoInv, Vo!Duplicate
    PROVE  VoInv'
<1>1. /\ UNCHANGED <<discard, filler, still, reserved, mine, fresh, dpc>>
      /\ rpc \in {"idle", "paused"}
  BY DEF Vo!Duplicate, Vo!decoderVars, Vo!clientVars
<1>2. hand = None
  <2>1. rpc \notin Holding
    BY <1>1 DEF Holding
  <2> QED
    BY <2>1, VoStart
<1>3. CASE /\ free # {} /\ Vo!CloneFrom(Vo!Unused) /\ free' = free \ {Vo!Unused}
           /\ UNCHANGED <<ready, queue, flush_extra>>
  <2>1. PICK g : g = Vo!Unused
    OBVIOUS
  <2>2. g \in Frames /\ g \notin mine /\ g \notin {still, filler} /\ g \notin Listed
    BY <2>1, <1>3, UnusedFrame
  <2>3. Vo!CloneFrom(g) /\ free' = free \ {g}
    BY <2>1, <1>3
  <2>4. Listed' = Listed \ {g}
    BY <2>2, <1>3 DEF Listed
  <2>5. /\ queue' \in Seq(Frames) /\ ready' \in Seq(Frames) /\ flush_extra' \in Nat
        /\ Distinct(queue') /\ Distinct(ready')
        /\ Vo!Range(queue') \cap Vo!Range(ready') = {}
        /\ ready' # <<>> => flush_extra' > 0
    BY <1>3, VoStart DEF Flushing
  <2> QED
    BY <1>1, <1>2, <2>2, <2>3, <2>4, <2>5, TakenInHand
<1>4. CASE LET list == ready \o queue IN
           /\ flush_extra' = Vo!Extra(ready, queue) /\ queue' = <<>> /\ UNCHANGED free
           /\ IF Vo!Whistled(list) = {}
              THEN /\ ready' = list
                   /\ rpc' = IF rpc = "idle" THEN "relax" ELSE "pause_wait"
                   /\ UNCHANGED <<lock, first, hand>>
              ELSE \E i \in Vo!Whistled(list) :
                       Vo!CloneFrom(list[i]) /\ ready' = Vo!RemoveAt(list, i)
  <2>1. PICK list : list = ready \o queue
    OBVIOUS
  <2>2. /\ list \in Seq(Frames) /\ Len(list) = Len(ready) + Len(queue)
        /\ Len(ready) \in Nat /\ Len(queue) \in Nat
        /\ Distinct(list) /\ Vo!Range(list) = Listed
    BY <2>1, Joined
  <2>3. flush_extra' = Len(list) /\ flush_extra' \in Nat /\ queue' = <<>> /\ free' = free
    <3>1. flush_extra' = Len(ready) + Len(queue) /\ queue' = <<>> /\ free' = free
      BY <1>4 DEF Vo!Extra
    <3> QED
      BY <3>1, <2>2
  <2>4. /\ Distinct(queue') /\ queue' \in Seq(Frames)
        /\ Listed' = Vo!Range(ready') /\ Vo!Range(queue') = {}
    BY <2>3, NothingIn DEF Listed
  <2>5. list # <<>> => flush_extra' > 0
    BY <2>2, <2>3, EmptySeq
  <2>6. CASE /\ ready' = list /\ UNCHANGED <<lock, first, hand>>
             /\ rpc' = IF rpc = "idle" THEN "relax" ELSE "pause_wait"
    <3>1. Listed' = Listed
      BY <2>2, <2>4, <2>6
    <3>2. VoTypes'
      <4>1. rpc' \in Places
        BY <2>6 DEF Places
      <4> QED
        BY <4>1, <1>1, <2>2, <2>3, <2>4, <2>6, VoStart DEF VoTypes
    <3>3. Apart'
      BY <3>1, <1>1, <2>2, <2>4, <2>6, VoStart DEF Apart
    <3>4. Hands'
      BY <3>1, <1>1, <1>2, <2>6, VoStart DEF Hands
    <3>5. Counted'
      <4> SUFFICES ASSUME NEW f \in Frames
                   PROVE  Refs(f)' = Refs(f)
        BY <2>3, <2>6, VoStart DEF Counted
      <4>1. f # None
        BY VoStart
      <4> QED
        BY <3>1, <4>1, <1>1, <1>2, <2>6 DEF Refs
    <3>6. Flushing'
      BY <2>5, <2>6 DEF Flushing
    <3> QED
      BY <3>2, <3>3, <3>4, <3>5, <3>6 DEF VoInv
  <2>7. CASE \E i \in Vo!Whistled(list) :
                 Vo!CloneFrom(list[i]) /\ ready' = Vo!RemoveAt(list, i)
    <3>1. PICK i \in Vo!Whistled(list) :
                   Vo!CloneFrom(list[i]) /\ ready' = Vo!RemoveAt(list, i)
      BY <2>7
    <3>2. i \in 1 .. Len(list) /\ lock[list[i]] <= 2 /\ list[i] # still
      BY <2>2, LenProperties DEF Vo!Whistled
    <3>3. PICK g : g = list[i]
      OBVIOUS
    <3>4. /\ g \in Listed /\ ready' \in Seq(Frames) /\ Distinct(ready')
          /\ Vo!Range(ready') = Listed \ {g}
      BY <2>2, <3>1, <3>2, <3>3, RemoveDistinct
    <3>5. g \in Frames /\ g # None /\ lock[g] = Refs(g) /\ filler \notin Listed
      BY <3>4, VoStart
    <3>6. g \notin mine /\ g \notin {still, filler}
      <4>1. g # filler /\ g # still /\ lock[g] <= 2
        BY <3>2, <3>3, <3>4, <3>5
      <4>2. Refs(g) = (IF g \in mine THEN 1 ELSE 0) + 2
        BY <4>1, <3>4, <3>5, <1>2 DEF Refs
      <4> QED
        BY <4>1, <4>2, <3>5
    <3>7. free' = free \ {g}
      <4>1. Refs(g) # 0
        BY <3>4, NoRefs
      <4> QED
        BY <4>1, <2>3, <3>5, VoStart
    <3>8. Vo!CloneFrom(g)
      BY <3>1, <3>3
    <3>9. Listed' = Listed \ {g} /\ Vo!Range(queue') \cap Vo!Range(ready') = {}
      BY <2>4, <3>4
    <3>10. list # <<>>
      BY <2>2, <3>4, NothingIn
    <3> QED
      BY <1>1, <1>2, <2>3, <2>4, <2>5, <3>4, <3>5, <3>6, <3>7, <3>8, <3>9, <3>10, TakenInHand
  <2> QED
    BY <1>4, <2>1, <2>6, <2>7
<1> QED
  BY <1>3, <1>4 DEF Vo!Duplicate

\* Paused: the frame to show in the meantime is referenced.
LEMMA VoPause ==
    ASSUME VoInv, Vo!Pause
    PROVE  VoInv'
<1>1. PICK backup \in BOOLEAN : backup = (still = None /\ ready' # <<>>)
  OBVIOUS
<1>2. PICK h : h = Head(ready')
  OBVIOUS
<1>3. /\ Vo!AddReadyFrames(ready)
      /\ UNCHANGED <<free, first, filler, hand, mine, fresh, dpc, reserved>>
      /\ rpc = "pause" /\ rpc' = "paused"
      /\ still' = IF backup THEN h ELSE still
      /\ lock' = IF backup THEN [lock EXCEPT ![h] = @ + 1] ELSE lock
  BY <1>1, <1>2 DEF Vo!Pause, Vo!decoderVars, Vo!clientVars
<1>4. hand = None
  <2>1. rpc \notin Holding
    BY <1>3 DEF Holding
  <2> QED
    BY <2>1, VoStart
<1>5. /\ queue' \in Seq(Frames) /\ ready' \in Seq(Frames) /\ flush_extra' \in Nat
      /\ Distinct(queue') /\ Distinct(ready')
      /\ Vo!Range(queue') \cap Vo!Range(ready') = {}
      /\ Listed' = Listed
      /\ ready' # <<>> => flush_extra' > 0
  <2>1. /\ VoTypes /\ ready \in Seq(Frames) /\ Distinct(ready) /\ Distinct(queue)
        /\ Vo!Range(queue) \cap Vo!Range(ready) = {}
    BY VoStart
  <2>2. ready # <<>> => flush_extra > 0
    BY VoStart DEF Flushing
  <2> QED
    BY <2>1, <2>2, <1>3, AddReadyMoves DEF Listed
<1>6. backup => h \in Listed /\ h \in Frames /\ still = None
  <2>1. ASSUME ready' # <<>>
        PROVE  Head(ready') \in Vo!Range(ready')
    BY <2>1, <1>5, TailDistinct
  <2>2. Vo!Range(ready') \subseteq Listed'
    BY DEF Listed
  <2> QED
    BY <2>1, <2>2, <1>1, <1>2, <1>5, VoStart
<1>7. VoTypes'
  <2>1. rpc' \in Places
    BY <1>3 DEF Places
  <2>2. lock \in [Frames -> Int] /\ still \in Frames \cup {None}
    BY VoStart DEF VoTypes
  <2>3. lock' \in [Frames -> Int] /\ still' \in Frames \cup {None}
    BY <2>2, <1>3, <1>6
  <2> QED
    BY <2>1, <2>3, <1>3, <1>5, VoStart DEF VoTypes
<1>8. Apart'
  BY <1>3, <1>5, VoStart DEF Apart
<1>9. Hands'
  <2>1. ASSUME fresh' # None
        PROVE  fresh' \in mine' /\ fresh' \notin Listed' /\ fresh' \notin {still', filler', hand'}
    <3>1. /\ fresh \in mine /\ fresh \notin Listed /\ fresh # None
          /\ fresh # still /\ fresh # filler /\ fresh # hand
      BY <2>1, <1>3, VoStart DEF Hands
    <3> QED
      BY <3>1, <1>3, <1>5, <1>6
  <2>2. hand' = None /\ (dpc' # "get" => fresh' # None)
    BY <1>3, <1>4, VoStart DEF Hands
  <2> QED
    BY <2>1, <2>2 DEF Hands
<1>10. Counted'
  <2> SUFFICES ASSUME NEW f \in Frames
               PROVE  lock'[f] = Refs(f)' /\ (f \in free' <=> lock'[f] = 0)
    BY DEF Counted
  <2>1. /\ lock[f] = Refs(f) /\ (f \in free <=> lock[f] = 0) /\ lock \in [Frames -> Int]
        /\ f # None /\ Refs(f) \in Nat
    BY VoStart, NoRefs DEF VoTypes
  <2>2. PICK r \in Nat : r = (IF f \in mine THEN 1 ELSE 0) + (IF f \in Listed THEN 2 ELSE 0)
                              + (IF f = filler THEN 2 ELSE 0)
    OBVIOUS
  <2>3. Refs(f) = r + (IF f = still THEN 1 ELSE 0)
    BY <2>1, <2>2, <1>4 DEF Refs
  <2>4. Refs(f)' = r + (IF f = still' THEN 1 ELSE 0)
    BY <2>1, <2>2, <1>3, <1>4, <1>5 DEF Refs
  <2>5. CASE backup /\ f = h
    <3>1. lock'[f] = lock[f] + 1 /\ f = still' /\ f # still
      BY <2>1, <2>5, <1>3, <1>6
    <3> QED
      BY <3>1, <2>1, <2>2, <2>3, <2>4, <1>3, <1>6, <2>5
  <2>6. CASE ~(backup /\ f = h)
    <3>1. lock'[f] = lock[f] /\ (f = still' <=> f = still)
      BY <2>1, <2>6, <1>3, <1>6
    <3> QED
      BY <3>1, <2>1, <2>3, <2>4, <1>3
  <2> QED
    BY <2>5, <2>6
<1>11. Flushing'
  BY <1>3, <1>5 DEF Flushing
<1> QED
  BY <1>7, <1>8, <1>9, <1>10, <1>11 DEF VoInv

\* Paused: a single step shows the next ready frame.
LEMMA VoStep ==
    ASSUME VoInv, Vo!Step
    PROVE  VoInv'
<1>1. /\ UNCHANGED <<lock, free, first, queue, flush_extra, filler, still, reserved, mine, fresh,
                     dpc>>
      /\ rpc = "paused"
      /\ \/ rpc' = "pause_wait" /\ UNCHANGED <<hand, ready>>
         \/ ready # <<>> /\ rpc' = "step" /\ hand' = Head(ready) /\ ready' = Tail(ready)
  BY DEF Vo!Step, Vo!freeVars, Vo!queueVars, Vo!decoderVars, Vo!clientVars
<1>2. rpc \notin Holding /\ hand = None
  <2>1. rpc \notin Holding
    BY <1>1 DEF Holding
  <2> QED
    BY <2>1, VoStart
<1>3. CASE rpc' = "pause_wait" /\ UNCHANGED <<hand, ready>>
  <2>1. rpc' \in Places \ Holding /\ reserved' \in Nat
    BY <1>1, <1>3 DEF Places, Holding, VoInv, VoTypes
  <2> QED
    BY <2>1, <1>1, <1>2, <1>3, VoIdle
<1>4. CASE ready # <<>> /\ rpc' = "step" /\ hand' = Head(ready) /\ ready' = Tail(ready)
  <2>1. PICK h : h = Head(ready)
    OBVIOUS
  <2>2. /\ h \in Frames /\ h \in Listed
        /\ ready' \in Seq(Frames) /\ Distinct(ready')
        /\ Vo!Range(queue) \cap Vo!Range(ready') = {}
        /\ Listed' = Listed \ {h}
        /\ flush_extra > 0
    <3>1. /\ h \in Frames /\ h \in Listed
          /\ Tail(ready) \in Seq(Frames) /\ Distinct(Tail(ready))
          /\ Vo!Range(Tail(ready)) \cup Vo!Range(queue) = Listed \ {h}
          /\ Vo!Range(queue) \cap Vo!Range(Tail(ready)) = {}
          /\ flush_extra > 0
      BY <1>4, <2>1, HeadOff
    <3>2. Listed' = Vo!Range(queue') \cup Vo!Range(ready')
      BY DEF Listed
    <3> QED
      BY <3>1, <3>2, <1>1, <1>4
  <2>3. VoTypes'
    <3>1. rpc' \in Places
      BY <1>4 DEF Places
    <3> QED
      BY <3>1, <1>1, <1>4, <2>1, <2>2, VoStart DEF VoTypes
  <2>4. Apart'
    BY <1>1, <2>2, VoStart DEF Apart
  <2>5. Hands'
    <3>1. rpc' \in Holding
      BY <1>4 DEF Holding
    <3>2. ASSUME fresh' # None
          PROVE  /\ fresh' \in mine' /\ fresh' \notin Listed'
                 /\ fresh' \notin {still', filler', hand'}
      <4>1. /\ fresh \in mine /\ fresh \notin Listed /\ fresh # None
            /\ fresh # still /\ fresh # filler
        BY <3>2, <1>1, VoStart DEF Hands
      <4> QED
        BY <4>1, <1>1, <1>4, <2>1, <2>2
    <3>3. dpc' # "get" => fresh' # None
      BY <1>1, VoStart DEF Hands
    <3> QED
      BY <3>1, <3>2, <3>3 DEF Hands
  <2>6. Counted'
    <3> SUFFICES ASSUME NEW f \in Frames
                 PROVE  Refs(f)' = Refs(f)
      BY <1>1, VoStart DEF Counted
    <3>1. f # None /\ (f = h => f \in Listed)
      BY <2>2, VoStart
    <3>2. HandRefs' = 2
      BY <1>4 DEF HandRefs
    <3> QED
      BY <3>1, <3>2, <1>1, <1>2, <1>4, <2>1, <2>2 DEF Refs
  <2>7. Flushing'
    BY <1>1, <1>4, <2>2, VoStart DEF Flushing
  <2> QED
    BY <2>3, <2>4, <2>5, <2>6, <2>7 DEF VoInv
<1> QED
  BY <1>1, <1>3, <1>4

\* Paused: everything listed is dropped when a client flushes.
LEMMA VoPauseWait ==
    ASSUME VoInv, Vo!PauseWait
    PROVE  VoInv'
<1>1. /\ UNCHANGED <<filler, still, hand, reserved, mine, fresh, dpc>>
      /\ rpc = "pause_wait"
  BY DEF Vo!PauseWait, Vo!decoderVars, Vo!clientVars
<1>2. rpc \notin Holding /\ hand = None
  <2>1. rpc \notin Holding
    BY <1>1 DEF Holding
  <2> QED
    BY <2>1, VoStart
<1>3. CASE Vo!PauseFlushes
  <2>1. PICK n : n = Vo!Twice(Vo!Range(ready \o queue))
    OBVIOUS
  <2>2. /\ ready' = <<>> /\ queue' = <<>> /\ flush_extra' = 0
        /\ rpc' \in {"pause_tell", "pause", "unpause"} /\ first' = {}
    BY <1>3 DEF Vo!PauseWait, Vo!GetAll
  <2>11. Vo!Dropped(n)
    BY <1>3, <2>1 DEF Vo!PauseWait
  <2>3. Listed' = {} /\ Apart'
    BY <2>2, NothingIn DEF Listed, Apart
  <2>4. \A f \in Frames : n[f] = IF f \in Listed THEN 2 ELSE 0
    BY <2>1, Joined DEF Vo!Twice
  <2>5. ASSUME NEW f \in Frames
        PROVE  Refs(f)' = Refs(f) - n[f] /\ n[f] \in Nat /\ lock[f] >= n[f]
    <3>1. f # None /\ lock[f] = Refs(f)
      BY VoStart
    <3>2. PICK r \in Nat : r = (IF f \in mine THEN 1 ELSE 0) + (IF f = still THEN 1 ELSE 0)
                                + (IF f = filler THEN 2 ELSE 0)
      OBVIOUS
    <3>3. Refs(f) = r + (IF f \in Listed THEN 2 ELSE 0)
      BY <3>1, <3>2, <1>2 DEF Refs
    <3>4. Refs(f)' = r
      BY <3>1, <3>2, <1>1, <1>2, <2>3 DEF Refs
    <3> QED
      BY <3>1, <3>2, <3>3, <3>4, <2>4
  <2>6. /\ lock' \in [Frames -> Int] /\ free' \subseteq Frames
        /\ \A f \in Frames : lock'[f] = lock[f] - n[f] /\ (f \in free' <=> lock'[f] = 0)
    <3>1. VoTypes /\ \A f \in Frames : n[f] \in Nat /\ lock[f] >= n[f]
      BY <2>5, VoStart
    <3>2. \A f \in Frames : f \in free <=> lock[f] = 0
      BY VoStart
    <3> QED
      BY <3>1, <3>2, <2>11, DroppedFrees
  <2>7. VoTypes'
    <3>1. rpc' \in Places
      BY <2>2 DEF Places
    <3>2. queue' \in Seq(Frames) /\ ready' \in Seq(Frames) /\ flush_extra' \in Nat
      BY <2>2
    <3> QED
      BY <3>1, <3>2, <1>1, <2>6, VoStart DEF VoTypes
  <2>8. Hands'
    BY <1>1, <1>2, <2>3, VoStart DEF Hands
  <2>9. Counted'
    BY <2>5, <2>6, VoStart DEF Counted
  <2>10. Flushing'
    BY <2>2 DEF Flushing
  <2> QED
    BY <2>3, <2>7, <2>8, <2>9, <2>10 DEF VoInv
<1>4. CASE ~ Vo!PauseFlushes
  <2>1. /\ UNCHANGED <<lock, free, queue, flush_extra, ready, filler, still, hand, mine, fresh,
                       dpc>>
        /\ first' = first /\ rpc' \in {"pause", "unpause"}
    BY <1>1, <1>4 DEF Vo!PauseWait, Vo!freeVars
  <2>2. rpc' \in Places \ Holding /\ reserved' \in Nat
    BY <1>1, <2>1 DEF Places, Holding, VoInv, VoTypes
  <2> QED
    BY <2>1, <2>2, <1>2, VoIdle
<1> QED
  BY <1>3, <1>4

\* Clients and speed changes leave the frames and the render thread alone.
LEMMA VoOthers ==
    ASSUME VoInv, \/ Vo!SpeedChange \/ UNCHANGED voVars
                  \/ \E c \in Clients : Vo!Request(c) \/ Vo!Wake(c)
    PROVE  VoInv'
<1>1. /\ UNCHANGED <<lock, free, queue, flush_extra, ready, filler, still, hand, mine, fresh, dpc>>
      /\ first' = first /\ reserved' = reserved /\ rpc' = rpc
  BY DEF Vo!SpeedChange, voVars, Vo!Request, Vo!DiscardOn, Vo!DiscardOff, Vo!Flush, Vo!Wake,
         Vo!freeVars, Vo!queueVars, Vo!renderVars, Vo!decoderVars
<1>2. rpc' \in Places /\ reserved' \in Nat /\ (hand # None => rpc' \in Holding)
  BY <1>1, VoStart DEF VoTypes, Hands
<1>3. HandRefs' = HandRefs
  BY <1>1 DEF HandRefs
<1>4. Flushing'
  BY <1>1, VoStart DEF Flushing
<1> QED
  BY <1>1, <1>2, <1>3, <1>4, SameHolders

\* Every step of a video port keeps the invariant.
LEMMA VoNextInv ==
    ASSUME VoInv, Vo!Next \/ UNCHANGED voVars
    PROVE  VoInv'
<1>1. CASE Vo!Render
  <2>1. CASE Vo!NextFlush \/ Vo!NextTell \/ Vo!NextRefill
    BY <2>1, VoNextFlush, VoNextTell, VoRefills
  <2>2. CASE Vo!Poll \/ Vo!NoneDue \/ Vo!TooOld \/ Vo!Due
    BY <2>2, VoPoll, VoWaits, VoTooOld, VoDue
  <2>3. CASE Vo!Show \/ Vo!Grab \/ Vo!Duplicate \/ Vo!Relax \/ Vo!Sleep
    BY <2>3, VoShow, VoGrab, VoDuplicate, VoRefills, VoWaits
  <2>4. CASE Vo!Pause \/ Vo!Step \/ Vo!PauseWait \/ Vo!PauseTell \/ Vo!Unpause
    BY <2>4, VoPause, VoStep, VoPauseWait, VoWaits
  <2> QED
    BY <1>1, <2>1, <2>2, <2>3, <2>4 DEF Vo!Render
<1>2. CASE Vo!Decode
  BY <1>2, VoGetFrame, VoDraw, VoRerefAppend, VoFreeFrame DEF Vo!Decode
<1>3. CASE \/ Vo!SpeedChange \/ UNCHANGED voVars
           \/ \E c \in Clients : Vo!Request(c) \/ Vo!Wake(c)
  BY <1>3, VoOthers
<1> QED
  BY <1>1, <1>2, <1>3 DEF Vo!Next

\* The invariant of the video port, in every behaviour of the composition.
LEMMA VoAlways == MCSpec => []VoInv
<1>1. MCInit => VoInv
  BY VoInitInv DEF MCInit
<1>2. VoInv /\ [MCNext]_<<part, vars, voVars, postVars, discVars>> => VoInv'
  <2> SUFFICES ASSUME VoInv, [MCNext]_<<part, vars, voVars, postVars, discVars>>
               PROVE  VoInv'
    OBVIOUS
  <2>1. Vo!Next \/ UNCHANGED voVars
    BY DEF MCNext
  <2> QED
    BY <2>1, VoNextInv
<1> QED
  BY <1>1, <1>2, PTL DEF MCSpec

\* The lock counter of a frame is what its holders count for and frames are
\* free when nobody refers to them (vo_frame_inc2_lock, vo_frame_dec2_lock and
\* the places where the render thread changes hands), for any number of frames
\* and clients.
THEOREM FramesNeverLost == MCSpec => []LocksExact
<1>1. VoInv => LocksExact
  BY VoInvLocks DEF LocksExact
<1> QED
  BY <1>1, VoAlways, PTL

\* When a flush may end (vo_wait_flush), nothing that was queued is still to be
\* shown but a first frame after a seek.
THEOREM FlushLeavesNothing == MCSpec => []FlushedAway
<1>1. VoInv => FlushedAway
  BY VoInvLocks DEF FlushedAway
<1> QED
  BY <1>1, VoAlways, PTL

-----------------------------------------------------------------------------
(* Discontinuities. *)

DiscType ==
    /\ have \subseteq Disc!Sides
    /\ count \in [Disc!Sides -> Nat]
    /\ handled \in Nat
    /\ last \in Nat
    /\ side \in [Disc!Sides -> {"run", "wait"}]

\* A side only waits for a side that is there.
WaitersPresent == \A s \in Disc!Sides : side[s] = "wait" => have = Disc!Sides

\* A side that waits is one ahead of what took effect, as long as the other
\* side has not come: video has left its parameters.  Then it took effect.
Behind ==
    \A s \in Disc!Sides : side[s] = "wait" =>
        IF count[Disc!Other(s)] < count[s]
        THEN handled = count[s] - 1 /\ (s = Video => last = count[s])
        ELSE count[s] <= handled

DiscInv == DiscType /\ WaitersPresent /\ Behind /\ Disc!EffectFirst /\ Disc!AppliedInOrder

-----------------------------------------------------------------------------
\* There is one side besides a side.
LEMMA OtherSide ==
    ASSUME NEW s \in Disc!Sides
    PROVE  /\ Disc!Other(s) \in Disc!Sides /\ Disc!Other(s) # s /\ Disc!Other(Disc!Other(s)) = s
           /\ \A t \in Disc!Sides : t = s \/ t = Disc!Other(s)
BY SidesAssumption DEF Disc!Sides, Disc!Other

\* One more number at the end of 1, 2, ..., k.
LEMMA NumberAppended ==
    ASSUME NEW k \in Nat
    PROVE  Append([i \in 1 .. k |-> i], k + 1) = [i \in 1 .. k + 1 |-> i]
<1> DEFINE upTo(n) == [i \in 1 .. n |-> i]
<1>1. \A n \in Nat : upTo(n) \in Seq(Nat) /\ Len(upTo(n)) = n
  OBVIOUS
<1> HIDE DEF upTo
<1>2. upTo(k) \in Seq(Nat) /\ Len(upTo(k)) = k
  BY <1>1
<1>3. k + 1 \in Nat /\ upTo(k + 1) \in Seq(Nat) /\ Len(upTo(k + 1)) = k + 1
  BY <1>1
<1>4. /\ Append(upTo(k), k + 1) \in Seq(Nat)
      /\ Len(Append(upTo(k), k + 1)) = k + 1
      /\ \A i \in 1 .. k : Append(upTo(k), k + 1)[i] = upTo(k)[i]
      /\ Append(upTo(k), k + 1)[k + 1] = k + 1
  BY <1>2, <1>3, AppendProperties
<1>5. ASSUME NEW i \in 1 .. k + 1
      PROVE  Append(upTo(k), k + 1)[i] = upTo(k + 1)[i]
  <2>1. upTo(k + 1)[i] = i
    BY DEF upTo
  <2>2. i \in 1 .. k => upTo(k)[i] = i
    BY DEF upTo
  <2> QED
    BY <1>4, <2>1, <2>2
<1>6. Append(upTo(k), k + 1) = upTo(k + 1)
  BY <1>3, <1>4, <1>5, SeqEqual
<1> QED
  BY <1>6 DEF upTo

\* What every side finds that meets its next discontinuity.
LEMMA MeetsNext ==
    ASSUME DiscInv, NEW s \in Disc!Sides, NEW n, NEW kind, Disc!Meets(s, n, kind)
    PROVE  /\ s \in have /\ side[s] = "run"
           /\ n \in Nat /\ n = count[s] + 1 /\ n <= handled + 1
           /\ count' = [count EXCEPT ![s] = n]
           /\ count' \in [Disc!Sides -> Nat]
           /\ have' = have
BY DEF DiscInv, DiscType, Disc!EffectFirst, Disc!Meets

-----------------------------------------------------------------------------
\* The other side did it: only a number grows up to what took effect.
LEMMA HandledKeeps ==
    ASSUME DiscInv, NEW s \in Disc!Sides, NEW n, NEW kind, Disc!Handled(s, n, kind)
    PROVE  DiscInv'
<1>1. Disc!Meets(s, n, kind) /\ n <= handled
  BY DEF Disc!Handled
<1>2. UNCHANGED <<handled, last, side, applied>>
  BY DEF Disc!Handled
<1>3. DiscType' /\ WaitersPresent' /\ Disc!EffectFirst'
  BY <1>1, <1>2, MeetsNext DEF DiscInv, DiscType, WaitersPresent, Disc!EffectFirst
<1>4. ASSUME NEW t \in Disc!Sides, side'[t] = "wait"
      PROVE  IF count'[Disc!Other(t)] < count'[t]
             THEN handled' = count'[t] - 1 /\ (t = Video => last' = count'[t])
             ELSE count'[t] <= handled'
  <2>1. t = Disc!Other(s) /\ Disc!Other(t) = s
    BY <1>1, <1>2, <1>4, MeetsNext, OtherSide
  <2>2. count'[t] = count[t] /\ count'[s] = count[s] + 1
    BY <1>1, <2>1, MeetsNext, OtherSide DEF DiscInv, DiscType
  <2> QED
    BY <1>1, <1>2, <1>4, <2>1, <2>2, MeetsNext DEF DiscInv, DiscType, Behind
<1>5. Behind'
  BY <1>4 DEF Behind
<1>6. Disc!AppliedInOrder'
  BY <1>2 DEF DiscInv, Disc!AppliedInOrder
<1> QED
  BY <1>3, <1>5, <1>6 DEF DiscInv

\* A number takes effect by the side that meets it, alone or for both: it is
\* the next one, and whoever waits, waits for it or for nothing any more.
LEMMA EffectKeeps ==
    ASSUME DiscInv, NEW s \in Disc!Sides, NEW n, NEW kind, Disc!Meets(s, n, kind),
           n > handled, Disc!Apply(n), handled' = n, last' \in Nat, UNCHANGED side
    PROVE  DiscInv'
<1>1. n = handled + 1 /\ handled' \in Nat
  BY MeetsNext DEF DiscInv, DiscType
<1>2. DiscType' /\ WaitersPresent'
  BY <1>1, MeetsNext DEF DiscInv, DiscType, WaitersPresent
<1>3. Disc!EffectFirst'
  BY <1>1, MeetsNext DEF DiscInv, DiscType, Disc!EffectFirst
<1>4. ASSUME NEW t \in Disc!Sides, side'[t] = "wait"
      PROVE  count'[Disc!Other(t)] >= count'[t] /\ count'[t] <= handled'
  <2>1. t = Disc!Other(s) /\ Disc!Other(t) = s
    BY <1>4, MeetsNext, OtherSide
  <2>2. count'[t] = count[t] /\ count'[s] = n /\ n = count[s] + 1
    BY <2>1, MeetsNext, OtherSide DEF DiscInv, DiscType
  <2> QED
    BY <1>1, <1>4, <2>1, <2>2, MeetsNext DEF DiscInv, DiscType, Behind
<1>5. Behind'
  BY <1>2, <1>4, OtherSide DEF Behind, DiscType
<1>6. applied' = Append([i \in 1 .. handled |-> i], handled + 1)
  BY <1>1 DEF Disc!Apply, DiscInv, Disc!AppliedInOrder
<1>7. Disc!AppliedInOrder'
  BY <1>1, <1>6, NumberAppended DEF Disc!AppliedInOrder, DiscInv, DiscType
<1> QED
  BY <1>2, <1>3, <1>5, <1>7 DEF DiscInv

\* The side that is there alone comes to a discontinuity.
LEMMA AloneKeeps ==
    ASSUME DiscInv, NEW s \in Disc!Sides, NEW n, NEW kind, Disc!Alone(s, n, kind)
    PROVE  DiscInv'
<1>1. /\ Disc!Meets(s, n, kind) /\ n > handled /\ Disc!Apply(n)
      /\ handled' = n /\ last' = last /\ UNCHANGED side
  BY DEF Disc!Alone, Disc!HandledAlone
<1>2. last' \in Nat
  BY <1>1 DEF DiscInv, DiscType
<1> QED
  BY <1>1, <1>2, EffectKeeps

\* Nobody waits yet for a number that took effect later.
LEMMA WaitKeeps ==
    ASSUME DiscInv, NEW s \in Disc!Sides, NEW n, NEW kind, Disc!Meets(s, n, kind),
           n > handled, Disc!MustWait(s, n), last' = Disc!LastAfter(s, n),
           side' = [side EXCEPT ![s] = "wait"], UNCHANGED <<handled, applied>>
    PROVE  DiscInv'
<1>1. n = handled + 1 /\ n \in Nat /\ last' \in Nat
  BY MeetsNext DEF DiscInv, DiscType, Disc!LastAfter
<1>2. have = Disc!Sides /\ count[Disc!Other(s)] < n
  BY MeetsNext, OtherSide DEF Disc!MustWait, DiscInv, DiscType
<1>3. DiscType' /\ WaitersPresent'
  BY <1>1, <1>2, MeetsNext DEF DiscInv, DiscType, WaitersPresent
<1>4. Disc!EffectFirst'
  BY MeetsNext DEF DiscInv, DiscType, Disc!EffectFirst
<1>5. ASSUME NEW t \in Disc!Sides, side'[t] = "wait"
      PROVE  IF count'[Disc!Other(t)] < count'[t]
             THEN handled' = count'[t] - 1 /\ (t = Video => last' = count'[t])
             ELSE count'[t] <= handled'
  <2>1. CASE t = s
    <3>1. count'[t] = n /\ count'[Disc!Other(t)] = count[Disc!Other(t)]
      BY <2>1, MeetsNext, OtherSide DEF DiscInv, DiscType
    <3>2. t = Video => last' = n
      BY <2>1 DEF Disc!LastAfter
    <3> QED
      BY <1>1, <1>2, <2>1, <3>1, <3>2 DEF DiscInv, DiscType
  <2>2. CASE t # s
    <3>1. t = Disc!Other(s) /\ Disc!Other(t) = s /\ side[t] = "wait"
      BY <1>5, <2>2, OtherSide DEF DiscInv, DiscType
    <3>2. count'[t] = count[t] /\ count'[s] = n /\ n = count[s] + 1
      BY <2>2, MeetsNext DEF DiscInv, DiscType
    <3> QED
      BY <1>1, <1>2, <3>1, <3>2, MeetsNext DEF DiscInv, DiscType, Behind
  <2> QED
    BY <2>1, <2>2
<1>6. Behind'
  BY <1>5 DEF Behind
<1>7. Disc!AppliedInOrder'
  BY DEF DiscInv, Disc!AppliedInOrder
<1> QED
  BY <1>3, <1>4, <1>6, <1>7 DEF DiscInv

\* Audio takes over the parameters video left for this very number.
LEMMA LastIsNext ==
    ASSUME DiscInv, NEW s \in Disc!Sides, NEW n, NEW kind, Disc!Meets(s, n, kind),
           n > handled, ~ Disc!MustWait(s, n)
    PROVE  Disc!LastAfter(s, n) = n
<1>1. CASE s = Video \/ Video \notin have
  BY <1>1 DEF Disc!LastAfter
<1>2. CASE s # Video /\ Video \in have
  <2>1. Disc!Other(s) = Video /\ Disc!Other(Video) = s /\ Video \in Disc!Sides
    BY <1>2, SidesAssumption DEF Disc!Other, Disc!Sides
  <2>2. count[Video] >= n /\ n = handled + 1 /\ n = count[s] + 1
    BY <1>2, <2>1, MeetsNext DEF Disc!MustWait, DiscInv, DiscType
  <2>3. side[Video] = "wait"
    BY <1>2, <2>1, <2>2 DEF DiscInv, DiscType, Disc!EffectFirst
  <2>4. last = count[Video] /\ handled = count[Video] - 1
    BY <2>1, <2>2, <2>3 DEF DiscInv, DiscType, Behind
  <2> QED
    BY <1>2, <2>1, <2>2, <2>4 DEF Disc!LastAfter, DiscInv, DiscType
<1> QED
  BY <1>1, <1>2

\* One of two sides comes to a discontinuity.
LEMMA TogetherKeeps ==
    ASSUME DiscInv, NEW s \in Disc!Sides, NEW n, NEW kind, Disc!Together(s, n, kind)
    PROVE  DiscInv'
<1>1. Disc!Meets(s, n, kind) /\ n > handled /\ last' = Disc!LastAfter(s, n)
  BY DEF Disc!Together
<1>2. CASE Disc!MustWait(s, n)
  <2>1. side' = [side EXCEPT ![s] = "wait"] /\ UNCHANGED <<handled, applied>>
    BY <1>2 DEF Disc!Together
  <2> QED
    BY <1>1, <1>2, <2>1, WaitKeeps
<1>3. CASE ~ Disc!MustWait(s, n)
  <2>1. Disc!Apply(last') /\ handled' = handled + 1 /\ UNCHANGED side
    BY <1>3 DEF Disc!Together
  <2>2. last' = n
    BY <1>1, <1>3, LastIsNext
  <2>3. handled' = n /\ n \in Nat
    BY <1>1, <2>1, MeetsNext DEF DiscInv, DiscType
  <2>4. Disc!Apply(n)
    BY <2>1, <2>2 DEF Disc!Apply
  <2> QED
    BY <1>1, <2>1, <2>2, <2>3, <2>4, EffectKeeps
<1> QED
  BY <1>2, <1>3

\* A side that finds the other one there goes on behind what took effect.
LEMMA WakeKeeps ==
    ASSUME DiscInv, NEW s \in Disc!Sides, Disc!Wake(s)
    PROVE  DiscInv'
<1>1. UNCHANGED <<have, count, handled, last, applied>>
  BY DEF Disc!Wake
<1>2. CASE UNCHANGED side
  BY <1>1, <1>2 DEF DiscInv, DiscType, WaitersPresent, Behind, Disc!EffectFirst, Disc!AppliedInOrder
<1>3. CASE side' = [side EXCEPT ![s] = "run"] /\ ~ count[Disc!Other(s)] < count[s]
  <2>1. count[s] <= handled
    BY <1>3 DEF Disc!Wake, DiscInv, Behind
  <2>2. DiscType' /\ WaitersPresent' /\ Behind' /\ Disc!AppliedInOrder'
    BY <1>1, <1>3 DEF DiscInv, DiscType, WaitersPresent, Behind, Disc!AppliedInOrder
  <2>3. Disc!EffectFirst'
    BY <1>1, <1>3, <2>1 DEF DiscInv, DiscType, Disc!EffectFirst
  <2> QED
    BY <2>2, <2>3 DEF DiscInv
<1> QED
  BY <1>2, <1>3 DEF Disc!Wake

-----------------------------------------------------------------------------
\* At first nothing was met.
LEMMA DiscInitInv == Disc!Init => DiscInv
<1> SUFFICES ASSUME Disc!Init PROVE DiscInv
  OBVIOUS
<1>1. [i \in 1 .. 0 |-> i] = <<>>
  OBVIOUS
<1> QED
  BY <1>1 DEF Disc!Init, DiscInv, DiscType, WaitersPresent, Behind, Disc!EffectFirst,
              Disc!AppliedInOrder

\* Every step of the metronom preserves it.
LEMMA DiscNextInv ==
    ASSUME DiscInv, Disc!Next \/ UNCHANGED discVars
    PROVE  DiscInv'
<1>1. CASE UNCHANGED discVars
  BY <1>1 DEF discVars, DiscInv, DiscType, WaitersPresent, Behind, Disc!EffectFirst,
              Disc!AppliedInOrder
<1>2. ASSUME NEW s \in Disc!Sides, Disc!Meet(s)
      PROVE  DiscInv'
  <2>1. PICK n \in 1 .. MaxDisc, kind \in {"absolute", "seek"} :
                 Disc!HandleDiscontinuity(s, n, kind)
    BY <1>2 DEF Disc!Meet
  <2> QED
    BY <2>1, HandledKeeps, AloneKeeps, TogetherKeeps DEF Disc!HandleDiscontinuity
<1>3. ASSUME NEW s \in Disc!Sides, Disc!Wake(s)
      PROVE  DiscInv'
  BY <1>3, WakeKeeps
<1>4. ASSUME NEW s \in Disc!Sides, Disc!BounceEnds(s)
      PROVE  DiscInv'
  BY <1>4 DEF Disc!BounceEnds, DiscInv, DiscType, WaitersPresent, Behind, Disc!EffectFirst,
              Disc!AppliedInOrder
<1> QED
  BY <1>1, <1>2, <1>3, <1>4 DEF Disc!Next

\* What makes AppliedInOrder and EffectFirst inductive, in every behaviour of
\* the composition: numbers are met, waited for and applied as DiscInv tells.
LEMMA DiscAlways == MCSpec => []DiscInv
<1>1. MCInit => DiscInv
  BY DiscInitInv DEF MCInit
<1>2. DiscInv /\ [MCNext]_<<part, vars, voVars, postVars, discVars>> => DiscInv'
  <2> SUFFICES ASSUME DiscInv, [MCNext]_<<part, vars, voVars, postVars, discVars>>
               PROVE  DiscInv'
    OBVIOUS
  <2>1. Disc!Next \/ UNCHANGED discVars
    BY DEF MCNext
  <2> QED
    BY <2>1, DiscNextInv
<1> QED
  BY <1>1, <1>2, PTL DEF MCSpec

\* Every discontinuity takes effect once and in order, with the parameters of
\* its own number (metronom_handle_discontinuity), for every number of
\* discontinuities and either side or both being there.
THEOREM AppliedInOrderHolds == MCSpec => []AppliedInOrder
<1>1. DiscInv => AppliedInOrder
  BY DEF DiscInv, AppliedInOrder
<1> QED
  BY <1>1, DiscAlways, PTL

\* No decoder goes on behind a discontinuity that did not take effect (the
\* waits of metronom_handle_video_discontinuity and of audio's).
THEOREM EffectFirstHolds == MCSpec => []EffectFirst
<1>1. DiscInv => EffectFirst
  BY DEF DiscInv, EffectFirst
<1> QED
  BY <1>1, DiscAlways, PTL

-----------------------------------------------------------------------------
(* Use counts of post plugin ports. *)

\* Every plugin has one input port, as all have but the mixing ones.
OneInput == \A plugin \in Plugins : \E p : plugin = {p}

CallTypes == [plugin : Plugins, freeing : BOOLEAN, left : SUBSET Post!Ports]

PostTypes ==
    /\ usage \in [Post!Ports -> Int] /\ aliases \in [Post!Ports -> Int]
    /\ below \in [Post!Ports -> Post!Ports \cup {None}]
    /\ top \in [Streams -> Post!Ports \cup {None}]
    /\ old \in Post!Ports \cup {None} /\ rewiring \in BOOLEAN
    /\ inside \in [Streams -> Seq(Post!Ports)] /\ returning \subseteq Streams
    /\ pending \subseteq disposed /\ disposed \subseteq Plugins /\ freed \subseteq Post!Ports
    /\ stack \in [Post!Threads -> Seq(CallTypes)]

\* How many of S are mapped to p.
Mapped(S, f, p) == {x \in S : f[x] = p}

\* What PostUse calls Needed, of a state that is a parameter.
Needs(tp, bl, al, od, p) ==
    Cardinality(Mapped(Streams, tp, p)) + Cardinality(Mapped(Post!Ports, bl, p))
        + al[p] + Post!B2N(od = p)

\* The counts are those of who needs a port.
UsesCounted == \A p \in Post!Ports : usage[p] = Needs(top, below, aliases, old, p)

\* The decoders that are inside get_frame of p.
Within(ins, p) == {s \in Streams : p \in Vo!Range(ins[s])}

\* A decoder inside get_frame has an alias of each port it went through.
AliasesHeld ==
    /\ \A s \in Streams : Distinct(inside[s])
    /\ \A s \in returning : inside[s] # <<>>
    /\ \A p \in Post!Ports : Cardinality(Within(inside, p)) <= aliases[p]

\* Ports are wired to ports of a lower rank.
Ranked(r) == \A p \in Post!Ports : below[p] # None => r[below[p]] < r[p]

NoLoops == \E r \in [Post!Ports -> Nat] : Ranked(r)

Wires == NoLoops /\ (~rewiring => old = None)

\* The i-th call of t is the dispose of p's plugin.
Disposes(st, t, i, p) == i \in 1 .. Len(st[t]) /\ st[t][i].plugin = {p}

Called(st, p) == \E t \in Post!Threads : \E i \in 1 .. Len(st[t]) : Disposes(st, t, i, p)

\* A call frees the port when it has found the plugin not in use.
Entry(e, fr, pe) ==
    /\ e.left \in {e.plugin, {}}
    /\ ~ e.freeing => e.left = e.plugin
    /\ e.freeing => e.plugin \in pe
    /\ IF e.left = {} THEN e.plugin \subseteq fr ELSE e.plugin \cap fr = {}

\* Where the dispose of p's plugin has got to: not asked for, asked for, left
\* to who drops the last use, or under way or done.
Stage(us, st, fr, pe, di, p) ==
    /\ {p} \notin di => ~ Called(st, p) /\ p \notin fr
    /\ {p} \in di \ pe => Called(st, p) /\ p \notin fr
    /\ {p} \in pe /\ us[p] # 0 => ~ Called(st, p) /\ p \notin fr
    /\ {p} \in pe /\ us[p] = 0 => p \in fr \/ Called(st, p)

\* Nobody disposes of a plugin that another call disposes of.
OneCall(st, p) ==
    \A t, u \in Post!Threads : \A i \in 1 .. Len(st[t]), j \in 1 .. Len(st[u]) :
        Disposes(st, t, i, p) /\ Disposes(st, u, j, p) => t = u /\ i = j

Stages(us, st, fr, pe, di) ==
    /\ \A p \in Post!Ports : Stage(us, st, fr, pe, di, p) /\ OneCall(st, p)
    /\ \A t \in Post!Threads : \A i \in 1 .. Len(st[t]) : Entry(st[t][i], fr, pe)

PoInv ==
    /\ PostTypes /\ UsesCounted /\ AliasesHeld /\ Wires
    /\ Stages(usage, stack, freed, pending, disposed)

-----------------------------------------------------------------------------
\* The plugin of a port is its only port's.
LEMMA PluginIs ==
    ASSUME OneInput
    PROVE  /\ \A p \in Post!Ports : {p} \in Plugins /\ Post!PluginOf(p) = {p}
           /\ \A plugin \in Plugins : \E p \in Post!Ports : plugin = {p}
<1>1. ASSUME NEW plugin \in Plugins
      PROVE  \E p \in Post!Ports : plugin = {p}
  <2>1. PICK p : plugin = {p}
    BY DEF OneInput
  <2>2. p \in plugin
    BY <2>1
  <2>3. p \in Post!Ports
    BY <2>2 DEF Post!Ports
  <2> QED
    BY <2>1, <2>3
<1>2. ASSUME NEW p \in Post!Ports
      PROVE  {p} \in Plugins /\ Post!PluginOf(p) = {p}
  <2>1. PICK plugin \in Plugins : p \in plugin
    BY DEF Post!Ports
  <2>2. \A x \in Plugins : p \in x => x = {p}
    BY DEF OneInput
  <2>3. {p} \in Plugins
    BY <2>1, <2>2
  <2>4. p \in {p}
    OBVIOUS
  <2>5. Post!PluginOf(p) \in Plugins /\ p \in Post!PluginOf(p)
    BY <2>3, <2>4, Zenon DEF Post!PluginOf
  <2> QED
    BY <2>2, <2>3, <2>5
<1> QED
  BY <1>1, <1>2

\* Ports and threads are what PostAssumption makes them.
LEMMA PostSets ==
    /\ IsFiniteSet(Post!Ports) /\ None \notin Post!Ports /\ IsFiniteSet(Streams)
    /\ Post!Threads = Streams \cup {App, Renderer}
    /\ App \notin Streams /\ Renderer \notin Streams /\ App # Renderer
  BY PostAssumption DEF Post!Ports, Post!Threads

\* A wire from x goes to v.
Rewired(f, x, v) == [f EXCEPT ![x] = v]

\* Whether a wire goes to p.
Goes(v, p) == IF v = p THEN 1 ELSE 0

\* One more wire goes to v, and one less to where it went.
LEMMA CountMoves ==
    ASSUME NEW S, NEW f, NEW x \in S, NEW v, NEW p, f = [y \in S |-> f[y]], IsFiniteSet(S)
    PROVE  /\ Cardinality(Mapped(S, f, p)) \in Nat
           /\ Cardinality(Mapped(S, Rewired(f, x, v), p)) = Cardinality(Mapped(S, f, p))
                + Goes(v, p) - Goes(f[x], p)
<1> SUFFICES ASSUME NEW g, g = [f EXCEPT ![x] = v]
             PROVE  /\ Cardinality(Mapped(S, f, p)) \in Nat
                    /\ Cardinality(Mapped(S, g, p)) = Cardinality(Mapped(S, f, p))
                         + Goes(v, p) - Goes(f[x], p)
  BY DEF Rewired
<1> DEFINE F == Mapped(S, f, p)
           G == Mapped(S, g, p)
<1>1. F \subseteq S /\ G \subseteq S
  BY DEF Mapped
<1>2. IsFiniteSet(F) /\ IsFiniteSet(G)
  BY <1>1, FS_Subset
<1>3. Cardinality(F) \in Nat /\ Cardinality(G) \in Nat
  BY <1>2, FS_CardinalityType
<1>4. \A y \in S : g[y] = IF y = x THEN v ELSE f[y]
  OBVIOUS
<1>5. CASE v = p /\ f[x] = p
  <2>1. F = G
    BY <1>4, <1>5 DEF Mapped
  <2> QED
    BY <1>3, <1>5, <2>1 DEF Goes
<1>6. CASE v = p /\ f[x] # p
  <2>1. x \notin F /\ G = F \cup {x}
    BY <1>4, <1>6 DEF Mapped
  <2>2. Cardinality(G) = Cardinality(F) + 1
    BY <1>2, <2>1, FS_AddElement
  <2> QED
    BY <1>3, <1>6, <2>2 DEF Goes
<1>7. CASE v # p /\ f[x] = p
  <2>1. x \in F /\ G = F \ {x}
    BY <1>4, <1>7 DEF Mapped
  <2>2. Cardinality(G) = Cardinality(F) - 1
    BY <1>2, <2>1, FS_RemoveElement
  <2> QED
    BY <1>3, <1>7, <2>2 DEF Goes
<1>8. CASE v # p /\ f[x] # p
  <2>1. F = G
    BY <1>4, <1>8 DEF Mapped
  <2> QED
    BY <1>3, <1>8, <2>1 DEF Goes
<1> QED
  BY <1>5, <1>6, <1>7, <1>8

\* The operators of the libraries that PostUse brings in.
LEMMA PostCardinality ==
    ASSUME NEW S
    PROVE  Post!Cardinality(S) = Cardinality(S)
  BY DEF Post!Cardinality, Cardinality

\* PostUse's count of what needs a port.
LEMMA NeededIs ==
    ASSUME NEW p
    PROVE  Post!Needed(p) = Needs(top, below, aliases, old, p)
  BY PostCardinality DEF Post!Needed, Post!Quantify, Mapped, Needs

\* PostUse's count of the aliases that frames have.
LEMMA ShownIs ==
    ASSUME PostTypes, NEW p
    PROVE  Post!Shown(p) = aliases[p] - Cardinality(Within(inside, p))
<1>1. {s \in Streams : \E i \in DOMAIN inside[s] : inside[s][i] = p} = Within(inside, p)
  BY DEF Within, Vo!Range
<1> QED
  BY <1>1, PostCardinality DEF Post!Shown, Post!Quantify

\* The decoders inside a port, when one of them goes elsewhere.
LEMMA WithinMoves ==
    ASSUME NEW ins \in [Streams -> Seq(Post!Ports)], NEW s \in Streams, NEW q \in Seq(Post!Ports),
           NEW p
    PROVE  /\ Cardinality(Within(ins, p)) \in Nat
           /\ Cardinality(Within([ins EXCEPT ![s] = q], p)) \in Nat
           /\ Cardinality(Within([ins EXCEPT ![s] = q], p)) = Cardinality(Within(ins, p))
                + Post!B2N(p \in Vo!Range(q)) - Post!B2N(p \in Vo!Range(ins[s]))
<1> SUFFICES ASSUME NEW g, g = [ins EXCEPT ![s] = q]
             PROVE  /\ Cardinality(Within(ins, p)) \in Nat /\ Cardinality(Within(g, p)) \in Nat
                    /\ Cardinality(Within(g, p)) = Cardinality(Within(ins, p))
                         + Post!B2N(p \in Vo!Range(q)) - Post!B2N(p \in Vo!Range(ins[s]))
  OBVIOUS
<1> DEFINE F == Within(ins, p)
           G == Within(g, p)
<1>1. F \subseteq Streams /\ G \subseteq Streams
  BY DEF Within
<1>2. IsFiniteSet(F) /\ IsFiniteSet(G)
  BY <1>1, PostSets, FS_Subset
<1>3. Cardinality(F) \in Nat /\ Cardinality(G) \in Nat
  BY <1>2, FS_CardinalityType
<1>4. \A x \in Streams : g[x] = IF x = s THEN q ELSE ins[x]
  OBVIOUS
<1>5. CASE p \in Vo!Range(q) /\ p \in Vo!Range(ins[s])
  <2>1. F = G
    BY <1>4, <1>5 DEF Within
  <2> QED
    BY <1>3, <1>5, <2>1 DEF Post!B2N
<1>6. CASE p \in Vo!Range(q) /\ p \notin Vo!Range(ins[s])
  <2>1. s \notin F /\ G = F \cup {s}
    BY <1>4, <1>6 DEF Within
  <2>2. Cardinality(G) = Cardinality(F) + 1
    BY <1>2, <2>1, FS_AddElement
  <2> QED
    BY <1>3, <1>6, <2>2 DEF Post!B2N
<1>7. CASE p \notin Vo!Range(q) /\ p \in Vo!Range(ins[s])
  <2>1. s \in F /\ G = F \ {s}
    BY <1>4, <1>7 DEF Within
  <2>2. Cardinality(G) = Cardinality(F) - 1
    BY <1>2, <2>1, FS_RemoveElement
  <2> QED
    BY <1>3, <1>7, <2>2 DEF Post!B2N
<1>8. CASE p \notin Vo!Range(q) /\ p \notin Vo!Range(ins[s])
  <2>1. F = G
    BY <1>4, <1>8 DEF Within
  <2> QED
    BY <1>3, <1>8, <2>1 DEF Post!B2N
<1> QED
  BY <1>5, <1>6, <1>7, <1>8

\* The sum over the ports of a plugin with one port.
UseStep(f, P, U) == IF U = {} THEN 0 ELSE usage[CHOOSE x \in U : TRUE] + f[U \ {CHOOSE x \in U : TRUE}]

IsUse(f, P) == f = [U \in SUBSET P |-> UseStep(f, P, U)]

\* The use of a plugin is computed with a function on sets of ports.
LEMMA InUseIsFold ==
    ASSUME NEW P
    PROVE  Post!InUse(P) = (CHOOSE f : IsUse(f, P))[P]
  BY DEF Post!InUse, Post!MapThenSumSet, Post!MapThenFoldSet, IsUse, UseStep

\* The use of a plugin with one port is that of its port.
LEMMA InUseIs ==
    ASSUME PostTypes, NEW p \in Post!Ports
    PROVE  Post!InUse({p}) = usage[p]
<1> DEFINE P == {p}
           f == [U \in SUBSET P |-> IF U = {} THEN 0 ELSE usage[p]]
<1>1. usage[p] \in Int
  BY DEF PostTypes
<1>2. ASSUME NEW U \in SUBSET P PROVE f[U] = UseStep(f, P, U)
  <2>1. CASE U = {}
    BY <2>1 DEF UseStep
  <2>2. CASE U = {p}
    <3>1. PICK c : c = CHOOSE x \in U : TRUE
      OBVIOUS
    <3>2. c = p
      BY <2>2, <3>1
    <3>3. U \ {p} = {} /\ {} \in SUBSET P
      BY <2>2
    <3>4. f[{}] = 0
      BY <3>3
    <3>5. UseStep(f, P, U) = usage[c] + f[U \ {c}]
      BY <2>2, <3>1, Zenon DEF UseStep
    <3>6. f[U \ {c}] = 0
      BY <3>2, <3>3, <3>4
    <3>7. f[U] = usage[p]
      BY <2>2
    <3> HIDE DEF f
    <3> QED
      BY <1>1, <3>2, <3>5, <3>6, <3>7
  <2> QED
    BY <2>1, <2>2
<1>3. IsUse(f, P)
  BY <1>2 DEF IsUse
<1>4. PICK g : g = CHOOSE x : IsUse(x, P)
  OBVIOUS
<1> HIDE DEF f
<1>5. IsUse(g, P)
  BY <1>3, <1>4, Zenon
<1>6. g[{}] = 0
  <2>1. {} \in SUBSET P
    OBVIOUS
  <2> QED
    BY <1>5, <2>1 DEF IsUse, UseStep
<1>7. g[P] = usage[p]
  <2>1. g[P] = UseStep(g, P, P)
    BY <1>5 DEF IsUse
  <2>2. PICK c : c = CHOOSE x \in P : TRUE
    OBVIOUS
  <2>3. c = p
    BY <2>2
  <2>4. UseStep(g, P, P) = usage[c] + g[P \ {c}]
    BY <2>2, Zenon DEF UseStep
  <2>5. P \ {c} = {}
    BY <2>3
  <2>6. g[P \ {c}] = 0
    BY <1>6, <2>5
  <2> QED
    BY <1>1, <2>1, <2>3, <2>4, <2>6
<1> QED
  BY <1>4, <1>7, InUseIsFold
-----------------------------------------------------------------------------
\* The chain of ports below a port: what it is computed with.
ChainStep(c, q) == IF q = None THEN <<>> ELSE Append(c[below[q]], q)

IsChain(c) == c = [q \in Post!Ports \cup {None} |-> ChainStep(c, q)]

\* The chains are a function on the ports and None.
LEMMA ChainIs == Post!Chain = CHOOSE c : IsChain(c)
  BY DEF Post!Chain, IsChain, ChainStep

\* How far a port is from the output, at most.
Height(r, q) == IF q = None THEN 0 ELSE r[q] + 1

\* The chains of the ports up to a height.
ChainTo(r, c, n) ==
    /\ c = [q \in Post!Ports \cup {None} |-> c[q]]
    /\ \A q \in Post!Ports \cup {None} : Height(r, q) <= n => c[q] = ChainStep(c, q)

\* A port is higher than the one it is wired to.
LEMMA HeightFalls ==
    ASSUME PostTypes, NEW r \in [Post!Ports -> Nat], Ranked(r)
    PROVE  /\ \A q \in Post!Ports \cup {None} : Height(r, q) \in Nat
           /\ \A q \in Post!Ports : /\ below[q] \in Post!Ports \cup {None}
                                    /\ Height(r, below[q]) < Height(r, q)
<1>1. ASSUME NEW q \in Post!Ports \cup {None} PROVE Height(r, q) \in Nat
  BY <1>1 DEF Height
<1>2. ASSUME NEW q \in Post!Ports
      PROVE  below[q] \in Post!Ports \cup {None} /\ Height(r, below[q]) < Height(r, q)
  <2>1. q # None /\ below[q] \in Post!Ports \cup {None} /\ r[q] \in Nat
    BY PostSets DEF PostTypes
  <2>2. CASE below[q] = None
    BY <2>1, <2>2 DEF Height
  <2>3. CASE below[q] # None
    <3>1. r[below[q]] < r[q] /\ r[below[q]] \in Nat
      BY <2>1, <2>3 DEF Ranked
    <3> QED
      BY <2>1, <2>3, <3>1 DEF Height
  <2> QED
    BY <2>1, <2>2, <2>3
<1> QED
  BY <1>1, <1>2

\* There are chains up to every height.
LEMMA ChainsTo ==
    ASSUME PostTypes, NEW r \in [Post!Ports -> Nat], Ranked(r), NEW n \in Nat
    PROVE  \E c : ChainTo(r, c, n)
<1> DEFINE D == Post!Ports \cup {None}
           T == {m \in Nat : ~ \E c : ChainTo(r, c, m)}
<1>1. SUFFICES ASSUME T # {} PROVE FALSE
  OBVIOUS
<1>2. PICK m \in T : \A k \in T : m <= k
  <2>1. T \subseteq Nat
    OBVIOUS
  <2> HIDE DEF T
  <2> QED
    BY <1>1, <2>1, Least
<1>3. m # 0
  <2> SUFFICES ASSUME m = 0 PROVE FALSE
    OBVIOUS
  <2> DEFINE c == [q \in D |-> <<>>]
  <2>1. ASSUME NEW q \in D, Height(r, q) <= 0
        PROVE  c[q] = ChainStep(c, q)
    <3>1. q = None
      <4>1. CASE q \in Post!Ports
        <5>1. q # None /\ r[q] \in Nat
          BY <4>1, PostSets
        <5> QED
          BY <5>1, <2>1 DEF Height
      <4> QED
        BY <4>1
    <3> QED
      BY <3>1 DEF ChainStep
  <2>2. ChainTo(r, c, 0)
    BY <2>1 DEF ChainTo
  <2> QED
    BY <2>2
<1>4. m - 1 \in Nat /\ m - 1 \notin T
  BY <1>2, <1>3
<1>5. PICK c : ChainTo(r, c, m - 1)
  BY <1>4
<1> DEFINE d == [q \in D |-> IF Height(r, q) <= m - 1 THEN c[q] ELSE ChainStep(c, q)]
<1>6. ASSUME NEW q \in D, Height(r, q) <= m
      PROVE  d[q] = ChainStep(d, q)
  <2>1. d[q] = ChainStep(c, q)
    BY <1>5 DEF ChainTo
  <2>2. CASE q = None
    BY <2>1, <2>2 DEF ChainStep
  <2>3. CASE q # None
    <3>1. q \in Post!Ports
      BY <2>3
    <3>2. /\ below[q] \in D /\ Height(r, below[q]) < Height(r, q)
          /\ Height(r, below[q]) \in Nat /\ Height(r, q) \in Nat
      BY <3>1, HeightFalls
    <3>3. Height(r, below[q]) <= m - 1
      BY <3>2, <1>6, <1>2
    <3>4. d[below[q]] = c[below[q]]
      BY <3>2, <3>3
    <3> HIDE DEF d
    <3> QED
      BY <2>1, <2>3, <3>4 DEF ChainStep
  <2> QED
    BY <2>2, <2>3
<1>7. ChainTo(r, d, m)
  <2>1. d = [q \in D |-> d[q]]
    OBVIOUS
  <2> HIDE DEF d
  <2> QED
    BY <1>6, <2>1 DEF ChainTo
<1> QED
  BY <1>2, <1>7

\* Without loops, the chain of a port is that of the port below it, and itself.
LEMMA ChainAt ==
    ASSUME PostTypes, NoLoops
    PROVE  \A q \in Post!Ports \cup {None} : Post!Chain[q] = ChainStep(Post!Chain, q)
<1> DEFINE D == Post!Ports \cup {None}
<1>1. PICK r \in [Post!Ports -> Nat] : Ranked(r)
  BY DEF NoLoops
<1>2. PICK h : h = [q \in D |-> Height(r, q)]
  OBVIOUS
<1>3. \A q \in D : h[q] = Height(r, q) /\ h[q] \in Nat
  BY <1>1, <1>2, HeightFalls
<1>4. IsFiniteSet(D)
  BY PostSets, FS_AddElement
<1>5. h \in [D -> Nat]
  BY <1>2, <1>3
<1>7. PICK n \in Nat : n = SumFunction(h)
  BY <1>4, <1>5, SumIsNat
<1>8. n \in Nat /\ \A q \in D : Height(r, q) <= n
  BY <1>3, <1>4, <1>5, <1>7, SumAtLeast
<1>9. PICK c : ChainTo(r, c, n)
  BY <1>1, <1>8, ChainsTo
<1>10. \A q \in D : c[q] = ChainStep(c, q)
  BY <1>8, <1>9 DEF ChainTo
<1>12. c = [q \in D |-> ChainStep(c, q)]
  <2>1. c = [q \in D |-> c[q]]
    BY <1>9 DEF ChainTo
  <2> QED
    BY <1>10, <2>1
<1>13. IsChain(Post!Chain)
  BY <1>12, ChainIs, Zenon DEF IsChain
<1> QED
  BY <1>13 DEF IsChain

\* A chain has no port twice; those below the first are wired to one above.
ChainGood(r, p) ==
    /\ Post!Chain[p] \in Seq(Post!Ports)
    /\ Distinct(Post!Chain[p])
    /\ p \in Vo!Range(Post!Chain[p])
    /\ \A q \in Vo!Range(Post!Chain[p]) :
          /\ r[q] <= r[p]
          /\ q # p => \E x \in Post!Ports : below[x] = q

\* Without loops, all chains are such.
LEMMA ChainsGood ==
    ASSUME PostTypes, NEW r \in [Post!Ports -> Nat], Ranked(r), NEW p \in Post!Ports
    PROVE  ChainGood(r, p)
<1> DEFINE T == {m \in Nat : \E q \in Post!Ports : r[q] = m /\ ~ ChainGood(r, q)}
<1>1. SUFFICES ASSUME T # {} PROVE FALSE
  <2>1. SUFFICES ASSUME ~ ChainGood(r, p) PROVE r[p] \in T
    OBVIOUS
  <2> QED
    BY <2>1
<1>2. PICK m \in T : \A k \in T : m <= k
  <2>1. T \subseteq Nat
    OBVIOUS
  <2> HIDE DEF T
  <2> QED
    BY <1>1, <2>1, Least
<1>3. PICK q \in Post!Ports : r[q] = m /\ ~ ChainGood(r, q)
  BY <1>2
<1>4. \A x \in Post!Ports : r[x] < r[q] => ChainGood(r, x)
  BY <1>2, <1>3
<1>5. q # None /\ below[q] \in Post!Ports \cup {None}
  BY PostSets DEF PostTypes
<1>6. NoLoops
  BY DEF NoLoops
<1>7. Post!Chain[q] = Append(Post!Chain[below[q]], q)
  BY <1>5, <1>6, ChainAt DEF ChainStep
<1>8. CASE below[q] = None
  <2>1. Post!Chain[below[q]] = <<>>
    BY <1>6, <1>8, ChainAt DEF ChainStep
  <2>2. /\ <<>> \in Seq(Post!Ports) /\ Distinct(<<>>) /\ Vo!Range(<<>>) = {}
    BY NothingIn
  <2>3. PICK e : e = <<>> /\ e \in Seq(Post!Ports) /\ Distinct(e) /\ Vo!Range(e) = {}
    BY <2>2
  <2>4. PICK c : c = Append(e, q)
    OBVIOUS
  <2>5. c \in Seq(Post!Ports) /\ Distinct(c) /\ Vo!Range(c) = {q}
    <3>1. q \notin Vo!Range(e) /\ e \in Seq(Post!Ports) /\ Distinct(e)
      BY <2>3
    <3>2. c \in Seq(Post!Ports) /\ Distinct(c) /\ Vo!Range(c) = Vo!Range(e) \cup {q}
      BY <2>4, <3>1, AppendDistinct
    <3> QED
      BY <2>3, <3>2
  <2>6. Post!Chain[q] = c
    BY <1>7, <2>1, <2>3, <2>4
  <2>7. r[q] \in Nat
    OBVIOUS
  <2>8. ChainGood(r, q)
    BY <2>5, <2>6, <2>7 DEF ChainGood
  <2> QED
    BY <1>3, <2>8
<1>9. CASE below[q] # None
  <2>1. PICK b \in Post!Ports : b = below[q]
    BY <1>5, <1>9
  <2>2. r[b] < r[q] /\ r[b] \in Nat /\ r[q] \in Nat
    BY <1>9, <2>1 DEF Ranked
  <2>3. ChainGood(r, b)
    BY <1>4, <2>2
  <2>4. PICK e : e = Post!Chain[b]
    OBVIOUS
  <2>5. e \in Seq(Post!Ports) /\ Distinct(e) /\ Vo!Range(e) \subseteq Post!Ports
    BY <2>3, <2>4, InRange DEF ChainGood
  <2>6. \A x \in Vo!Range(e) : r[x] <= r[b] /\ r[x] \in Nat /\ (x # b => \E y \in Post!Ports : below[y] = x)
    BY <2>3, <2>4, <2>5 DEF ChainGood
  <2>7. q \notin Vo!Range(e)
    BY <2>2, <2>6
  <2>8. PICK c : c = Append(e, q)
    OBVIOUS
  <2>9. c \in Seq(Post!Ports) /\ Distinct(c) /\ Vo!Range(c) = Vo!Range(e) \cup {q}
    BY <2>5, <2>7, <2>8, AppendDistinct
  <2>10. Post!Chain[q] = c
    BY <1>7, <2>1, <2>4, <2>8
  <2>11. ASSUME NEW x \in Vo!Range(c)
         PROVE  r[x] <= r[q] /\ (x # q => \E y \in Post!Ports : below[y] = x)
    BY <2>1, <2>2, <2>6, <2>9, <2>11
  <2>12. ChainGood(r, q)
    BY <2>9, <2>10, <2>11 DEF ChainGood
  <2> QED
    BY <1>3, <2>12
<1> QED
  BY <1>8, <1>9

-----------------------------------------------------------------------------
\* One more call, one call less, and another call in place of the innermost.
LEMMA InFront ==
    ASSUME NEW S, NEW c \in S, NEW q \in Seq(S)
    PROVE  /\ <<c>> \o q \in Seq(S) /\ Len(<<c>> \o q) = Len(q) + 1
           /\ (<<c>> \o q)[1] = c
           /\ \A i \in 1 .. Len(q) : (<<c>> \o q)[i + 1] = q[i]
           /\ \A i \in 2 .. Len(q) + 1 : i - 1 \in 1 .. Len(q) /\ (<<c>> \o q)[i] = q[i - 1]
<1>1. PICK f : f = <<c>>
  OBVIOUS
<1>2. f \in Seq(S) /\ Len(f) = 1 /\ f[1] = c
  BY <1>1
<1>3. PICK n \in Nat : n = Len(q)
  BY LenProperties
<1>4. /\ f \o q \in Seq(S)
      /\ Len(f \o q) = Len(f) + Len(q)
      /\ \A i \in 1 .. Len(f) + Len(q) : (f \o q)[i] = IF i <= Len(f) THEN f[i] ELSE q[i - Len(f)]
  BY <1>2, ConcatProperties
<1>5. /\ f \o q \in Seq(S) /\ Len(f \o q) = n + 1
      /\ \A i \in 1 .. n + 1 : (f \o q)[i] = IF i <= 1 THEN f[i] ELSE q[i - 1]
  BY <1>2, <1>3, <1>4
<1>6. (f \o q)[1] = c
  BY <1>2, <1>5
<1>7. \A i \in 1 .. n : i + 1 \in 1 .. n + 1 /\ ~ (i + 1 <= 1) /\ (i + 1) - 1 = i
  OBVIOUS
<1>8. \A i \in 1 .. n : (f \o q)[i + 1] = q[i]
  BY <1>5, <1>7
<1>9. \A i \in 2 .. n + 1 : i - 1 \in 1 .. n /\ i \in 1 .. n + 1 /\ ~ (i <= 1)
  OBVIOUS
<1>10. \A i \in 2 .. n + 1 : i - 1 \in 1 .. n /\ (f \o q)[i] = q[i - 1]
  BY <1>5, <1>9
<1> QED
  BY <1>1, <1>3, <1>5, <1>6, <1>8, <1>10

Stacks == [Post!Threads -> Seq(CallTypes)]

Pushed(st, t, c) == [st EXCEPT ![t] = <<c>> \o st[t]]
Popped(st, t) == [st EXCEPT ![t] = Tail(st[t])]
Changed(st, t, c) == [st EXCEPT ![t] = <<c>> \o Tail(st[t])]

\* The call disposes of p's plugin.
CallOf(c, p) == c.plugin = {p}

\* Of the stacks g is to st what one more call of p's plugin, one less, or
\* another one in place of the innermost of t make it.
OneMore(st, c, p, g) ==
    /\ g \in Stacks
    /\ \A q : Called(g, q) <=> Called(st, q) \/ q = p
    /\ \A q : OneCall(st, q) => OneCall(g, q)
    /\ \A u \in Post!Threads : \A i \in 1 .. Len(g[u]) :
           g[u][i] = c \/ \E j \in 1 .. Len(st[u]) : g[u][i] = st[u][j]

OneLess(st, p, g) ==
    /\ g \in Stacks
    /\ \A q : Called(g, q) <=> Called(st, q) /\ q # p
    /\ \A q : OneCall(st, q) => OneCall(g, q)
    /\ \A u \in Post!Threads : \A i \in 1 .. Len(g[u]) :
           \E j \in 1 .. Len(st[u]) : g[u][i] = st[u][j]

Another(st, t, c, g) ==
    /\ g \in Stacks
    /\ \A q : Called(g, q) <=> Called(st, q)
    /\ \A q : OneCall(st, q) => OneCall(g, q)
    /\ \A u \in Post!Threads : \A i \in 1 .. Len(g[u]) :
           \/ u = t /\ i = 1 /\ g[u][i] = c
           \/ ~ (u = t /\ i = 1) /\ i \in 1 .. Len(st[u]) /\ g[u][i] = st[u][i]

\* The stacks when t is asked to dispose of one more plugin.
LEMMA CallPushed ==
    ASSUME NEW st \in Stacks, NEW t \in Post!Threads, NEW c \in CallTypes, NEW p, CallOf(c, p),
           ~ Called(st, p)
    PROVE  OneMore(st, c, p, Pushed(st, t, c))
<1> SUFFICES ASSUME NEW g, g = [st EXCEPT ![t] = <<c>> \o st[t]]
             PROVE  OneMore(st, c, p, g)
  BY DEF Pushed
<1> USE DEF CallOf
<1>1. PICK s \in Seq(CallTypes) : s = st[t]
  BY DEF Stacks
<1>2. PICK f \in Seq(CallTypes) : f = <<c>> \o s
  BY <1>1, InFront
<1>3. PICK n \in Nat : n = Len(s)
  BY LenProperties
<1>4. /\ Len(f) = n + 1 /\ f[1] = c
      /\ \A i \in 1 .. n : f[i + 1] = s[i]
      /\ \A i \in 2 .. n + 1 : i - 1 \in 1 .. n /\ f[i] = s[i - 1]
  BY <1>1, <1>2, <1>3, InFront
<1>5. g \in Stacks /\ g[t] = f /\ \A u \in Post!Threads \ {t} : g[u] = st[u]
  BY <1>1, <1>2 DEF Stacks
<1> DEFINE Back(u, i) == IF u = t THEN i - 1 ELSE i
<1>6. ASSUME NEW q, NEW u \in Post!Threads, NEW i \in 1 .. Len(g[u]), Disposes(g, u, i, q)
      PROVE  \/ u = t /\ i = 1 /\ q = p
             \/ ~ (u = t /\ i = 1) /\ Back(u, i) \in 1 .. Len(st[u]) /\ Disposes(st, u, Back(u, i), q)
  <2>1. CASE u # t
    BY <1>5, <1>6, <2>1 DEF Disposes
  <2>2. CASE u = t /\ i = 1
    <3>1. {q} = {p}
      BY <1>4, <1>5, <1>6, <2>2 DEF Disposes
    <3> QED
      BY <2>2, <3>1
  <2>3. CASE u = t /\ i # 1
    <3>1. i \in 2 .. n + 1
      BY <1>4, <1>5, <2>3
    <3>2. i - 1 \in 1 .. n /\ f[i] = s[i - 1]
      BY <1>4, <3>1
    <3> QED
      BY <1>1, <1>3, <1>5, <1>6, <2>3, <3>2 DEF Disposes
  <2> QED
    BY <2>1, <2>2, <2>3
<1>7. ASSUME NEW q, NEW u \in Post!Threads, NEW i \in 1 .. Len(st[u]), Disposes(st, u, i, q)
      PROVE  Called(g, q)
  <2>1. CASE u # t
    BY <1>5, <1>7, <2>1 DEF Disposes, Called
  <2>2. CASE u = t
    <3>1. i \in 1 .. n /\ i + 1 \in 1 .. n + 1 /\ f[i + 1] = s[i]
      BY <1>1, <1>3, <1>4, <1>7, <2>2
    <3>2. i + 1 \in 1 .. Len(g[t]) /\ g[t][i + 1].plugin = {q}
      BY <1>1, <1>4, <1>5, <1>7, <2>2, <3>1 DEF Disposes
    <3> QED
      BY <3>2 DEF Disposes, Called
  <2> QED
    BY <2>1, <2>2
<1>8. Called(g, p)
  <2>1. 1 \in 1 .. Len(g[t]) /\ g[t][1].plugin = {p}
    BY <1>4, <1>5
  <2> QED
    BY <2>1 DEF Disposes, Called
<1>9. ASSUME NEW q PROVE Called(g, q) <=> Called(st, q) \/ q = p
  <2>1. Called(st, q) => Called(g, q)
    BY <1>7 DEF Called
  <2>2. Called(g, q) => Called(st, q) \/ q = p
    BY <1>6 DEF Called
  <2> QED
    BY <1>8, <2>1, <2>2
<1>10. ASSUME NEW q, OneCall(st, q) PROVE OneCall(g, q)
  <2> SUFFICES ASSUME NEW u \in Post!Threads, NEW v \in Post!Threads,
                      NEW i \in 1 .. Len(g[u]), NEW j \in 1 .. Len(g[v]),
                      Disposes(g, u, i, q), Disposes(g, v, j, q)
               PROVE  u = v /\ i = j
    BY DEF OneCall
  <2>1. i \in Int /\ j \in Int
    OBVIOUS
  <2>2. CASE q = p
    <3>1. u = t /\ i = 1
      BY <1>6, <2>2 DEF Called
    <3>2. v = t /\ j = 1
      BY <1>6, <2>2 DEF Called
    <3> QED
      BY <3>1, <3>2
  <2>3. CASE q # p
    <3>1. /\ Back(u, i) \in 1 .. Len(st[u]) /\ Disposes(st, u, Back(u, i), q)
          /\ Back(v, j) \in 1 .. Len(st[v]) /\ Disposes(st, v, Back(v, j), q)
      BY <1>6, <2>3
    <3>2. u = v /\ Back(u, i) = Back(v, j)
      BY <1>10, <3>1 DEF OneCall
    <3> QED
      BY <2>1, <3>2
  <2> QED
    BY <2>2, <2>3
<1>11. ASSUME NEW u \in Post!Threads, NEW i \in 1 .. Len(g[u])
       PROVE  g[u][i] = c \/ \E j \in 1 .. Len(st[u]) : g[u][i] = st[u][j]
  <2>1. CASE u # t
    BY <1>5, <2>1
  <2>2. CASE u = t /\ i = 1
    BY <1>4, <1>5, <2>2
  <2>3. CASE u = t /\ i # 1
    <3>1. i \in 2 .. n + 1
      BY <1>4, <1>5, <2>3
    <3> QED
      BY <1>1, <1>3, <1>4, <1>5, <2>3, <3>1
  <2> QED
    BY <2>1, <2>2, <2>3
<1> QED
  BY <1>5, <1>9, <1>10, <1>11 DEF OneMore

\* The stacks when t's innermost call returns.
LEMMA CallPopped ==
    ASSUME NEW st \in Stacks, NEW t \in Post!Threads, st[t] # <<>>, NEW p, CallOf(st[t][1], p),
           OneCall(st, p)
    PROVE  OneLess(st, p, Popped(st, t))
<1> SUFFICES ASSUME NEW g, g = [st EXCEPT ![t] = Tail(st[t])]
             PROVE  OneLess(st, p, g)
  BY DEF Popped
<1> USE DEF CallOf
<1>1. PICK s \in Seq(CallTypes) : s = st[t]
  BY DEF Stacks
<1>2. PICK n \in Nat : n + 1 = Len(s)
  <2>1. Len(s) \in Nat /\ Len(s) # 0
    BY <1>1, LenProperties, EmptySeq
  <2>2. Len(s) - 1 \in Nat /\ (Len(s) - 1) + 1 = Len(s)
    BY <2>1
  <2> QED
    BY <2>2
<1>3. PICK f : f = Tail(s)
  OBVIOUS
<1>4. f \in Seq(CallTypes) /\ Len(f) = n /\ \A i \in 1 .. n : f[i] = s[i + 1]
  <2>1. /\ Tail(s) \in Seq(CallTypes) /\ Len(Tail(s)) = Len(s) - 1
        /\ \A i \in 1 .. Len(Tail(s)) : Tail(s)[i] = s[i + 1]
    BY <1>1, HeadTailProperties
  <2> QED
    BY <1>2, <1>3, <2>1
<1>5. g \in Stacks /\ g[t] = f /\ \A u \in Post!Threads \ {t} : g[u] = st[u]
  BY <1>1, <1>3, <1>4 DEF Stacks
<1>6. 1 \in 1 .. Len(st[t]) /\ Disposes(st, t, 1, p)
  BY <1>1, <1>2 DEF Disposes
<1> DEFINE On(u, i) == IF u = t THEN i + 1 ELSE i
<1>7. ASSUME NEW u \in Post!Threads, NEW i \in 1 .. Len(g[u])
      PROVE  /\ On(u, i) \in 1 .. Len(st[u]) /\ g[u][i] = st[u][On(u, i)]
             /\ ~ (u = t /\ On(u, i) = 1)
  <2>1. CASE u # t
    BY <1>5, <2>1
  <2>2. CASE u = t
    <3>1. i \in 1 .. n
      BY <1>4, <1>5, <2>2
    <3>2. i + 1 \in 1 .. n + 1 /\ i + 1 # 1 /\ f[i] = s[i + 1]
      BY <1>4, <3>1
    <3> QED
      BY <1>1, <1>2, <1>5, <2>2, <3>2
  <2> QED
    BY <2>1, <2>2
<1>8. ASSUME NEW q, NEW u \in Post!Threads, NEW i \in 1 .. Len(g[u]), Disposes(g, u, i, q)
      PROVE  Disposes(st, u, On(u, i), q) /\ q # p
  <2>1. Disposes(st, u, On(u, i), q)
    BY <1>7, <1>8 DEF Disposes
  <2>2. ASSUME q = p PROVE FALSE
    BY <1>6, <1>7, <2>1, <2>2 DEF OneCall
  <2> QED
    BY <2>1, <2>2
<1>9. ASSUME NEW q, q # p, NEW u \in Post!Threads, NEW i \in 1 .. Len(st[u]), Disposes(st, u, i, q)
      PROVE  Called(g, q)
  <2>1. CASE u # t
    BY <1>5, <1>9, <2>1 DEF Disposes, Called
  <2>2. CASE u = t /\ i = 1
    <3>1. {q} = {p}
      BY <1>9, <2>2 DEF Disposes
    <3> QED
      BY <1>9, <3>1
  <2>3. CASE u = t /\ i # 1
    <3>1. i \in 1 .. n + 1
      BY <1>1, <1>2, <2>3
    <3>2. i - 1 \in 1 .. n /\ (i - 1) + 1 = i
      BY <2>3, <3>1
    <3>3. f[i - 1] = s[i]
      BY <1>4, <3>2
    <3>4. i - 1 \in 1 .. Len(g[t]) /\ g[t][i - 1].plugin = {q}
      BY <1>1, <1>4, <1>5, <1>9, <2>3, <3>2, <3>3 DEF Disposes
    <3> QED
      BY <3>4 DEF Disposes, Called
  <2> QED
    BY <2>1, <2>2, <2>3
<1>10. ASSUME NEW q PROVE Called(g, q) <=> Called(st, q) /\ q # p
  <2>1. Called(g, q) => Called(st, q) /\ q # p
    BY <1>7, <1>8 DEF Called
  <2>2. Called(st, q) /\ q # p => Called(g, q)
    BY <1>9 DEF Called
  <2> QED
    BY <2>1, <2>2
<1>11. ASSUME NEW q, OneCall(st, q) PROVE OneCall(g, q)
  <2> SUFFICES ASSUME NEW u \in Post!Threads, NEW v \in Post!Threads,
                      NEW i \in 1 .. Len(g[u]), NEW j \in 1 .. Len(g[v]),
                      Disposes(g, u, i, q), Disposes(g, v, j, q)
               PROVE  u = v /\ i = j
    BY DEF OneCall
  <2>1. i \in Int /\ j \in Int
    OBVIOUS
  <2>2. /\ On(u, i) \in 1 .. Len(st[u]) /\ Disposes(st, u, On(u, i), q)
        /\ On(v, j) \in 1 .. Len(st[v]) /\ Disposes(st, v, On(v, j), q)
    BY <1>7, <1>8
  <2>3. u = v /\ On(u, i) = On(v, j)
    BY <1>11, <2>2 DEF OneCall
  <2> QED
    BY <2>1, <2>3
<1>12. \A u \in Post!Threads : \A i \in 1 .. Len(g[u]) : \E j \in 1 .. Len(st[u]) : g[u][i] = st[u][j]
  BY <1>7
<1> QED
  BY <1>5, <1>10, <1>11, <1>12 DEF OneLess

\* The stacks when t's innermost call gets on.
LEMMA CallChanged ==
    ASSUME NEW st \in Stacks, NEW t \in Post!Threads, st[t] # <<>>, NEW c \in CallTypes,
           c.plugin = st[t][1].plugin
    PROVE  Another(st, t, c, Changed(st, t, c))
<1> SUFFICES ASSUME NEW g, g = [st EXCEPT ![t] = <<c>> \o Tail(st[t])]
             PROVE  Another(st, t, c, g)
  BY DEF Changed
<1>1. PICK s \in Seq(CallTypes) : s = st[t]
  BY DEF Stacks
<1>2. PICK n \in Nat : n + 1 = Len(s)
  <2>1. Len(s) \in Nat /\ Len(s) # 0
    BY <1>1, LenProperties, EmptySeq
  <2>2. Len(s) - 1 \in Nat /\ (Len(s) - 1) + 1 = Len(s)
    BY <2>1
  <2> QED
    BY <2>2
<1>3. PICK f : f = Tail(s)
  OBVIOUS
<1>4. f \in Seq(CallTypes) /\ Len(f) = n /\ \A i \in 1 .. n : f[i] = s[i + 1]
  <2>1. /\ Tail(s) \in Seq(CallTypes) /\ Len(Tail(s)) = Len(s) - 1
        /\ \A i \in 1 .. Len(Tail(s)) : Tail(s)[i] = s[i + 1]
    BY <1>1, HeadTailProperties
  <2> QED
    BY <1>2, <1>3, <2>1
<1>5. PICK h \in Seq(CallTypes) : h = <<c>> \o f
  BY <1>4, InFront
<1>6. /\ Len(h) = n + 1 /\ h[1] = c
      /\ \A i \in 2 .. n + 1 : i - 1 \in 1 .. n /\ h[i] = f[i - 1]
  BY <1>4, <1>5, InFront
<1>7. \A i \in 2 .. n + 1 : h[i] = s[i]
  <2> SUFFICES ASSUME NEW i \in 2 .. n + 1 PROVE h[i] = s[i]
    OBVIOUS
  <2>1. i - 1 \in 1 .. n /\ (i - 1) + 1 = i /\ h[i] = f[i - 1]
    BY <1>6
  <2> QED
    BY <1>4, <2>1
<1>8. g \in Stacks /\ g[t] = h /\ \A u \in Post!Threads \ {t} : g[u] = st[u]
  BY <1>1, <1>3, <1>5 DEF Stacks
<1>9. \A u \in Post!Threads : Len(g[u]) = Len(st[u])
  BY <1>1, <1>2, <1>6, <1>8
<1>10. ASSUME NEW u \in Post!Threads, NEW i \in 1 .. Len(g[u])
       PROVE  \/ u = t /\ i = 1 /\ g[u][i] = c
              \/ ~ (u = t /\ i = 1) /\ i \in 1 .. Len(st[u]) /\ g[u][i] = st[u][i]
  <2>1. CASE u # t
    BY <1>8, <2>1
  <2>2. CASE u = t /\ i = 1
    BY <1>6, <1>8, <2>2
  <2>3. CASE u = t /\ i # 1
    <3>1. i \in 2 .. n + 1
      BY <1>6, <1>8, <2>3
    <3> QED
      BY <1>1, <1>7, <1>8, <1>9, <2>3, <3>1
  <2> QED
    BY <2>1, <2>2, <2>3
<1>11. \A u \in Post!Threads : \A i \in 1 .. Len(st[u]) : i \in 1 .. Len(g[u]) /\ g[u][i].plugin = st[u][i].plugin
  BY <1>9, <1>10
<1>12. \A q : \A u \in Post!Threads : \A i : Disposes(g, u, i, q) <=> Disposes(st, u, i, q)
  BY <1>9, <1>11 DEF Disposes
<1>13. ASSUME NEW q PROVE Called(g, q) <=> Called(st, q)
  BY <1>9, <1>12 DEF Called
<1>14. ASSUME NEW q, OneCall(st, q) PROVE OneCall(g, q)
  BY <1>9, <1>12, <1>14 DEF OneCall
<1> QED
  BY <1>8, <1>10, <1>13, <1>14 DEF Another

-----------------------------------------------------------------------------
\* Whatever points to a port is among its uses.
LEMMA NeedsNat ==
    ASSUME PostTypes, AliasesHeld, NEW p \in Post!Ports
    PROVE  /\ Needs(top, below, aliases, old, p) \in Nat
           /\ aliases[p] \in Nat /\ aliases[p] <= Needs(top, below, aliases, old, p)
           /\ \/ \E s \in Streams : top[s] = p
              \/ \E x \in Post!Ports : below[x] = p
              \/ old = p
              => Needs(top, below, aliases, old, p) >= 1
<1> DEFINE A == Mapped(Streams, top, p)
           B == Mapped(Post!Ports, below, p)
           W == Within(inside, p)
<1>1. A \subseteq Streams /\ B \subseteq Post!Ports /\ W \subseteq Streams
  BY DEF Mapped, Within
<1>2. IsFiniteSet(A) /\ IsFiniteSet(B) /\ IsFiniteSet(W)
  BY <1>1, PostSets, FS_Subset
<1>3. /\ Cardinality(A) \in Nat /\ (Cardinality(A) = 0 <=> A = {})
      /\ Cardinality(B) \in Nat /\ (Cardinality(B) = 0 <=> B = {})
      /\ Cardinality(W) \in Nat
  BY <1>2, FS_CardinalityType, FS_EmptySet
<1>4. aliases[p] \in Nat
  <2>1. aliases[p] \in Int /\ Cardinality(W) <= aliases[p]
    BY DEF PostTypes, AliasesHeld
  <2> QED
    BY <1>3, <2>1
<1>5. Post!B2N(old = p) \in {0, 1} /\ (old = p => Post!B2N(old = p) = 1)
  BY DEF Post!B2N
<1>6. PICK b \in {0, 1} : b = Post!B2N(old = p) /\ (old = p => b = 1)
  BY <1>5
<1>7. PICK m \in Nat, n \in Nat, k \in Nat : m = Cardinality(A) /\ n = Cardinality(B) /\ k = aliases[p]
  BY <1>3, <1>4
<1>8. Needs(top, below, aliases, old, p) = m + n + k + b
  BY <1>6, <1>7 DEF Needs
<1>9. /\ (\E s \in Streams : top[s] = p) => m # 0
      /\ (\E x \in Post!Ports : below[x] = p) => n # 0
      /\ old = p => b # 0
  BY <1>3, <1>6, <1>7 DEF Mapped
<1>10. m + n + k + b \in Nat /\ k <= m + n + k + b /\ (m # 0 \/ n # 0 \/ b # 0 => m + n + k + b >= 1)
  OBVIOUS
<1> QED
  BY <1>7, <1>8, <1>9, <1>10

\* The ports a decoder goes through are all in use.
LEMMA ThroughUsed ==
    ASSUME PostTypes, AliasesHeld, UsesCounted, NoLoops, NEW s \in Streams, top[s] # None
    PROVE  /\ Post!Chain[top[s]] \in Seq(Post!Ports)
           /\ Distinct(Post!Chain[top[s]])
           /\ Post!Through(s) = Vo!Range(Post!Chain[top[s]])
           /\ \A p \in Post!Through(s) : p \in Post!Ports /\ usage[p] >= 1
<1>1. PICK r \in [Post!Ports -> Nat] : Ranked(r)
  BY DEF NoLoops
<1>2. top[s] \in Post!Ports
  BY DEF PostTypes
<1>3. ChainGood(r, top[s])
  BY <1>1, <1>2, ChainsGood
<1>4. Post!Through(s) = Vo!Range(Post!Chain[top[s]])
  BY DEF Post!Through, Vo!Range
<1>5. ASSUME NEW p \in Post!Through(s)
      PROVE  p \in Post!Ports /\ usage[p] >= 1
  <2>1. p \in Post!Ports
    BY <1>3, <1>4, <1>5, InRange DEF ChainGood
  <2>2. p = top[s] \/ \E x \in Post!Ports : below[x] = p
    BY <1>3, <1>4, <1>5 DEF ChainGood
  <2>3. Needs(top, below, aliases, old, p) >= 1
    BY <2>1, <2>2, NeedsNat
  <2> QED
    BY <2>1, <2>3 DEF UsesCounted
<1> QED
  BY <1>3, <1>4, <1>5 DEF ChainGood

\* The counts go with the needs.
LEMMA StagesKept ==
    ASSUME NEW us, NEW st, NEW fr, NEW pe, NEW di, Stages(us, st, fr, pe, di), NEW vs,
           \A p \in Post!Ports : {p} \in pe => (vs[p] = 0 <=> us[p] = 0)
    PROVE  Stages(vs, st, fr, pe, di)
<1>1. ASSUME NEW p \in Post!Ports
      PROVE  Stage(vs, st, fr, pe, di, p) /\ OneCall(st, p)
  BY DEF Stages, Stage
<1> QED
  BY <1>1 DEF Stages

\* The counts and the stacks when t leaves p.
UnusedUse(us, p) == [q \in Post!Ports |-> IF q = p THEN us[q] - 1 ELSE us[q]]

UnusedStack(us, st, pe, t, p) ==
    [st EXCEPT ![t] = IF p # None /\ us[p] = 1 /\ {p} \in pe
                      THEN <<Post!Call({p})>> \o st[t] ELSE st[t]]

\* When a port loses a use, the dispose of its plugin gets as far as it should.
LEMMA UnusedStages ==
    ASSUME OneInput, NEW us \in [Post!Ports -> Int], NEW st \in Stacks, NEW fr, NEW pe, NEW di,
           pe \subseteq di, Stages(us, st, fr, pe, di), NEW t \in Post!Threads,
           NEW p \in Post!Ports \cup {None}, p # None => us[p] >= 1
    PROVE  /\ UnusedStack(us, st, pe, t, p) \in Stacks
           /\ Stages(UnusedUse(us, p), UnusedStack(us, st, pe, t, p), fr, pe, di)
<1> SUFFICES ASSUME NEW vs, vs = UnusedUse(us, p), NEW g, g = UnusedStack(us, st, pe, t, p)
             PROVE  g \in Stacks /\ Stages(vs, g, fr, pe, di)
  OBVIOUS
<1>1. CASE p # None /\ us[p] = 1 /\ {p} \in pe
  <2>1. p \in Post!Ports /\ p # None
    BY <1>1
  <2>2. Stage(us, st, fr, pe, di, p)
    BY <2>1 DEF Stages
  <2>3. ~ Called(st, p) /\ p \notin fr
    BY <1>1, <2>2 DEF Stage
  <2>4. PICK c : c = Post!Call({p})
    OBVIOUS
  <2>5. /\ c \in CallTypes /\ c.plugin = {p}
        /\ c.freeing = FALSE /\ c.left = {p}
    BY <2>1, <2>4, PluginIs DEF CallTypes, Post!Call
  <2>6. g = Pushed(st, t, c)
    BY <1>1, <2>4 DEF Pushed, UnusedStack
  <2>7. /\ g \in Stacks
        /\ \A q : Called(g, q) <=> Called(st, q) \/ q = p
        /\ \A q : OneCall(st, q) => OneCall(g, q)
        /\ \A u \in Post!Threads : \A i \in 1 .. Len(g[u]) :
               g[u][i] = c \/ \E j \in 1 .. Len(st[u]) : g[u][i] = st[u][j]
    <3>1. ~ Called(st, p) /\ c \in CallTypes /\ CallOf(c, p)
      BY <2>3, <2>5 DEF CallOf
    <3>2. OneMore(st, c, p, Pushed(st, t, c))
      BY <3>1, CallPushed
    <3> QED
      BY <2>6, <3>2 DEF OneMore
  <2>8. Entry(c, fr, pe)
    BY <2>3, <2>5 DEF Entry
  <2>9. \A u \in Post!Threads : \A i \in 1 .. Len(g[u]) : Entry(g[u][i], fr, pe)
    BY <2>7, <2>8 DEF Stages
  <2>10. ASSUME NEW q \in Post!Ports
         PROVE  Stage(vs, g, fr, pe, di, q) /\ OneCall(g, q)
    <3>1. Stage(us, st, fr, pe, di, q) /\ OneCall(g, q)
      BY <2>7 DEF Stages
    <3>2. CASE q = p
      <4>1. vs[p] = 0
        BY <1>1, <2>1 DEF UnusedUse
      <4>2. Called(g, p)
        BY <2>7
      <4>3. {p} \in di
        BY <1>1
      <4> QED
        BY <1>1, <2>3, <3>1, <3>2, <4>1, <4>2, <4>3 DEF Stage
    <3>3. CASE q # p
      <4>1. vs[q] = us[q] /\ (Called(g, q) <=> Called(st, q))
        BY <2>7, <3>3 DEF UnusedUse
      <4> QED
        BY <3>1, <4>1 DEF Stage
    <3> QED
      BY <3>2, <3>3
  <2> QED
    BY <2>7, <2>9, <2>10 DEF Stages
<1>2. CASE ~ (p # None /\ us[p] = 1 /\ {p} \in pe)
  <2>1. g = st
    BY <1>2 DEF Stacks, UnusedStack
  <2>2. ASSUME NEW q \in Post!Ports, {q} \in pe
        PROVE  vs[q] = 0 <=> us[q] = 0
    <3>1. us[q] \in Int /\ q # None
      BY PostSets
    <3>2. CASE q = p
      BY <1>2, <2>2, <3>1, <3>2 DEF UnusedUse
    <3>3. CASE q # p
      BY <3>3 DEF UnusedUse
    <3> QED
      BY <3>2, <3>3
  <2> QED
    BY <2>1, <2>2, StagesKept
<1> QED
  BY <1>1, <1>2

\* What a step of t that leaves p does to counts and stacks.
LEMMA UnusedIs ==
    ASSUME OneInput, PostTypes, NEW t \in Post!Threads, NEW p \in Post!Ports \cup {None},
           NEW calls \in Seq(CallTypes), Post!Unused(t, p, calls), NEW fr,
           Stages(usage, [stack EXCEPT ![t] = calls], fr, pending, disposed),
           p # None => usage[p] >= 1
    PROVE  /\ usage' = [q \in Post!Ports |-> IF q = p THEN usage[q] - 1 ELSE usage[q]]
           /\ usage' \in [Post!Ports -> Int]
           /\ stack' \in Stacks
           /\ Stages(usage', stack', fr, pending, disposed)
<1>1. PICK st : st = [stack EXCEPT ![t] = calls]
  OBVIOUS
<1>2. stack \in Stacks /\ usage \in [Post!Ports -> Int] /\ pending \subseteq disposed
  BY DEF PostTypes, Stacks
<1>3. st \in Stacks /\ st[t] = calls
  BY <1>1, <1>2 DEF Stacks
<1>4. /\ usage' = [q \in Post!Ports |-> IF q = p THEN usage[q] - 1 ELSE usage[q]]
      /\ stack' = [stack EXCEPT ![t] = IF p # None /\ usage[p] = 1 /\ Post!PluginOf(p) \in pending
                                       THEN <<Post!Call(Post!PluginOf(p))>> \o calls ELSE calls]
  BY DEF Post!Unused
<1>5. p # None => Post!PluginOf(p) = {p}
  BY PluginIs
<1>6. stack' = [stack EXCEPT ![t] = IF p # None /\ usage[p] = 1 /\ {p} \in pending
                                    THEN <<Post!Call({p})>> \o calls ELSE calls]
  BY <1>4, <1>5
<1>7. stack' = UnusedStack(usage, st, pending, t, p) /\ usage' = UnusedUse(usage, p)
  BY <1>1, <1>2, <1>3, <1>4, <1>6 DEF Stacks, UnusedStack, UnusedUse
<1>8. usage' \in [Post!Ports -> Int]
  BY <1>2, <1>4
<1>9. Stages(usage, st, fr, pending, disposed)
  BY <1>1
<1>10. stack' \in Stacks /\ Stages(usage', stack', fr, pending, disposed)
  <2>1. PICK us, vs, g, pe, di : /\ us = usage /\ vs = usage' /\ g = stack'
                                 /\ pe = pending /\ di = disposed
    OBVIOUS
  <2>2. us \in [Post!Ports -> Int] /\ pe \subseteq di /\ Stages(us, st, fr, pe, di)
    BY <1>2, <1>9, <2>1
  <2>3. vs = UnusedUse(us, p) /\ g = UnusedStack(us, st, pe, t, p)
    BY <1>7, <2>1
  <2>5. p # None => us[p] >= 1
    BY <2>1
  <2>6. t \in Post!Threads /\ p \in Post!Ports \cup {None} /\ OneInput
    OBVIOUS
  <2>7. g \in Stacks /\ Stages(vs, g, fr, pe, di)
    BY ONLY <1>3, <2>2, <2>3, <2>5, <2>6, UnusedStages
  <2> QED
    BY <2>1, <2>7
<1> QED
  BY <1>4, <1>8, <1>10

\* The numbers of Needs are numbers.
LEMMA CountsAre ==
    ASSUME PostTypes, NEW p
    PROVE  /\ Cardinality(Mapped(Streams, top, p)) \in Nat
           /\ Cardinality(Mapped(Post!Ports, below, p)) \in Nat
           /\ Post!B2N(old = p) \in {0, 1}
<1>1. Mapped(Streams, top, p) \subseteq Streams /\ Mapped(Post!Ports, below, p) \subseteq Post!Ports
  BY DEF Mapped
<1>2. IsFiniteSet(Mapped(Streams, top, p)) /\ IsFiniteSet(Mapped(Post!Ports, below, p))
  BY <1>1, PostSets, FS_Subset
<1> QED
  BY <1>2, FS_CardinalityType DEF Post!B2N

-----------------------------------------------------------------------------
(* The steps.  What is true of the stacks of Stages, of one who has calls. *)

\* The innermost call of a thread that disposes of something.
LEMMA Innermost ==
    ASSUME OneInput, PostTypes, NEW t \in Post!Threads, ~ Post!Idle(t)
    PROVE  /\ stack \in Stacks /\ stack[t] # <<>>
           /\ Head(stack[t]) = stack[t][1] /\ Head(stack[t]) \in CallTypes
           /\ 1 \in 1 .. Len(stack[t])
           /\ \E p \in Post!Ports : CallOf(stack[t][1], p) /\ Called(stack, p)
<1>1. PICK s \in Seq(CallTypes) : s = stack[t]
  BY DEF PostTypes
<1>2. s # <<>>
  BY <1>1 DEF Post!Idle
<1>3. Head(s) = s[1] /\ Head(s) \in CallTypes /\ Len(s) \in Nat /\ Len(s) # 0
  BY <1>2, HeadTailProperties, LenProperties, EmptySeq
<1>4. s[1].plugin \in Plugins
  BY <1>3 DEF CallTypes
<1>5. PICK p \in Post!Ports : s[1].plugin = {p}
  BY <1>4, PluginIs
<1>6. 1 \in 1 .. Len(s)
  BY <1>3
<1>7. CallOf(s[1], p) /\ Called(stack, p)
  BY <1>1, <1>5, <1>6 DEF CallOf, Called, Disposes
<1> QED
  BY <1>1, <1>2, <1>3, <1>6, <1>7 DEF PostTypes, Stacks

\* A thread without calls, given none, has the stack it had.
LEMMA NoCalls ==
    ASSUME PostTypes, NEW t \in Post!Threads, Post!Idle(t)
    PROVE  [stack EXCEPT ![t] = <<>>] = stack /\ <<>> \in Seq(CallTypes)
  BY DEF PostTypes, Post!Idle

\* The use of a port that was needed at least by one alias ends with it.
LEMMA RestoreKeeps ==
    ASSUME OneInput, PoInv, NEW t \in Post!Threads, Post!Idle(t), NEW p \in Post!Ports,
           aliases[p] >= 1, Post!Restore(t, p), UNCHANGED <<below, top, old>>,
           UNCHANGED <<pending, disposed, freed>>
    PROVE  /\ usage' \in [Post!Ports -> Int] /\ stack' \in Stacks
           /\ aliases' = [aliases EXCEPT ![p] = @ - 1]
           /\ aliases' \in [Post!Ports -> Int]
           /\ UsesCounted'
           /\ Stages(usage', stack', freed, pending, disposed)
<1>1. usage[p] >= 1
  BY NeedsNat DEF PoInv, UsesCounted, PostTypes
<1>2. /\ [stack EXCEPT ![t] = <<>>] = stack /\ <<>> \in Seq(CallTypes)
  BY NoCalls DEF PoInv
<1>3. /\ Post!Unused(t, p, <<>>) /\ aliases' = [aliases EXCEPT ![p] = @ - 1]
  BY DEF Post!Restore
<1>4. PICK e : e = <<>>
  OBVIOUS
<1>5. /\ e \in Seq(CallTypes) /\ Post!Unused(t, p, e)
      /\ Stages(usage, [stack EXCEPT ![t] = e], freed, pending, disposed)
  BY <1>2, <1>3, <1>4 DEF PoInv
<1>6. /\ usage' = [q \in Post!Ports |-> IF q = p THEN usage[q] - 1 ELSE usage[q]]
      /\ usage' \in [Post!Ports -> Int]
      /\ stack' \in Stacks
      /\ Stages(usage', stack', freed, pending, disposed)
  BY <1>1, <1>5, UnusedIs DEF PoInv
<1>7. aliases' \in [Post!Ports -> Int]
  BY <1>3 DEF PoInv, PostTypes
<1>8. ASSUME NEW q \in Post!Ports
      PROVE  usage'[q] = Needs(top', below', aliases', old', q)
  <2>1. usage[q] = Needs(top, below, aliases, old, q)
    BY DEF PoInv, UsesCounted
  <2>2. /\ top' = top /\ below' = below /\ old' = old
    OBVIOUS
  <2>3. aliases[q] \in Int /\ aliases'[q] = IF q = p THEN aliases[q] - 1 ELSE aliases[q]
    BY <1>3 DEF PoInv, PostTypes
  <2>4. PICK a \in Int, b \in Int, n \in Int : /\ a = Cardinality(Mapped(Streams, top, q))
                                               /\ b = Cardinality(Mapped(Post!Ports, below, q))
                                               /\ n = Post!B2N(old = q)
    BY CountsAre DEF PoInv
  <2>5. Needs(top, below, aliases, old, q) = a + b + aliases[q] + n
    BY <2>4 DEF Needs
  <2>6. Needs(top', below', aliases', old', q) = a + b + aliases'[q] + n
    BY <2>2, <2>4 DEF Needs
  <2> QED
    BY <1>6, <2>1, <2>3, <2>5, <2>6
<1> QED
  BY <1>3, <1>6, <1>7, <1>8 DEF UsesCounted

\* A decoder leaves the lowest port it is inside of.
LEMMA LeaveKeeps ==
    ASSUME PostTypes, AliasesHeld, NEW s \in Streams, s \in returning, Post!Leave(s)
    PROVE  /\ inside' \in [Streams -> Seq(Post!Ports)] /\ returning' \subseteq Streams
           /\ \A x \in Streams : Distinct(inside'[x])
           /\ \A x \in returning' : inside'[x] # <<>>
           /\ Head(inside[s]) \in Post!Ports
           /\ \A p \in Post!Ports :
                 /\ Cardinality(Within(inside, p)) \in Nat
                 /\ Cardinality(Within(inside', p)) =
                       Cardinality(Within(inside, p)) - Post!B2N(p = Head(inside[s]))
<1>1. PICK q \in Seq(Post!Ports) : q = inside[s]
  BY DEF PostTypes
<1>2. q # <<>> /\ Distinct(q)
  BY <1>1 DEF AliasesHeld
<1>3. /\ Head(q) \in Post!Ports /\ Head(q) \in Vo!Range(q)
      /\ Tail(q) \in Seq(Post!Ports) /\ Len(Tail(q)) = Len(q) - 1
      /\ Distinct(Tail(q)) /\ Vo!Range(Tail(q)) = Vo!Range(q) \ {Head(q)}
  BY <1>2, TailDistinct
<1>4. PICK f, h : f = Tail(q) /\ h = Head(q)
  OBVIOUS
<1>5. /\ inside' = [inside EXCEPT ![s] = f]
      /\ returning' = IF Len(q) = 1 THEN returning \ {s} ELSE returning
  BY <1>1, <1>4 DEF Post!Leave
<1>6. inside \in [Streams -> Seq(Post!Ports)] /\ f \in Seq(Post!Ports)
  BY <1>3, <1>4 DEF PostTypes
<1>7. inside' \in [Streams -> Seq(Post!Ports)] /\ inside'[s] = f
      /\ \A x \in Streams \ {s} : inside'[x] = inside[x]
  BY <1>5, <1>6
<1>8. returning' \subseteq returning /\ returning' \subseteq Streams
  BY <1>5 DEF PostTypes
<1>9. \A x \in Streams : Distinct(inside'[x])
  BY <1>3, <1>4, <1>7 DEF AliasesHeld
<1>10. ASSUME NEW x \in returning' PROVE inside'[x] # <<>>
  <2>1. x \in Streams /\ inside[x] # <<>>
    BY <1>8, <1>10 DEF AliasesHeld
  <2>2. CASE x # s
    BY <1>7, <2>1, <2>2
  <2>3. CASE x = s
    <3>1. Len(q) # 1 /\ Len(q) \in Nat /\ Len(q) # 0
      BY <1>2, <1>5, <1>10, <2>3, LenProperties, EmptySeq
    <3>2. Len(f) # 0
      BY <1>3, <1>4, <3>1
    <3>3. f # <<>>
      BY <1>6, <3>2, EmptySeq
    <3> QED
      BY <1>7, <2>3, <3>3
  <2> QED
    BY <2>2, <2>3
<1>11. ASSUME NEW p \in Post!Ports
       PROVE  /\ Cardinality(Within(inside, p)) \in Nat
              /\ Cardinality(Within(inside', p)) = Cardinality(Within(inside, p)) - Post!B2N(p = h)
  <2>1. PICK ins, g : ins = inside /\ g = inside'
    OBVIOUS
  <2>2. ins \in [Streams -> Seq(Post!Ports)] /\ g = [ins EXCEPT ![s] = f]
    BY <1>5, <1>6, <2>1
  <2>3. /\ Cardinality(Within(ins, p)) \in Nat
        /\ Cardinality(Within(g, p)) = Cardinality(Within(ins, p))
             + Post!B2N(p \in Vo!Range(f)) - Post!B2N(p \in Vo!Range(ins[s]))
    <3>1. /\ Cardinality(Within(ins, p)) \in Nat
          /\ Cardinality(Within([ins EXCEPT ![s] = f], p)) = Cardinality(Within(ins, p))
               + Post!B2N(p \in Vo!Range(f)) - Post!B2N(p \in Vo!Range(ins[s]))
      BY <1>6, <2>2, WithinMoves
    <3> QED
      BY <2>2, <3>1
  <2>4. p \in Vo!Range(f) <=> p \in Vo!Range(q) /\ p # h
    BY <1>3, <1>4
  <2>5. h \in Vo!Range(q) /\ ins[s] = q
    BY <1>1, <1>3, <1>4, <2>1
  <2>6. CASE p = h
    BY <2>1, <2>3, <2>4, <2>5, <2>6 DEF Post!B2N
  <2>7. CASE p # h
    <3>1. (p \in Vo!Range(f)) <=> (p \in Vo!Range(ins[s]))
      BY <2>4, <2>5, <2>7
    <3> QED
      BY <2>1, <2>3, <2>7, <3>1 DEF Post!B2N
  <2> QED
    BY <2>6, <2>7
<1> QED
  BY <1>1, <1>3, <1>4, <1>7, <1>8, <1>9, <1>10, <1>11

\* The decoder gets a frame: the ports on the way down have an alias of it.
LEMMA GetFramePost ==
    ASSUME OneInput, PoInv, NEW s \in Streams, Post!GetFrame(s)
    PROVE  PoInv'
<1> DEFINE c == Post!Chain[top[s]]
<1>1. /\ UNCHANGED <<below, top, rewiring, old, returning, pending, disposed, freed, stack>>
      /\ top[s] # None /\ inside[s] = <<>>
      /\ inside' = [inside EXCEPT ![s] = c]
      /\ aliases' = [p \in Post!Ports |-> aliases[p] + IF p \in Post!Through(s) THEN 1 ELSE 0]
      /\ usage' = [p \in Post!Ports |-> usage[p] + IF p \in Post!Through(s) THEN 1 ELSE 0]
  BY DEF Post!GetFrame, Post!wireVars
<1>2. /\ c \in Seq(Post!Ports) /\ Distinct(c) /\ Post!Through(s) = Vo!Range(c)
      /\ \A p \in Post!Through(s) : p \in Post!Ports /\ usage[p] >= 1
  BY <1>1, ThroughUsed DEF PoInv, Wires
<1>3. PICK T : T = Post!Through(s)
  OBVIOUS
<1>4. PICK d \in Seq(Post!Ports) : d = c
  BY <1>2
<1>5. /\ inside' = [inside EXCEPT ![s] = d] /\ Distinct(d) /\ T = Vo!Range(d)
      /\ aliases' = [p \in Post!Ports |-> aliases[p] + IF p \in T THEN 1 ELSE 0]
      /\ usage' = [p \in Post!Ports |-> usage[p] + IF p \in T THEN 1 ELSE 0]
      /\ \A p \in T : usage[p] >= 1
  BY <1>1, <1>2, <1>3, <1>4
<1> HIDE DEF c
<1>6. PostTypes'
  BY <1>1, <1>5 DEF PoInv, PostTypes
<1>7. ASSUME NEW p \in Post!Ports
      PROVE  usage'[p] = Needs(top', below', aliases', old', p)
  <2>1. usage[p] = Needs(top, below, aliases, old, p)
    BY DEF PoInv, UsesCounted
  <2>2. aliases[p] \in Int /\ usage[p] \in Int
    BY DEF PoInv, PostTypes
  <2>3. PICK x \in {0, 1} : x = IF p \in T THEN 1 ELSE 0
    OBVIOUS
  <2>4. aliases'[p] = aliases[p] + x /\ usage'[p] = usage[p] + x
    BY <1>5, <2>3
  <2>5. PICK a \in Int, b \in Int, n \in Int : /\ a = Cardinality(Mapped(Streams, top, p))
                                               /\ b = Cardinality(Mapped(Post!Ports, below, p))
                                               /\ n = Post!B2N(old = p)
    BY CountsAre DEF PoInv
  <2>6. Needs(top, below, aliases, old, p) = a + b + aliases[p] + n
    BY <2>5 DEF Needs
  <2>7. Needs(top', below', aliases', old', p) = a + b + aliases'[p] + n
    BY <1>1, <2>5 DEF Needs
  <2> QED
    BY <2>1, <2>2, <2>4, <2>6, <2>7
<1>8. \A x \in Streams : Distinct(inside'[x])
  BY <1>5 DEF PoInv, AliasesHeld, PostTypes
<1>9. \A x \in returning' : inside'[x] # <<>>
  <2>1. s \notin returning
    BY <1>1 DEF PoInv, AliasesHeld
  <2> QED
    BY <1>1, <1>5, <2>1 DEF PoInv, AliasesHeld, PostTypes
<1>10. ASSUME NEW p \in Post!Ports
       PROVE  Cardinality(Within(inside', p)) <= aliases'[p]
  <2>1. PICK ins, g : ins = inside /\ g = inside'
    OBVIOUS
  <2>2. ins \in [Streams -> Seq(Post!Ports)] /\ g = [ins EXCEPT ![s] = d]
    BY <1>5, <2>1 DEF PoInv, PostTypes
  <2>3. /\ Cardinality(Within(ins, p)) \in Nat
        /\ Cardinality(Within(g, p)) = Cardinality(Within(ins, p))
             + Post!B2N(p \in Vo!Range(d)) - Post!B2N(p \in Vo!Range(ins[s]))
    <3>1. /\ Cardinality(Within(ins, p)) \in Nat
          /\ Cardinality(Within([ins EXCEPT ![s] = d], p)) = Cardinality(Within(ins, p))
               + Post!B2N(p \in Vo!Range(d)) - Post!B2N(p \in Vo!Range(ins[s]))
      BY <2>2, WithinMoves
    <3> QED
      BY <2>2, <3>1
  <2>4. p \notin Vo!Range(ins[s])
    BY <1>1, <2>1, NothingIn
  <2>5. aliases[p] \in Int /\ Cardinality(Within(inside, p)) <= aliases[p]
    BY DEF PoInv, PostTypes, AliasesHeld
  <2>6. CASE p \in T
    BY <1>5, <2>1, <2>3, <2>4, <2>5, <2>6 DEF Post!B2N
  <2>7. CASE p \notin T
    BY <1>5, <2>1, <2>3, <2>4, <2>5, <2>7 DEF Post!B2N
  <2> QED
    BY <2>6, <2>7
<1>11. Stages(usage', stack', freed', pending', disposed')
  <2>1. \A p \in Post!Ports : usage'[p] = 0 <=> usage[p] = 0
    <3> SUFFICES ASSUME NEW p \in Post!Ports PROVE usage'[p] = 0 <=> usage[p] = 0
      OBVIOUS
    <3>1. usage[p] \in Int
      BY DEF PoInv, PostTypes
    <3>2. CASE p \in T
      BY <1>5, <3>1, <3>2
    <3>3. CASE p \notin T
      BY <1>5, <3>1, <3>3
    <3> QED
      BY <3>2, <3>3
  <2>2. PICK vs : vs = usage'
    OBVIOUS
  <2>3. Stages(vs, stack, freed, pending, disposed)
    BY <2>1, <2>2, StagesKept DEF PoInv
  <2> QED
    BY <1>1, <2>2, <2>3
<1>12. Wires'
  BY <1>1 DEF PoInv, Wires, NoLoops, Ranked
<1> QED
  BY <1>6, <1>7, <1>8, <1>9, <1>10, <1>11, <1>12 DEF PoInv, UsesCounted, AliasesHeld

\* The output has found a frame for it.
LEMMA GotFramePost ==
    ASSUME PoInv, NEW s \in Streams, Post!GotFrame(s)
    PROVE  PoInv'
<1>1. /\ returning' = returning \cup {s} /\ inside[s] # <<>>
      /\ UNCHANGED <<usage, aliases, below, top, rewiring, old, inside, pending, disposed,
                     freed, stack>>
  BY DEF Post!GotFrame, Post!useVars, Post!wireVars
<1>2. PostTypes'
  BY <1>1 DEF PoInv, PostTypes
<1>3. AliasesHeld'
  BY <1>1 DEF PoInv, AliasesHeld, Within
<1>4. UsesCounted' /\ Wires'
  BY <1>1 DEF PoInv, UsesCounted, Needs, Mapped, Wires, NoLoops, Ranked
<1>5. Stages(usage', stack', freed', pending', disposed')
  BY <1>1 DEF PoInv
<1> QED
  BY <1>2, <1>3, <1>4, <1>5 DEF PoInv

\* The frame goes up the chain: its alias stays.
LEMMA InterceptPost ==
    ASSUME PoInv, NEW s \in Streams, Post!Intercept(s)
    PROVE  PoInv'
<1>1. /\ s \in returning /\ Post!Leave(s)
      /\ UNCHANGED <<usage, aliases, below, top, rewiring, old, pending, disposed, freed, stack>>
  BY DEF Post!Intercept, Post!useVars, Post!wireVars
<1>2. /\ inside' \in [Streams -> Seq(Post!Ports)] /\ returning' \subseteq Streams
      /\ \A x \in Streams : Distinct(inside'[x])
      /\ \A x \in returning' : inside'[x] # <<>>
      /\ \A p \in Post!Ports :
            /\ Cardinality(Within(inside, p)) \in Nat
            /\ Cardinality(Within(inside', p)) =
                  Cardinality(Within(inside, p)) - Post!B2N(p = Head(inside[s]))
  BY <1>1, LeaveKeeps DEF PoInv
<1>3. PostTypes'
  BY <1>1, <1>2 DEF PoInv, PostTypes
<1>4. ASSUME NEW p \in Post!Ports PROVE Cardinality(Within(inside', p)) <= aliases'[p]
  <2>1. aliases'[p] = aliases[p] /\ aliases[p] \in Int /\ Cardinality(Within(inside, p)) <= aliases[p]
    BY <1>1 DEF PoInv, PostTypes, AliasesHeld
  <2>2. PICK b \in {0, 1} : b = Post!B2N(p = Head(inside[s]))
    BY DEF Post!B2N
  <2> QED
    BY <1>2, <2>1, <2>2
<1>5. AliasesHeld'
  BY <1>2, <1>4 DEF AliasesHeld
<1>6. UsesCounted' /\ Wires'
  BY <1>1 DEF PoInv, UsesCounted, Needs, Mapped, Wires, NoLoops, Ranked
<1>7. Stages(usage', stack', freed', pending', disposed')
  BY <1>1 DEF PoInv
<1> QED
  BY <1>3, <1>5, <1>6, <1>7 DEF PoInv

\* A port on the way down has nothing to add to the frame.
LEMMA FreeUnusedPost ==
    ASSUME OneInput, PoInv, NEW s \in Streams, Post!FreeUnused(s)
    PROVE  PoInv'
<1>1. PICK h : h = Head(inside[s])
  OBVIOUS
<1>2. /\ s \in returning /\ Post!Leave(s) /\ Post!Idle(s) /\ Post!Restore(s, h)
      /\ UNCHANGED <<below, top, rewiring, old, pending, disposed, freed>>
  BY <1>1 DEF Post!FreeUnused, Post!wireVars
<1>3. /\ inside' \in [Streams -> Seq(Post!Ports)] /\ returning' \subseteq Streams
      /\ \A x \in Streams : Distinct(inside'[x])
      /\ \A x \in returning' : inside'[x] # <<>>
      /\ h \in Post!Ports
      /\ \A p \in Post!Ports :
            /\ Cardinality(Within(inside, p)) \in Nat
            /\ Cardinality(Within(inside', p)) = Cardinality(Within(inside, p)) - Post!B2N(p = h)
  BY <1>1, <1>2, LeaveKeeps DEF PoInv
<1>4. aliases[h] >= 1
  <2>1. s \in Within(inside, h)
    <3>1. inside[s] \in Seq(Post!Ports) /\ inside[s] # <<>> /\ Distinct(inside[s])
      BY <1>2 DEF PoInv, PostTypes, AliasesHeld
    <3> QED
      BY <1>1, <3>1, TailDistinct DEF Within
  <2>2. Within(inside, h) \subseteq Streams
    BY DEF Within
  <2>3. IsFiniteSet(Within(inside, h))
    BY <2>2, PostSets, FS_Subset
  <2>4. Cardinality(Within(inside, h)) # 0 /\ Cardinality(Within(inside, h)) \in Nat
    BY <2>1, <2>3, FS_EmptySet, FS_CardinalityType
  <2>5. aliases[h] \in Int /\ Cardinality(Within(inside, h)) <= aliases[h]
    BY <1>3 DEF PoInv, PostTypes, AliasesHeld
  <2> QED
    BY <2>4, <2>5
<1>5. s \in Post!Threads
  BY PostSets
<1>6. /\ usage' \in [Post!Ports -> Int] /\ stack' \in Stacks
      /\ aliases' = [aliases EXCEPT ![h] = @ - 1]
      /\ aliases' \in [Post!Ports -> Int]
      /\ UsesCounted'
      /\ Stages(usage', stack', freed, pending, disposed)
  BY <1>2, <1>3, <1>4, <1>5, RestoreKeeps
<1>7. PostTypes'
  BY <1>2, <1>3, <1>6 DEF PoInv, PostTypes, Stacks
<1>8. ASSUME NEW p \in Post!Ports PROVE Cardinality(Within(inside', p)) <= aliases'[p]
  <2>1. aliases[p] \in Int /\ Cardinality(Within(inside, p)) <= aliases[p]
    BY DEF PoInv, PostTypes, AliasesHeld
  <2>2. CASE p = h
    <3>1. aliases'[p] = aliases[p] - 1 /\ Post!B2N(p = h) = 1
      BY <1>6, <2>2 DEF PoInv, PostTypes, Post!B2N
    <3> QED
      BY <1>3, <2>1, <3>1
  <2>3. CASE p # h
    <3>1. aliases'[p] = aliases[p] /\ Post!B2N(p = h) = 0
      BY <1>6, <2>3 DEF PoInv, PostTypes, Post!B2N
    <3> QED
      BY <1>3, <2>1, <3>1
  <2> QED
    BY <2>2, <2>3
<1>9. AliasesHeld'
  BY <1>3, <1>8 DEF AliasesHeld
<1>10. Wires' /\ Stages(usage', stack', freed', pending', disposed')
  BY <1>2, <1>6 DEF PoInv, Wires, NoLoops, Ranked
<1> QED
  BY <1>6, <1>7, <1>9, <1>10 DEF PoInv

\* The last reference to a frame is dropped.
LEMMA FreeFramePost ==
    ASSUME OneInput, PoInv, NEW t \in Post!Threads, NEW p \in Post!Ports, Post!FreeFrame(t, p)
    PROVE  PoInv'
<1>1. /\ Post!Idle(t) /\ Post!Shown(p) > 0 /\ Post!Restore(t, p)
      /\ UNCHANGED <<below, top, rewiring, old, inside, returning, pending, disposed, freed>>
  BY DEF Post!FreeFrame, Post!wireVars, Post!frameVars
<1>2. \A q \in Post!Ports : aliases[q] \in Int /\ Cardinality(Within(inside, q)) \in Nat
  <2> SUFFICES ASSUME NEW q \in Post!Ports
               PROVE  aliases[q] \in Int /\ Cardinality(Within(inside, q)) \in Nat
    OBVIOUS
  <2>1. Within(inside, q) \subseteq Streams
    BY DEF Within
  <2> QED
    BY <2>1, PostSets, FS_Subset, FS_CardinalityType DEF PoInv, PostTypes
<1>3. aliases[p] > Cardinality(Within(inside, p)) /\ aliases[p] >= 1
  <2>1. aliases[p] - Cardinality(Within(inside, p)) > 0
    BY <1>1, ShownIs DEF PoInv
  <2> QED
    BY <1>2, <2>1
<1>4. /\ usage' \in [Post!Ports -> Int] /\ stack' \in Stacks
      /\ aliases' = [aliases EXCEPT ![p] = @ - 1]
      /\ aliases' \in [Post!Ports -> Int]
      /\ UsesCounted'
      /\ Stages(usage', stack', freed, pending, disposed)
  BY <1>1, <1>3, RestoreKeeps
<1>5. PostTypes'
  BY <1>1, <1>4 DEF PoInv, PostTypes, Stacks
<1>6. ASSUME NEW q \in Post!Ports PROVE Cardinality(Within(inside', q)) <= aliases'[q]
  <2>1. aliases[q] \in Int /\ Cardinality(Within(inside, q)) <= aliases[q] /\ inside' = inside
    BY <1>1, <1>2 DEF PoInv, AliasesHeld
  <2>2. CASE q = p
    BY <1>2, <1>3, <1>4, <2>1, <2>2 DEF PoInv, PostTypes
  <2>3. CASE q # p
    BY <1>2, <1>4, <2>1, <2>3 DEF PoInv, PostTypes
  <2> QED
    BY <2>2, <2>3
<1>7. AliasesHeld'
  BY <1>1, <1>6 DEF PoInv, AliasesHeld
<1>8. Wires' /\ Stages(usage', stack', freed', pending', disposed')
  BY <1>1, <1>4 DEF PoInv, Wires, NoLoops, Ranked
<1> QED
  BY <1>4, <1>5, <1>7, <1>8 DEF PoInv

\* The ports that nobody has disposed of, when one of them is used.
LEMMA UsedKeeps ==
    ASSUME OneInput, PoInv, NEW new \in Post!Live, Post!Used(new)
    PROVE  /\ new \in Post!Ports \cup {None}
           /\ usage' = [q \in Post!Ports |-> IF q = new THEN usage[q] + 1 ELSE usage[q]]
           /\ usage' \in [Post!Ports -> Int]
           /\ Stages(usage', stack, freed, pending, disposed)
<1>1. usage' = [q \in Post!Ports |-> IF q = new THEN usage[q] + 1 ELSE usage[q]]
  BY DEF Post!Used
<1>2. usage' \in [Post!Ports -> Int]
  BY <1>1 DEF PoInv, PostTypes
<1>3. new \in Post!Ports \cup {None}
  BY DEF Post!Live
<1>4. \A p \in Post!Ports : {p} \in pending => p # new
  <2> SUFFICES ASSUME NEW p \in Post!Ports, {p} \in pending, p = new PROVE FALSE
    OBVIOUS
  <2>1. p # None
    BY PostSets
  <2>2. Post!PluginOf(p) \notin disposed
    BY <2>1 DEF Post!Live
  <2>3. {p} \in disposed
    BY DEF PoInv, PostTypes
  <2> QED
    BY <2>2, <2>3, PluginIs
<1>5. PICK vs : vs = usage'
  OBVIOUS
<1>6. \A p \in Post!Ports : {p} \in pending => (vs[p] = 0 <=> usage[p] = 0)
  BY <1>1, <1>4, <1>5
<1>7. Stages(vs, stack, freed, pending, disposed)
  BY <1>6, StagesKept DEF PoInv
<1> QED
  BY <1>1, <1>2, <1>3, <1>5, <1>7

\* A stream is wired to another port, which is used in addition.
LEMMA RewireStreamPost ==
    ASSUME OneInput, PoInv, NEW s \in Streams, NEW new, Post!RewireStream(s, new)
    PROVE  PoInv'
<1>1. /\ ~ rewiring /\ new \in Post!Live /\ Post!Used(new)
      /\ top' = [top EXCEPT ![s] = new] /\ rewiring' = TRUE /\ old' = top[s]
      /\ UNCHANGED <<below, aliases, inside, returning, pending, disposed, freed, stack>>
  BY DEF Post!RewireStream, Post!Still, Post!frameVars
<1>2. old = None
  BY <1>1 DEF PoInv, Wires
<1>3. /\ new \in Post!Ports \cup {None}
      /\ usage' = [q \in Post!Ports |-> IF q = new THEN usage[q] + 1 ELSE usage[q]]
      /\ usage' \in [Post!Ports -> Int]
      /\ Stages(usage', stack, freed, pending, disposed)
  BY <1>1, UsedKeeps
<1>4. PostTypes'
  BY <1>1, <1>3 DEF PoInv, PostTypes
<1>5. ASSUME NEW p \in Post!Ports
      PROVE  usage'[p] = Needs(top', below', aliases', old', p)
  <2>1. usage[p] = Needs(top, below, aliases, old, p) /\ usage[p] \in Int /\ aliases[p] \in Int
    BY DEF PoInv, UsesCounted, PostTypes
  <2>2. PICK tp : tp = top'
    OBVIOUS
  <2>3. /\ Cardinality(Mapped(Streams, top, p)) \in Nat
        /\ Cardinality(Mapped(Streams, [top EXCEPT ![s] = new], p)) =
              Cardinality(Mapped(Streams, top, p)) + Post!B2N(new = p) - Post!B2N(top[s] = p)
    <3>1. PICK f \in [Streams -> Post!Ports \cup {None}], v \in Post!Ports \cup {None} : f = top /\ v = new
      BY <1>3 DEF PoInv, PostTypes
    <3>2. /\ Cardinality(Mapped(Streams, f, p)) \in Nat
          /\ Cardinality(Mapped(Streams, Rewired(f, s, v), p)) =
                Cardinality(Mapped(Streams, f, p)) + Goes(v, p) - Goes(f[s], p)
      <4>1. IsFiniteSet(Streams)
        BY PostSets
      <4>2. s \in Streams /\ f = [y \in Streams |-> f[y]]
        OBVIOUS
      <4> QED
        BY ONLY <4>1, <4>2, CountMoves
    <3> QED
      BY <3>1, <3>2 DEF Rewired, Goes, Post!B2N
  <2>4. p # None
    BY PostSets
  <2>5. PICK a \in Int, b \in Int, c \in Int, m \in Int, n \in Int :
            /\ a = Cardinality(Mapped(Streams, top, p)) /\ b = Cardinality(Mapped(Post!Ports, below, p))
            /\ c = aliases[p] /\ m = Post!B2N(new = p) /\ n = Post!B2N(top[s] = p)
    BY <2>1, CountsAre DEF PoInv, Post!B2N
  <2>6. Needs(top, below, aliases, old, p) = a + b + c
    BY <1>2, <2>4, <2>5 DEF Needs, Post!B2N
  <2>7. Needs(top', below', aliases', old', p) = (a + m - n) + b + c + n
    <3>1. Cardinality(Mapped(Streams, tp, p)) = a + m - n
      BY <1>1, <2>2, <2>3, <2>5
    <3>2. below' = below /\ aliases' = aliases /\ old' = top[s]
      BY <1>1
    <3> QED
      BY <2>2, <2>5, <3>1, <3>2 DEF Needs
  <2>8. usage'[p] = usage[p] + m
    BY <1>3, <2>1, <2>5 DEF Post!B2N
  <2> QED
    BY <2>1, <2>5, <2>6, <2>7, <2>8
<1>6. AliasesHeld'
  BY <1>1 DEF PoInv, AliasesHeld, Within
<1>7. Wires' /\ Stages(usage', stack', freed', pending', disposed')
  BY <1>1, <1>3 DEF PoInv, Wires, NoLoops, Ranked
<1> QED
  BY <1>4, <1>5, <1>6, <1>7 DEF PoInv, UsesCounted

\* Ranks for a port that is wired to one it is not below of: it and all above
\* it rise over that one.
LEMMA StillRanked ==
    ASSUME PostTypes, NoLoops, NEW x \in Post!Ports, NEW new \in Post!Ports \cup {None},
           x \notin Vo!Range(Post!Chain[new])
    PROVE  \E r \in [Post!Ports -> Nat] :
               \A p \in Post!Ports : [below EXCEPT ![x] = new][p] # None =>
                   r[[below EXCEPT ![x] = new][p]] < r[p]
<1>1. PICK r \in [Post!Ports -> Nat] : Ranked(r)
  BY DEF NoLoops
<1>2. PICK g : g = [below EXCEPT ![x] = new]
  OBVIOUS
<1>3. /\ g[x] = new
      /\ \A p \in Post!Ports : p # x => g[p] = below[p] /\ below[p] \in Post!Ports \cup {None}
  BY <1>2 DEF PostTypes
<1>4. CASE new = None
  <2>1. \A p \in Post!Ports : g[p] # None => r[g[p]] < r[p]
    BY <1>1, <1>3, <1>4 DEF Ranked
  <2> QED
    BY <1>2, <2>1
<1>5. CASE new # None
  <2>1. new \in Post!Ports /\ r[new] \in Nat
    BY <1>5
  <2> DEFINE up(q) == IF x \in Vo!Range(Post!Chain[q]) THEN r[new] + 1 ELSE 0
             k == [q \in Post!Ports |-> r[q] + up(q)]
  <2>2. \A q \in Post!Ports : up(q) \in Nat /\ r[q] \in Nat /\ r[q] + up(q) \in Nat
    BY <2>1
  <2>3. k \in [Post!Ports -> Nat]
    BY <2>2
  <2>4. ASSUME NEW p \in Post!Ports, g[p] # None
        PROVE  k[g[p]] < k[p]
    <3>1. CASE p = x
      <4>1. g[p] = new /\ up(new) = 0 /\ k[new] = r[new]
        BY <1>3, <2>1, <3>1
      <4>2. up(p) = r[new] + 1
        BY <1>1, <3>1, ChainsGood DEF ChainGood
      <4> QED
        BY <2>1, <2>2, <4>1, <4>2
    <3>2. CASE p # x
      <4>1. g[p] = below[p] /\ below[p] \in Post!Ports /\ p # None
        BY <1>3, <2>4, <3>2, PostSets
      <4>2. PICK b \in Post!Ports : b = below[p]
        BY <4>1
      <4>3. r[b] < r[p]
        BY <1>1, <4>1, <4>2, PostSets DEF Ranked
      <4>4. Post!Chain[p] = Append(Post!Chain[b], p)
        BY <4>1, <4>2, ChainAt DEF ChainStep
      <4>5. PICK e \in Seq(Post!Ports) : e = Post!Chain[b] /\ Distinct(e)
        BY <1>1, ChainsGood DEF ChainGood
      <4>6. p \notin Vo!Range(e)
        <5>1. \A q \in Vo!Range(e) : r[q] <= r[b] /\ q \in Post!Ports
          BY <1>1, <4>5, ChainsGood, InRange DEF ChainGood
        <5> QED
          BY <4>3, <5>1
      <4>7. Vo!Range(Append(e, p)) = Vo!Range(e) \cup {p}
        BY <4>5, <4>6, AppendDistinct
      <4>8. x \in Vo!Range(Post!Chain[p]) <=> x \in Vo!Range(Post!Chain[b])
        BY <3>2, <4>4, <4>5, <4>7
      <4>9. up(p) = up(b)
        BY <4>8
      <4> QED
        BY <2>2, <4>1, <4>2, <4>3, <4>9
    <3> QED
      BY <3>1, <3>2
  <2> HIDE DEF k
  <2> QED
    BY <1>2, <2>3, <2>4
<1> QED
  BY <1>4, <1>5

\* A port is wired to another one.
LEMMA RewirePortPost ==
    ASSUME OneInput, PoInv, NEW x \in Post!Ports, NEW new, Post!RewirePort(x, new)
    PROVE  PoInv'
<1>1. /\ ~ rewiring /\ new \in Post!Live /\ Post!Used(new)
      /\ x \notin Vo!Range(Post!Chain[new])
      /\ below' = [below EXCEPT ![x] = new] /\ rewiring' = TRUE /\ old' = below[x]
      /\ UNCHANGED <<top, aliases, inside, returning, pending, disposed, freed, stack>>
  BY DEF Post!RewirePort, Post!Still, Post!frameVars, Vo!Range
<1>2. old = None
  BY <1>1 DEF PoInv, Wires
<1>3. /\ new \in Post!Ports \cup {None}
      /\ usage' = [q \in Post!Ports |-> IF q = new THEN usage[q] + 1 ELSE usage[q]]
      /\ usage' \in [Post!Ports -> Int]
      /\ Stages(usage', stack, freed, pending, disposed)
  BY <1>1, UsedKeeps
<1>4. PostTypes'
  BY <1>1, <1>3 DEF PoInv, PostTypes
<1>5. ASSUME NEW p \in Post!Ports
      PROVE  usage'[p] = Needs(top', below', aliases', old', p)
  <2>1. usage[p] = Needs(top, below, aliases, old, p) /\ usage[p] \in Int /\ aliases[p] \in Int
    BY DEF PoInv, UsesCounted, PostTypes
  <2>2. PICK bl : bl = below'
    OBVIOUS
  <2>3. /\ Cardinality(Mapped(Post!Ports, below, p)) \in Nat
        /\ Cardinality(Mapped(Post!Ports, [below EXCEPT ![x] = new], p)) =
              Cardinality(Mapped(Post!Ports, below, p)) + Post!B2N(new = p) - Post!B2N(below[x] = p)
    <3>1. PICK f \in [Post!Ports -> Post!Ports \cup {None}], v \in Post!Ports \cup {None} : f = below /\ v = new
      BY <1>3 DEF PoInv, PostTypes
    <3>2. /\ Cardinality(Mapped(Post!Ports, f, p)) \in Nat
          /\ Cardinality(Mapped(Post!Ports, Rewired(f, x, v), p)) =
                Cardinality(Mapped(Post!Ports, f, p)) + Goes(v, p) - Goes(f[x], p)
      <4>1. IsFiniteSet(Post!Ports)
        BY PostSets
      <4>2. x \in Post!Ports /\ f = [y \in Post!Ports |-> f[y]]
        OBVIOUS
      <4> QED
        BY ONLY <4>1, <4>2, CountMoves
    <3> QED
      BY <3>1, <3>2 DEF Rewired, Goes, Post!B2N
  <2>4. p # None
    BY PostSets
  <2>5. PICK a \in Int, b \in Int, c \in Int, m \in Int, n \in Int :
            /\ a = Cardinality(Mapped(Streams, top, p)) /\ b = Cardinality(Mapped(Post!Ports, below, p))
            /\ c = aliases[p] /\ m = Post!B2N(new = p) /\ n = Post!B2N(below[x] = p)
    BY <2>1, CountsAre DEF PoInv, Post!B2N
  <2>6. Needs(top, below, aliases, old, p) = a + b + c
    BY <1>2, <2>4, <2>5 DEF Needs, Post!B2N
  <2>7. Needs(top', below', aliases', old', p) = a + (b + m - n) + c + n
    <3>1. Cardinality(Mapped(Post!Ports, bl, p)) = b + m - n
      BY <1>1, <2>2, <2>3, <2>5
    <3>2. top' = top /\ aliases' = aliases /\ old' = below[x]
      BY <1>1
    <3> QED
      BY <2>2, <2>5, <3>1, <3>2 DEF Needs
  <2>8. usage'[p] = usage[p] + m
    BY <1>3, <2>1, <2>5 DEF Post!B2N
  <2> QED
    BY <2>1, <2>5, <2>6, <2>7, <2>8
<1>6. AliasesHeld'
  BY <1>1 DEF PoInv, AliasesHeld, Within
<1>7. NoLoops'
  <2>1. \E r \in [Post!Ports -> Nat] :
            \A p \in Post!Ports : [below EXCEPT ![x] = new][p] # None =>
                r[[below EXCEPT ![x] = new][p]] < r[p]
    BY <1>1, <1>3, StillRanked DEF PoInv, Wires
  <2> QED
    BY <1>1, <2>1 DEF NoLoops, Ranked
<1>8. Wires' /\ Stages(usage', stack', freed', pending', disposed')
  BY <1>1, <1>3, <1>7 DEF PoInv, Wires
<1> QED
  BY <1>4, <1>5, <1>6, <1>8 DEF PoInv, UsesCounted

\* The old port is left.
LEMMA LeaveOldPost ==
    ASSUME OneInput, PoInv, Post!LeaveOld
    PROVE  PoInv'
<1>1. /\ Post!Idle(App) /\ old # None /\ Post!Unused(App, old, <<>>) /\ old' = None
      /\ UNCHANGED <<below, top, rewiring, aliases, inside, returning, pending, disposed, freed>>
  BY DEF Post!LeaveOld, Post!frameVars
<1>2. old \in Post!Ports /\ App \in Post!Threads
  BY <1>1, PostSets DEF PoInv, PostTypes
<1>3. usage[old] >= 1
  BY <1>2, NeedsNat DEF PoInv, UsesCounted
<1>4. PICK e : e = <<>>
  OBVIOUS
<1>5. /\ e \in Seq(CallTypes) /\ Post!Unused(App, old, e)
      /\ Stages(usage, [stack EXCEPT ![App] = e], freed, pending, disposed)
  BY <1>1, <1>2, <1>4, NoCalls DEF PoInv
<1>6. PICK p \in Post!Ports : p = old
  BY <1>2
<1>7. /\ usage' = [q \in Post!Ports |-> IF q = p THEN usage[q] - 1 ELSE usage[q]]
      /\ usage' \in [Post!Ports -> Int]
      /\ stack' \in Stacks
      /\ Stages(usage', stack', freed, pending, disposed)
  BY <1>2, <1>3, <1>5, <1>6, UnusedIs DEF PoInv
<1>8. PostTypes'
  BY <1>1, <1>7 DEF PoInv, PostTypes, Stacks
<1>9. ASSUME NEW q \in Post!Ports
      PROVE  usage'[q] = Needs(top', below', aliases', old', q)
  <2>1. usage[q] = Needs(top, below, aliases, old, q) /\ usage[q] \in Int /\ aliases[q] \in Int
    BY DEF PoInv, UsesCounted, PostTypes
  <2>2. PICK a \in Int, b \in Int, c \in Int, n \in Int :
            /\ a = Cardinality(Mapped(Streams, top, q)) /\ b = Cardinality(Mapped(Post!Ports, below, q))
            /\ c = aliases[q] /\ n = Post!B2N(old = q)
    BY <2>1, CountsAre DEF PoInv, Post!B2N
  <2>3. Needs(top, below, aliases, old, q) = a + b + c + n
    BY <2>2 DEF Needs
  <2>4. q # None
    BY PostSets
  <2>5. Post!B2N(old' = q) = 0
    BY <1>1, <2>4 DEF Post!B2N
  <2>6. Needs(top', below', aliases', old', q) = a + b + c + 0
    BY <1>1, <2>2, <2>5 DEF Needs
  <2>7. usage'[q] = usage[q] - n
    BY <1>6, <1>7, <2>1, <2>2 DEF Post!B2N
  <2> QED
    BY <2>1, <2>2, <2>3, <2>6, <2>7
<1>10. AliasesHeld'
  BY <1>1 DEF PoInv, AliasesHeld, Within
<1>11. Wires' /\ Stages(usage', stack', freed', pending', disposed')
  BY <1>1, <1>7 DEF PoInv, Wires, NoLoops, Ranked
<1> QED
  BY <1>8, <1>9, <1>10, <1>11 DEF PoInv, UsesCounted

\* The ticket is issued again.
LEMMA IssuePost ==
    ASSUME PoInv, Post!Issue
    PROVE  PoInv'
<1>1. /\ rewiring' = FALSE /\ old = None
      /\ UNCHANGED <<usage, aliases, below, top, old, inside, returning, pending, disposed,
                     freed, stack>>
  BY DEF Post!Issue, Post!useVars, Post!frameVars
<1>2. PostTypes' /\ AliasesHeld' /\ UsesCounted' /\ Wires'
  BY <1>1 DEF PoInv, PostTypes, AliasesHeld, Within, UsesCounted, Needs, Mapped, Wires, NoLoops,
              Ranked
<1>3. Stages(usage', stack', freed', pending', disposed')
  BY <1>1 DEF PoInv
<1> QED
  BY <1>2, <1>3 DEF PoInv

\* The call that a thread is in, and its plugin.
LEMMA CallEntry ==
    ASSUME OneInput, PoInv, NEW t \in Post!Threads, ~ Post!Idle(t)
    PROVE  /\ stack \in Stacks /\ stack[t] # <<>> /\ 1 \in 1 .. Len(stack[t])
           /\ Head(stack[t]) = stack[t][1] /\ stack[t][1] \in CallTypes
           /\ \E p \in Post!Ports :
                 /\ CallOf(stack[t][1], p) /\ Called(stack, p) /\ {p} \in disposed
                 /\ Stage(usage, stack, freed, pending, disposed, p) /\ OneCall(stack, p)
                 /\ Entry(stack[t][1], freed, pending)
<1>1. /\ stack \in Stacks /\ stack[t] # <<>> /\ 1 \in 1 .. Len(stack[t])
      /\ Head(stack[t]) = stack[t][1] /\ stack[t][1] \in CallTypes
  BY Innermost DEF PoInv
<1>2. PICK p \in Post!Ports : CallOf(stack[t][1], p) /\ Called(stack, p)
  BY Innermost DEF PoInv
<1>3. /\ Stage(usage, stack, freed, pending, disposed, p) /\ OneCall(stack, p)
      /\ Entry(stack[t][1], freed, pending)
  BY <1>1 DEF PoInv, Stages
<1>4. {p} \in disposed
  BY <1>2, <1>3 DEF Stage
<1> QED
  BY <1>1, <1>2, <1>3, <1>4

\* The application disposes of a plugin.
LEMMA DisposePost ==
    ASSUME OneInput, PoInv, NEW plugin \in Plugins, Post!Dispose(plugin)
    PROVE  PoInv'
<1>1. PICK p \in Post!Ports : plugin = {p}
  BY PluginIs
<1>2. PICK c : c = Post!Call(plugin)
  OBVIOUS
<1>3. /\ Post!Idle(App) /\ {p} \notin disposed
      /\ disposed' = disposed \cup {{p}}
      /\ stack' = [stack EXCEPT ![App] = <<c>>]
      /\ UNCHANGED <<usage, aliases, below, top, rewiring, old, inside, returning, pending, freed>>
  BY <1>1, <1>2 DEF Post!Dispose, Post!useVars, Post!wireVars, Post!frameVars
<1>4. /\ c \in CallTypes /\ c.plugin = {p}
      /\ c.freeing = FALSE /\ c.left = {p}
  BY <1>1, <1>2 DEF CallTypes, Post!Call
<1>5. stack \in Stacks /\ App \in Post!Threads /\ pending \subseteq disposed
  BY PostSets DEF PoInv, PostTypes, Stacks
<1>6. stack' = Pushed(stack, App, c)
  <2>1. PICK e : e = <<>>
    OBVIOUS
  <2>2. e \in Seq(CallTypes) /\ stack[App] = e
    BY <1>3, <2>1 DEF Post!Idle
  <2>3. PICK f : f = <<c>>
    OBVIOUS
  <2>5. f \in Seq(CallTypes)
    BY <1>4, <2>3
  <2>4. f \o <<>> = f
    BY <2>5, ConcatEmptySeq
  <2> QED
    BY <1>3, <2>1, <2>2, <2>3, <2>4 DEF Pushed
<1>7. Stage(usage, stack, freed, pending, disposed, p)
  BY DEF PoInv, Stages
<1>8. ~ Called(stack, p) /\ p \notin freed
  BY <1>3, <1>7 DEF Stage
<1>9. PICK st, g, di, us, fr, pe : /\ st = stack /\ g = stack' /\ di = disposed /\ us = usage
                                   /\ fr = freed /\ pe = pending
  OBVIOUS
<1>10. OneMore(st, c, p, g)
  <2>1. st \in Stacks /\ ~ Called(st, p) /\ CallOf(c, p) /\ c \in CallTypes /\ g = Pushed(st, App, c)
    BY <1>4, <1>5, <1>6, <1>8, <1>9 DEF CallOf
  <2> QED
    BY <1>5, <2>1, CallPushed
<1>11. Stages(us, st, fr, pe, di) /\ pe \subseteq di /\ {p} \notin di /\ p \notin fr
  BY <1>3, <1>5, <1>8, <1>9 DEF PoInv
<1>12. Stages(us, g, fr, pe, di \cup {{p}})
  <2>1. Entry(c, fr, pe)
    BY <1>4, <1>11 DEF Entry
  <2>2. \A u \in Post!Threads : \A i \in 1 .. Len(g[u]) : Entry(g[u][i], fr, pe)
    BY <1>10, <1>11, <2>1 DEF Stages, OneMore
  <2>3. ASSUME NEW q \in Post!Ports
        PROVE  Stage(us, g, fr, pe, di \cup {{p}}, q) /\ OneCall(g, q)
    <3>1. Stage(us, st, fr, pe, di, q) /\ OneCall(g, q)
      BY <1>10, <1>11 DEF Stages, OneMore
    <3>2. Called(g, q) <=> Called(st, q) \/ q = p
      BY <1>10 DEF OneMore
    <3>3. CASE q = p
      BY <1>11, <3>1, <3>2, <3>3 DEF Stage
    <3>4. CASE q # p
      <4>1. {q} \in di \cup {{p}} <=> {q} \in di
        BY <3>4
      <4> QED
        BY <3>1, <3>2, <3>4, <4>1 DEF Stage
    <3> QED
      BY <3>3, <3>4
  <2> QED
    BY <2>2, <2>3 DEF Stages
<1>13. PostTypes'
  <2>1. stack' \in [Post!Threads -> Seq(CallTypes)]
    BY <1>9, <1>10 DEF OneMore, Stacks
  <2>2. disposed' \subseteq Plugins /\ pending' \subseteq disposed'
    BY <1>1, <1>3, <1>5 DEF PoInv, PostTypes
  <2> QED
    BY <1>3, <2>1, <2>2 DEF PoInv, PostTypes
<1>14. AliasesHeld' /\ UsesCounted' /\ Wires'
  BY <1>3 DEF PoInv, AliasesHeld, Within, UsesCounted, Needs, Mapped, Wires, NoLoops, Ranked
<1>15. Stages(usage', stack', freed', pending', disposed')
  BY <1>3, <1>9, <1>12
<1> QED
  BY <1>13, <1>14, <1>15 DEF PoInv

\* The counters are looked at: the plugin is freed now, or by who drops its
\* last use.
LEMMA CheckUsePost ==
    ASSUME OneInput, PoInv, NEW t \in Post!Threads, Post!CheckUse(t)
    PROVE  PoInv'
<1>1. ~ Post!Idle(t)
  BY DEF Post!CheckUse
<1>2. PICK h \in CallTypes : h = stack[t][1]
  BY <1>1, CallEntry
<1>3. PICK p \in Post!Ports :
          /\ CallOf(stack[t][1], p) /\ Called(stack, p) /\ {p} \in disposed
          /\ Stage(usage, stack, freed, pending, disposed, p) /\ OneCall(stack, p)
          /\ Entry(stack[t][1], freed, pending)
  BY <1>1, CallEntry
<1>4. stack \in Stacks /\ stack[t] # <<>> /\ Head(stack[t]) = h /\ h.plugin = {p}
  BY <1>1, <1>2, <1>3, CallEntry DEF CallOf
<1>5. Post!InUse({p}) = usage[p] /\ usage[p] \in Nat
  <2>1. Post!InUse({p}) = usage[p]
    BY InUseIs DEF PoInv
  <2>2. usage[p] = Needs(top, below, aliases, old, p) /\ Needs(top, below, aliases, old, p) \in Nat
    BY NeedsNat DEF PoInv, UsesCounted
  <2> QED
    BY <2>1, <2>2
<1>6. PICK c : c = [h EXCEPT !.freeing = TRUE]
  OBVIOUS
<1>7. /\ ~ h.freeing
      /\ pending' = pending \cup {{p}}
      /\ stack' = [stack EXCEPT ![t] = IF usage[p] > 0 THEN Tail(stack[t])
                                       ELSE <<c>> \o Tail(stack[t])]
      /\ UNCHANGED <<usage, aliases, below, top, rewiring, old, inside, returning, disposed, freed>>
  BY <1>4, <1>5, <1>6
     DEF Post!CheckUse, Post!Remember, Post!useVars, Post!wireVars, Post!frameVars, Stacks
<1>8. h.left = {p} /\ p \notin freed
  BY <1>2, <1>3, <1>4, <1>7 DEF Entry
<1>9. c \in CallTypes /\ c.plugin = {p} /\ c.freeing = TRUE /\ c.left = {p}
  BY <1>4, <1>6, <1>8 DEF CallTypes
<1>10. PICK st, g, di, us, fr, pe : /\ st = stack /\ g = stack' /\ di = disposed /\ us = usage
                                    /\ fr = freed /\ pe = pending
  OBVIOUS
<1>11. /\ Stages(us, st, fr, pe, di) /\ {p} \in di /\ p \notin fr /\ st \in Stacks /\ st[t] # <<>>
       /\ st[t][1] = h /\ CallOf(st[t][1], p) /\ OneCall(st, p) /\ Called(st, p)
  BY <1>2, <1>3, <1>4, <1>8, <1>10 DEF PoInv
<1>12. \A e : Entry(e, fr, pe) => Entry(e, fr, pe \cup {{p}})
  BY DEF Entry
<1>13. \A q \in Post!Ports : q # p => ({q} \in pe \cup {{p}} <=> {q} \in pe)
  OBVIOUS
<1>14. g \in Stacks /\ Stages(us, g, fr, pe \cup {{p}}, di)
  <2>1. CASE usage[p] > 0
    <3>0. us[p] # 0
      BY <1>5, <1>10, <2>1
    <3>1. g = Popped(st, t)
      <4>1. stack' = [stack EXCEPT ![t] = Tail(stack[t])]
        BY <1>7, <2>1
      <4> QED
        BY <1>10, <4>1 DEF Popped
    <3>2. OneLess(st, p, g)
      BY <1>11, <3>1, CallPopped
    <3>3. \A u \in Post!Threads : \A i \in 1 .. Len(g[u]) : Entry(g[u][i], fr, pe \cup {{p}})
      BY <1>11, <1>12, <3>2 DEF Stages, OneLess
    <3>4. ASSUME NEW q \in Post!Ports
          PROVE  Stage(us, g, fr, pe \cup {{p}}, di, q) /\ OneCall(g, q)
      <4>1. Stage(us, st, fr, pe, di, q) /\ OneCall(g, q)
        BY <1>11, <3>2 DEF Stages, OneLess
      <4>2. Called(g, q) <=> Called(st, q) /\ q # p
        BY <3>2 DEF OneLess
      <4>3. CASE q = p
        BY <1>11, <3>0, <4>1, <4>2, <4>3 DEF Stage
      <4>4. CASE q # p
        BY <1>13, <4>1, <4>2, <4>4 DEF Stage
      <4> QED
        BY <4>3, <4>4
    <3> QED
      BY <3>2, <3>3, <3>4 DEF Stages, OneLess
  <2>2. CASE ~ (usage[p] > 0)
    <3>0. us[p] = 0
      BY <1>5, <1>10, <2>2
    <3>1. g = Changed(st, t, c)
      <4>1. stack' = [stack EXCEPT ![t] = <<c>> \o Tail(stack[t])]
        BY <1>7, <2>2
      <4> QED
        BY <1>10, <4>1 DEF Changed
    <3>2. Another(st, t, c, g)
      <4>1. c.plugin = st[t][1].plugin
        BY <1>4, <1>9, <1>11
      <4> QED
        BY <1>9, <1>11, <3>1, <4>1, CallChanged
    <3>3. Entry(c, fr, pe \cup {{p}})
      BY <1>9, <1>11 DEF Entry
    <3>4. \A u \in Post!Threads : \A i \in 1 .. Len(g[u]) : Entry(g[u][i], fr, pe \cup {{p}})
      BY <1>11, <1>12, <3>2, <3>3 DEF Stages, Another
    <3>5. ASSUME NEW q \in Post!Ports
          PROVE  Stage(us, g, fr, pe \cup {{p}}, di, q) /\ OneCall(g, q)
      <4>1. Stage(us, st, fr, pe, di, q) /\ OneCall(g, q)
        BY <1>11, <3>2 DEF Stages, Another
      <4>2. Called(g, q) <=> Called(st, q)
        BY <3>2 DEF Another
      <4>3. CASE q = p
        BY <1>11, <3>0, <4>1, <4>2, <4>3 DEF Stage
      <4>4. CASE q # p
        BY <1>13, <4>1, <4>2, <4>4 DEF Stage
      <4> QED
        BY <4>3, <4>4
    <3> QED
      BY <3>2, <3>4, <3>5 DEF Stages, Another
  <2> QED
    BY <2>1, <2>2
<1>15. PostTypes'
  BY <1>3, <1>7, <1>10, <1>14 DEF PoInv, PostTypes, Stacks
<1>16. AliasesHeld' /\ UsesCounted' /\ Wires'
  BY <1>7 DEF PoInv, AliasesHeld, Within, UsesCounted, Needs, Mapped, Wires, NoLoops, Ranked
<1>17. Stages(usage', stack', freed', pending', disposed')
  BY <1>7, <1>10, <1>14
<1> QED
  BY <1>15, <1>16, <1>17 DEF PoInv

\* A port is freed: the plugin does not use the port below it any more.
LEMMA FreePortPost ==
    ASSUME OneInput, PoInv, NEW t \in Post!Threads, NEW x, Post!FreePort(t, x)
    PROVE  PoInv'
<1>1. ~ Post!Idle(t)
  BY DEF Post!FreePort
<1>2. PICK h \in CallTypes : h = stack[t][1]
  BY <1>1, CallEntry
<1>3. PICK p \in Post!Ports :
          /\ CallOf(stack[t][1], p) /\ Called(stack, p) /\ {p} \in disposed
          /\ Stage(usage, stack, freed, pending, disposed, p) /\ OneCall(stack, p)
          /\ Entry(stack[t][1], freed, pending)
  BY <1>1, CallEntry
<1>4. /\ stack \in Stacks /\ stack[t] # <<>> /\ Head(stack[t]) = h /\ h.plugin = {p}
      /\ 1 \in 1 .. Len(stack[t])
  BY <1>1, <1>2, <1>3, CallEntry DEF CallOf
<1>5. h.freeing /\ x \in h.left
  BY <1>4 DEF Post!FreePort
<1>6. x = p /\ h.left = {p} /\ {p} \in pending /\ p \notin freed
  BY <1>2, <1>3, <1>4, <1>5 DEF Entry
<1>7. PICK c : c = [h EXCEPT !.left = @ \ {p}]
  OBVIOUS
<1>8. c \in CallTypes /\ c.plugin = {p} /\ c.freeing = h.freeing /\ c.left = {}
  BY <1>4, <1>6, <1>7 DEF CallTypes
<1>9. PICK b \in Post!Ports \cup {None} : b = below[p]
  BY DEF PoInv, PostTypes
<1>10. /\ freed' = freed \cup {p} /\ below' = [below EXCEPT ![p] = None]
       /\ Post!Unused(t, b, <<c>> \o Tail(stack[t]))
       /\ UNCHANGED <<aliases, top, rewiring, old, inside, returning, pending, disposed>>
  BY <1>4, <1>6, <1>7, <1>9 DEF Post!FreePort, Post!frameVars
<1>11. b # None => usage[b] >= 1
  BY <1>9, NeedsNat DEF PoInv, UsesCounted
<1>12. usage[p] = 0
  BY <1>3, <1>6 DEF Stage
<1>13. PICK calls : calls = <<c>> \o Tail(stack[t])
  OBVIOUS
<1>14. calls \in Seq(CallTypes)
  <2>1. Tail(stack[t]) \in Seq(CallTypes)
    BY <1>4, HeadTailProperties DEF Stacks
  <2> QED
    BY <1>8, <1>13, <2>1, InFront
<1>15. PICK st, g, us, fr, pe, di :
           /\ st = stack /\ g = [stack EXCEPT ![t] = calls] /\ us = usage
           /\ fr = freed /\ pe = pending /\ di = disposed
  OBVIOUS
<1>16. /\ Stages(us, st, fr, pe, di) /\ {p} \in di /\ {p} \in pe /\ p \notin fr
       /\ st \in Stacks /\ st[t] # <<>> /\ st[t][1].plugin = {p} /\ 1 \in 1 .. Len(st[t])
       /\ OneCall(st, p) /\ us[p] = 0
  BY <1>2, <1>3, <1>4, <1>6, <1>12, <1>15 DEF PoInv
<1>17. Another(st, t, c, g)
  <2>1. g = Changed(st, t, c)
    BY <1>13, <1>15 DEF Changed
  <2>2. c.plugin = st[t][1].plugin
    BY <1>8, <1>16
  <2> QED
    BY <1>8, <1>16, <2>1, <2>2, CallChanged
<1>18. Stages(us, g, fr \cup {p}, pe, di)
  <2>1. Entry(c, fr \cup {p}, pe)
    BY <1>5, <1>8, <1>16 DEF Entry
  <2>2. ASSUME NEW u \in Post!Threads, NEW i \in 1 .. Len(g[u])
        PROVE  Entry(g[u][i], fr \cup {p}, pe)
    <3>1. CASE u = t /\ i = 1
      BY <1>17, <2>1, <3>1 DEF Another
    <3>2. CASE ~ (u = t /\ i = 1)
      <4>1. i \in 1 .. Len(st[u]) /\ g[u][i] = st[u][i]
        BY <1>17, <3>2 DEF Another
      <4>2. PICK e \in CallTypes : e = st[u][i]
        BY <1>16, <4>1 DEF Stacks
      <4>3. Entry(e, fr, pe)
        BY <1>16, <4>1, <4>2 DEF Stages
      <4>4. PICK y \in Post!Ports : e.plugin = {y}
        BY PluginIs DEF CallTypes
      <4>5. y # p
        <5>1. SUFFICES ASSUME y = p PROVE FALSE
          OBVIOUS
        <5>2. Disposes(st, u, i, p) /\ Disposes(st, t, 1, p)
          BY <1>16, <4>1, <4>2, <4>4, <5>1 DEF Disposes
        <5> QED
          BY <1>16, <3>2, <4>1, <5>2 DEF OneCall
      <4>6. Entry(e, fr \cup {p}, pe)
        BY <4>3, <4>4, <4>5 DEF Entry
      <4> QED
        BY <4>1, <4>2, <4>6
    <3> QED
      BY <3>1, <3>2
  <2>3. ASSUME NEW q \in Post!Ports
        PROVE  Stage(us, g, fr \cup {p}, pe, di, q) /\ OneCall(g, q)
    <3>1. Stage(us, st, fr, pe, di, q) /\ OneCall(g, q)
      BY <1>16, <1>17 DEF Stages, Another
    <3>2. Called(g, q) <=> Called(st, q)
      BY <1>17 DEF Another
    <3>3. CASE q = p
      BY <1>16, <3>1, <3>3 DEF Stage
    <3>4. CASE q # p
      <4>1. q \in fr \cup {p} <=> q \in fr
        BY <3>4
      <4> QED
        BY <3>1, <3>2, <4>1 DEF Stage
    <3> QED
      BY <3>3, <3>4
  <2> QED
    BY <2>2, <2>3 DEF Stages
<1>19. PICK fs : fs = fr \cup {p}
  OBVIOUS
<1>20. /\ usage' = [q \in Post!Ports |-> IF q = b THEN usage[q] - 1 ELSE usage[q]]
       /\ usage' \in [Post!Ports -> Int]
       /\ stack' \in Stacks
       /\ Stages(usage', stack', fs, pending, disposed)
  <2>1. Stages(usage, [stack EXCEPT ![t] = calls], fs, pending, disposed)
    BY <1>15, <1>18, <1>19
  <2>2. Post!Unused(t, b, calls)
    BY <1>10, <1>13
  <2> QED
    BY <1>11, <1>14, <2>1, <2>2, UnusedIs DEF PoInv
<1>21. PostTypes'
  BY <1>10, <1>20 DEF PoInv, PostTypes, Stacks
<1>22. ASSUME NEW q \in Post!Ports
       PROVE  usage'[q] = Needs(top', below', aliases', old', q)
  <2>1. usage[q] = Needs(top, below, aliases, old, q) /\ usage[q] \in Int /\ aliases[q] \in Int
    BY DEF PoInv, UsesCounted, PostTypes
  <2>2. PICK bl : bl = below'
    OBVIOUS
  <2>3. q # None
    BY PostSets
  <2>4. Cardinality(Mapped(Post!Ports, bl, q)) =
            Cardinality(Mapped(Post!Ports, below, q)) - (IF b = q THEN 1 ELSE 0)
    <3>1. PICK f \in [Post!Ports -> Post!Ports \cup {None}] : f = below
      BY DEF PoInv, PostTypes
    <3>2. /\ Cardinality(Mapped(Post!Ports, f, q)) \in Nat
          /\ Cardinality(Mapped(Post!Ports, Rewired(f, p, None), q)) =
                Cardinality(Mapped(Post!Ports, f, q)) + Goes(None, q) - Goes(f[p], q)
      <4>1. IsFiniteSet(Post!Ports)
        BY PostSets
      <4>2. p \in Post!Ports /\ f = [y \in Post!Ports |-> f[y]]
        OBVIOUS
      <4> QED
        BY ONLY <4>1, <4>2, CountMoves
    <3>3. Goes(None, q) = 0 /\ Goes(f[p], q) = IF b = q THEN 1 ELSE 0
      BY <1>9, <2>3, <3>1 DEF Goes
    <3>4. bl = Rewired(f, p, None)
      BY <1>10, <2>2, <3>1 DEF Rewired
    <3> QED
      BY <3>1, <3>2, <3>3, <3>4
  <2>5. PICK a \in Int, n \in Int, k \in Int, m \in Int, d \in Int :
            /\ a = Cardinality(Mapped(Streams, top, q)) /\ n = Cardinality(Mapped(Post!Ports, below, q))
            /\ k = aliases[q] /\ m = Post!B2N(old = q) /\ d = IF b = q THEN 1 ELSE 0
    BY <2>1, CountsAre DEF PoInv, Post!B2N
  <2>6. Needs(top, below, aliases, old, q) = a + n + k + m
    BY <2>5 DEF Needs
  <2>7. Needs(top', below', aliases', old', q) = a + (n - d) + k + m
    <3>1. Cardinality(Mapped(Post!Ports, bl, q)) = n - d
      BY <2>4, <2>5
    <3>2. top' = top /\ aliases' = aliases /\ old' = old
      BY <1>10
    <3> QED
      BY <2>2, <2>5, <3>1, <3>2 DEF Needs
  <2>8. usage'[q] = usage[q] - d
    BY <1>20, <2>1, <2>5
  <2> QED
    BY <2>1, <2>5, <2>6, <2>7, <2>8
<1>23. AliasesHeld'
  BY <1>10 DEF PoInv, AliasesHeld, Within
<1>24. Wires'
  <2>1. PICK r \in [Post!Ports -> Nat] : Ranked(r)
    BY DEF PoInv, Wires, NoLoops
  <2>2. \A q \in Post!Ports : below'[q] # None => below'[q] = below[q]
    BY <1>10 DEF PoInv, PostTypes
  <2>3. \A q \in Post!Ports : below'[q] # None => r[below'[q]] < r[q]
    BY <2>1, <2>2 DEF Ranked
  <2>4. NoLoops'
    BY <2>3 DEF NoLoops, Ranked
  <2> QED
    BY <1>10, <2>4 DEF PoInv, Wires
<1>25. Stages(usage', stack', freed', pending', disposed')
  BY <1>10, <1>15, <1>19, <1>20
<1> QED
  BY <1>21, <1>22, <1>23, <1>24, <1>25 DEF PoInv, UsesCounted

\* The plugin is gone.
LEMMA DisposeEndsPost ==
    ASSUME OneInput, PoInv, NEW t \in Post!Threads, Post!DisposeEnds(t)
    PROVE  PoInv'
<1>1. ~ Post!Idle(t)
  BY DEF Post!DisposeEnds
<1>2. PICK h \in CallTypes : h = stack[t][1]
  BY <1>1, CallEntry
<1>3. PICK p \in Post!Ports :
          /\ CallOf(stack[t][1], p) /\ Called(stack, p) /\ {p} \in disposed
          /\ Stage(usage, stack, freed, pending, disposed, p) /\ OneCall(stack, p)
          /\ Entry(stack[t][1], freed, pending)
  BY <1>1, CallEntry
<1>4. stack \in Stacks /\ stack[t] # <<>> /\ Head(stack[t]) = h /\ h.plugin = {p}
  BY <1>1, <1>2, <1>3, CallEntry DEF CallOf
<1>5. /\ h.left = {}
      /\ stack' = [stack EXCEPT ![t] = Tail(stack[t])]
      /\ UNCHANGED <<usage, aliases, below, top, rewiring, old, inside, returning, pending,
                     disposed, freed>>
  BY <1>4 DEF Post!DisposeEnds, Post!useVars, Post!wireVars, Post!frameVars, Stacks
<1>6. {p} \in pending /\ p \in freed
  BY <1>2, <1>3, <1>4, <1>5 DEF Entry
<1>7. usage[p] = 0
  BY <1>3, <1>6 DEF Stage
<1>8. PICK st, g, di, us, fr, pe : /\ st = stack /\ g = stack' /\ di = disposed /\ us = usage
                                   /\ fr = freed /\ pe = pending
  OBVIOUS
<1>9. /\ Stages(us, st, fr, pe, di) /\ {p} \in di /\ p \in fr /\ {p} \in pe /\ us[p] = 0
      /\ st \in Stacks /\ st[t] # <<>> /\ CallOf(st[t][1], p) /\ OneCall(st, p)
      /\ g = Popped(st, t)
  BY <1>3, <1>4, <1>5, <1>6, <1>7, <1>8 DEF PoInv, Popped
<1>10. OneLess(st, p, g)
  BY <1>9, CallPopped
<1>11. Stages(us, g, fr, pe, di)
  <2>1. \A u \in Post!Threads : \A i \in 1 .. Len(g[u]) : Entry(g[u][i], fr, pe)
    BY <1>9, <1>10 DEF Stages, OneLess
  <2>2. ASSUME NEW q \in Post!Ports
        PROVE  Stage(us, g, fr, pe, di, q) /\ OneCall(g, q)
    <3>1. Stage(us, st, fr, pe, di, q) /\ OneCall(g, q)
      BY <1>9, <1>10 DEF Stages, OneLess
    <3>2. Called(g, q) <=> Called(st, q) /\ q # p
      BY <1>10 DEF OneLess
    <3>3. CASE q = p
      BY <1>9, <3>1, <3>2, <3>3 DEF Stage
    <3>4. CASE q # p
      BY <3>1, <3>2, <3>4 DEF Stage
    <3> QED
      BY <3>3, <3>4
  <2> QED
    BY <2>1, <2>2 DEF Stages
<1>12. PostTypes'
  <2>1. stack' \in [Post!Threads -> Seq(CallTypes)]
    BY <1>8, <1>10 DEF OneLess, Stacks
  <2> QED
    BY <1>5, <2>1 DEF PoInv, PostTypes
<1>13. AliasesHeld' /\ UsesCounted' /\ Wires'
  BY <1>5 DEF PoInv, AliasesHeld, Within, UsesCounted, Needs, Mapped, Wires, NoLoops, Ranked
<1>14. Stages(usage', stack', freed', pending', disposed')
  BY <1>5, <1>8, <1>11
<1> QED
  BY <1>12, <1>13, <1>14 DEF PoInv

-----------------------------------------------------------------------------
\* The invariant holds initially.
LEMMA PoInitInv ==
    ASSUME Post!Init
    PROVE  PoInv
<1>1. /\ usage = [p \in Post!Ports |-> 0] /\ aliases = [p \in Post!Ports |-> 0]
      /\ below = [p \in Post!Ports |-> None] /\ top = [s \in Streams |-> None]
      /\ rewiring = FALSE /\ old = None
      /\ inside = [s \in Streams |-> <<>>] /\ returning = {}
      /\ pending = {} /\ disposed = {} /\ freed = {}
      /\ stack = [t \in Post!Threads |-> <<>>]
  BY DEF Post!Init
<1>2. PostTypes
  <2>1. <<>> \in Seq(Post!Ports) /\ <<>> \in Seq(CallTypes)
    OBVIOUS
  <2>2. inside \in [Streams -> Seq(Post!Ports)]
    BY <1>1, <2>1
  <2>3. stack \in [Post!Threads -> Seq(CallTypes)]
    BY <1>1, <2>1
  <2>4. usage \in [Post!Ports -> Int] /\ aliases \in [Post!Ports -> Int]
    BY <1>1
  <2>5. below \in [Post!Ports -> Post!Ports \cup {None}] /\ top \in [Streams -> Post!Ports \cup {None}]
    BY <1>1
  <2>6. /\ old \in Post!Ports \cup {None} /\ rewiring \in BOOLEAN /\ returning \subseteq Streams
        /\ pending \subseteq disposed /\ disposed \subseteq Plugins /\ freed \subseteq Post!Ports
    BY <1>1
  <2> QED
    BY ONLY <2>2, <2>3, <2>4, <2>5, <2>6 DEF PostTypes
<1>3. \A p \in Post!Ports : p # None
  BY PostSets
<1>4. ASSUME NEW p \in Post!Ports PROVE usage[p] = Needs(top, below, aliases, old, p)
  <2>1. Mapped(Streams, top, p) = {} /\ Mapped(Post!Ports, below, p) = {}
    BY <1>1, <1>3 DEF Mapped
  <2>2. Cardinality(Mapped(Streams, top, p)) = 0 /\ Cardinality(Mapped(Post!Ports, below, p)) = 0
    BY <2>1, FS_EmptySet
  <2>3. Post!B2N(old = p) = 0
    BY <1>1, <1>3 DEF Post!B2N
  <2> QED
    BY <1>1, <2>2, <2>3 DEF Needs
<1>5. ASSUME NEW p \in Post!Ports PROVE Cardinality(Within(inside, p)) <= aliases[p]
  <2>1. Within(inside, p) = {}
    BY <1>1, NothingIn DEF Within
  <2>2. Cardinality(Within(inside, p)) = 0
    BY <2>1, FS_EmptySet
  <2> QED
    BY <1>1, <2>2
<1>6. AliasesHeld
  BY <1>1, <1>5, NothingIn DEF AliasesHeld
<1>7. Wires
  <2>1. PICK r : r = [p \in Post!Ports |-> 0]
    OBVIOUS
  <2>2. r \in [Post!Ports -> Nat] /\ Ranked(r)
    BY <1>1, <2>1 DEF Ranked
  <2> QED
    BY <1>1, <2>2 DEF Wires, NoLoops
<1>8. \A t \in Post!Threads : \A i \in 1 .. Len(stack[t]) : FALSE
  <2> SUFFICES ASSUME NEW t \in Post!Threads PROVE \A i \in 1 .. Len(stack[t]) : FALSE
    OBVIOUS
  <2>1. stack[t] = <<>>
    BY <1>1
  <2>2. Len(stack[t]) = 0
    BY <2>1
  <2> QED
    BY <2>2
<1>9. \A p \in Post!Ports : ~ Called(stack, p) /\ OneCall(stack, p)
  BY <1>8 DEF Called, OneCall
<1>10. Stages(usage, stack, freed, pending, disposed)
  <2>1. \A p \in Post!Ports : Stage(usage, stack, freed, pending, disposed, p)
    BY <1>1, <1>9 DEF Stage
  <2> QED
    BY <1>8, <1>9, <2>1 DEF Stages
<1> QED
  BY <1>2, <1>4, <1>6, <1>7, <1>10 DEF PoInv, UsesCounted

\* Every step of PostUse keeps it.
LEMMA PoNextInv ==
    ASSUME OneInput, PoInv, Post!Next \/ UNCHANGED postVars
    PROVE  PoInv'
<1>1. ASSUME NEW s \in Streams,
             Post!GetFrame(s) \/ Post!GotFrame(s) \/ Post!Intercept(s) \/ Post!FreeUnused(s)
      PROVE  PoInv'
  BY <1>1, GetFramePost, GotFramePost, InterceptPost, FreeUnusedPost
<1>2. ASSUME NEW t \in Post!Threads, NEW p \in Post!Ports, Post!FreeFrame(t, p)
      PROVE  PoInv'
  BY <1>2, FreeFramePost
<1>3. ASSUME NEW s \in Streams, NEW new \in Post!Ports \cup {None}, Post!RewireStream(s, new)
      PROVE  PoInv'
  BY <1>3, RewireStreamPost
<1>4. ASSUME NEW p \in Post!Ports, NEW new \in Post!Ports \cup {None}, Post!RewirePort(p, new)
      PROVE  PoInv'
  BY <1>4, RewirePortPost
<1>5. CASE Post!LeaveOld
  BY <1>5, LeaveOldPost
<1>6. CASE Post!Issue
  BY <1>6, IssuePost
<1>7. ASSUME NEW plugin \in Plugins, Post!Dispose(plugin)
      PROVE  PoInv'
  BY <1>7, DisposePost
<1>8. ASSUME NEW t \in Post!Threads, Post!CheckUse(t) \/ Post!DisposeEnds(t)
      PROVE  PoInv'
  BY <1>8, CheckUsePost, DisposeEndsPost
<1>9. ASSUME NEW t \in Post!Threads, NEW p \in Post!Ports, Post!FreePort(t, p)
      PROVE  PoInv'
  BY <1>9, FreePortPost
<1>10. CASE UNCHANGED postVars
  <2>1. UNCHANGED <<usage, aliases, below, top, rewiring, old, inside, returning, pending,
                    disposed, freed, stack>>
    BY <1>10 DEF postVars
  <2>2. PostTypes' /\ AliasesHeld' /\ UsesCounted' /\ Wires'
    BY <2>1 DEF PoInv, PostTypes, AliasesHeld, Within, UsesCounted, Needs, Mapped, Wires, NoLoops,
                Ranked
  <2>3. Stages(usage', stack', freed', pending', disposed')
    BY <2>1 DEF PoInv
  <2> QED
    BY <2>2, <2>3 DEF PoInv
<1>11. CASE Post!Next
  BY <1>1, <1>2, <1>3, <1>4, <1>5, <1>6, <1>7, <1>8, <1>9, <1>11 DEF Post!Next
<1> QED
  BY <1>10, <1>11

\* A thread is in no more calls than there are plugins.
LEMMA FewCalls ==
    ASSUME OneInput, PoInv, NEW t \in Post!Threads
    PROVE  Len(stack[t]) \in Nat /\ Len(stack[t]) <= Cardinality(Plugins)
<1>1. PICK s \in Seq(CallTypes) : s = stack[t]
  BY DEF PoInv, PostTypes
<1>2. PICK n \in Nat : n = Len(s)
  BY LenProperties
<1>3. IsFiniteSet(Plugins) /\ Cardinality(Plugins) \in Nat
  BY PostAssumption, FS_CardinalityType
<1>4. PICK m \in Nat : m = Cardinality(Plugins)
  BY <1>3
<1>5. SUFFICES ASSUME m < n PROVE FALSE
  BY <1>1, <1>2, <1>4
<1>6. PICK f : f = [i \in 1 .. n |-> s[i].plugin]
  OBVIOUS
<1>7. \A i \in 1 .. n : f[i] = s[i].plugin /\ s[i] \in CallTypes /\ s[i].plugin \in Plugins
  <2> SUFFICES ASSUME NEW i \in 1 .. n
               PROVE  f[i] = s[i].plugin /\ s[i] \in CallTypes /\ s[i].plugin \in Plugins
    OBVIOUS
  <2>1. s[i] \in CallTypes
    BY <1>2, ElementOfSeq
  <2> QED
    BY <1>6, <2>1 DEF CallTypes
<1>8. f \in [1 .. n -> Plugins]
  BY <1>6, <1>7
<1>9. IsFiniteSet(1 .. n) /\ Cardinality(1 .. n) = n
  <2>1. 1 \in Int /\ n \in Int
    OBVIOUS
  <2>2. IsFiniteSet(1 .. n) /\ Cardinality(1 .. n) = IF 1 > n THEN 0 ELSE n - 1 + 1
    BY <2>1, FS_Interval
  <2> QED
    BY <2>2
<1>10. PICK i \in 1 .. n, j \in 1 .. n : i # j /\ f[i] = f[j]
  <2>1. Cardinality(Plugins) < Cardinality(1 .. n)
    BY <1>4, <1>5, <1>9
  <2>2. \E i, j \in 1 .. n : i # j /\ f[i] = f[j]
    BY ONLY <1>3, <1>8, <1>9, <2>1, FS_PigeonHole
  <2> QED
    BY <2>2
<1>11. PICK p \in Post!Ports : f[i] = {p}
  BY <1>7, PluginIs
<1>12. Disposes(stack, t, i, p) /\ Disposes(stack, t, j, p)
  BY <1>1, <1>2, <1>7, <1>10, <1>11 DEF Disposes
<1>13. OneCall(stack, p)
  BY DEF PoInv, Stages
<1> QED
  BY <1>1, <1>2, <1>10, <1>12, <1>13 DEF OneCall

\* The calls of PostUse are those of the invariant.
LEMMA CallsAre ==
    ASSUME OneInput, PoInv, NEW p \in Post!Ports
    PROVE  /\ \A c \in Post!Calls({p}) :
                 /\ c = <<c[1], c[2]>> /\ c[1] \in Post!Threads
                 /\ c[2] \in 1 .. Len(stack[c[1]]) /\ Disposes(stack, c[1], c[2], p)
           /\ \A t \in Post!Threads : \A i \in 1 .. Len(stack[t]) :
                 Disposes(stack, t, i, p) => <<t, i>> \in Post!Calls({p})
<1>1. PICK m \in Nat : m = Cardinality(Plugins) /\ m = Post!Cardinality(Plugins)
  <2>1. Cardinality(Plugins) \in Nat
    BY PostAssumption, FS_CardinalityType
  <2> QED
    BY <2>1, PostCardinality
<1>2. Post!Calls({p}) = {c \in Post!Threads \X (1 .. 1 + m) :
                            c[2] \in DOMAIN stack[c[1]] /\ stack[c[1]][c[2]].plugin = {p}}
  BY <1>1 DEF Post!Calls
<1>3. \A t \in Post!Threads : DOMAIN stack[t] = 1 .. Len(stack[t])
  <2> SUFFICES ASSUME NEW t \in Post!Threads PROVE DOMAIN stack[t] = 1 .. Len(stack[t])
    OBVIOUS
  <2>1. stack[t] \in Seq(CallTypes)
    BY DEF PoInv, PostTypes
  <2> QED
    BY <2>1, LenProperties
<1>4. ASSUME NEW c \in Post!Calls({p})
      PROVE  /\ c = <<c[1], c[2]>> /\ c[1] \in Post!Threads
             /\ c[2] \in 1 .. Len(stack[c[1]]) /\ Disposes(stack, c[1], c[2], p)
  <2>0. c \in Post!Threads \X (1 .. 1 + m)
    BY <1>2
  <2>1. PICK t \in Post!Threads, i \in 1 .. 1 + m : c = <<t, i>>
    BY <2>0
  <2>2. c[1] = t /\ c[2] = i
    BY <2>1
  <2>3. i \in DOMAIN stack[t] /\ stack[t][i].plugin = {p}
    BY <1>2, <2>2
  <2> QED
    BY <1>3, <2>1, <2>2, <2>3 DEF Disposes
<1>5. ASSUME NEW t \in Post!Threads, NEW i \in 1 .. Len(stack[t]), Disposes(stack, t, i, p)
      PROVE  <<t, i>> \in Post!Calls({p})
  <2>1. Len(stack[t]) \in Nat /\ Len(stack[t]) <= m
    BY <1>1, FewCalls
  <2>2. i \in 1 .. 1 + m
    BY <2>1
  <2>3. i \in DOMAIN stack[t] /\ stack[t][i].plugin = {p}
    BY <1>3, <1>5 DEF Disposes
  <2>4. PICK c : c = <<t, i>>
    OBVIOUS
  <2>5. c[1] = t /\ c[2] = i /\ c \in Post!Threads \X (1 .. 1 + m)
    BY <2>2, <2>4
  <2>6. c \in Post!Calls({p})
    BY <1>2, <2>3, <2>5
  <2> QED
    BY <2>4, <2>6
<1> QED
  BY <1>4, <1>5

\* A plugin that is freed is out of use, and its dispose is one call.
LEMMA FreeingIs ==
    ASSUME OneInput, PoInv, NEW p \in Post!Ports, Post!Freeing({p})
    PROVE  /\ usage[p] = 0
           /\ \A c \in Post!Calls({p}) : stack[c[1]][c[2]].freeing
<1>1. Stage(usage, stack, freed, pending, disposed, p) /\ OneCall(stack, p)
  BY DEF PoInv, Stages
<1>2. ASSUME NEW c \in Post!Calls({p})
      PROVE  /\ c[1] \in Post!Threads /\ c[2] \in 1 .. Len(stack[c[1]])
             /\ Disposes(stack, c[1], c[2], p) /\ Called(stack, p)
             /\ Entry(stack[c[1]][c[2]], freed, pending)
             /\ stack[c[1]][c[2]].plugin = {p}
  <2>1. /\ c[1] \in Post!Threads /\ c[2] \in 1 .. Len(stack[c[1]])
        /\ Disposes(stack, c[1], c[2], p)
    BY CallsAre
  <2>2. Called(stack, p) /\ stack[c[1]][c[2]].plugin = {p}
    BY <2>1 DEF Called, Disposes
  <2>3. Entry(stack[c[1]][c[2]], freed, pending)
    BY <2>1 DEF PoInv, Stages
  <2> QED
    BY <2>1, <2>2, <2>3
<1>3. CASE p \in freed
  <2>1. usage[p] = 0
    BY <1>1, <1>3 DEF Stage
  <2>2. ASSUME NEW c \in Post!Calls({p}) PROVE stack[c[1]][c[2]].freeing
    BY <1>2, <1>3 DEF Entry
  <2> QED
    BY <2>1, <2>2
<1>4. CASE \E c \in Post!Calls({p}) : stack[c[1]][c[2]].freeing
  <2>1. PICK d \in Post!Calls({p}) : stack[d[1]][d[2]].freeing
    BY <1>4
  <2>2. {p} \in pending /\ Called(stack, p)
    BY <1>2, <2>1 DEF Entry
  <2>3. usage[p] = 0
    BY <1>1, <2>2 DEF Stage
  <2>4. ASSUME NEW c \in Post!Calls({p}) PROVE stack[c[1]][c[2]].freeing
    <3>1. c[1] = d[1] /\ c[2] = d[2]
      <4>1. /\ c[1] \in Post!Threads /\ c[2] \in 1 .. Len(stack[c[1]])
            /\ Disposes(stack, c[1], c[2], p)
        BY <1>2
      <4>2. /\ d[1] \in Post!Threads /\ d[2] \in 1 .. Len(stack[d[1]])
            /\ Disposes(stack, d[1], d[2], p)
        BY <1>2
      <4> QED
        BY <1>1, <4>1, <4>2 DEF OneCall
    <3> QED
      BY <2>1, <3>1
  <2> QED
    BY <2>3, <2>4
<1> QED
  BY <1>3, <1>4 DEF Post!Freeing

\* It is what FreedWithLastUse follows from.
LEMMA PoInvFreed ==
    ASSUME OneInput, PoInv
    PROVE  Post!FreedWithLastUse
<1>1. \A p \in Post!Ports : Post!Unneeded({p}) <=> usage[p] = 0
  <2> SUFFICES ASSUME NEW p \in Post!Ports PROVE Post!Unneeded({p}) <=> usage[p] = 0
    OBVIOUS
  <2>1. Post!Needed(p) = usage[p]
    BY NeededIs DEF PoInv, UsesCounted
  <2> QED
    BY <2>1 DEF Post!Unneeded
<1>2. ASSUME NEW plugin \in Plugins, Post!Freeing(plugin)
      PROVE  /\ Post!Unneeded(plugin)
             /\ Post!Cardinality(Post!Calls(plugin)) <= 1
             /\ \A c \in Post!Calls(plugin) : stack[c[1]][c[2]].freeing
  <2>1. PICK p \in Post!Ports : plugin = {p}
    BY PluginIs
  <2>2. Post!Unneeded(plugin) /\ \A c \in Post!Calls(plugin) : stack[c[1]][c[2]].freeing
    BY <1>1, <1>2, <2>1, FreeingIs
  <2>3. Cardinality(Post!Calls({p})) <= 1
    <3>1. OneCall(stack, p)
      BY DEF PoInv, Stages
    <3>2. \A c, d \in Post!Calls({p}) : c = d
      <4> SUFFICES ASSUME NEW c \in Post!Calls({p}), NEW d \in Post!Calls({p}) PROVE c = d
        OBVIOUS
      <4>1. /\ c = <<c[1], c[2]>> /\ c[1] \in Post!Threads
            /\ c[2] \in 1 .. Len(stack[c[1]]) /\ Disposes(stack, c[1], c[2], p)
        BY CallsAre
      <4>2. /\ d = <<d[1], d[2]>> /\ d[1] \in Post!Threads
            /\ d[2] \in 1 .. Len(stack[d[1]]) /\ Disposes(stack, d[1], d[2], p)
        BY CallsAre
      <4>3. c[1] = d[1] /\ c[2] = d[2]
        BY <3>1, <4>1, <4>2 DEF OneCall
      <4>4. <<c[1], c[2]>> = <<d[1], d[2]>>
        BY <4>3
      <4> QED
        BY <4>1, <4>2, <4>4
    <3>3. PICK C : C = Post!Calls({p})
      OBVIOUS
    <3>4. CASE C = {}
      BY <3>3, <3>4, FS_EmptySet
    <3>5. CASE C # {}
      <4>1. PICK c : C = {c}
        BY <3>2, <3>3, <3>5
      <4>2. Cardinality({c}) = 1
        BY FS_Singleton
      <4> QED
        BY <3>3, <4>1, <4>2
    <3> QED
      BY <3>4, <3>5
  <2>4. Post!Cardinality(Post!Calls(plugin)) <= 1
    BY <2>1, <2>3, PostCardinality
  <2> QED
    BY <2>2, <2>4
<1>3. Post!NoUseAfterFree
  BY <1>2 DEF Post!NoUseAfterFree
<1>4. ASSUME NEW plugin \in disposed, Post!Unneeded(plugin)
      PROVE  plugin \subseteq freed \/ Post!Calls(plugin) # {}
  <2>1. plugin \in Plugins
    BY DEF PoInv, PostTypes
  <2>2. PICK p \in Post!Ports : plugin = {p}
    BY <2>1, PluginIs
  <2>3. usage[p] = 0
    BY <1>1, <1>4, <2>2
  <2>4. Stage(usage, stack, freed, pending, disposed, p)
    BY DEF PoInv, Stages
  <2>5. p \in freed \/ Called(stack, p)
    BY <1>4, <2>2, <2>3, <2>4 DEF Stage
  <2>6. Called(stack, p) => Post!Calls({p}) # {}
    BY CallsAre DEF Called
  <2> QED
    BY <2>2, <2>5, <2>6
<1>5. Post!NotForgotten
  BY <1>4 DEF Post!NotForgotten
<1> QED
  BY <1>3, <1>5 DEF Post!FreedWithLastUse

\* The invariant of the post plugins' ports, in every behaviour of the
\* composition.
LEMMA PoAlways ==
    ASSUME OneInput
    PROVE  MCSpec => []PoInv
<1>1. MCInit => PoInv
  BY PoInitInv DEF MCInit
<1>2. PoInv /\ [MCNext]_<<part, vars, voVars, postVars, discVars>> => PoInv'
  <2> SUFFICES ASSUME PoInv, [MCNext]_<<part, vars, voVars, postVars, discVars>>
               PROVE  PoInv'
    OBVIOUS
  <2>1. Post!Next \/ UNCHANGED postVars
    BY DEF MCNext
  <2> QED
    BY <2>1, PoNextInv
<1> QED
  BY <1>1, <1>2, PTL DEF MCSpec

\* A post plugin that is disposed of is freed with its last use: not while a
\* wire, a frame or a rewiring needs it, not twice, and not later (post.c's
\* usage counters and _x_post_dispose), for any number of plugins of one input
\* port each, streams and aliases.
THEOREM PluginsFreed ==
    ASSUME OneInput
    PROVE  MCSpec => []FreedWithLastUse
<1>1. PoInv => FreedWithLastUse
  BY PoInvFreed DEF FreedWithLastUse
<1> QED
  BY <1>1, PoAlways, PTL
=============================================================================
