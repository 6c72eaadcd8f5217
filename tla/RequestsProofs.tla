-------------------------- MODULE RequestsProofs ---------------------------
(***************************************************************************)
(* Proofs about what is asked for now and served later (MCRequests), for    *)
(* any number of event queues, senders and threads that flush, and any      *)
(* table of overlay events: a queue has exactly the references that are     *)
(* taken for it, a flush comes back when what was sent before it is         *)
(* handled, and the list of overlay events is whole and in order.           *)
(* The first part counts the reusable events of a sequence; the invariant   *)
(* of the second relates the references to them, and what a flush has to    *)
(* wait for to the places of the queues it counts.  The third part shows    *)
(* that the walk of slots that are linked in an order finds them all, and   *)
(* that adding and removing keep them so.                                   *)
(***************************************************************************)
EXTENDS MCRequests, SumLemmas, SequenceTheorems

\* The places of a sequence of events whose event is of the free list.
Reused(s) == {i \in DOMAIN s : s[i].reused}

\* How many events of a sequence are reusable ones.
CountReused(s) == Cardinality(Reused(s))

\* A sequence has finitely many of them, the empty one none.
LEMMA ReusedFinite ==
    ASSUME NEW S, NEW s \in Seq(S)
    PROVE  IsFiniteSet(Reused(s)) /\ CountReused(s) \in Nat
<1>1. Len(s) \in Nat /\ DOMAIN s = 1 .. Len(s)
  BY LenProperties
<1>2. IsFiniteSet(1 .. Len(s))
  BY <1>1, FS_Interval
<1>3. IsFiniteSet(Reused(s))
  BY <1>1, <1>2, FS_Subset DEF Reused
<1> QED
  BY <1>3, FS_CardinalityType DEF CountReused

LEMMA ReusedNone == CountReused(<<>>) = 0
<1>1. Reused(<<>>) = {}
  BY DEF Reused
<1> QED
  BY <1>1, FS_EmptySet DEF CountReused

\* An event at the end counts if it is reusable.
LEMMA ReusedAppend ==
    ASSUME NEW S, NEW s \in Seq(S), NEW e \in S, e.reused \in BOOLEAN
    PROVE  CountReused(Append(s, e)) = CountReused(s) + IF e.reused THEN 1 ELSE 0
<1>1. /\ Append(s, e) \in Seq(S)
      /\ Len(Append(s, e)) = Len(s) + 1
      /\ \A i \in 1 .. Len(s) : Append(s, e)[i] = s[i]
      /\ Append(s, e)[Len(s) + 1] = e
  BY AppendProperties
<1>2. /\ Len(s) \in Nat /\ DOMAIN s = 1 .. Len(s)
      /\ DOMAIN Append(s, e) = 1 .. Len(s) + 1
  BY <1>1, LenProperties
<1>3. Len(s) + 1 \notin Reused(s)
  BY <1>2 DEF Reused
<1>4. CASE e.reused
  <2>1. Reused(Append(s, e)) = Reused(s) \cup {Len(s) + 1}
    BY <1>1, <1>2, <1>4 DEF Reused
  <2> QED
    BY <2>1, <1>3, <1>4, ReusedFinite, FS_AddElement DEF CountReused
<1>5. CASE ~e.reused
  <2>1. Reused(Append(s, e)) = Reused(s)
    BY <1>1, <1>2, <1>5 DEF Reused
  <2> QED
    BY <2>1, <1>5, ReusedFinite DEF CountReused
<1> QED
  BY <1>4, <1>5

\* So does the first one, which is taken off.
LEMMA ReusedTail ==
    ASSUME NEW S, NEW s \in Seq(S), s # <<>>, Head(s).reused \in BOOLEAN
    PROVE  CountReused(s) = CountReused(Tail(s)) + IF Head(s).reused THEN 1 ELSE 0
<1>1. /\ Tail(s) \in Seq(S)
      /\ Len(Tail(s)) = Len(s) - 1
      /\ \A i \in 1 .. Len(Tail(s)) : Tail(s)[i] = s[i + 1]
  BY HeadTailProperties
<1>2. /\ Len(s) \in Nat /\ Len(s) # 0 /\ DOMAIN s = 1 .. Len(s) /\ Head(s) = s[1]
      /\ DOMAIN Tail(s) = 1 .. Len(s) - 1
  BY <1>1, EmptySeq, LenProperties
<1>3. Reused(s) \ {1} = {i + 1 : i \in Reused(Tail(s))}
  <2>1. ASSUME NEW i \in Reused(Tail(s))
        PROVE  i + 1 \in Reused(s) \ {1}
    BY <2>1, <1>1, <1>2 DEF Reused
  <2>2. ASSUME NEW i \in Reused(s) \ {1}
        PROVE  i - 1 \in Reused(Tail(s)) /\ (i - 1) + 1 = i
    <3>1. i \in 1 .. Len(s) /\ i # 1 /\ s[i].reused
      BY <2>2, <1>2 DEF Reused
    <3>2. i - 1 \in 1 .. Len(Tail(s)) /\ (i - 1) + 1 = i
      BY <3>1, <1>1, <1>2
    <3> QED
      BY <3>1, <3>2, <1>1, <1>2 DEF Reused
  <2> QED
    BY <2>1, <2>2
<1>4. CountReused(Tail(s)) = Cardinality(Reused(s) \ {1})
  <2> DEFINE g == [i \in Reused(Tail(s)) |-> i + 1]
  <2>1. \A i \in Reused(Tail(s)) : i \in Int
    BY <1>2 DEF Reused
  <2>2. g \in Bijection(Reused(Tail(s)), Reused(s) \ {1})
    BY <2>1, <1>3 DEF Bijection, Injection, Surjection, IsInjective
  <2>3. ExistsBijection(Reused(Tail(s)), Reused(s) \ {1})
    BY <2>2 DEF ExistsBijection
  <2>4. IsFiniteSet(Reused(Tail(s)))
    BY <1>1, ReusedFinite
  <2> QED
    BY <2>3, <2>4, FS_Bijection DEF CountReused
<1>5. /\ IsFiniteSet(Reused(s)) /\ Cardinality(Reused(s)) \in Nat
      /\ CountReused(s) = Cardinality(Reused(s))
  BY ReusedFinite DEF CountReused
<1>6. 1 \in Reused(s) <=> Head(s).reused
  BY <1>2 DEF Reused
<1>7. Cardinality(Reused(s) \ {1}) = IF 1 \in Reused(s) THEN Cardinality(Reused(s)) - 1
                                                      ELSE Cardinality(Reused(s))
  BY <1>5, FS_RemoveElement
<1> QED
  BY <1>4, <1>5, <1>6, <1>7

\* A sequence of one event.
LEMMA ReusedOne ==
    ASSUME NEW e, e.reused \in BOOLEAN
    PROVE  CountReused(<<e>>) = IF e.reused THEN 1 ELSE 0
<1>1. Reused(<<e>>) = IF e.reused THEN {1} ELSE {}
  BY DEF Reused
<1> QED
  BY <1>1, FS_EmptySet, FS_Singleton DEF CountReused

\* A change of something else of the events counts for nothing.
LEMMA ReusedSame ==
    ASSUME NEW s, NEW t, DOMAIN s = DOMAIN t, \A i \in DOMAIN s : t[i].reused = s[i].reused
    PROVE  CountReused(t) = CountReused(s)
<1>1. Reused(t) = Reused(s)
  BY DEF Reused
<1> QED
  BY <1>1 DEF CountReused

-----------------------------------------------------------------------------
Event == [tv : Nat, kind : {"plain", "statistics", "quit"}, reused : BOOLEAN]

EvTypes ==
    /\ listened \subseteq Queues
    /\ time \in Nat /\ stamp \in [Senders -> Nat]
    /\ events \in [Queues -> Seq(Event)] /\ running \in [Queues -> Seq(Event)]
    /\ \A q \in Queues : Len(running[q]) <= 1
    /\ lasttime \in [Queues -> Nat]
    /\ refs \in [Queues -> Int]
    /\ stage \in [Queues -> {"live", "removed", "quitting", "disposed"}]
    /\ begun \in [Flushers -> Nat]
    /\ flusher \in [Flushers -> {"idle", "walk", "wait", "flushed"}]
    /\ visits \in [Flushers -> Queues \cup {None}]
    /\ due \in [Flushers -> [Queues -> Nat]]
    /\ complete \in [Flushers -> BOOLEAN]

\* A thread has a queue to wait for while it waits.
Visiting == \A f \in Flushers : visits[f] # None <=> flusher[f] = "wait"

\* What a queue's references are counted for.
Owed(q) ==
    (IF stage[q] = "disposed" THEN 0 ELSE 1)
        + CountReused(events[q]) + CountReused(running[q]) + Cardinality(Ev!Waiters(q))

RefsFit == \A q \in Queues : refs[q] = Owed(q)

\* No event is of the future.
Past ==
    /\ \A s \in Senders : stamp[s] <= time
    /\ \A q \in Queues : lasttime[q] <= time
    /\ \A q \in Queues : \A i \in 1 .. Len(events[q]) : events[q][i].tv <= time

\* Of a queue in the list with a listener: what a flush still has to see done
\* is the event that is being handled and the first ones that are not, and the
\* flush counts them as past.
Ahead(f, q) ==
    /\ due[f][q] <= Len(running[q]) + Len(events[q])
    /\ \A i \in 1 .. Len(events[q]) :
           i + Len(running[q]) <= due[f][q] => events[q][i].tv <= begun[f]
    /\ due[f][q] > 0 => lasttime[q] <= begun[f]

Heard == Ev!Listed \cap listened

Expected == \A f \in Flushers, q \in Heard : flusher[f] # "idle" => Ahead(f, q)

EvInv == EvTypes /\ Visiting /\ RefsFit /\ Past /\ Expected /\ Ev!FlushComplete

\* What holds of the state, with the ranges its functions have.
LEMMA EvStart ==
    ASSUME EvInv
    PROVE  /\ EvTypes /\ Visiting /\ RefsFit /\ Past /\ Expected /\ Ev!FlushComplete
           /\ \A q \in Queues : /\ events[q] \in Seq(Event) /\ running[q] \in Seq(Event)
                                /\ Len(events[q]) \in Nat /\ Len(running[q]) \in Nat
                                /\ CountReused(events[q]) \in Nat
                                /\ CountReused(running[q]) \in Nat
                                /\ IsFiniteSet(Ev!Waiters(q))
                                /\ Cardinality(Ev!Waiters(q)) \in Nat
                                /\ refs[q] \in Int
                                /\ refs[q] = Owed(q)
<1>1. EvTypes /\ Visiting /\ RefsFit /\ Past /\ Expected /\ Ev!FlushComplete
  BY DEF EvInv
<1>2. ASSUME NEW q \in Queues
      PROVE  /\ events[q] \in Seq(Event) /\ running[q] \in Seq(Event)
             /\ refs[q] \in Int /\ refs[q] = Owed(q)
  BY <1>1 DEF EvTypes, RefsFit
<1>3. ASSUME NEW q \in Queues
      PROVE  IsFiniteSet(Ev!Waiters(q)) /\ Cardinality(Ev!Waiters(q)) \in Nat
  <2>1. IsFiniteSet(Ev!Waiters(q))
    BY EventAssumption, FS_Subset DEF Ev!Waiters
  <2> QED
    BY <2>1, FS_CardinalityType
<1>4. ASSUME NEW q \in Queues
      PROVE  /\ Len(events[q]) \in Nat /\ Len(running[q]) \in Nat
             /\ CountReused(events[q]) \in Nat /\ CountReused(running[q]) \in Nat
  BY <1>2, LenProperties, ReusedFinite
<1> QED
  BY <1>1, <1>2, <1>3, <1>4

\* Ev!InUse counts the reusable events of a queue.
LEMMA InUseCounts ==
    ASSUME NEW q
    PROVE  Ev!InUse(q) = CountReused(events[q]) + CountReused(running[q])
  BY DEF Ev!InUse, Ev!Quantify, CountReused, Reused, Ev!Cardinality, Cardinality

\* The invariant holds at first.
LEMMA EvInitInv ==
    ASSUME Ev!Init
    PROVE  EvInv
<1>1. EvTypes
  BY DEF Ev!Init, EvTypes
<1>2. Visiting
  BY EventAssumption DEF Ev!Init, Visiting
<1>3. RefsFit
  <2> SUFFICES ASSUME NEW q \in Queues
               PROVE  refs[q] = Owed(q)
    BY DEF RefsFit
  <2>1. Ev!Waiters(q) = {}
    BY EventAssumption DEF Ev!Init, Ev!Waiters
  <2>2. refs[q] = 1 /\ stage[q] = "live" /\ events[q] = <<>> /\ running[q] = <<>>
    BY DEF Ev!Init
  <2> QED
    BY <2>1, <2>2, ReusedNone, FS_EmptySet DEF Owed
<1>4. Past
  BY DEF Ev!Init, Past
<1>5. Expected
  BY DEF Ev!Init, Expected
<1>6. Ev!FlushComplete
  BY DEF Ev!Init, Ev!FlushComplete
<1> QED
  BY <1>1, <1>2, <1>3, <1>4, <1>5, <1>6 DEF EvInv

\* The invariant implies what the run checks.
LEMMA EvInvRefs ==
    ASSUME EvInv
    PROVE  Ev!RefsExact
<1>1. ASSUME NEW q \in Queues
      PROVE  refs[q] = (IF stage[q] = "disposed" THEN 0 ELSE 1) + Ev!InUse(q)
                       + Ev!Cardinality(Ev!Waiters(q))
  <2>1. Ev!Cardinality(Ev!Waiters(q)) = Cardinality(Ev!Waiters(q))
    BY DEF Ev!Cardinality, Cardinality
  <2> QED
    BY <2>1, InUseCounts, EvStart DEF Owed
<1> QED
  BY <1>1 DEF Ev!RefsExact

\* Flushes that a step leaves alone: their queues have done no more than before.
LEMMA SameExpected ==
    ASSUME EvInv, EvTypes',
           UNCHANGED <<listened, begun, due>>,
           \A f \in Flushers : flusher'[f] # "idle" => flusher[f] # "idle",
           Heard' \subseteq Heard,
           \A q \in Heard' : UNCHANGED <<events[q], running[q], lasttime[q]>>
    PROVE  Expected'
  BY EvStart DEF Expected, Ahead, EvTypes

LEMMA SameFlushed ==
    ASSUME EvInv, UNCHANGED <<listened, due>>,
           \A f \in Flushers : flusher'[f] = "flushed" => flusher[f] = "flushed",
           \A f \in Flushers : flusher'[f] = "flushed" => complete'[f] = complete[f],
           Heard' \subseteq Heard
    PROVE  Ev!FlushComplete'
  BY EvStart DEF Ev!FlushComplete, Ev!Others, Heard

\* The references of queues that a step leaves alone.
LEMMA SameRefs ==
    ASSUME EvInv, NEW q \in Queues,
           UNCHANGED <<refs[q], events[q], running[q], stage[q]>>, Ev!Waiters(q)' = Ev!Waiters(q)
    PROVE  refs'[q] = Owed(q)'
  BY EvStart DEF Owed

\* An event in a queue.
LEMMA EventTimes ==
    ASSUME EvInv, NEW q \in Queues, NEW i \in 1 .. Len(events[q])
    PROVE  events[q][i] \in Event /\ events[q][i].tv \in Nat
<1>1. events[q][i] \in Event
  BY EvStart, ElementOfSeq
<1> QED
  BY <1>1 DEF Event

\* A sender takes the time.
LEMMA EvTakeTime ==
    ASSUME EvInv, NEW s \in Senders, Ev!TakeTime(s), UNCHANGED listened
    PROVE  EvInv'
<1>1. /\ time' = time + 1 /\ stamp' = [stamp EXCEPT ![s] = time']
      /\ UNCHANGED <<events, running, lasttime, flush, refs, stage, ended>>
      /\ UNCHANGED <<begun, flusher, visits, asleep, due, complete>>
  BY DEF Ev!TakeTime, Ev!queueVars, Ev!flushVars
<1>2. EvTypes'
  BY <1>1, EvStart DEF EvTypes
<1>3. Visiting'
  BY <1>1, EvStart DEF Visiting
<1>4. RefsFit'
  BY <1>1, SameRefs DEF RefsFit, Ev!Waiters
<1>5. Past'
  <2>1. time \in Nat /\ time' = time + 1 /\ stamp \in [Senders -> Nat]
        /\ lasttime \in [Queues -> Nat]
    BY <1>1, EvStart DEF EvTypes
  <2>2. \A q \in Queues : \A i \in 1 .. Len(events[q]) : events[q][i].tv \in Nat
    BY EventTimes
  <2> QED
    BY <2>1, <2>2, <1>1, EvStart DEF Past
<1>6. Heard' = Heard
  BY <1>1 DEF Heard, Ev!Listed
<1>7. Expected'
  BY <1>1, <1>2, <1>6, SameExpected
<1>8. Ev!FlushComplete'
  BY <1>1, <1>6, SameFlushed
<1> QED
  BY <1>2, <1>3, <1>4, <1>5, <1>7, <1>8 DEF EvInv

\* What a new event is like.
LEMMA NewEventIs ==
    ASSUME EvInv, NEW q \in Queues, NEW tv \in Nat, NEW k \in {"plain", "statistics", "quit"}
    PROVE  /\ Ev!NewEvent(q, tv, k) \in Event
           /\ Ev!NewEvent(q, tv, k).tv = tv
           /\ Ev!NewEvent(q, tv, k).reused \in BOOLEAN
           /\ Ev!NewEvent(q, tv, k).reused = (Ev!InUse(q) < Reusable)
<1>1. Ev!InUse(q) \in Nat
  BY InUseCounts, EvStart
<1>2. (Ev!InUse(q) < Reusable) \in BOOLEAN
  BY <1>1, EventAssumption
<1> QED
  BY <1>2 DEF Ev!NewEvent, Event

\* A queue gets one more event, of now or earlier: one reference when the event
\* is of the free list, and nothing else changes for a flush.
LEMMA EventAdded ==
    ASSUME EvInv, NEW q \in Queues, NEW e \in Event, e.reused \in BOOLEAN, e.tv <= time,
           events'[q] = Append(events[q], e)
    PROVE  /\ events'[q] \in Seq(Event)
           /\ CountReused(events'[q]) = CountReused(events[q]) + IF e.reused THEN 1 ELSE 0
           /\ Len(events'[q]) = Len(events[q]) + 1
           /\ \A i \in 1 .. Len(events[q]) : events'[q][i] = events[q][i]
           /\ \A i \in 1 .. Len(events'[q]) : events'[q][i].tv <= time
<1>1. events[q] \in Seq(Event) /\ Len(events[q]) \in Nat
  BY EvStart
<1>2. /\ Append(events[q], e) \in Seq(Event)
      /\ Len(Append(events[q], e)) = Len(events[q]) + 1
      /\ \A i \in 1 .. Len(events[q]) : Append(events[q], e)[i] = events[q][i]
      /\ Append(events[q], e)[Len(events[q]) + 1] = e
  BY <1>1, AppendProperties
<1>3. CountReused(events'[q]) = CountReused(events[q]) + IF e.reused THEN 1 ELSE 0
  BY <1>1, ReusedAppend
<1>4. \A i \in 1 .. Len(events[q]) : events[q][i].tv <= time
  BY EvStart DEF Past
<1>5. ASSUME NEW i \in 1 .. Len(events'[q])
      PROVE  events'[q][i].tv <= time
  <2>1. i \in 1 .. Len(events[q]) \/ i = Len(events[q]) + 1
    BY <1>1, <1>2
  <2> QED
    BY <2>1, <1>2, <1>4
<1> QED
  BY <1>2, <1>3, <1>5

\* Statistics refresh an earlier event, which keeps its place.
LEMMA EventRefreshed ==
    ASSUME EvInv, NEW q \in Queues, NEW tv \in Nat, tv <= time, NEW i \in 1 .. Len(events[q]),
           events'[q] = [events[q] EXCEPT ![i].tv = tv]
    PROVE  /\ events'[q] \in Seq(Event)
           /\ CountReused(events'[q]) = CountReused(events[q])
           /\ Len(events'[q]) = Len(events[q])
           /\ \A j \in 1 .. Len(events'[q]) : events'[q][j].tv <= time
<1>1. /\ events[q] \in Seq(Event) /\ Len(events[q]) \in Nat
      /\ DOMAIN events[q] = 1 .. Len(events[q])
      /\ \A j \in 1 .. Len(events[q]) : events[q][j] \in Event
  BY EvStart, LenProperties, ElementOfSeq
<1>2. PICK e : e = [events[q][i] EXCEPT !.tv = tv]
  OBVIOUS
<1>3. e \in Event /\ e.tv = tv /\ e.reused = events[q][i].reused
  BY <1>1, <1>2 DEF Event
<1>4. events'[q] = [events[q] EXCEPT ![i] = e]
  BY <1>2
<1>5. /\ events'[q] \in Seq(Event) /\ Len(events'[q]) = Len(events[q])
      /\ \A j \in 1 .. Len(events[q]) : events'[q][j] = IF j = i THEN e ELSE events[q][j]
  <2>1. PICK S, old, new : S = Event /\ old = events[q] /\ new = events'[q]
    OBVIOUS
  <2>2. old \in Seq(S) /\ e \in S /\ i \in 1 .. Len(old) /\ new = [old EXCEPT ![i] = e]
    BY <2>1, <1>1, <1>3, <1>4
  <2>3. /\ new \in Seq(S) /\ Len(new) = Len(old)
        /\ \A j \in 1 .. Len(old) : new[j] = IF j = i THEN e ELSE old[j]
    BY ONLY <2>2, ExceptSeq
  <2> QED
    BY ONLY <2>1, <2>3
<1>6. CountReused(events'[q]) = CountReused(events[q])
  <2>1. DOMAIN events'[q] = 1 .. Len(events'[q])
    BY <1>5, LenProperties
  <2> QED
    BY <2>1, <1>1, <1>3, <1>5, ReusedSame
<1>7. \A j \in 1 .. Len(events[q]) : events[q][j].tv <= time
  BY EvStart DEF Past
<1> QED
  BY <1>3, <1>5, <1>6, <1>7

\* One more place at the end of a sequence is beyond what is due.
LEMMA DuePlaces ==
    ASSUME NEW l \in Nat, NEW r \in Nat, NEW d \in Nat, d <= r + l
    PROVE  d <= r + (l + 1) /\ \A i \in 1 .. l + 1 : i + r <= d => i \in 1 .. l
  OBVIOUS

\* What a listed queue is like when an event was sent to it.
LEMMA SentTo ==
    ASSUME EvInv, NEW s \in Senders, NEW k \in {"plain", "statistics"}, Ev!Send(s, k),
           NEW q \in Ev!Listed
    PROVE  /\ events'[q] \in Seq(Event)
           /\ refs'[q] \in Int
           /\ refs'[q] - refs[q] = CountReused(events'[q]) - CountReused(events[q])
           /\ \A i \in 1 .. Len(events'[q]) : events'[q][i].tv <= time
           /\ Ev!Flushing => /\ Len(events'[q]) = Len(events[q]) + 1
                             /\ \A i \in 1 .. Len(events[q]) : events'[q][i] = events[q][i]
<1>1. q \in Queues
  BY DEF Ev!Listed
<1>2. PICK tv : tv = stamp[s]
  OBVIOUS
<1>3. tv \in Nat /\ tv <= time
  BY <1>2, EvStart DEF EvTypes, Past
<1>4. /\ events[q] \in Seq(Event) /\ Len(events[q]) \in Nat
      /\ DOMAIN events[q] = 1 .. Len(events[q])
      /\ refs[q] \in Int /\ CountReused(events[q]) \in Nat
  BY <1>1, EvStart, LenProperties
<1>5. /\ events'[q] = Ev!Delivered(q, tv, k)
      /\ refs'[q] = IF Len(Ev!Delivered(q, tv, k)) > Len(events[q]) /\ Ev!InUse(q) < Reusable
                    THEN refs[q] + 1 ELSE refs[q]
      /\ k = "statistics" => ~ Ev!Flushing
  BY <1>1, <1>2 DEF Ev!Send
<1>6. CASE k = "statistics" /\ Ev!Earlier(q) # {}
  <2>1. PICK i : i = Ev!Max(Ev!Earlier(q))
    OBVIOUS
  <2>2. i \in 1 .. Len(events[q])
    <3>1. Ev!Earlier(q) \subseteq 1 .. Len(events[q]) /\ Ev!Earlier(q) \subseteq Int
      BY <1>4 DEF Ev!Earlier
    <3>2. IsFiniteSet(Ev!Earlier(q))
      <4>1. IsFiniteSet(1 .. Len(events[q]))
        BY <1>4, FS_Interval
      <4> QED
        BY <4>1, <3>1, FS_Subset
    <3>3. \E x \in Ev!Earlier(q) : \A y \in Ev!Earlier(q) : x >= y
      BY <3>1, <3>2, <1>6, Extremes
    <3>4. i \in Ev!Earlier(q)
      BY <2>1, <3>3 DEF Ev!Max
    <3> QED
      BY <3>1, <3>4
  <2>3. events'[q] = [events[q] EXCEPT ![i].tv = tv]
    BY <1>5, <1>6, <2>1 DEF Ev!Delivered
  <2>4. /\ events'[q] \in Seq(Event)
        /\ CountReused(events'[q]) = CountReused(events[q])
        /\ Len(events'[q]) = Len(events[q])
        /\ \A j \in 1 .. Len(events'[q]) : events'[q][j].tv <= time
    BY <1>1, <1>3, <2>2, <2>3, EventRefreshed
  <2>5. refs'[q] = refs[q]
    BY <1>4, <1>5, <2>4
  <2> QED
    BY <1>4, <1>5, <1>6, <2>4, <2>5
<1>7. CASE ~(k = "statistics" /\ Ev!Earlier(q) # {})
  <2>1. PICK e : e = Ev!NewEvent(q, tv, k)
    OBVIOUS
  <2>2. /\ e \in Event /\ e.tv = tv /\ e.reused \in BOOLEAN
        /\ e.reused = (Ev!InUse(q) < Reusable)
    BY <1>1, <1>3, <2>1, NewEventIs
  <2>3. events'[q] = Append(events[q], e)
    BY <1>5, <1>7, <2>1 DEF Ev!Delivered
  <2>4. /\ events'[q] \in Seq(Event)
        /\ CountReused(events'[q]) = CountReused(events[q]) + IF e.reused THEN 1 ELSE 0
        /\ Len(events'[q]) = Len(events[q]) + 1
        /\ \A i \in 1 .. Len(events[q]) : events'[q][i] = events[q][i]
        /\ \A i \in 1 .. Len(events'[q]) : events'[q][i].tv <= time
    BY <1>1, <1>3, <2>2, <2>3, EventAdded
  <2>5. refs'[q] = refs[q] + IF e.reused THEN 1 ELSE 0
    <3>1. Len(Ev!Delivered(q, tv, k)) > Len(events[q])
      BY <1>4, <1>5, <2>4
    <3>2. refs'[q] = IF e.reused THEN refs[q] + 1 ELSE refs[q]
      <4>1. refs'[q] = IF Ev!InUse(q) < Reusable THEN refs[q] + 1 ELSE refs[q]
        BY <3>1, <1>5
      <4> HIDE <1>5
      <4> QED
        BY <4>1, <2>2, Zenon
    <3> QED
      BY <3>2, <1>4, <2>2
  <2>6. PICK x \in Int, y \in Int, b \in {0, 1} :
           /\ x = refs[q] /\ y = CountReused(events[q]) /\ b = IF e.reused THEN 1 ELSE 0
    BY <1>4
  <2>7. refs'[q] = x + b /\ CountReused(events'[q]) = y + b
    BY <2>4, <2>5, <2>6
  <2>8. x + b \in Int /\ (x + b) - x = (y + b) - y
    OBVIOUS
  <2>9. refs'[q] \in Int /\ refs'[q] - refs[q] = CountReused(events'[q]) - CountReused(events[q])
    BY ONLY <2>6, <2>7, <2>8
  <2> QED
    BY ONLY <2>4, <2>9
<1> QED
  BY <1>6, <1>7

\* xine_event_send
LEMMA EvSend ==
    ASSUME EvInv, NEW s \in Senders, NEW k \in {"plain", "statistics"}, Ev!Send(s, k),
           UNCHANGED listened
    PROVE  EvInv'
<1>1. /\ UNCHANGED <<time, running, lasttime, flush, stage, ended>>
      /\ UNCHANGED <<begun, flusher, visits, asleep, due, complete>>
      /\ stamp' = [stamp EXCEPT ![s] = 0]
  BY DEF Ev!Send, Ev!flushVars
<1>2. \E e, r : events' = [q \in Queues |-> e[q]] /\ refs' = [q \in Queues |-> r[q]]
  <2> DEFINE e == [q \in Queues |-> IF q \in Ev!Listed THEN Ev!Delivered(q, stamp[s], k)
                                    ELSE events[q]]
             r == [q \in Queues |-> IF /\ q \in Ev!Listed
                                       /\ Len(Ev!Delivered(q, stamp[s], k)) > Len(events[q])
                                       /\ Ev!InUse(q) < Reusable
                                    THEN refs[q] + 1 ELSE refs[q]]
  <2>1. events' = e /\ refs' = r
    BY DEF Ev!Send
  <2>2. e = [q \in Queues |-> e[q]] /\ r = [q \in Queues |-> r[q]]
    OBVIOUS
  <2> QED
    BY <2>1, <2>2
<1>3. ASSUME NEW q \in Queues, q \notin Ev!Listed
      PROVE  events'[q] = events[q] /\ refs'[q] = refs[q]
  BY <1>3 DEF Ev!Send
<1>4. ASSUME NEW q \in Queues
      PROVE  /\ events'[q] \in Seq(Event)
             /\ refs'[q] \in Int
             /\ refs'[q] - refs[q] = CountReused(events'[q]) - CountReused(events[q])
             /\ \A i \in 1 .. Len(events'[q]) : events'[q][i].tv <= time
  <2>1. CASE q \in Ev!Listed
    BY <2>1, SentTo
  <2>2. CASE q \notin Ev!Listed
    <3>1. \A i \in 1 .. Len(events[q]) : events[q][i].tv <= time
      BY EvStart DEF Past
    <3> QED
      BY <2>2, <3>1, <1>3, EvStart
  <2> QED
    BY <2>1, <2>2
<1>5. EvTypes'
  <2>1. events' \in [Queues -> Seq(Event)] /\ refs' \in [Queues -> Int]
    BY <1>2, <1>4
  <2> QED
    BY <2>1, <1>1, EvStart DEF EvTypes
<1>6. Visiting'
  BY <1>1, EvStart DEF Visiting
<1>7. RefsFit'
  <2> SUFFICES ASSUME NEW q \in Queues
               PROVE  refs'[q] = Owed(q)'
    BY DEF RefsFit
  <2>1. Ev!Waiters(q)' = Ev!Waiters(q)
    BY <1>1 DEF Ev!Waiters
  <2>2. PICK b \in {0, 1} : b = (IF stage[q] = "disposed" THEN 0 ELSE 1)
    OBVIOUS
  <2>3. Owed(q) = b + CountReused(events[q]) + CountReused(running[q])
                      + Cardinality(Ev!Waiters(q))
    BY <2>2 DEF Owed
  <2>4. Owed(q)' = b + CountReused(events'[q]) + CountReused(running[q])
                       + Cardinality(Ev!Waiters(q))
    BY <2>1, <2>2, <1>1 DEF Owed
  <2>5. CountReused(events'[q]) \in Nat
    BY <1>4, ReusedFinite
  <2>6. PICK x, y, z \in Int : /\ x = CountReused(events[q]) /\ y = CountReused(events'[q])
                               /\ z = CountReused(running[q]) + Cardinality(Ev!Waiters(q))
    BY <2>5, EvStart
  <2>7. PICK r, w \in Int : r = CountReused(running[q]) /\ w = Cardinality(Ev!Waiters(q))
    BY EvStart
  <2>8. refs[q] = Owed(q)
    BY EvStart
  <2>9. refs[q] = b + x + z
    BY ONLY <2>2, <2>3, <2>6, <2>7, <2>8
  <2>10. Owed(q)' = b + y + z
    BY ONLY <2>2, <2>4, <2>6, <2>7
  <2>11. refs[q] \in Int /\ refs'[q] \in Int /\ refs'[q] - refs[q] = y - x
    BY <2>6, <1>4, EvStart
  <2> QED
    BY <2>6, <2>9, <2>10, <2>11
<1>8. Past'
  <2>1. \A u \in Senders : stamp'[u] <= time'
    BY <1>1, EvStart DEF Past, EvTypes
  <2> QED
    BY <2>1, <1>1, <1>4, EvStart DEF Past
<1>9. Heard' = Heard /\ Heard \subseteq Ev!Listed /\ Heard \subseteq Queues
  BY <1>1 DEF Heard, Ev!Listed
<1>10. Expected'
  <2> SUFFICES ASSUME NEW f \in Flushers, NEW q \in Heard, flusher[f] # "idle"
               PROVE  Ahead(f, q)'
    BY <1>1, <1>9 DEF Expected
  <2>1. Ahead(f, q)
    BY EvStart DEF Expected
  <2>2. Ev!Flushing
    BY DEF Ev!Flushing
  <2>3. /\ Len(events'[q]) = Len(events[q]) + 1
        /\ \A i \in 1 .. Len(events[q]) : events'[q][i] = events[q][i]
    BY <2>2, <1>9, SentTo
  <2>4. /\ Len(events[q]) \in Nat /\ Len(running[q]) \in Nat
        /\ due[f][q] \in Nat
    BY <1>9, EvStart DEF EvTypes
  <2>6. /\ due[f][q] <= Len(running[q]) + Len(events[q])
        /\ \A i \in 1 .. Len(events[q]) :
               i + Len(running[q]) <= due[f][q] => events[q][i].tv <= begun[f]
        /\ due[f][q] > 0 => lasttime[q] <= begun[f]
    BY <2>1 DEF Ahead
  <2>7. Len(events'[q]) = Len(events[q]) + 1 /\ due[f][q] <= Len(running[q]) + Len(events[q])
    BY <2>3, <2>6, Zenon
  <2>8. /\ due[f][q] <= Len(running[q]) + Len(events'[q])
        /\ \A i \in 1 .. Len(events'[q]) : i + Len(running[q]) <= due[f][q] => i \in 1 .. Len(events[q])
    BY <2>4, <2>7, DuePlaces
  <2>5. ASSUME NEW i \in 1 .. Len(events'[q]), i + Len(running[q]) <= due[f][q]
        PROVE  events'[q][i].tv <= begun[f]
    <3>1. i \in 1 .. Len(events[q])
      BY <2>5, <2>8
    <3> QED
      BY <2>6, <2>3, <2>5, <3>1
  <2> QED
    BY <1>1, <2>5, <2>6, <2>8 DEF Ahead
<1>11. Ev!FlushComplete'
  BY <1>1, <1>9, SameFlushed
<1> QED
  BY <1>5, <1>6, <1>7, <1>8, <1>10, <1>11 DEF EvInv

\* What a queue is like when its first event was taken.
LEMMA EventTaken ==
    ASSUME EvInv, NEW q \in Queues, Ev!Take(q)
    PROVE  /\ events' \in [Queues -> Seq(Event)] /\ running' \in [Queues -> Seq(Event)]
           /\ \A p \in Queues \ {q} : events'[p] = events[p] /\ running'[p] = running[p]
           /\ Head(events[q]) = events[q][1]
           /\ Len(running[q]) = 0 /\ Len(running'[q]) = 1
           /\ Len(events[q]) >= 1 /\ Len(events'[q]) = Len(events[q]) - 1
           /\ \A i \in 1 .. Len(events'[q]) : events'[q][i] = events[q][i + 1]
           /\ CountReused(events'[q]) + CountReused(running'[q])
                  = CountReused(events[q]) + CountReused(running[q])
<1>1. /\ running[q] = <<>> /\ events[q] # <<>>
      /\ running' = [running EXCEPT ![q] = <<Head(events[q])>>]
      /\ events' = [events EXCEPT ![q] = Tail(events[q])]
  BY DEF Ev!Take
<1>2. /\ events[q] \in Seq(Event)
      /\ events \in [Queues -> Seq(Event)] /\ running \in [Queues -> Seq(Event)]
  BY EvStart DEF EvTypes
<1>3. PICK e : e = Head(events[q])
  OBVIOUS
<1>4. /\ e \in Event /\ Tail(events[q]) \in Seq(Event)
      /\ Len(Tail(events[q])) = Len(events[q]) - 1
      /\ \A i \in 1 .. Len(Tail(events[q])) : Tail(events[q])[i] = events[q][i + 1]
  BY <1>1, <1>2, <1>3, HeadTailProperties
<1>5. Head(events[q]) = events[q][1] /\ Len(events[q]) >= 1
  BY <1>1, <1>2, EmptySeq, LenProperties
<1>6. <<e>> \in Seq(Event) /\ Len(<<e>>) = 1 /\ Len(running[q]) = 0
  BY <1>1, <1>4
<1>7. events'[q] = Tail(events[q]) /\ running'[q] = <<e>>
  BY <1>1, <1>2, <1>3
<1>8. e.reused \in BOOLEAN
  BY <1>4 DEF Event
<1>9. CountReused(events'[q]) + CountReused(running'[q])
          = CountReused(events[q]) + CountReused(running[q])
  <2>1. CountReused(events[q]) = CountReused(events'[q]) + IF e.reused THEN 1 ELSE 0
    BY <1>1, <1>2, <1>3, <1>7, <1>8, ReusedTail
  <2>2. CountReused(running'[q]) = IF e.reused THEN 1 ELSE 0
    BY <1>7, <1>8, ReusedOne
  <2>3. CountReused(running[q]) = 0
    BY <1>1, ReusedNone
  <2>4. CountReused(events'[q]) \in Nat
    BY <1>4, <1>7, ReusedFinite
  <2> QED
    BY <2>1, <2>2, <2>3, <2>4
<1>10. /\ events' \in [Queues -> Seq(Event)] /\ running' \in [Queues -> Seq(Event)]
       /\ \A p \in Queues \ {q} : events'[p] = events[p] /\ running'[p] = running[p]
  BY <1>1, <1>2, <1>3, <1>4, <1>6
<1> QED
  BY <1>4, <1>5, <1>6, <1>7, <1>9, <1>10

\* The references of a queue fit whatever moves within it.
LEMMA RefsMoved ==
    ASSUME EvInv, NEW q \in Queues, refs'[q] \in Int,
           events'[q] \in Seq(Event), running'[q] \in Seq(Event),
           stage'[q] = "disposed" <=> stage[q] = "disposed",
           Ev!Waiters(q)' = Ev!Waiters(q),
           refs'[q] - refs[q] = (CountReused(events'[q]) + CountReused(running'[q]))
                                - (CountReused(events[q]) + CountReused(running[q]))
    PROVE  refs'[q] = Owed(q)'
<1>1. PICK b \in {0, 1} : b = (IF stage[q] = "disposed" THEN 0 ELSE 1)
  OBVIOUS
<1>2. PICK x \in Nat : x = CountReused(events[q]) + CountReused(running[q])
  BY EvStart
<1>3. PICK y \in Nat : y = CountReused(events'[q]) + CountReused(running'[q])
  <2>1. CountReused(events'[q]) \in Nat /\ CountReused(running'[q]) \in Nat
    BY ReusedFinite
  <2> QED
    BY <2>1
<1>4. PICK z \in Nat : z = Cardinality(Ev!Waiters(q))
  BY EvStart
<1>5. Owed(q) = b + x + z
  BY <1>1, <1>2, <1>4, EvStart DEF Owed
<1>6. Owed(q)' = b + y + z
  <2>1. b = (IF stage'[q] = "disposed" THEN 0 ELSE 1)
    BY <1>1
  <2>2. CountReused(events'[q]) \in Nat /\ CountReused(running'[q]) \in Nat
    BY ReusedFinite
  <2> QED
    BY <2>1, <2>2, <1>3, <1>4 DEF Owed
<1>7. refs[q] \in Int /\ refs[q] = b + x + z /\ refs'[q] - refs[q] = y - x
  BY <1>2, <1>3, <1>5, EvStart
<1> QED
  BY <1>6, <1>7

\* listener_loop calls back.
LEMMA EvCallBack ==
    ASSUME EvInv, NEW q \in Queues, Ev!CallBack(q), UNCHANGED listened
    PROVE  EvInv'
<1>1. /\ Ev!Take(q) /\ lasttime' = [lasttime EXCEPT ![q] = Head(events[q]).tv]
      /\ UNCHANGED <<time, stamp, flush, refs, stage, ended>>
      /\ UNCHANGED <<begun, flusher, visits, asleep, due, complete>>
  BY DEF Ev!CallBack, Ev!flushVars
<1>2. /\ events' \in [Queues -> Seq(Event)] /\ running' \in [Queues -> Seq(Event)]
      /\ \A p \in Queues \ {q} : events'[p] = events[p] /\ running'[p] = running[p]
      /\ Head(events[q]) = events[q][1]
      /\ Len(running[q]) = 0 /\ Len(running'[q]) = 1
      /\ Len(events[q]) >= 1 /\ Len(events'[q]) = Len(events[q]) - 1
      /\ \A i \in 1 .. Len(events'[q]) : events'[q][i] = events[q][i + 1]
      /\ CountReused(events'[q]) + CountReused(running'[q])
             = CountReused(events[q]) + CountReused(running[q])
  BY <1>1, EventTaken
<1>3. Len(events[q]) \in Nat /\ 1 \in 1 .. Len(events[q])
  BY <1>2, EvStart
<1>4. events[q][1].tv \in Nat /\ events[q][1].tv <= time
  BY <1>3, EventTimes, EvStart DEF Past
<1>5. /\ lasttime \in [Queues -> Nat] /\ lasttime' \in [Queues -> Nat]
      /\ lasttime'[q] = events[q][1].tv
      /\ \A p \in Queues \ {q} : lasttime'[p] = lasttime[p]
  <2>1. PICK t \in Nat : t = Head(events[q]).tv
    BY <1>2, <1>4
  <2>2. lasttime \in [Queues -> Nat] /\ lasttime' = [lasttime EXCEPT ![q] = t]
    BY <2>1, <1>1, EvStart DEF EvTypes
  <2> QED
    BY <2>1, <2>2, <1>2
<1>6. EvTypes'
  <2>1. ASSUME NEW p \in Queues
        PROVE  Len(running'[p]) <= 1
    <3>1. Len(running[p]) <= 1
      BY EvStart DEF EvTypes
    <3>2. Len(running'[p]) = 1 \/ Len(running'[p]) = Len(running[p])
      BY <1>2, Zenon
    <3>3. 1 <= 1
      OBVIOUS
    <3> QED
      BY <3>1, <3>2, <3>3, Zenon
  <2> QED
    BY <2>1, <1>1, <1>2, <1>5, EvStart DEF EvTypes
<1>7. Visiting'
  BY <1>1, EvStart DEF Visiting
<1>8. RefsFit'
  <2> SUFFICES ASSUME NEW p \in Queues
               PROVE  refs'[p] = Owed(p)'
    BY DEF RefsFit
  <2>1. Ev!Waiters(p)' = Ev!Waiters(p)
    BY <1>1 DEF Ev!Waiters
  <2>2. CASE p = q
    <3>1. /\ refs'[q] = refs[q] /\ refs[q] \in Int /\ stage'[q] = stage[q]
          /\ events'[q] \in Seq(Event) /\ running'[q] \in Seq(Event)
          /\ CountReused(events[q]) \in Nat /\ CountReused(running[q]) \in Nat
      BY <1>1, <1>2, EvStart
    <3>2. refs'[q] - refs[q] = (CountReused(events'[q]) + CountReused(running'[q]))
                                - (CountReused(events[q]) + CountReused(running[q]))
      BY <3>1, <1>2
    <3> QED
      BY <2>1, <2>2, <3>1, <3>2, RefsMoved
  <2>3. CASE p # q
    BY <2>1, <2>3, <1>1, <1>2, SameRefs
  <2> QED
    BY <2>2, <2>3
<1>9. Past'
  <2>1. \A p \in Queues : lasttime'[p] <= time'
    BY <1>1, <1>4, <1>5, EvStart DEF Past
  <2>2. ASSUME NEW p \in Queues, NEW i \in 1 .. Len(events'[p])
        PROVE  events'[p][i].tv <= time'
    <3>1. CASE p = q
      <4>1. i + 1 \in 1 .. Len(events[q])
        BY <3>1, <2>2, <1>2, <1>3
      <4>2. events'[p][i] = events[q][i + 1]
        BY <3>1, <2>2, <1>2
      <4> QED
        BY <4>1, <4>2, <1>1, EvStart DEF Past
    <3>2. CASE p # q
      BY <3>2, <2>2, <1>1, <1>2, EvStart DEF Past
    <3> QED
      BY <3>1, <3>2
  <2> QED
    BY <2>1, <2>2, <1>1, EvStart DEF Past
<1>10. Heard' = Heard /\ Heard \subseteq Queues
  BY <1>1 DEF Heard, Ev!Listed
<1>11. Expected'
  <2> SUFFICES ASSUME NEW f \in Flushers, NEW p \in Heard, flusher[f] # "idle"
               PROVE  Ahead(f, p)'
    BY <1>1, <1>10 DEF Expected
  <2>1. /\ due[f][p] <= Len(running[p]) + Len(events[p])
        /\ \A i \in 1 .. Len(events[p]) :
               i + Len(running[p]) <= due[f][p] => events[p][i].tv <= begun[f]
        /\ due[f][p] > 0 => lasttime[p] <= begun[f]
    BY EvStart DEF Expected, Ahead
  <2>2. due[f][p] \in Nat
    BY <1>10, EvStart DEF EvTypes
  <2>3. CASE p = q
    <3>1. due[f][q] <= Len(running'[q]) + Len(events'[q])
      BY <2>1, <2>2, <2>3, <1>2, <1>3
    <3>2. ASSUME NEW i \in 1 .. Len(events'[q]), i + Len(running'[q]) <= due[f][q]
          PROVE  events'[q][i].tv <= begun[f]
      <4>1. i + 1 \in 1 .. Len(events[q]) /\ (i + 1) + Len(running[q]) <= due[f][q]
        BY <3>2, <1>2, <1>3
      <4> QED
        BY <4>1, <3>2, <2>1, <2>3, <1>2
    <3>3. ASSUME due[f][q] > 0
          PROVE  lasttime'[q] <= begun[f]
      <4>1. 1 + Len(running[q]) <= due[f][q]
        BY <3>3, <2>2, <2>3, <1>2
      <4> QED
        BY <4>1, <2>1, <2>3, <1>3, <1>5
    <3> QED
      BY <2>3, <3>1, <3>2, <3>3, <1>1 DEF Ahead
  <2>4. CASE p # q
    BY <2>1, <2>4, <1>1, <1>2, <1>5, <1>10 DEF Ahead
  <2> QED
    BY <2>3, <2>4
<1>12. Ev!FlushComplete'
  BY <1>1, <1>10, SameFlushed
<1> QED
  BY <1>6, <1>7, <1>8, <1>9, <1>11, <1>12 DEF EvInv

\* xine_event_get and xine_event_wait
LEMMA EvPoll ==
    ASSUME EvInv, NEW q \in Queues, Ev!Poll(q), UNCHANGED listened
    PROVE  EvInv'
<1>1. /\ Ev!Take(q) /\ q \notin listened
      /\ UNCHANGED <<time, stamp, lasttime, flush, refs, stage, ended>>
      /\ UNCHANGED <<begun, flusher, visits, asleep, due, complete>>
  BY DEF Ev!Poll, Ev!flushVars
<1>2. /\ events' \in [Queues -> Seq(Event)] /\ running' \in [Queues -> Seq(Event)]
      /\ \A p \in Queues \ {q} : events'[p] = events[p] /\ running'[p] = running[p]
      /\ Len(running[q]) = 0 /\ Len(running'[q]) = 1
      /\ Len(events[q]) >= 1 /\ Len(events'[q]) = Len(events[q]) - 1
      /\ \A i \in 1 .. Len(events'[q]) : events'[q][i] = events[q][i + 1]
      /\ CountReused(events'[q]) + CountReused(running'[q])
             = CountReused(events[q]) + CountReused(running[q])
  BY <1>1, EventTaken
<1>3. EvTypes'
  <2>1. ASSUME NEW p \in Queues
        PROVE  Len(running'[p]) <= 1
    <3>1. Len(running[p]) <= 1
      BY EvStart DEF EvTypes
    <3>2. Len(running'[p]) = 1 \/ Len(running'[p]) = Len(running[p])
      BY <1>2, Zenon
    <3>3. 1 <= 1
      OBVIOUS
    <3> QED
      BY <3>1, <3>2, <3>3, Zenon
  <2> QED
    BY <2>1, <1>1, <1>2, EvStart DEF EvTypes
<1>4. Visiting'
  BY <1>1, EvStart DEF Visiting
<1>5. RefsFit'
  <2> SUFFICES ASSUME NEW p \in Queues
               PROVE  refs'[p] = Owed(p)'
    BY DEF RefsFit
  <2>1. Ev!Waiters(p)' = Ev!Waiters(p)
    BY <1>1 DEF Ev!Waiters
  <2>2. CASE p = q
    <3>1. /\ refs'[q] = refs[q] /\ refs[q] \in Int /\ stage'[q] = stage[q]
          /\ events'[q] \in Seq(Event) /\ running'[q] \in Seq(Event)
          /\ CountReused(events[q]) \in Nat /\ CountReused(running[q]) \in Nat
      BY <1>1, <1>2, EvStart
    <3>2. refs'[q] - refs[q] = (CountReused(events'[q]) + CountReused(running'[q]))
                                - (CountReused(events[q]) + CountReused(running[q]))
      BY <3>1, <1>2
    <3> QED
      BY <2>1, <2>2, <3>1, <3>2, RefsMoved
  <2>3. CASE p # q
    BY <2>1, <2>3, <1>1, <1>2, SameRefs
  <2> QED
    BY <2>2, <2>3
<1>6. Past'
  <2>1. ASSUME NEW p \in Queues, NEW i \in 1 .. Len(events'[p])
        PROVE  events'[p][i].tv <= time'
    <3>1. CASE p = q
      <4>1. i + 1 \in 1 .. Len(events[q])
        <5>1. Len(events[q]) \in Nat
          BY EvStart
        <5> QED
          BY <5>1, <3>1, <2>1, <1>2
      <4>2. events'[p][i] = events[q][i + 1]
        BY <3>1, <2>1, <1>2
      <4> QED
        BY <4>1, <4>2, <1>1, EvStart DEF Past
    <3>2. CASE p # q
      BY <3>2, <2>1, <1>1, <1>2, EvStart DEF Past
    <3> QED
      BY <3>1, <3>2
  <2> QED
    BY <2>1, <1>1, EvStart DEF Past
<1>7. Heard' = Heard /\ q \notin Heard
  BY <1>1 DEF Heard, Ev!Listed
<1>8. Expected'
  <2>1. \A p \in Heard' : UNCHANGED <<events[p], running[p], lasttime[p]>>
    BY <1>1, <1>2, <1>7 DEF Heard, Ev!Listed
  <2> QED
    BY <2>1, <1>1, <1>3, <1>7, SameExpected
<1>9. Ev!FlushComplete'
  BY <1>1, <1>7, SameFlushed
<1> QED
  BY <1>3, <1>4, <1>5, <1>6, <1>8, <1>9 DEF EvInv

\* What a queue is like when its event is done.
LEMMA EventDone ==
    ASSUME EvInv, NEW q \in Queues, running[q] # <<>>,
           running' = [running EXCEPT ![q] = <<>>],
           refs' = [refs EXCEPT ![q] = Ev!Unused(q)]
    PROVE  /\ running' \in [Queues -> Seq(Event)] /\ refs' \in [Queues -> Int]
           /\ \A p \in Queues : Len(running'[p]) <= 1
           /\ \A p \in Queues \ {q} : running'[p] = running[p] /\ refs'[p] = refs[p]
           /\ Len(running[q]) = 1 /\ Len(running'[q]) = 0
           /\ CountReused(running'[q]) = 0
           /\ refs'[q] - refs[q] = 0 - CountReused(running[q])
<1>1. /\ running[q] \in Seq(Event) /\ Len(running[q]) \in Nat /\ Len(running[q]) <= 1
      /\ running \in [Queues -> Seq(Event)] /\ refs \in [Queues -> Int]
  BY EvStart DEF EvTypes
<1>2. PICK e : e = Head(running[q])
  OBVIOUS
<1>3. /\ e \in Event /\ Tail(running[q]) \in Seq(Event) /\ Len(running[q]) = 1
      /\ Len(Tail(running[q])) = 0 /\ running[q][1] = e
  <2>1. e \in Event /\ Tail(running[q]) \in Seq(Event)
        /\ Len(Tail(running[q])) = Len(running[q]) - 1
    BY <1>1, <1>2, HeadTailProperties
  <2>2. Len(running[q]) # 0 /\ running[q][1] = e
    BY <1>1, <1>2, EmptySeq
  <2> QED
    BY <1>1, <2>1, <2>2
<1>4. Tail(running[q]) = <<>>
  BY <1>3, EmptySeq
<1>5. e.reused \in BOOLEAN
  BY <1>3 DEF Event
<1>6. CountReused(running[q]) = IF e.reused THEN 1 ELSE 0
  <2>1. CountReused(running[q]) = CountReused(Tail(running[q])) + IF e.reused THEN 1 ELSE 0
    BY <1>1, <1>2, <1>5, ReusedTail
  <2>2. CountReused(Tail(running[q])) = 0
    BY <1>4, ReusedNone
  <2> QED
    BY <2>1, <2>2
<1>7. Ev!Unused(q) = IF e.reused THEN refs[q] - 1 ELSE refs[q]
  BY <1>3 DEF Ev!Unused
<1>8. refs[q] \in Int /\ Ev!Unused(q) \in Int /\ refs'[q] = Ev!Unused(q)
  BY <1>1, <1>7
<1>9. refs'[q] - refs[q] = 0 - CountReused(running[q])
  <2> HIDE <1>6
  <2>1. CASE e.reused
    BY <2>1, <1>6, <1>7, <1>8
  <2>2. CASE ~e.reused
    BY <2>2, <1>6, <1>7, <1>8
  <2> QED
    BY <2>1, <2>2
<1>10. /\ running' \in [Queues -> Seq(Event)] /\ running'[q] = <<>>
       /\ \A p \in Queues \ {q} : running'[p] = running[p]
  BY <1>1
<1>11. Len(running'[q]) = 0 /\ CountReused(running'[q]) = 0
  BY <1>10, ReusedNone
<1>12. refs' \in [Queues -> Int] /\ \A p \in Queues \ {q} : refs'[p] = refs[p]
  BY <1>1, <1>8
<1>13. ASSUME NEW p \in Queues
       PROVE  Len(running'[p]) <= 1
  <2>1. Len(running[p]) <= 1
    BY EvStart DEF EvTypes
  <2>2. Len(running'[p]) = 0 \/ Len(running'[p]) = Len(running[p])
    BY <1>10, <1>11, Zenon
  <2>3. 0 <= 1
    OBVIOUS
  <2> QED
    BY <2>1, <2>2, <2>3, Zenon
<1> QED
  BY <1>3, <1>9, <1>10, <1>11, <1>12, <1>13

\* Its references fit.
LEMMA RefsDone ==
    ASSUME EvInv, NEW q \in Queues, running[q] # <<>>,
           running' = [running EXCEPT ![q] = <<>>],
           refs' = [refs EXCEPT ![q] = Ev!Unused(q)],
           UNCHANGED <<events, stage, visits>>
    PROVE  RefsFit'
<1>1. /\ running' \in [Queues -> Seq(Event)] /\ refs' \in [Queues -> Int]
      /\ \A p \in Queues \ {q} : running'[p] = running[p] /\ refs'[p] = refs[p]
      /\ CountReused(running'[q]) = 0
      /\ refs'[q] - refs[q] = 0 - CountReused(running[q])
  BY EventDone
<1> SUFFICES ASSUME NEW p \in Queues
             PROVE  refs'[p] = Owed(p)'
  BY DEF RefsFit
<1>2. Ev!Waiters(p)' = Ev!Waiters(p)
  BY DEF Ev!Waiters
<1>3. CASE p = q
  <2>1. /\ refs'[q] \in Int /\ stage'[q] = stage[q]
        /\ events'[q] \in Seq(Event) /\ running'[q] \in Seq(Event)
        /\ CountReused(events[q]) \in Nat /\ CountReused(running[q]) \in Nat
        /\ CountReused(events'[q]) = CountReused(events[q])
    BY <1>1, EvStart
  <2>2. refs'[q] - refs[q] = (CountReused(events'[q]) + CountReused(running'[q]))
                              - (CountReused(events[q]) + CountReused(running[q]))
    BY <2>1, <1>1
  <2> QED
    BY <1>2, <1>3, <2>1, <2>2, RefsMoved
<1>4. CASE p # q
  BY <1>1, <1>2, <1>4, SameRefs
<1> QED
  BY <1>3, <1>4

\* xine_event_free
LEMMA EvFree ==
    ASSUME EvInv, NEW q \in Queues, Ev!Free(q), UNCHANGED listened
    PROVE  EvInv'
<1>1. /\ q \notin listened /\ running[q] # <<>>
      /\ running' = [running EXCEPT ![q] = <<>>]
      /\ refs' = [refs EXCEPT ![q] = Ev!Unused(q)]
      /\ UNCHANGED <<time, stamp, events, lasttime, flush, stage, ended>>
      /\ UNCHANGED <<begun, flusher, visits, asleep, due, complete>>
  BY DEF Ev!Free, Ev!flushVars
<1>2. /\ running' \in [Queues -> Seq(Event)] /\ refs' \in [Queues -> Int]
      /\ \A p \in Queues : Len(running'[p]) <= 1
      /\ \A p \in Queues \ {q} : running'[p] = running[p]
  BY <1>1, EventDone
<1>3. EvTypes'
  BY <1>1, <1>2, EvStart DEF EvTypes
<1>4. Visiting'
  BY <1>1, EvStart DEF Visiting
<1>5. RefsFit'
  BY <1>1, RefsDone
<1>6. Past'
  BY <1>1, EvStart DEF Past
<1>7. Heard' = Heard /\ q \notin Heard
  BY <1>1 DEF Heard, Ev!Listed
<1>8. Expected'
  <2>1. \A p \in Heard' : UNCHANGED <<events[p], running[p], lasttime[p]>>
    BY <1>1, <1>2, <1>7 DEF Heard, Ev!Listed
  <2> QED
    BY <2>1, <1>1, <1>3, <1>7, SameExpected
<1>9. Ev!FlushComplete'
  BY <1>1, <1>7, SameFlushed
<1> QED
  BY <1>3, <1>4, <1>5, <1>6, <1>8, <1>9 DEF EvInv

\* What is left to be handled shrinks by one with the event that is done.
LEMMA DueOne ==
    ASSUME NEW l \in Nat, NEW d \in Nat, NEW n \in Nat, d <= 1 + l,
           n = (IF d = 0 THEN 0 ELSE d - 1)
    PROVE  /\ n <= 0 + l /\ (n > 0 => d > 0)
           /\ \A i \in 1 .. l : i + 0 <= n => i + 1 <= d
  OBVIOUS

\* listener_loop after a callback.
LEMMA EvReturn ==
    ASSUME EvInv, NEW q \in Queues, Ev!Return(q), UNCHANGED listened
    PROVE  EvInv'
<1>1. /\ q \in listened /\ running[q] # <<>>
      /\ running' = [running EXCEPT ![q] = <<>>]
      /\ refs' = [refs EXCEPT ![q] = Ev!Unused(q)]
      /\ UNCHANGED <<time, stamp, events, lasttime, stage, begun, flusher, visits, complete>>
      /\ due' = [f \in Flushers |-> [due[f] EXCEPT ![q] = IF @ = 0 THEN 0 ELSE @ - 1]]
  BY DEF Ev!Return
<1>2. /\ running' \in [Queues -> Seq(Event)] /\ refs' \in [Queues -> Int]
      /\ \A p \in Queues : Len(running'[p]) <= 1
      /\ \A p \in Queues \ {q} : running'[p] = running[p]
      /\ Len(running[q]) = 1 /\ Len(running'[q]) = 0
  BY <1>1, EventDone
<1>3. ASSUME NEW f \in Flushers
      PROVE  /\ due'[f] \in [Queues -> Nat]
             /\ \A p \in Queues \ {q} : due'[f][p] = due[f][p]
             /\ due[f][q] \in Nat /\ due'[f][q] \in Nat
             /\ due'[f][q] = IF due[f][q] = 0 THEN 0 ELSE due[f][q] - 1
  <2>1. due[f] \in [Queues -> Nat]
    BY EvStart DEF EvTypes
  <2>2. PICK n \in Nat : n = IF due[f][q] = 0 THEN 0 ELSE due[f][q] - 1
    BY <2>1
  <2>3. due'[f] = [due[f] EXCEPT ![q] = n]
    BY <2>2, <1>1
  <2> QED
    BY <2>1, <2>2, <2>3
<1>4. EvTypes'
  <2>1. due' \in [Flushers -> [Queues -> Nat]]
    <3>1. DOMAIN due' = Flushers /\ due' = [f \in Flushers |-> due'[f]]
      BY <1>1
    <3> QED
      BY <3>1, <1>3
  <2> QED
    BY <2>1, <1>1, <1>2, EvStart DEF EvTypes
<1>5. Visiting'
  BY <1>1, EvStart DEF Visiting
<1>6. RefsFit'
  BY <1>1, RefsDone
<1>7. Past'
  BY <1>1, EvStart DEF Past
<1>8. Heard' = Heard /\ Heard \subseteq Queues
  BY <1>1 DEF Heard, Ev!Listed
<1>9. Expected'
  <2> SUFFICES ASSUME NEW f \in Flushers, NEW p \in Heard, flusher[f] # "idle"
               PROVE  Ahead(f, p)'
    BY <1>1, <1>8 DEF Expected
  <2>1. /\ due[f][p] <= Len(running[p]) + Len(events[p])
        /\ \A i \in 1 .. Len(events[p]) :
               i + Len(running[p]) <= due[f][p] => events[p][i].tv <= begun[f]
        /\ due[f][p] > 0 => lasttime[p] <= begun[f]
    BY EvStart DEF Expected, Ahead
  <2>2. CASE p = q
    <3>1. /\ Len(events[q]) \in Nat /\ due[f][q] <= 1 + Len(events[q])
          /\ \A i \in 1 .. Len(events[q]) : i + 1 <= due[f][q] => events[q][i].tv <= begun[f]
      BY <2>1, <2>2, <1>2, EvStart
    <3>2. /\ due'[f][q] <= 0 + Len(events[q]) /\ (due'[f][q] > 0 => due[f][q] > 0)
          /\ \A i \in 1 .. Len(events[q]) : i + 0 <= due'[f][q] => i + 1 <= due[f][q]
      BY <3>1, <1>3, DueOne
    <3> QED
      BY <2>1, <2>2, <3>1, <3>2, <1>1, <1>2 DEF Ahead
  <2>3. CASE p # q
    BY <2>1, <2>3, <1>1, <1>2, <1>3, <1>8 DEF Ahead
  <2> QED
    BY <2>2, <2>3
<1>10. Ev!FlushComplete'
  <2> SUFFICES ASSUME NEW f \in Flushers, flusher[f] = "flushed", complete[f],
                      NEW p \in Ev!Others(f)
               PROVE  due'[f][p] = 0
    BY <1>1 DEF Ev!FlushComplete, Ev!Others, Ev!Listed
  <2>1. due[f][p] = 0 /\ p \in Queues
    BY EvStart DEF Ev!FlushComplete, Ev!Others, Ev!Listed
  <2> QED
    BY <2>1, <1>3
<1> QED
  BY <1>4, <1>5, <1>6, <1>7, <1>9, <1>10 DEF EvInv

\* xine_event_dispose_queue takes the queue out of the list,
LEMMA EvRemove ==
    ASSUME EvInv, NEW q \in Queues, Ev!Remove(q), UNCHANGED listened
    PROVE  EvInv'
<1>1. /\ stage[q] = "live" /\ stage' = [stage EXCEPT ![q] = "removed"]
      /\ UNCHANGED <<time, stamp, events, running, lasttime, flush, refs, ended>>
      /\ UNCHANGED <<begun, flusher, visits, asleep, due, complete>>
  BY DEF Ev!Remove, Ev!flushVars
<1>2. EvTypes'
  BY <1>1, EvStart DEF EvTypes
<1>3. /\ stage'[q] = "removed" /\ \A p \in Queues \ {q} : stage'[p] = stage[p]
  BY <1>1, EvStart DEF EvTypes
<1>4. Visiting'
  BY <1>1, EvStart DEF Visiting
<1>5. RefsFit'
  <2> SUFFICES ASSUME NEW p \in Queues
               PROVE  refs'[p] = Owed(p)'
    BY DEF RefsFit
  <2>1. Ev!Waiters(p)' = Ev!Waiters(p)
    BY <1>1 DEF Ev!Waiters
  <2>2. stage'[p] = "disposed" <=> stage[p] = "disposed"
    BY <1>1, <1>3
  <2> QED
    BY <2>1, <2>2, <1>1, EvStart DEF Owed
<1>6. Past'
  BY <1>1, EvStart DEF Past
<1>7. Heard' \subseteq Heard /\ Ev!Listed' \subseteq Ev!Listed
  BY <1>1, <1>3 DEF Heard, Ev!Listed
<1>8. Expected'
  <2>1. \A p \in Heard' : UNCHANGED <<events[p], running[p], lasttime[p]>>
    BY <1>1
  <2> QED
    BY <2>1, <1>1, <1>2, <1>7, SameExpected
<1>9. Ev!FlushComplete'
  BY <1>1, <1>7, SameFlushed
<1> QED
  BY <1>2, <1>4, <1>5, <1>6, <1>8, <1>9 DEF EvInv

\* sends the quit event,
LEMMA EvQuit ==
    ASSUME EvInv, NEW q \in Queues, Ev!Quit(q), UNCHANGED listened
    PROVE  EvInv'
<1>1. /\ stage[q] = "removed" /\ stage' = [stage EXCEPT ![q] = "quitting"]
      /\ events' = [events EXCEPT ![q] = Append(events[q], Ev!NewEvent(q, time, "quit"))]
      /\ refs' = [refs EXCEPT ![q] = IF Ev!InUse(q) < Reusable THEN refs[q] + 1 ELSE refs[q]]
      /\ UNCHANGED <<time, stamp, running, lasttime, flush, ended>>
      /\ UNCHANGED <<begun, flusher, visits, asleep, due, complete>>
  BY DEF Ev!Quit, Ev!flushVars
<1>2. PICK e : e = Ev!NewEvent(q, time, "quit")
  OBVIOUS
<1>3. time \in Nat
  BY EvStart DEF EvTypes
<1>4. /\ e \in Event /\ e.tv = time /\ e.reused \in BOOLEAN
      /\ e.reused = (Ev!InUse(q) < Reusable)
  BY <1>2, <1>3, NewEventIs
<1>5. /\ events \in [Queues -> Seq(Event)] /\ refs \in [Queues -> Int]
      /\ stage \in [Queues -> {"live", "removed", "quitting", "disposed"}]
  BY EvStart DEF EvTypes
<1>6. /\ events'[q] = Append(events[q], e)
      /\ \A p \in Queues \ {q} : events'[p] = events[p]
  BY <1>1, <1>2, <1>5
<1>7. /\ events'[q] \in Seq(Event)
      /\ CountReused(events'[q]) = CountReused(events[q]) + IF e.reused THEN 1 ELSE 0
      /\ \A i \in 1 .. Len(events'[q]) : events'[q][i].tv <= time
  <2>1. e.tv <= time
    BY <1>3, <1>4
  <2> QED
    BY <2>1, <1>4, <1>6, EventAdded
<1>8. /\ refs'[q] = IF e.reused THEN refs[q] + 1 ELSE refs[q]
      /\ \A p \in Queues \ {q} : refs'[p] = refs[p]
  <2>1. PICK r : r = (IF Ev!InUse(q) < Reusable THEN refs[q] + 1 ELSE refs[q])
    OBVIOUS
  <2>2. refs' = [refs EXCEPT ![q] = r]
    BY <2>1, <1>1
  <2>3. refs'[q] = r /\ \A p \in Queues \ {q} : refs'[p] = refs[p]
    BY <2>2, <1>5
  <2>4. r = IF e.reused THEN refs[q] + 1 ELSE refs[q]
    BY <2>1, <1>4, Zenon
  <2> QED
    BY <2>3, <2>4
<1>9. /\ stage'[q] = "quitting" /\ \A p \in Queues \ {q} : stage'[p] = stage[p]
  BY <1>1, <1>5
<1>10. EvTypes'
  <2>1. events' \in [Queues -> Seq(Event)]
    BY <1>1, <1>2, <1>5, <1>6, <1>7
  <2>2. refs' \in [Queues -> Int]
    <3>1. DOMAIN refs' = Queues /\ refs' = [p \in Queues |-> refs'[p]]
      BY <1>1, <1>5
    <3>2. \A p \in Queues : refs'[p] \in Int
      BY <1>5, <1>8
    <3> QED
      BY <3>1, <3>2
  <2>3. stage' \in [Queues -> {"live", "removed", "quitting", "disposed"}]
    BY <1>1, <1>5
  <2> QED
    BY <2>1, <2>2, <2>3, <1>1, EvStart DEF EvTypes
<1>11. Visiting'
  BY <1>1, EvStart DEF Visiting
<1>12. RefsFit'
  <2> SUFFICES ASSUME NEW p \in Queues
               PROVE  refs'[p] = Owed(p)'
    BY DEF RefsFit
  <2>1. Ev!Waiters(p)' = Ev!Waiters(p)
    BY <1>1 DEF Ev!Waiters
  <2>2. CASE p = q
    <3>1. /\ refs'[q] \in Int /\ refs[q] \in Int
          /\ stage'[q] = "disposed" <=> stage[q] = "disposed"
          /\ running'[q] \in Seq(Event) /\ CountReused(running'[q]) = CountReused(running[q])
          /\ CountReused(events[q]) \in Nat /\ CountReused(running[q]) \in Nat
      BY <1>1, <1>5, <1>8, <1>9, EvStart
    <3>2. refs'[q] - refs[q] = (CountReused(events'[q]) + CountReused(running'[q]))
                                - (CountReused(events[q]) + CountReused(running[q]))
      <4>1. PICK n \in {0, 1} : n = IF e.reused THEN 1 ELSE 0
        OBVIOUS
      <4>2. refs'[q] = refs[q] + n
        BY <4>1, <3>1, <1>8
      <4>3. CountReused(events'[q]) = CountReused(events[q]) + n
        BY <4>1, <1>7
      <4> QED
        BY <4>2, <4>3, <3>1
    <3> QED
      BY <2>1, <2>2, <3>1, <3>2, <1>7, RefsMoved
  <2>3. CASE p # q
    BY <2>1, <2>3, <1>1, <1>6, <1>8, <1>9, SameRefs
  <2> QED
    BY <2>2, <2>3
<1>13. Past'
  <2>1. ASSUME NEW p \in Queues, NEW i \in 1 .. Len(events'[p])
        PROVE  events'[p][i].tv <= time
    <3>1. CASE p = q
      BY <3>1, <2>1, <1>7
    <3>2. CASE p # q
      BY <3>2, <2>1, <1>6, EvStart DEF Past
    <3> QED
      BY <3>1, <3>2
  <2> QED
    BY <2>1, <1>1, EvStart DEF Past
<1>14. Heard' = Heard /\ q \notin Heard /\ Heard \subseteq Queues
  BY <1>1, <1>9 DEF Heard, Ev!Listed
<1>15. Expected'
  <2>1. \A p \in Heard' : UNCHANGED <<events[p], running[p], lasttime[p]>>
    BY <1>1, <1>6, <1>14
  <2> QED
    BY <2>1, <1>1, <1>10, <1>14, SameExpected
<1>16. Ev!FlushComplete'
  BY <1>1, <1>14, SameFlushed
<1> QED
  BY <1>10, <1>11, <1>12, <1>13, <1>15, <1>16 DEF EvInv

\* and at last cleans up.
LEMMA EvClean ==
    ASSUME EvInv, NEW q \in Queues, Ev!Clean(q), UNCHANGED listened
    PROVE  EvInv'
<1>1. /\ stage[q] = "quitting" /\ stage' = [stage EXCEPT ![q] = "disposed"]
      /\ refs' = [refs EXCEPT ![q] = refs[q] - Ev!Left(q) - 1]
      /\ events' = [events EXCEPT ![q] = <<>>]
      /\ UNCHANGED <<time, stamp, running, lasttime, ended>>
      /\ UNCHANGED <<begun, flusher, visits, due, complete>>
  BY DEF Ev!Clean
<1>2. Ev!Left(q) = CountReused(events[q])
  BY DEF Ev!Left, Ev!Quantify, CountReused, Reused, Ev!Cardinality, Cardinality
<1>3. /\ events \in [Queues -> Seq(Event)] /\ refs \in [Queues -> Int]
      /\ stage \in [Queues -> {"live", "removed", "quitting", "disposed"}]
  BY EvStart DEF EvTypes
<1>4. CountReused(events[q]) \in Nat /\ refs[q] \in Int
  BY EvStart
<1>5. PICK r \in Int : r = refs[q] - CountReused(events[q]) - 1
  BY <1>4
<1>6. refs' = [refs EXCEPT ![q] = r]
  BY <1>1, <1>2, <1>5
<1>7. EvTypes'
  <2>1. /\ events' \in [Queues -> Seq(Event)]
        /\ stage' \in [Queues -> {"live", "removed", "quitting", "disposed"}]
    BY <1>1, <1>3
  <2>2. refs' \in [Queues -> Int]
    BY <1>3, <1>5, <1>6
  <2> QED
    BY <2>1, <2>2, <1>1, EvStart DEF EvTypes
<1>8. /\ \A p \in Queues \ {q} : events'[p] = events[p] /\ stage'[p] = stage[p]
      /\ \A p \in Queues \ {q} : refs'[p] = refs[p]
      /\ events'[q] = <<>> /\ stage'[q] = "disposed" /\ refs'[q] = r
  BY <1>1, <1>3, <1>6
<1>9. Visiting'
  BY <1>1, EvStart DEF Visiting
<1>10. RefsFit'
  <2> SUFFICES ASSUME NEW p \in Queues
               PROVE  refs'[p] = Owed(p)'
    BY DEF RefsFit
  <2>1. Ev!Waiters(p)' = Ev!Waiters(p)
    BY <1>1 DEF Ev!Waiters
  <2>2. CASE p = q
    <3>1. PICK x, y, z \in Nat : /\ x = CountReused(events[q]) /\ y = CountReused(running[q])
                                 /\ z = Cardinality(Ev!Waiters(q))
      BY EvStart
    <3>2. refs[q] = 1 + x + y + z
      BY <3>1, <1>1, EvStart DEF Owed
    <3>3. Owed(q)' = 0 + 0 + y + z
      BY <2>1, <2>2, <3>1, <1>1, <1>8, ReusedNone DEF Owed
    <3>4. r = refs[q] - x - 1
      BY <3>1, <1>5
    <3> QED
      BY <2>2, <3>2, <3>3, <3>4, <1>8
  <2>3. CASE p # q
    BY <2>1, <2>3, <1>1, <1>8, SameRefs
  <2> QED
    BY <2>2, <2>3
<1>11. Past'
  <2>1. ASSUME NEW p \in Queues, NEW i \in 1 .. Len(events'[p])
        PROVE  events'[p][i].tv <= time
    <3>1. p # q
      BY <2>1, <1>8
    <3> QED
      BY <3>1, <2>1, <1>8, EvStart DEF Past
  <2> QED
    BY <2>1, <1>1, EvStart DEF Past
<1>12. Heard' = Heard /\ q \notin Heard /\ Heard \subseteq Queues
  BY <1>1, <1>8 DEF Heard, Ev!Listed
<1>13. Expected'
  <2>1. \A p \in Heard' : UNCHANGED <<events[p], running[p], lasttime[p]>>
    BY <1>1, <1>8, <1>12
  <2> QED
    BY <2>1, <1>1, <1>7, <1>12, SameExpected
<1>14. Ev!FlushComplete'
  BY <1>1, <1>12, SameFlushed
<1> QED
  BY <1>7, <1>9, <1>10, <1>11, <1>13, <1>14 DEF EvInv

\* _x_flush_events_queues begins.
LEMMA EvFlushBegin ==
    ASSUME EvInv, NEW f \in Flushers, Ev!FlushBegin(f), UNCHANGED listened
    PROVE  EvInv'
<1>1. /\ flusher[f] = "idle" /\ flusher' = [flusher EXCEPT ![f] = "walk"]
      /\ begun' = [begun EXCEPT ![f] = time]
      /\ due' = [due EXCEPT ![f] = [q \in Queues |->
                     IF q \in listened THEN Len(events[q]) + Len(running[q]) ELSE 0]]
      /\ complete' = [complete EXCEPT ![f] = TRUE]
      /\ UNCHANGED <<time, stamp, visits, asleep>>
      /\ UNCHANGED <<events, running, lasttime, flush, refs, stage, ended>>
  BY DEF Ev!FlushBegin, Ev!queueVars
<1>2. /\ flusher \in [Flushers -> {"idle", "walk", "wait", "flushed"}]
      /\ begun \in [Flushers -> Nat] /\ due \in [Flushers -> [Queues -> Nat]]
      /\ complete \in [Flushers -> BOOLEAN] /\ time \in Nat
  BY EvStart DEF EvTypes
<1>3. ASSUME NEW q \in Queues
       PROVE  (IF q \in listened THEN Len(events[q]) + Len(running[q]) ELSE 0) \in Nat
  <2>1. Len(events[q]) \in Nat /\ Len(running[q]) \in Nat
    BY EvStart
  <2>2. \A a, b \in Nat : a + b \in Nat
    OBVIOUS
  <2>3. 0 \in Nat
    OBVIOUS
  <2> QED
    BY <2>1, <2>2, <2>3, Zenon
<1>4. PICK d : d = [q \in Queues |-> IF q \in listened THEN Len(events[q]) + Len(running[q])
                                     ELSE 0]
  OBVIOUS
<1>5. d \in [Queues -> Nat]
  BY <1>3, <1>4
<1>6. due' = [due EXCEPT ![f] = d]
  BY <1>1, <1>4
<1>7. EvTypes'
  <2>1. /\ flusher' \in [Flushers -> {"idle", "walk", "wait", "flushed"}]
        /\ begun' \in [Flushers -> Nat] /\ complete' \in [Flushers -> BOOLEAN]
    BY <1>1, <1>2
  <2>2. due' \in [Flushers -> [Queues -> Nat]]
    BY <1>2, <1>5, <1>6
  <2> QED
    BY <2>1, <2>2, <1>1, EvStart DEF EvTypes
<1>8. /\ flusher'[f] = "walk" /\ begun'[f] = time /\ due'[f] = d
      /\ \A g \in Flushers \ {f} : /\ flusher'[g] = flusher[g] /\ begun'[g] = begun[g]
                                   /\ due'[g] = due[g] /\ complete'[g] = complete[g]
  BY <1>1, <1>2, <1>6
<1>9. Visiting'
  BY <1>1, <1>8, EvStart DEF Visiting
<1>10. RefsFit'
  BY <1>1, SameRefs DEF RefsFit, Ev!Waiters
<1>11. Past'
  BY <1>1, EvStart DEF Past
<1>12. Heard' = Heard /\ Heard \subseteq Queues /\ Heard \subseteq listened
  BY <1>1 DEF Heard, Ev!Listed
<1>13. Expected'
  <2> SUFFICES ASSUME NEW g \in Flushers, NEW p \in Heard, flusher'[g] # "idle"
               PROVE  Ahead(g, p)'
    BY <1>12 DEF Expected
  <2>1. CASE g = f
    <3>1. d[p] = Len(events[p]) + Len(running[p])
      BY <1>4, <1>12
    <3>2. d[p] <= Len(running[p]) + Len(events[p])
      BY <3>1, <1>12, EvStart
    <3>3. /\ \A i \in 1 .. Len(events[p]) : events[p][i].tv <= time
          /\ lasttime[p] <= time
      BY <1>12, EvStart DEF Past
    <3> QED
      BY <2>1, <3>2, <3>3, <1>1, <1>8 DEF Ahead
  <2>2. CASE g # f
    BY <2>2, <1>1, <1>8, EvStart DEF Expected, Ahead
  <2> QED
    BY <2>1, <2>2
<1>14. Ev!FlushComplete'
  <2> SUFFICES ASSUME NEW g \in Flushers, flusher'[g] = "flushed", complete'[g],
                      NEW p \in Ev!Others(g)
               PROVE  due'[g][p] = 0
    BY <1>1 DEF Ev!FlushComplete, Ev!Others, Ev!Listed
  <2>1. g # f
    BY <1>8
  <2>2. flusher[g] = "flushed" /\ complete[g] /\ due'[g] = due[g]
    BY <2>1, <1>8
  <2> QED
    BY <2>2, EvStart DEF Ev!FlushComplete
<1> QED
  BY <1>7, <1>9, <1>10, <1>11, <1>13, <1>14 DEF EvInv

\* It returns.
LEMMA EvFlushEnd ==
    ASSUME EvInv, NEW f \in Flushers, Ev!FlushEnd(f), UNCHANGED listened
    PROVE  EvInv'
<1>1. /\ flusher[f] = "flushed" /\ flusher' = [flusher EXCEPT ![f] = "idle"]
      /\ begun' = [begun EXCEPT ![f] = 0]
      /\ due' = [due EXCEPT ![f] = [q \in Queues |-> 0]]
      /\ complete' = [complete EXCEPT ![f] = TRUE]
      /\ UNCHANGED <<time, stamp, visits, asleep>>
      /\ UNCHANGED <<events, running, lasttime, flush, refs, stage, ended>>
  BY DEF Ev!FlushEnd, Ev!queueVars
<1>2. /\ flusher \in [Flushers -> {"idle", "walk", "wait", "flushed"}]
      /\ begun \in [Flushers -> Nat] /\ due \in [Flushers -> [Queues -> Nat]]
      /\ complete \in [Flushers -> BOOLEAN]
  BY EvStart DEF EvTypes
<1>3. EvTypes'
  <2>1. /\ flusher' \in [Flushers -> {"idle", "walk", "wait", "flushed"}]
        /\ begun' \in [Flushers -> Nat] /\ complete' \in [Flushers -> BOOLEAN]
    BY <1>1, <1>2
  <2>2. due' \in [Flushers -> [Queues -> Nat]]
    <3>1. [q \in Queues |-> 0] \in [Queues -> Nat]
      OBVIOUS
    <3> QED
      BY <3>1, <1>1, <1>2
  <2> QED
    BY <2>1, <2>2, <1>1, EvStart DEF EvTypes
<1>4. /\ flusher'[f] = "idle"
      /\ \A g \in Flushers \ {f} : /\ flusher'[g] = flusher[g] /\ begun'[g] = begun[g]
                                   /\ due'[g] = due[g] /\ complete'[g] = complete[g]
  BY <1>1, <1>2
<1>5. Visiting'
  BY <1>1, <1>4, EvStart DEF Visiting
<1>6. RefsFit'
  BY <1>1, SameRefs DEF RefsFit, Ev!Waiters
<1>7. Past'
  BY <1>1, EvStart DEF Past
<1>8. Heard' = Heard
  BY <1>1 DEF Heard, Ev!Listed
<1>9. Expected'
  <2> SUFFICES ASSUME NEW g \in Flushers, NEW p \in Heard, flusher'[g] # "idle"
               PROVE  Ahead(g, p)'
    BY <1>8 DEF Expected
  <2>1. g # f
    BY <1>4
  <2> QED
    BY <2>1, <1>1, <1>4, EvStart DEF Expected, Ahead
<1>10. Ev!FlushComplete'
  BY <1>1, <1>4, EvStart DEF Ev!FlushComplete, Ev!Others, Ev!Listed
<1> QED
  BY <1>3, <1>5, <1>6, <1>7, <1>9, <1>10 DEF EvInv

\* It lets go of the queue it waited for, and walks the list again.
LEMMA EvStartOver ==
    ASSUME EvInv, NEW f \in Flushers, flusher[f] = "wait", Ev!StartOver(f),
           UNCHANGED <<listened, time, stamp, events, running, lasttime, stage, begun, due>>,
           complete' \in [Flushers -> BOOLEAN],
           \A g \in Flushers \ {f} : complete'[g] = complete[g]
    PROVE  EvInv'
<1>1. /\ visits \in [Flushers -> Queues \cup {None}] /\ refs \in [Queues -> Int]
      /\ flusher \in [Flushers -> {"idle", "walk", "wait", "flushed"}]
  BY EvStart DEF EvTypes
<1>2. PICK q \in Queues : visits[f] = q
  BY <1>1, EvStart DEF Visiting
<1>3. /\ refs' = [refs EXCEPT ![q] = refs[q] - 1]
      /\ visits' = [visits EXCEPT ![f] = None]
      /\ flusher' = [flusher EXCEPT ![f] = "walk"]
  BY <1>2 DEF Ev!StartOver
<1>4. /\ refs'[q] = refs[q] - 1 /\ \A p \in Queues \ {q} : refs'[p] = refs[p]
      /\ refs' \in [Queues -> Int]
      /\ visits'[f] = None /\ \A g \in Flushers \ {f} : visits'[g] = visits[g]
      /\ flusher'[f] = "walk" /\ \A g \in Flushers \ {f} : flusher'[g] = flusher[g]
  BY <1>1, <1>3
<1>5. EvTypes'
  <2>1. /\ visits' \in [Flushers -> Queues \cup {None}]
        /\ flusher' \in [Flushers -> {"idle", "walk", "wait", "flushed"}]
    BY <1>1, <1>3
  <2> QED
    BY <2>1, <1>4, EvStart DEF EvTypes
<1>6. Visiting'
  BY <1>4, EvStart DEF Visiting
<1>7. RefsFit'
  <2> SUFFICES ASSUME NEW p \in Queues
               PROVE  refs'[p] = Owed(p)'
    BY DEF RefsFit
  <2>1. CASE p = q
    <3>1. Ev!Waiters(q)' = Ev!Waiters(q) \ {f} /\ f \in Ev!Waiters(q)
      BY <1>2, <1>4, EventAssumption DEF Ev!Waiters
    <3>2. PICK b \in {0, 1} : b = (IF stage[q] = "disposed" THEN 0 ELSE 1)
      OBVIOUS
    <3>3. PICK x, y, z \in Nat : /\ x = CountReused(events[q]) /\ y = CountReused(running[q])
                                 /\ z = Cardinality(Ev!Waiters(q))
      BY EvStart
    <3>4. Cardinality(Ev!Waiters(q)') = z - 1
      <4>1. PICK W : W = Ev!Waiters(q)
        OBVIOUS
      <4>2. IsFiniteSet(W) /\ f \in W /\ Ev!Waiters(q)' = W \ {f} /\ z = Cardinality(W)
        BY <4>1, <3>1, <3>3, EvStart
      <4> QED
        BY ONLY <4>2, FS_RemoveElement
    <3>5. refs[q] = b + x + y + z
      BY <3>2, <3>3, EvStart DEF Owed
    <3>6. Owed(q)' = b + x + y + (z - 1)
      BY <3>2, <3>3, <3>4 DEF Owed
    <3> QED
      BY <2>1, <3>5, <3>6, <1>4
  <2>2. CASE p # q
    <3>1. Ev!Waiters(p)' = Ev!Waiters(p)
      BY <2>2, <1>2, <1>4, EventAssumption DEF Ev!Waiters
    <3> QED
      BY <3>1, <2>2, <1>4, SameRefs
  <2> QED
    BY <2>1, <2>2
<1>8. Past'
  BY EvStart DEF Past
<1>9. Heard' = Heard
  BY DEF Heard, Ev!Listed
<1>10. Expected'
  BY <1>4, <1>5, <1>9, SameExpected DEF Heard
<1>11. Ev!FlushComplete'
  <2>1. \A g \in Flushers : flusher'[g] = "flushed" =>
            flusher[g] = "flushed" /\ complete'[g] = complete[g]
    BY <1>4
  <2> QED
    BY <2>1, <1>9, SameFlushed
<1> QED
  BY <1>5, <1>6, <1>7, <1>8, <1>10, <1>11 DEF EvInv

\* It wakes up,
LEMMA EvFlushWake ==
    ASSUME EvInv, NEW f \in Flushers, Ev!FlushWake(f), UNCHANGED listened
    PROVE  EvInv'
<1>1. /\ flusher[f] = "wait"
      /\ UNCHANGED <<time, stamp, events, running, lasttime, flush, stage, ended>>
      /\ UNCHANGED <<begun, due, complete>>
      /\ UNCHANGED <<refs, visits, flusher>> \/ Ev!StartOver(f)
  BY DEF Ev!FlushWake
<1>2. CASE UNCHANGED <<refs, visits, flusher>>
  <2>1. EvTypes'
    BY <1>1, <1>2, EvStart DEF EvTypes
  <2>2. Visiting'
    BY <1>1, <1>2, EvStart DEF Visiting
  <2>3. RefsFit'
    BY <1>1, <1>2, SameRefs DEF RefsFit, Ev!Waiters
  <2>4. Past'
    BY <1>1, EvStart DEF Past
  <2>5. Heard' = Heard
    BY <1>1 DEF Heard, Ev!Listed
  <2>6. Expected'
    BY <2>1, <2>5, <1>1, <1>2, SameExpected DEF Heard
  <2>7. Ev!FlushComplete'
    BY <2>5, <1>1, <1>2, SameFlushed
  <2> QED
    BY <2>1, <2>2, <2>3, <2>4, <2>6, <2>7 DEF EvInv
<1>3. CASE Ev!StartOver(f)
  <2>1. complete \in [Flushers -> BOOLEAN]
    BY EvStart DEF EvTypes
  <2> QED
    BY <2>1, <1>1, <1>3, EvStartOver
<1> QED
  BY <1>1, <1>2, <1>3

\* or gives up after a second.
LEMMA EvFlushTimeout ==
    ASSUME EvInv, NEW f \in Flushers, Ev!FlushTimeout(f), UNCHANGED listened
    PROVE  EvInv'
<1>1. /\ flusher[f] = "wait" /\ Ev!StartOver(f)
      /\ complete' = [complete EXCEPT ![f] = FALSE]
      /\ UNCHANGED <<time, stamp, events, running, lasttime, flush, stage, ended>>
      /\ UNCHANGED <<begun, due>>
  BY DEF Ev!FlushTimeout
<1>2. /\ complete' \in [Flushers -> BOOLEAN]
      /\ \A g \in Flushers \ {f} : complete'[g] = complete[g]
  BY <1>1, EvStart DEF EvTypes
<1> QED
  BY <1>1, <1>2, EvStartOver

\* While something is due in a queue, "count pending past events" finds some.
LEMMA EvCounted ==
    ASSUME EvInv, NEW f \in Flushers, NEW q \in Heard, flusher[f] # "idle", due[f][q] > 0
    PROVE  Ev!Count(q, begun[f]) > 0
<1> DEFINE tv == begun[f]
           ns == {n \in 0 .. Len(events[q]) : \A i \in 1 .. n : events[q][i].tv <= tv}
<1>1. q \in Queues
  BY DEF Heard, Ev!Listed
<1>2. /\ due[f][q] <= Len(running[q]) + Len(events[q])
      /\ \A i \in 1 .. Len(events[q]) : i + Len(running[q]) <= due[f][q] => events[q][i].tv <= tv
      /\ lasttime[q] <= tv
  BY EvStart DEF Expected, Ahead
<1>3. PICK l, r, d \in Nat : l = Len(events[q]) /\ r = Len(running[q]) /\ d = due[f][q]
  BY <1>1, EvStart DEF EvTypes
<1>4. d > 0 /\ d <= r + l /\ \A i \in 1 .. l : i + r <= d => events[q][i].tv <= tv
  BY <1>2, <1>3
<1>5. PICK m : m = Ev!Max(ns)
  OBVIOUS
<1>6. m \in ns /\ \A n \in ns : m >= n
  <2>1. ns \subseteq 0 .. l /\ ns \subseteq Int
    BY <1>3
  <2>2. IsFiniteSet(0 .. l)
    <3>1. 0 \in Int /\ l \in Int
      OBVIOUS
    <3> QED
      BY <3>1, FS_Interval, Zenon
  <2>3. IsFiniteSet(ns)
    BY <2>1, <2>2, FS_Subset
  <2>4. 0 \in ns
    BY <1>3
  <2> HIDE DEF ns
  <2>5. \E x \in ns : \A y \in ns : x >= y
    BY <2>1, <2>3, <2>4, Extremes
  <2> QED
    BY <2>5, <1>5 DEF Ev!Max
<1>7. m \in Int /\ (m >= 1 \/ (m >= 0 /\ r > 0))
  <2>1. m \in 0 .. l
    BY <1>3, <1>6
  <2>2. CASE r = 0
    <3>1. 1 \in 1 .. l /\ 1 + r <= d
      BY <2>2, <1>4
    <3>2. events[q][1].tv <= tv
      BY <3>1, <1>4
    <3>3. 1 \in ns
      <4>1. 1 \in 0 .. Len(events[q])
        BY <3>1, <1>3
      <4>2. \A i \in 1 .. 1 : i = 1
        OBVIOUS
      <4> QED
        BY <3>2, <4>1, <4>2
    <3> HIDE DEF ns
    <3> QED
      BY <2>1, <3>3, <1>6
  <2>3. CASE r # 0
    BY <2>1, <2>3
  <2> QED
    BY <2>2, <2>3
<1>8. Ev!Past(q, tv) = r + m
  BY <1>3, <1>5 DEF Ev!Past, Ev!Running
<1>9. Ev!Count(q, tv) = r + m
  BY <1>2, <1>8 DEF Ev!Count
<1> HIDE DEF ns
<1> QED
  BY <1>7, <1>9

\* _x_flush_events_queues walks the list.
LEMMA EvWalk ==
    ASSUME EvInv, NEW f \in Flushers, Ev!Walk(f), UNCHANGED listened
    PROVE  EvInv'
<1> DEFINE busy == {q \in Ev!Others(f) : flush[q] # 0}
           pending == {q \in Ev!Others(f) \ busy : Ev!Count(q, begun[f]) > 0}
<1>1. /\ flusher[f] = "walk"
      /\ complete' = [complete EXCEPT ![f] = complete[f] /\ busy = {}]
      /\ IF pending = {}
         THEN /\ flusher' = [flusher EXCEPT ![f] = "flushed"]
              /\ UNCHANGED <<flush, refs, visits, asleep>>
         ELSE \E q \in pending :
              /\ refs' = [refs EXCEPT ![q] = refs[q] + 1]
              /\ visits' = [visits EXCEPT ![f] = q]
              /\ flusher' = [flusher EXCEPT ![f] = "wait"]
      /\ UNCHANGED <<time, stamp, events, running, lasttime, stage, ended, begun, due>>
  BY DEF Ev!Walk, Ev!Kept
<1>2. /\ flusher \in [Flushers -> {"idle", "walk", "wait", "flushed"}]
      /\ visits \in [Flushers -> Queues \cup {None}] /\ refs \in [Queues -> Int]
      /\ complete \in [Flushers -> BOOLEAN]
  BY EvStart DEF EvTypes
<1>3. PICK c \in BOOLEAN : c = (complete[f] /\ busy = {})
  OBVIOUS
<1>4. /\ complete' \in [Flushers -> BOOLEAN] /\ complete'[f] = c
      /\ \A g \in Flushers \ {f} : complete'[g] = complete[g]
  BY <1>1, <1>2, <1>3
<1>5. Past'
  BY <1>1, EvStart DEF Past
<1>6. Heard' = Heard /\ Ev!Others(f) = Heard \ {f} /\ Heard \subseteq Queues
  BY <1>1 DEF Heard, Ev!Listed, Ev!Others
<1>7. visits[f] = None
  BY <1>1, EvStart DEF Visiting
<1>8. CASE pending = {}
  <2>1. /\ flusher' = [flusher EXCEPT ![f] = "flushed"]
        /\ UNCHANGED <<flush, refs, visits, asleep>>
    BY <1>1, <1>8
  <2>2. /\ flusher' \in [Flushers -> {"idle", "walk", "wait", "flushed"}]
        /\ flusher'[f] = "flushed" /\ \A g \in Flushers \ {f} : flusher'[g] = flusher[g]
    BY <2>1, <1>2
  <2>3. EvTypes'
    BY <2>1, <2>2, <1>1, <1>4, EvStart DEF EvTypes
  <2>4. Visiting'
    BY <2>1, <2>2, <1>1, EvStart DEF Visiting
  <2>5. RefsFit'
    BY <2>1, <1>1, SameRefs DEF RefsFit, Ev!Waiters
  <2>6. Expected'
    <3>1. \A g \in Flushers : flusher'[g] # "idle" => flusher[g] # "idle"
      BY <2>2, <1>1
    <3>2. \A q \in Heard' : UNCHANGED <<events[q], running[q], lasttime[q]>>
      BY <1>1
    <3> HIDE DEF busy, pending
    <3> QED
      BY <2>3, <3>1, <3>2, <1>1, <1>6, SameExpected
  <2>7. ASSUME NEW g \in Flushers, flusher'[g] = "flushed", complete'[g], NEW q \in Ev!Others(g)
        PROVE  due[g][q] = 0
    <3>1. CASE g = f
      <4>1. busy = {}
        BY <2>7, <3>1, <1>3, <1>4
      <4>2. ~(Ev!Count(q, begun[f]) > 0)
        BY <2>7, <3>1, <4>1, <1>8
      <4>3. q \in Heard /\ due[f][q] \in Nat
        BY <2>7, <3>1, <1>6, EvStart DEF EvTypes
      <4>4. ~(due[f][q] > 0)
        BY <4>2, <4>3, <1>1, EvCounted
      <4> QED
        BY <3>1, <4>3, <4>4
    <3>2. CASE g # f
      BY <2>7, <3>2, <2>2, <1>4, EvStart DEF Ev!FlushComplete
    <3> QED
      BY <3>1, <3>2
  <2>8. Ev!FlushComplete'
    <3>1. \A g \in Flushers : Ev!Others(g)' = Ev!Others(g)
      BY <1>1 DEF Ev!Others, Ev!Listed
    <3> HIDE DEF busy, pending
    <3> QED
      BY <2>7, <3>1, <1>1 DEF Ev!FlushComplete
  <2> QED
    BY <2>3, <2>4, <2>5, <2>6, <2>8, <1>5 DEF EvInv
<1>9. CASE pending # {}
  <2>1. PICK q \in pending : /\ refs' = [refs EXCEPT ![q] = refs[q] + 1]
                             /\ visits' = [visits EXCEPT ![f] = q]
                             /\ flusher' = [flusher EXCEPT ![f] = "wait"]
    BY <1>1, <1>9
  <2>2. q \in Queues
    BY <1>6
  <2> HIDE DEF busy, pending
  <2>3. /\ flusher' \in [Flushers -> {"idle", "walk", "wait", "flushed"}]
        /\ flusher'[f] = "wait" /\ \A g \in Flushers \ {f} : flusher'[g] = flusher[g]
        /\ visits' \in [Flushers -> Queues \cup {None}]
        /\ visits'[f] = q /\ \A g \in Flushers \ {f} : visits'[g] = visits[g]
        /\ refs' \in [Queues -> Int] /\ refs'[q] = refs[q] + 1
        /\ \A p \in Queues \ {q} : refs'[p] = refs[p]
    BY <2>1, <2>2, <1>2
  <2>4. EvTypes'
    BY <2>3, <1>1, <1>4, EvStart DEF EvTypes
  <2>5. Visiting'
    BY <2>2, <2>3, EventAssumption, EvStart DEF Visiting
  <2>6. RefsFit'
    <3> SUFFICES ASSUME NEW p \in Queues
                 PROVE  refs'[p] = Owed(p)'
      BY DEF RefsFit
    <3>1. CASE p = q
      <4>1. Ev!Waiters(q)' = Ev!Waiters(q) \cup {f} /\ f \notin Ev!Waiters(q)
        BY <2>2, <2>3, <1>7, EventAssumption DEF Ev!Waiters
      <4>2. PICK b \in {0, 1} : b = (IF stage[q] = "disposed" THEN 0 ELSE 1)
        OBVIOUS
      <4>3. PICK x, y, z \in Nat : /\ x = CountReused(events[q]) /\ y = CountReused(running[q])
                                   /\ z = Cardinality(Ev!Waiters(q))
        BY <2>2, EvStart
      <4>4. Cardinality(Ev!Waiters(q)') = z + 1
        BY <4>1, <4>3, <2>2, EvStart, FS_AddElement
      <4>5. refs[q] = b + x + y + z
        BY <4>2, <4>3, <2>2, EvStart DEF Owed
      <4>6. Owed(q)' = b + x + y + (z + 1)
        BY <4>2, <4>3, <4>4, <1>1 DEF Owed
      <4> QED
        BY <3>1, <4>5, <4>6, <2>3
    <3>2. CASE p # q
      <4>1. Ev!Waiters(p)' = Ev!Waiters(p)
        BY <3>2, <2>3, <1>7, EventAssumption DEF Ev!Waiters
      <4> QED
        BY <4>1, <3>2, <2>3, <1>1, SameRefs
    <3> QED
      BY <3>1, <3>2
  <2>7. Expected'
    <3>1. \A g \in Flushers : flusher'[g] # "idle" => flusher[g] # "idle"
      BY <2>3, <1>1
    <3>2. \A p \in Heard' : UNCHANGED <<events[p], running[p], lasttime[p]>>
      BY <1>1
    <3> QED
      BY <2>4, <3>1, <3>2, <1>1, <1>6, SameExpected
  <2>8. Ev!FlushComplete'
    <3>1. \A g \in Flushers : flusher'[g] = "flushed" =>
              flusher[g] = "flushed" /\ complete'[g] = complete[g]
      BY <2>3, <1>4
    <3> QED
      BY <3>1, <1>1, <1>6, SameFlushed
  <2> QED
    BY <2>4, <2>5, <2>6, <2>7, <2>8, <1>5 DEF EvInv
<1> QED
  BY <1>8, <1>9

\* The invariant is kept by every step, of the event queues or not.
LEMMA EvNextInv ==
    ASSUME EvInv, Ev!Next
    PROVE  EvInv'
<1>1. UNCHANGED listened /\ Ev!Step
  BY DEF Ev!Next
<1>2. CASE \E s \in Senders : Ev!TakeTime(s)
  BY <1>1, <1>2, EvTakeTime
<1>3. CASE \E s \in Senders, k \in {"plain", "statistics"} : Ev!Send(s, k)
  BY <1>1, <1>3, EvSend
<1>4. CASE \E q \in Queues : Ev!CallBack(q) \/ Ev!Return(q) \/ Ev!Poll(q) \/ Ev!Free(q)
  BY <1>1, <1>4, EvCallBack, EvReturn, EvPoll, EvFree
<1>5. CASE \E q \in Queues : Ev!Remove(q) \/ Ev!Quit(q) \/ Ev!Clean(q)
  BY <1>1, <1>5, EvRemove, EvQuit, EvClean
<1>6. CASE \E f \in Flushers : \/ Ev!FlushBegin(f) \/ Ev!Walk(f) \/ Ev!FlushWake(f)
                               \/ Ev!FlushTimeout(f) \/ Ev!FlushEnd(f)
  BY <1>1, <1>6, EvFlushBegin, EvWalk, EvFlushWake, EvFlushTimeout, EvFlushEnd
<1> QED
  BY <1>1, <1>2, <1>3, <1>4, <1>5, <1>6 DEF Ev!Step

LEMMA EvStutter ==
    ASSUME EvInv, UNCHANGED evVars
    PROVE  EvInv'
<1>1. /\ UNCHANGED <<listened, time, stamp, events, running, lasttime, refs, stage>>
      /\ UNCHANGED <<begun, flusher, visits, due, complete>>
  BY DEF evVars
<1>2. EvTypes'
  BY <1>1, EvStart DEF EvTypes
<1>3. Visiting'
  BY <1>1, EvStart DEF Visiting
<1>4. RefsFit'
  BY <1>1, SameRefs DEF RefsFit, Ev!Waiters
<1>5. Past'
  BY <1>1, EvStart DEF Past
<1>6. Heard' = Heard
  BY <1>1 DEF Heard, Ev!Listed
<1>7. Expected'
  BY <1>1, <1>2, <1>6, SameExpected DEF Heard
<1>8. Ev!FlushComplete'
  BY <1>1, <1>6, SameFlushed
<1> QED
  BY <1>2, <1>3, <1>4, <1>5, <1>7, <1>8 DEF EvInv

\* The inductive invariant holds of the composition.
LEMMA EvAlways == MCSpec => []EvInv
<1>1. MCInit => EvInv
  BY EvInitInv DEF MCInit
<1>2. EvInv /\ [MCNext]_<<part, allVars, evVars, ovVars>> => EvInv'
  <2> SUFFICES ASSUME EvInv, [MCNext]_<<part, allVars, evVars, ovVars>>
               PROVE  EvInv'
    OBVIOUS
  <2>1. Ev!Next \/ UNCHANGED evVars
    BY DEF MCNext
  <2> QED
    BY <2>1, EvNextInv, EvStutter
<1> QED
  BY <1>1, <1>2, PTL DEF MCSpec

\* An event queue has exactly the references that are taken for it: it is freed
\* neither while one is left nor never, whatever the order of dispose, free and
\* flush, for all numbers of queues, senders and threads that flush.
THEOREM ReferencesExact == MCSpec => []RefsExact
<1>1. EvInv => RefsExact
  BY EvInvRefs DEF RefsExact
<1> QED
  BY <1>1, EvAlways, PTL

\* A flush that neither timed out nor met another one returns when all the
\* events from before it are handled, whatever is sent and disposed meanwhile.
THEOREM FlushWaitsForAll == MCSpec => []FlushComplete
<1>1. EvInv => FlushComplete
  BY DEF EvInv, FlushComplete
<1> QED
  BY <1>1, EvAlways, PTL

-----------------------------------------------------------------------------
InUseSlots == Ov!Slots \ Ov!FreeSlots

\* x is what follows next when the slots U follow, in the order that r gives.
Leads(r, U, x) == (U = {} /\ x = 0) \/ (x \in U /\ \A t \in U : r[x] <= r[t])

\* The slots in use are linked in an order r, which is one of time.
Linked(r) ==
    /\ \A s, t \in InUseSlots : r[s] = r[t] => s = t
    /\ \A s, t \in InUseSlots : r[s] < r[t] => event[s].vpts <= event[t].vpts
    /\ Leads(r, InUseSlots, next[0])
    /\ \A s \in InUseSlots : Leads(r, {t \in InUseSlots : r[t] > r[s]}, next[s])

\* The same with places 1 .. n, which w has the slots of: a list from slot 0.
Places(n, p, w) ==
    /\ n \in 0 .. NumSlots
    /\ p \in [Ov!Slots -> Nat]
    /\ w \in [0 .. NumSlots + 1 -> 0 .. NumSlots]
    /\ \A s \in InUseSlots : p[s] \in 1 .. n /\ w[p[s]] = s
    /\ \A i \in 1 .. n : w[i] \in InUseSlots /\ p[w[i]] = i
    /\ w[0] = 0 /\ \A i \in n + 1 .. NumSlots + 1 : w[i] = 0
    /\ next[0] = w[1] /\ \A s \in InUseSlots : next[s] = w[p[s] + 1]
    /\ \A s, t \in InUseSlots : p[s] < p[t] => event[s].vpts <= event[t].vpts

\* The walk is the only function that its equation has.
LEMMA WalkIs ==
    ASSUME NEW w,
           w = [i \in 0 .. NumSlots + 1 |->
                   IF i = 0 THEN 0 ELSE IF i > 1 /\ w[i - 1] = 0 THEN 0 ELSE next[w[i - 1]]]
    PROVE  Ov!Walk = w
<1> DEFINE D == 0 .. NumSlots + 1
           Eq(v) == v = [i \in D |-> IF i = 0 THEN 0
                                     ELSE IF i > 1 /\ v[i - 1] = 0 THEN 0 ELSE next[v[i - 1]]]
<1>1. Ov!Walk = CHOOSE v : Eq(v)
  BY DEF Ov!Walk
<1>2. Eq(w)
  OBVIOUS
<1>3. Eq(Ov!Walk)
  <2> HIDE DEF Eq
  <2> QED
    BY <1>1, <1>2
<1>4. ASSUME NEW v, Eq(v)
      PROVE  /\ v[0] = 0 /\ v = [i \in D |-> v[i]]
             /\ \A i \in 1 .. NumSlots + 1 :
                    v[i] = IF i > 1 /\ v[i - 1] = 0 THEN 0 ELSE next[v[i - 1]]
  BY <1>4, OverlayAssumption
<1>5. \A i \in D : Ov!Walk[i] = w[i]
  <2> DEFINE bad == {i \in D : Ov!Walk[i] # w[i]}
  <2> SUFFICES ASSUME bad # {}
               PROVE  FALSE
    OBVIOUS
  <2>1. bad \subseteq Int /\ IsFiniteSet(bad)
    <3>1. 0 \in Int /\ NumSlots + 1 \in Int
      BY OverlayAssumption
    <3>2. IsFiniteSet(D)
      BY <3>1, FS_Interval
    <3>3. bad \subseteq D
      OBVIOUS
    <3>4. D \subseteq Int
      OBVIOUS
    <3> HIDE DEF bad, D
    <3> QED
      BY <3>2, <3>3, <3>4, FS_Subset
  <2>2. PICK i \in bad : \A j \in bad : i <= j
    <3> HIDE DEF bad
    <3> QED
      BY <2>1, Extremes
  <2> HIDE DEF Eq
  <2>3. Ov!Walk[0] = 0 /\ w[0] = 0
    BY <1>2, <1>3, <1>4
  <2>4. i \in 1 .. NumSlots + 1 /\ i - 1 \in D /\ ~(i <= i - 1)
    BY <2>3, OverlayAssumption
  <2>5. Ov!Walk[i - 1] = w[i - 1]
    BY <2>2, <2>4
  <2>6. Ov!Walk[i] = w[i]
    BY <2>4, <2>5, <1>2, <1>3, <1>4
  <2> QED
    BY <2>6
<1>6. Ov!Walk = [i \in D |-> Ov!Walk[i]] /\ w = [i \in D |-> w[i]]
  <2> HIDE DEF Eq
  <2> QED
    BY <1>2, <1>3, <1>4
<1> QED
  BY <1>5, <1>6

\* A list of places is what the walk finds.
LEMMA WalkOfPlaces ==
    ASSUME NEW n, NEW p, NEW w, Places(n, p, w)
    PROVE  Ov!Walk = w
<1>1. /\ n \in 0 .. NumSlots /\ NumSlots \in Nat
      /\ w \in [0 .. NumSlots + 1 -> 0 .. NumSlots] /\ w[0] = 0 /\ w[1] = next[0]
      /\ \A i \in n + 1 .. NumSlots + 1 : w[i] = 0
      /\ \A i \in 1 .. n : w[i] \in InUseSlots /\ p[w[i]] = i
      /\ \A s \in InUseSlots : next[s] = w[p[s] + 1]
  BY OverlayAssumption DEF Places
<1>2. ASSUME NEW i \in 1 .. n
      PROVE  w[i] # 0 /\ next[w[i]] = w[i + 1]
  <2>1. w[i] \in InUseSlots /\ p[w[i]] = i
    BY <1>1
  <2>2. w[i] \in 1 .. NumSlots
    BY <2>1 DEF InUseSlots, Ov!Slots
  <2>3. next[w[i]] = w[p[w[i]] + 1]
    BY <2>1, <1>1
  <2> QED
    BY <2>1, <2>2, <2>3, <1>1
<1>3. ASSUME NEW i \in 0 .. NumSlots + 1
      PROVE  w[i] = IF i = 0 THEN 0 ELSE IF i > 1 /\ w[i - 1] = 0 THEN 0 ELSE next[w[i - 1]]
  <2>1. CASE i = 0
    BY <2>1, <1>1
  <2>2. CASE i = 1
    BY <2>2, <1>1
  <2>3. CASE i > 1 /\ i - 1 <= n
    <3>1. i - 1 \in 1 .. n /\ (i - 1) + 1 = i
      BY <2>3, <1>1
    <3> QED
      BY <3>1, <2>3, <1>2
  <2>4. CASE i > 1 /\ ~(i - 1 <= n)
    <3>1. i - 1 \in n + 1 .. NumSlots + 1 /\ i \in n + 1 .. NumSlots + 1
      BY <2>4, <1>1
    <3>2. w[i - 1] = 0 /\ w[i] = 0
      BY <3>1, <1>1
    <3> QED
      BY <3>2, <2>4
  <2> QED
    BY <2>1, <2>2, <2>3, <2>4
<1>4. w = [i \in 0 .. NumSlots + 1 |->
              IF i = 0 THEN 0 ELSE IF i > 1 /\ w[i - 1] = 0 THEN 0 ELSE next[w[i - 1]]]
  BY <1>1, <1>3
<1> QED
  BY <1>4, WalkIs

\* Slots linked in an order have places: how many of them are not later.
LEMMA PlacesOf ==
    ASSUME NEW r, r \in [Ov!Slots -> Int], next \in [0 .. NumSlots -> 0 .. NumSlots], Linked(r)
    PROVE  \E n, p, w : Places(n, p, w)
<1> DEFINE Q == InUseSlots
           below(s) == {t \in Q : r[t] <= r[s]}
<1>1. /\ NumSlots \in Nat /\ Q \subseteq Ov!Slots /\ Ov!Slots = 1 .. NumSlots
      /\ \A s \in Q : r[s] \in Int
  BY OverlayAssumption DEF InUseSlots, Ov!Slots
<1>2. PICK n : n = Cardinality(Q)
  OBVIOUS
<1>3. IsFiniteSet(Q) /\ n \in 0 .. NumSlots
  <2>1. 1 \in Int /\ NumSlots \in Int
    BY <1>1
  <2>2. IsFiniteSet(1 .. NumSlots)
        /\ Cardinality(1 .. NumSlots) = IF 1 > NumSlots THEN 0 ELSE NumSlots - 1 + 1
    BY <2>1, FS_Interval
  <2>3. Cardinality(1 .. NumSlots) = NumSlots
    BY <2>2, <1>1
  <2>4. Q \in SUBSET (1 .. NumSlots)
    BY <1>1
  <2>5. IsFiniteSet(Q) /\ Cardinality(Q) <= Cardinality(1 .. NumSlots)
    <3> HIDE DEF Q
    <3> QED
      BY <2>2, <2>4, FS_Subset
  <2>6. Cardinality(Q) \in Nat
    BY <2>5, FS_CardinalityType
  <2> QED
    BY <2>3, <2>5, <2>6, <1>1, <1>2
<1>4. ASSUME NEW s
      PROVE  /\ IsFiniteSet(below(s)) /\ Cardinality(below(s)) \in Nat
             /\ Cardinality(below(s)) <= n
             /\ Cardinality(below(s)) = n => below(s) = Q
  <2>1. below(s) \in SUBSET Q
    OBVIOUS
  <2> HIDE DEF Q, below
  <2>2. /\ IsFiniteSet(below(s)) /\ Cardinality(below(s)) <= n
        /\ n = Cardinality(below(s)) => Q = below(s)
    BY <2>1, <1>2, <1>3, FS_Subset
  <2> QED
    BY <2>2, FS_CardinalityType
<1>5. PICK p : p = [s \in Ov!Slots |-> Cardinality(below(s))]
  OBVIOUS
<1>6. p \in [Ov!Slots -> Nat] /\ \A s \in Q : p[s] = Cardinality(below(s))
  <2> HIDE DEF below
  <2> QED
    BY <1>1, <1>4, <1>5
<1>7. \A s \in Q : p[s] \in 1 .. n
  <2> SUFFICES ASSUME NEW s \in Q
               PROVE  p[s] \in 1 .. n
    OBVIOUS
  <2>1. s \in below(s)
    BY <1>1
  <2>2. Cardinality(below(s)) # 0
    <3> HIDE DEF below
    <3> QED
      BY <2>1, <1>4, FS_EmptySet
  <2>3. PICK c \in Nat : c = p[s]
    BY <1>4, <1>6
  <2>4. c # 0 /\ c <= n /\ n \in Nat
    <3>1. c = Cardinality(below(s)) /\ n \in Nat
      BY <2>3, <1>3, <1>6
    <3>2. Cardinality(below(s)) # 0 /\ Cardinality(below(s)) <= n
      BY <2>2, <1>4, Zenon
    <3> HIDE DEF below
    <3> QED
      BY <3>1, <3>2
  <2> QED
    BY <2>3, <2>4
<1>8. ASSUME NEW s \in Q, NEW t \in Q, r[s] < r[t]
      PROVE  p[s] < p[t]
  <2>1. below(s) \in SUBSET (below(t) \ {t}) /\ t \in below(t)
    <3>1. r[s] \in Int /\ r[t] \in Int /\ t \in below(t)
      BY <1>1
    <3>2. ASSUME NEW x \in below(s)
          PROVE  x \in Q /\ r[x] <= r[t] /\ x # t
      <4>1. x \in Q /\ r[x] <= r[s] /\ r[x] \in Int
        BY <1>1
      <4> QED
        BY <4>1, <3>1, <1>8
    <3> QED
      BY <3>1, <3>2
  <2> HIDE DEF below
  <2>2. IsFiniteSet(below(t) \ {t}) /\ Cardinality(below(t) \ {t}) = Cardinality(below(t)) - 1
    BY <2>1, <1>4, FS_RemoveElement
  <2>3. Cardinality(below(s)) <= Cardinality(below(t) \ {t})
    BY <2>1, <2>2, FS_Subset
  <2>4. Cardinality(below(s)) \in Nat /\ Cardinality(below(t)) \in Nat
    BY <1>4
  <2> QED
    BY <2>2, <2>3, <2>4, <1>6
<1>9. ASSUME NEW s \in Q, NEW t \in Q
      PROVE  /\ p[s] = p[t] => s = t
             /\ p[s] < p[t] => r[s] < r[t]
  <2>1. p[s] \in Nat /\ p[t] \in Nat /\ r[s] \in Int /\ r[t] \in Int
    BY <1>1, <1>6
  <2>2. r[s] < r[t] \/ r[t] < r[s] \/ s = t
    BY <2>1 DEF Linked
  <2> QED
    BY <2>1, <2>2, <1>8
<1>10. \A i \in 1 .. n : \E s \in Q : p[s] = i
  <2>1. PICK f : f = [s \in Q |-> p[s]]
    OBVIOUS
  <2>2. f \in Injection(Q, 1 .. n)
    BY <2>1, <1>7, <1>9 DEF Injection, IsInjective
  <2>3. IsFiniteSet(1 .. n) /\ Cardinality(1 .. n) = n
    <3>1. 1 \in Int /\ n \in Int /\ n >= 0
      BY <1>3
    <3>2. IsFiniteSet(1 .. n) /\ Cardinality(1 .. n) = IF 1 > n THEN 0 ELSE n - 1 + 1
      BY <3>1, FS_Interval
    <3> QED
      BY <3>1, <3>2
  <2>4. f \in Surjection(Q, 1 .. n)
    <3> HIDE DEF Q
    <3> QED
      BY <2>2, <2>3, <1>2, FS_Injection
  <2> QED
    BY <2>1, <2>4 DEF Surjection
<1>11. PICK w : w = [i \in 0 .. NumSlots + 1 |-> IF i \in 1 .. n THEN CHOOSE s \in Q : p[s] = i
                                                 ELSE 0]
  OBVIOUS
<1>12. /\ \A i \in 1 .. n : w[i] \in Q /\ p[w[i]] = i
       /\ w[0] = 0 /\ \A i \in n + 1 .. NumSlots + 1 : w[i] = 0
       /\ w = [i \in 0 .. NumSlots + 1 |-> w[i]]
  <2>1. ASSUME NEW i \in 1 .. n
        PROVE  w[i] \in Q /\ p[w[i]] = i
    <3>1. i \in 0 .. NumSlots + 1
      BY <1>1, <1>3
    <3>2. w[i] = CHOOSE s \in Q : p[s] = i
      BY <3>1, <1>11
    <3> HIDE DEF Q
    <3> QED
      BY <3>2, <1>10
  <2>2. 0 \in 0 .. NumSlots + 1 /\ 0 \notin 1 .. n
    BY <1>1, <1>3
  <2>3. \A i \in n + 1 .. NumSlots + 1 : i \in 0 .. NumSlots + 1 /\ i \notin 1 .. n
    BY <1>1, <1>3
  <2> QED
    <3>1. w[0] = 0 /\ \A i \in n + 1 .. NumSlots + 1 : w[i] = 0
      BY <2>2, <2>3, <1>11
    <3>2. w = [i \in 0 .. NumSlots + 1 |-> w[i]]
      BY <1>11
    <3> QED
      BY ONLY <2>1, <3>1, <3>2
<1>13. \A s \in Q : w[p[s]] = s
  BY <1>7, <1>9, <1>12
<1>14. w \in [0 .. NumSlots + 1 -> 0 .. NumSlots]
  <2>1. ASSUME NEW i \in 0 .. NumSlots + 1
        PROVE  w[i] \in 0 .. NumSlots
    <3>1. i = 0 \/ i \in 1 .. n \/ i \in n + 1 .. NumSlots + 1
      BY <1>1, <1>3
    <3>2. Q \subseteq 0 .. NumSlots /\ 0 \in 0 .. NumSlots
      BY <1>1
    <3> QED
      BY <3>1, <3>2, <1>12
  <2> QED
    BY <2>1, <1>12
<1>15. next[0] = w[1]
  <2>1. CASE Q = {}
    <3>1. n = 0 /\ 1 \in n + 1 .. NumSlots + 1
      BY <2>1, <1>1, <1>2, FS_EmptySet
    <3>2. next[0] = 0
      BY <2>1 DEF Linked, Leads
    <3> QED
      BY <3>1, <3>2, <1>12
  <2>2. CASE Q # {}
    <3>1. next[0] \in Q /\ \A t \in Q : r[next[0]] <= r[t]
      BY <2>2 DEF Linked, Leads
    <3>2. PICK x \in Q : x = next[0]
      BY <3>1
    <3>3. below(x) = {x}
      <4>1. \A t \in Q : r[t] = r[x] => t = x
        BY DEF Linked
      <4>2. ASSUME NEW t \in Q, r[t] <= r[x]
            PROVE  t = x
        <5>1. r[x] <= r[t] /\ r[x] \in Int /\ r[t] \in Int
          BY <3>1, <3>2, <1>1
        <5> QED
          BY <5>1, <4>1, <4>2
      <4>3. r[x] <= r[x]
        BY <1>1
      <4> QED
        BY <4>2, <4>3
    <3>4. p[x] = 1
      BY <3>3, <1>6, FS_Singleton
    <3> QED
      BY <3>2, <3>4, <1>13
  <2> QED
    BY <2>1, <2>2
<1>16. ASSUME NEW s \in Q
       PROVE  next[s] = w[p[s] + 1]
  <2> DEFINE U == {t \in Q : r[t] > r[s]}
  <2>1. CASE U = {}
    <3>1. below(s) = Q
      <4>1. ASSUME NEW t \in Q
            PROVE  r[t] <= r[s]
        <5>1. ~ (r[t] > r[s]) /\ r[t] \in Int /\ r[s] \in Int
          BY <2>1, <1>1
        <5> QED
          BY <5>1
      <4> QED
        BY <4>1
    <3>2. p[s] = n
      BY <3>1, <1>2, <1>6
    <3>3. p[s] + 1 \in n + 1 .. NumSlots + 1
      BY <3>2, <1>1, <1>3
    <3>4. next[s] = 0
      BY <2>1 DEF Linked, Leads
    <3> QED
      BY <3>3, <3>4, <1>12
  <2>2. CASE U # {}
    <3>1. next[s] \in U /\ \A t \in U : r[next[s]] <= r[t]
      BY <2>2 DEF Linked, Leads
    <3>2. PICK x \in U : x = next[s]
      BY <3>1
    <3>3. below(x) = below(s) \cup {x} /\ x \notin below(s)
      <4>1. \A t \in Q : r[t] = r[x] => t = x
        BY <3>2 DEF Linked
      <4>2. x \in Q /\ r[x] > r[s] /\ \A t \in Q : r[t] > r[s] => r[x] <= r[t]
        BY <3>1, <3>2
      <4>3. ASSUME NEW t \in Q
            PROVE  r[t] <= r[x] <=> r[t] <= r[s] \/ t = x
        <5>1. r[t] \in Int /\ r[s] \in Int /\ r[x] \in Int
          BY <4>2, <1>1
        <5> QED
          BY <5>1, <4>1, <4>2
      <4>4. ~ (r[x] <= r[s])
        BY <4>2, <1>1
      <4> QED
        BY <4>2, <4>3, <4>4
    <3>4. p[x] = p[s] + 1
      <4>1. Cardinality(below(s) \cup {x}) = Cardinality(below(s)) + 1
        <5> HIDE DEF below
        <5> QED
          BY <3>3, <1>4, FS_AddElement
      <4> QED
        BY <3>3, <4>1, <1>6
    <3> QED
      BY <3>2, <3>4, <1>13
  <2> QED
    BY <2>1, <2>2
<1>17. \A s, t \in Q : p[s] < p[t] => event[s].vpts <= event[t].vpts
  BY <1>9 DEF Linked
<1>18. Places(n, p, w)
  <2> HIDE DEF below
  <2> QED
    BY <1>3, <1>6, <1>7, <1>12, <1>13, <1>14, <1>15, <1>16, <1>17 DEF Places
<1> QED
  BY <1>18

OverlayEvent ==
    [type : {"null", "show", "hide", "button", "free"}, vpts : 0 .. MaxVpts,
     handle : Ov!Objects \cup {-1}, image : BOOLEAN]

\* The table of events: free slots hold no picture, the others belong to an
\* object and are linked in an order.
QueueInv ==
    /\ event \in [Ov!Slots -> OverlayEvent]
    /\ next \in [0 .. NumSlots -> 0 .. NumSlots]
    /\ \A s \in Ov!FreeSlots : ~ event[s].image
    /\ \A s \in InUseSlots : event[s].handle # -1
    /\ \E r \in [Ov!Slots -> Int] : Linked(r)

\* The rest of the state: an OSD that closes has a handle.
ObjectInv ==
    /\ held \subseteq Ov!Objects /\ pictures \subseteq Ov!Objects /\ showing \subseteq Ov!Objects
    /\ own \in [Ov!Owners -> Ov!Objects \cup {-1}]
    /\ owner \in [Ov!Owners -> {"idle", "closing", "not_showing", "no_events"}]
    /\ limit \in -1 .. MaxVpts
    /\ step \in {"first", "hidden", "cleared", "taken", "freeing"}
    /\ \A u \in Ov!Owners : owner[u] = "closing" => own[u] # -1

OvInv == QueueInv /\ ObjectInv

\* The walk finds the slots in use, in their order.
LEMMA QueueWalk ==
    ASSUME QueueInv
    PROVE  /\ \E n, p : Places(n, p, Ov!Walk)
           /\ Ov!Queued = InUseSlots
           /\ InUseSlots \subseteq 1 .. NumSlots
<1>1. PICK n, p, w : Places(n, p, w)
  BY PlacesOf DEF QueueInv
<1>2. Ov!Walk = w
  BY <1>1, WalkOfPlaces
<1>3. /\ n \in 0 .. NumSlots /\ NumSlots \in Nat
      /\ \A s \in InUseSlots : p[s] \in 1 .. n /\ w[p[s]] = s
      /\ \A i \in 1 .. n : w[i] \in InUseSlots /\ p[w[i]] = i
      /\ \A i \in n + 1 .. NumSlots + 1 : w[i] = 0
  BY <1>1, OverlayAssumption DEF Places
<1>4. InUseSlots \subseteq 1 .. NumSlots
  BY DEF InUseSlots, Ov!Slots
<1>5. Ov!Queued \subseteq InUseSlots
  <2> SUFFICES ASSUME NEW i \in 1 .. NumSlots, Ov!Walk[i] # 0
               PROVE  Ov!Walk[i] \in InUseSlots
    BY DEF Ov!Queued
  <2>1. i \in 1 .. n \/ i \in n + 1 .. NumSlots + 1
    BY <1>3
  <2> QED
    BY <2>1, <1>2, <1>3
<1>6. InUseSlots \subseteq Ov!Queued
  <2> SUFFICES ASSUME NEW s \in InUseSlots
               PROVE  s \in Ov!Queued
    OBVIOUS
  <2>1. p[s] \in 1 .. NumSlots
    BY <1>3
  <2>2. s # 0
    BY <1>4
  <2> QED
    BY <2>1, <2>2, <1>2, <1>3 DEF Ov!Queued
<1> QED
  BY <1>1, <1>2, <1>4, <1>5, <1>6

\* What the run checks of the table.
LEMMA QueueKept ==
    ASSUME OvInv
    PROVE  Ov!EventsKept
<1>1. Ov!TypeOK
  BY DEF OvInv, QueueInv, ObjectInv, OverlayEvent, Ov!TypeOK
<1>2. PICK n, p : Places(n, p, Ov!Walk)
  BY QueueWalk DEF OvInv
<1>3. /\ n \in 0 .. NumSlots /\ NumSlots \in Nat
      /\ \A i \in 1 .. n : Ov!Walk[i] \in InUseSlots /\ p[Ov!Walk[i]] = i
      /\ \A i \in n + 1 .. NumSlots + 1 : Ov!Walk[i] = 0
      /\ \A s, t \in InUseSlots : p[s] < p[t] => event[s].vpts <= event[t].vpts
  BY <1>2, OverlayAssumption DEF Places
<1>4. Ov!Walk[NumSlots + 1] = 0
  <2>1. NumSlots + 1 \in n + 1 .. NumSlots + 1
    BY <1>3
  <2> QED
    BY <2>1, <1>3
<1>5. Ov!Queued = Ov!Slots \ Ov!FreeSlots
  BY QueueWalk DEF OvInv, InUseSlots
<1>6. ASSUME NEW i \in 1 .. NumSlots - 1, Ov!Walk[i + 1] # 0
      PROVE  event[Ov!Walk[i]].vpts <= event[Ov!Walk[i + 1]].vpts
  <2>1. i + 1 \in 1 .. n \/ i + 1 \in n + 1 .. NumSlots + 1
    BY <1>3
  <2>2. i \in 1 .. n /\ i + 1 \in 1 .. n /\ i < i + 1
    BY <2>1, <1>3, <1>6
  <2>3. /\ Ov!Walk[i] \in InUseSlots /\ p[Ov!Walk[i]] = i
        /\ Ov!Walk[i + 1] \in InUseSlots /\ p[Ov!Walk[i + 1]] = i + 1
    BY <2>2, <1>3
  <2> QED
    BY <2>2, <2>3, <1>3
<1>7. \A s \in Ov!FreeSlots : ~ event[s].image
  BY DEF OvInv, QueueInv
<1> QED
  BY <1>1, <1>4, <1>5, <1>6, <1>7 DEF Ov!EventsKept

\* A step that leaves types, times and links alone keeps the order.
LEMMA SameLinks ==
    ASSUME NEW r, Linked(r), UNCHANGED next,
           \A s \in Ov!Slots : event'[s].type = event[s].type /\ event'[s].vpts = event[s].vpts
    PROVE  InUseSlots' = InUseSlots /\ Ov!FreeSlots' = Ov!FreeSlots /\ Linked(r)'
<1>1. InUseSlots' = InUseSlots /\ Ov!FreeSlots' = Ov!FreeSlots
  BY DEF InUseSlots, Ov!FreeSlots
<1>2. \A s \in InUseSlots : event'[s].vpts = event[s].vpts
  BY DEF InUseSlots
<1>3. \A U, x : Leads(r, U, x)' <=> Leads(r, U, x)
  BY DEF Leads
<1> QED
  BY <1>1, <1>2, <1>3 DEF Linked, Leads

\* The first event of the list is in use, and so is all of its slots' list.
LEMMA FirstInUse ==
    ASSUME QueueInv, Ov!Due
    PROVE  Ov!First \in InUseSlots /\ event[Ov!First] \in OverlayEvent
           /\ event[Ov!First].handle \in Ov!Objects
<1>1. PICK n, p : Places(n, p, Ov!Walk)
  BY QueueWalk
<1>2. n \in 0 .. NumSlots /\ NumSlots \in Nat /\ next[0] = Ov!Walk[1] /\ next[0] # 0
      /\ (\A i \in 1 .. n : Ov!Walk[i] \in InUseSlots)
      /\ \A i \in n + 1 .. NumSlots + 1 : Ov!Walk[i] = 0
  BY <1>1, OverlayAssumption DEF Places, Ov!Due, Ov!First
<1>3. 1 \in 1 .. n \/ 1 \in n + 1 .. NumSlots + 1
  BY <1>2
<1>4. Ov!First \in InUseSlots
  BY <1>2, <1>3 DEF Ov!First
<1>5. event[Ov!First] \in OverlayEvent
  BY <1>4 DEF QueueInv, InUseSlots
<1>6. event[Ov!First].handle # -1 /\ event[Ov!First].handle \in Ov!Objects \cup {-1}
  BY <1>4, <1>5 DEF QueueInv, OverlayEvent
<1> QED
  BY <1>4, <1>5, <1>6

\* video_overlay_add_event
LEMMA EventLinked ==
    ASSUME QueueInv, NEW ty \in {"show", "hide", "button", "free"}, NEW v \in 0 .. MaxVpts,
           NEW h \in Ov!Objects, Ov!Add(ty, v, h)
    PROVE  QueueInv'
<1>1. CASE Ov!FreeSlots = {}
  <2>1. UNCHANGED <<event, next>>
    BY <1>1 DEF Ov!Add, Ov!queueVars
  <2>2. PICK r \in [Ov!Slots -> Int] : Linked(r)
    BY DEF QueueInv
  <2>3. InUseSlots' = InUseSlots /\ Ov!FreeSlots' = Ov!FreeSlots /\ Linked(r)'
    BY <2>1, <2>2, SameLinks
  <2> QED
    BY <2>1, <2>3 DEF QueueInv
<1>2. CASE Ov!FreeSlots # {}
  <2> DEFINE W == Ov!Walk
             later == {i \in 0 .. NumSlots : W[i + 1] = 0 \/ event[W[i + 1]].vpts > v}
  <2>1. PICK new : new = Ov!Min(Ov!FreeSlots)
    OBVIOUS
  <2>2. PICK k : k = Ov!Before(v)
    OBVIOUS
  <2>3. PICK n, p : Places(n, p, W)
    BY QueueWalk
  <2>4. /\ n \in 0 .. NumSlots /\ NumSlots \in Nat
        /\ p \in [Ov!Slots -> Nat]
        /\ W \in [0 .. NumSlots + 1 -> 0 .. NumSlots]
        /\ \A s \in InUseSlots : p[s] \in 1 .. n /\ W[p[s]] = s
        /\ \A i \in 1 .. n : W[i] \in InUseSlots /\ p[W[i]] = i
        /\ W[0] = 0 /\ \A i \in n + 1 .. NumSlots + 1 : W[i] = 0
        /\ next[0] = W[1] /\ \A s \in InUseSlots : next[s] = W[p[s] + 1]
        /\ \A s, t \in InUseSlots : p[s] < p[t] => event[s].vpts <= event[t].vpts
    BY <2>3, OverlayAssumption DEF Places
  <2>5. InUseSlots \subseteq 1 .. NumSlots /\ Ov!Slots = 1 .. NumSlots
    BY DEF InUseSlots, Ov!Slots
  <2>6. new \in Ov!FreeSlots /\ new \in 1 .. NumSlots /\ new \notin InUseSlots
    <3>1. Ov!FreeSlots \subseteq 1 .. NumSlots
      BY DEF Ov!FreeSlots, Ov!Slots
    <3>2. IsFiniteSet(1 .. NumSlots)
      <4>1. 1 \in Int /\ NumSlots \in Int
        BY <2>4
      <4> QED
        BY <4>1, FS_Interval
    <3>3. IsFiniteSet(Ov!FreeSlots) /\ Ov!FreeSlots \subseteq Int
      <4>1. 1 .. NumSlots \subseteq Int
        OBVIOUS
      <4>2. Ov!FreeSlots \in SUBSET (1 .. NumSlots)
        BY <3>1
      <4>3. IsFiniteSet(Ov!FreeSlots)
        BY <3>2, <4>2, FS_Subset
      <4> QED
        BY <4>1, <4>2, <4>3
    <3>4. \E x \in Ov!FreeSlots : \A y \in Ov!FreeSlots : x <= y
      BY <3>3, <1>2, Extremes
    <3>5. new \in Ov!FreeSlots
      BY <3>4, <2>1 DEF Ov!Min
    <3> QED
      BY <3>1, <3>5 DEF InUseSlots
  <2>7. k \in later /\ \A i \in later : k <= i
    <3>1. IsFiniteSet(0 .. NumSlots) /\ later \subseteq 0 .. NumSlots
      <4>1. 0 \in Int /\ NumSlots \in Int
        BY <2>4
      <4> QED
        BY <4>1, FS_Interval
    <3>2. 0 .. NumSlots \subseteq Int
      OBVIOUS
    <3>3. NumSlots \in later
      <4>1. NumSlots + 1 \in n + 1 .. NumSlots + 1 /\ NumSlots \in 0 .. NumSlots
        BY <2>4
      <4> QED
        BY <4>1, <2>4
    <3>4. k = Ov!Min(later)
      BY <2>2 DEF Ov!Before
    <3> HIDE DEF later
    <3>5. IsFiniteSet(later)
      BY <3>1, FS_Subset
    <3>6. \E x \in later : \A y \in later : x <= y
      BY <3>1, <3>2, <3>3, <3>5, Extremes
    <3> QED
      BY <3>4, <3>6 DEF Ov!Min
  <2>8. k \in 0 .. n /\ (W[k + 1] = 0 \/ event[W[k + 1]].vpts > v)
        /\ \A i \in 0 .. k - 1 : W[i + 1] # 0 => ~ (event[W[i + 1]].vpts > v)
    <3>1. n \in later
      <4>1. n + 1 \in n + 1 .. NumSlots + 1 /\ n \in 0 .. NumSlots
        BY <2>4
      <4> QED
        BY <4>1, <2>4
    <3>2. k \in 0 .. NumSlots /\ k <= n
      BY <3>1, <2>7
    <3>3. ASSUME NEW i \in 0 .. k - 1
          PROVE  i \in 0 .. NumSlots /\ ~ (k <= i)
      BY <3>2, <2>4
    <3> QED
      BY <3>2, <3>3, <2>4, <2>7
  <2>9. /\ next' = [next EXCEPT ![W[k]] = new, ![new] = next[W[k]]]
        /\ event' = [event EXCEPT ![new] = [type |-> ty, vpts |-> v, handle |-> h,
                                            image |-> TRUE]]
    BY <1>2, <2>1, <2>2 DEF Ov!Add
  <2> HIDE DEF later
  <2>10. PICK e : e = [type |-> ty, vpts |-> v, handle |-> h, image |-> TRUE]
    OBVIOUS
  <2>11. /\ e \in OverlayEvent /\ e.type # "null" /\ e.handle # -1 /\ e.vpts = v
    BY <2>10 DEF OverlayEvent, Ov!Objects
  <2>12. /\ event' \in [Ov!Slots -> OverlayEvent] /\ event'[new] = e
         /\ \A s \in Ov!Slots \ {new} : event'[s] = event[s]
    BY <2>5, <2>6, <2>9, <2>10, <2>11 DEF QueueInv
  <2>13. /\ Ov!FreeSlots' = Ov!FreeSlots \ {new}
         /\ InUseSlots' = InUseSlots \cup {new}
    BY <2>5, <2>6, <2>11, <2>12 DEF Ov!FreeSlots, InUseSlots
  <2>14. /\ W[k] \in 0 .. NumSlots /\ next[W[k]] = W[k + 1]
         /\ k = 0 => W[k] = 0
         /\ k > 0 => W[k] \in InUseSlots /\ p[W[k]] = k
    <3>1. (k = 0 /\ ~ (k > 0) /\ k + 1 = 1) \/ (k \in 1 .. n /\ k > 0 /\ k # 0)
      BY <2>4, <2>8
    <3>2. CASE k = 0
      <4>1. W[k] = 0 /\ next[0] = W[1] /\ 0 \in 0 .. NumSlots
        BY <3>2, <2>4
      <4> QED
        BY <4>1, <3>1, <3>2
    <3>3. CASE k # 0
      <4>1. W[k] \in InUseSlots /\ p[W[k]] = k
        BY <3>1, <3>3, <2>4
      <4>2. next[W[k]] = W[k + 1]
        BY <4>1, <2>4
      <4>3. W[k] \in 0 .. NumSlots
        <5>1. W[k] \in 1 .. NumSlots
          BY <4>1, <2>5
        <5> QED
          BY <5>1, <2>4
      <4> QED
        BY <4>1, <4>2, <4>3, <3>3
    <3> QED
      BY <3>2, <3>3
  <2>15. PICK z : z = W[k]
    OBVIOUS
  <2>16. /\ z \in 0 .. NumSlots /\ z # new /\ (z = 0 \/ z \in InUseSlots)
         /\ new \in 0 .. NumSlots /\ W[k + 1] \in 0 .. NumSlots /\ next[z] = W[k + 1]
    <3>1. k + 1 \in 0 .. NumSlots + 1
      BY <2>4, <2>8
    <3>2. k = 0 \/ k > 0
      BY <2>4, <2>8
    <3>3. z # new
      BY <3>2, <2>6, <2>14, <2>15
    <3>4. W[k + 1] \in 0 .. NumSlots /\ new \in 0 .. NumSlots
      BY <3>1, <2>4, <2>6
    <3>5. z = 0 \/ z \in InUseSlots
      BY <3>2, <2>14, <2>15
    <3> QED
      BY <3>3, <3>4, <3>5, <2>14, <2>15
  <2>17. /\ next' \in [0 .. NumSlots -> 0 .. NumSlots]
         /\ next'[z] = new /\ next'[new] = W[k + 1]
         /\ \A s \in 0 .. NumSlots : s # z /\ s # new => next'[s] = next[s]
    <3>1. next' = [next EXCEPT ![z] = new, ![new] = next[z]]
      BY <2>9, <2>15
    <3>2. next \in [0 .. NumSlots -> 0 .. NumSlots]
      BY DEF QueueInv
    <3> QED
      BY <3>1, <3>2, <2>16
  <2>18. PICK r : r = [s \in Ov!Slots |-> IF s = new THEN 2 * k + 1 ELSE 2 * p[s]]
    OBVIOUS
  <2>19. /\ r \in [Ov!Slots -> Int] /\ r[new] = 2 * k + 1
         /\ \A s \in InUseSlots : r[s] = 2 * p[s] /\ p[s] \in Nat
    <3>1. k \in Nat
      BY <2>4, <2>8
    <3>2. \A s \in Ov!Slots : (IF s = new THEN 2 * k + 1 ELSE 2 * p[s]) \in Int
      BY <3>1, <2>4
    <3> QED
      BY <3>2, <2>4, <2>5, <2>6, <2>18
  <2>20. k \in Nat /\ n \in Nat
    BY <2>4, <2>8
  <2>21. \A s, t \in InUseSlots : p[s] = p[t] => s = t
    BY <2>4
  <2>22. \A s, t \in InUseSlots' : r[s] = r[t] => s = t
    <3>1. \A s \in InUseSlots : r[s] # r[new]
      BY <2>19, <2>20
    <3>2. \A s, t \in InUseSlots : r[s] = r[t] => s = t
      BY <2>19, <2>21
    <3> QED
      BY <3>1, <3>2, <2>13
  <2>23. ASSUME NEW s \in InUseSlots
         PROVE  /\ p[s] <= k => event[s].vpts <= v
                /\ p[s] > k => v <= event[s].vpts
    <3>1. /\ p[s] \in 1 .. n /\ W[p[s]] = s /\ s # 0 /\ p[s] \in Nat
      <4>1. p[s] \in 1 .. n /\ W[p[s]] = s
        BY <2>4
      <4>2. s # 0 /\ p[s] \in Nat
        BY <2>5, <2>19
      <4> QED
        BY <4>1, <4>2
    <3>2. event[s].vpts \in Int /\ v \in Int
      BY <2>5 DEF QueueInv, OverlayEvent, InUseSlots
    <3>3. ASSUME p[s] <= k
          PROVE  event[s].vpts <= v
      <4>1. p[s] - 1 \in 0 .. k - 1 /\ (p[s] - 1) + 1 = p[s]
        BY <3>1, <3>3, <2>20
      <4>2. ~ (event[s].vpts > v)
        BY <4>1, <3>1, <2>8
      <4> QED
        BY <4>2, <3>2
    <3>4. ASSUME p[s] > k
          PROVE  v <= event[s].vpts
      <4>1. k + 1 \in 1 .. n /\ (p[s] = k + 1 \/ k + 1 < p[s])
        BY <3>1, <3>4, <2>20
      <4>2. PICK t \in InUseSlots : t = W[k + 1] /\ p[t] = k + 1
        BY <4>1, <2>4
      <4>3. event[t].vpts > v /\ event[t].vpts \in Int
        <5>1. t # 0
          BY <2>5
        <5>2. event[t].vpts \in Int
          BY <2>5 DEF QueueInv, OverlayEvent, InUseSlots
        <5> QED
          BY <5>1, <5>2, <4>2, <2>8
      <4>4. s = t \/ event[t].vpts <= event[s].vpts
        <5>1. p[s] = p[t] \/ p[t] < p[s]
          BY <4>1, <4>2
        <5>2. p[s] = p[t] => s = t
          BY <2>21
        <5>3. p[t] < p[s] => event[t].vpts <= event[s].vpts
          BY <2>4
        <5> QED
          BY ONLY <5>1, <5>2, <5>3
      <4> QED
        BY <4>3, <4>4, <3>2
    <3> QED
      BY <3>3, <3>4
  <2>24. \A s \in InUseSlots : event'[s].vpts = event[s].vpts
    BY <2>5, <2>6, <2>12
  <2>25. ASSUME NEW s \in InUseSlots', NEW t \in InUseSlots', r[s] < r[t]
         PROVE  event'[s].vpts <= event'[t].vpts
    <3>1. CASE s \in InUseSlots /\ t \in InUseSlots
      <4>1. p[s] < p[t]
        BY <3>1, <2>19, <2>25
      <4> QED
        BY <4>1, <3>1, <2>4, <2>24
    <3>2. CASE s = new /\ t \in InUseSlots
      <4>1. p[t] > k
        BY <3>2, <2>19, <2>20, <2>25
      <4> QED
        BY <4>1, <3>2, <2>11, <2>12, <2>23, <2>24
    <3>3. CASE s \in InUseSlots /\ t = new
      <4>1. p[s] <= k
        BY <3>3, <2>19, <2>20, <2>25
      <4> QED
        BY <4>1, <3>3, <2>11, <2>12, <2>23, <2>24
    <3>4. CASE s = new /\ t = new
      BY <3>4, <2>19, <2>20, <2>25
    <3> QED
      BY <3>1, <3>2, <3>3, <3>4, <2>13
  <2>26. Leads(r, InUseSlots', next'[0])
    <3>1. CASE k = 0
      <4>1. next'[0] = new
        BY <3>1, <2>14, <2>15, <2>17
      <4>2. \A t \in InUseSlots : p[t] >= 1 /\ p[t] \in Nat
        BY <2>4
      <4>3. \A t \in InUseSlots' : r[new] <= r[t]
        BY <3>1, <4>2, <2>13, <2>19
      <4> QED
        BY <4>1, <4>3, <2>13 DEF Leads
    <3>2. CASE k > 0
      <4>1. 1 \in 1 .. n
        BY <3>2, <2>8, <2>20
      <4>2. PICK x \in InUseSlots : x = W[1] /\ p[x] = 1
        BY <4>1, <2>4
      <4>3. z \in InUseSlots /\ z # 0 /\ new # 0
        BY <3>2, <2>5, <2>6, <2>14, <2>15
      <4>4. next'[0] = x
        <5>1. 0 \in 0 .. NumSlots /\ next[0] = x
          BY <4>2, <2>4
        <5> QED
          BY <5>1, <4>3, <2>17
      <4>5. \A t \in InUseSlots : p[t] >= 1 /\ p[t] \in Nat
        BY <2>4
      <4>6. \A t \in InUseSlots' : r[x] <= r[t]
        BY <3>2, <4>2, <4>5, <2>13, <2>19, <2>20
      <4> QED
        BY <4>4, <4>6, <2>13 DEF Leads
    <3> QED
      BY <3>1, <3>2, <2>20
  <2>27. ASSUME NEW s \in InUseSlots', s # new
         PROVE  Leads(r, {t \in InUseSlots' : r[t] > r[s]}, next'[s])
    <3>1. s \in InUseSlots /\ s \in 0 .. NumSlots /\ r[s] = 2 * p[s] /\ p[s] \in 1 .. n
      BY <2>27, <2>4, <2>5, <2>13, <2>19
    <3>2. CASE p[s] = k
      <4>1. W[k] = s
        BY <3>1, <3>2, <2>4
      <4>2. next'[s] = new
        BY <4>1, <2>15, <2>17
      <4>3. ASSUME NEW t \in InUseSlots', r[t] > r[s]
            PROVE  r[new] <= r[t]
        <5>1. t = new \/ t \in InUseSlots
          BY <2>13
        <5> QED
          BY <5>1, <4>3, <3>1, <3>2, <2>19, <2>20
      <4>4. r[new] > r[s]
        BY <3>1, <3>2, <2>19, <2>20
      <4> QED
        BY <4>2, <4>3, <4>4, <2>13 DEF Leads
    <3>3. CASE p[s] # k
      <4>1. z # s
        <5>1. k > 0 => p[z] = k
          BY <2>14, <2>15
        <5>2. k = 0 => z = 0
          BY <2>14, <2>15
        <5> QED
          BY <5>1, <5>2, <3>1, <3>3, <2>5, <2>20
      <4>2. next'[s] = W[p[s] + 1]
        BY <4>1, <3>1, <2>4, <2>17, <2>27
      <4>3. CASE p[s] + 1 \in 1 .. n
        <5>1. PICK x \in InUseSlots : x = W[p[s] + 1] /\ p[x] = p[s] + 1
          BY <4>3, <2>4
        <5>2. r[x] > r[s]
          BY <5>1, <3>1, <2>19
        <5>3. ASSUME NEW t \in InUseSlots', r[t] > r[s]
              PROVE  r[x] <= r[t]
          <6>1. CASE t \in InUseSlots
            BY <6>1, <5>1, <5>3, <3>1, <2>19
          <6>2. CASE t = new
            BY <6>2, <5>1, <5>3, <3>1, <3>3, <2>19, <2>20
          <6> QED
            BY <6>1, <6>2, <2>13
        <5> QED
          BY <5>1, <5>2, <5>3, <4>2, <2>13 DEF Leads
      <4>4. CASE ~ (p[s] + 1 \in 1 .. n)
        <5>1. p[s] = n /\ k < n /\ p[s] + 1 \in n + 1 .. NumSlots + 1
          <6>1. p[s] = n
            BY <4>4, <3>1, <2>20
          <6>2. k <= n /\ k # n /\ n <= NumSlots /\ NumSlots \in Nat
            BY <6>1, <3>3, <2>4, <2>8
          <6> QED
            BY <6>1, <6>2, <2>20
        <5>2. next'[s] = 0
          BY <5>1, <4>2, <2>4
        <5>3. ASSUME NEW t \in InUseSlots', r[t] > r[s]
              PROVE  FALSE
          <6>1. CASE t \in InUseSlots
            <7>1. p[t] \in 1 .. n
              BY <6>1, <2>4
            <7> QED
              BY <7>1, <6>1, <5>1, <5>3, <3>1, <2>19
          <6>2. CASE t = new
            BY <6>2, <5>1, <5>3, <3>1, <2>19, <2>20
          <6> QED
            BY <6>1, <6>2, <2>13
        <5> QED
          BY <5>2, <5>3 DEF Leads
      <4> QED
        BY <4>3, <4>4
    <3> QED
      BY <3>2, <3>3
  <2>28. Leads(r, {t \in InUseSlots' : r[t] > r[new]}, next'[new])
    <3>1. next'[new] = W[k + 1]
      BY <2>17
    <3>2. \A t \in InUseSlots' : r[t] > r[new] => t \in InUseSlots /\ p[t] >= k + 1
      BY <2>13, <2>19, <2>20
    <3>3. CASE k + 1 \in 1 .. n
      <4>1. PICK x \in InUseSlots : x = W[k + 1] /\ p[x] = k + 1
        BY <3>3, <2>4
      <4>2. r[x] > r[new]
        BY <4>1, <2>19, <2>20
      <4>3. \A t \in InUseSlots' : r[t] > r[new] => r[x] <= r[t]
        BY <4>1, <3>2, <2>19, <2>20
      <4> QED
        BY <4>1, <4>2, <4>3, <3>1, <2>13 DEF Leads
    <3>4. CASE ~ (k + 1 \in 1 .. n)
      <4>1. k = n /\ k + 1 \in n + 1 .. NumSlots + 1
        BY <3>4, <2>4, <2>8, <2>20
      <4>2. next'[new] = 0
        BY <4>1, <3>1, <2>4
      <4>3. \A t \in InUseSlots' : ~ (r[t] > r[new])
        <5>1. \A t \in InUseSlots : p[t] \in 1 .. n
          BY <2>4
        <5> QED
          BY <5>1, <4>1, <3>2, <2>20
      <4> QED
        BY <4>2, <4>3 DEF Leads
    <3> QED
      BY <3>3, <3>4
  <2>29. Linked(r)'
    <3>1. \A s \in InUseSlots' : Leads(r, {t \in InUseSlots' : r[t] > r[s]}, next'[s])
      BY <2>27, <2>28
    <3>2. /\ Leads(r, InUseSlots, next[0])' <=> Leads(r, InUseSlots', next'[0])
          /\ \A s : Leads(r, {t \in InUseSlots : r[t] > r[s]}, next[s])'
                     <=> Leads(r, {t \in InUseSlots' : r[t] > r[s]}, next'[s])
      BY DEF Leads
    <3> QED
      BY <3>1, <3>2, <2>22, <2>25, <2>26 DEF Linked
  <2>30. /\ \A s \in Ov!FreeSlots' : ~ event'[s].image
         /\ \A s \in InUseSlots' : event'[s].handle # -1
    <3>1. \A s \in Ov!FreeSlots' : s \in Ov!FreeSlots /\ event'[s] = event[s]
      BY <2>12, <2>13 DEF Ov!FreeSlots
    <3>2. ASSUME NEW s \in InUseSlots'
          PROVE  event'[s].handle # -1
      <4>1. s = new \/ (s \in InUseSlots /\ event'[s] = event[s])
        BY <2>5, <2>6, <2>12, <2>13
      <4> QED
        BY <4>1, <2>11, <2>12 DEF QueueInv
    <3> QED
      BY <3>1, <3>2 DEF QueueInv
  <2>31. \E q \in [Ov!Slots -> Int] : Linked(q)'
    BY <2>19, <2>29
  <2> QED
    BY <2>12, <2>17, <2>30, <2>31 DEF QueueInv
<1> QED
  BY <1>1, <1>2

\* remove_events_handle, and the end of an event that was processed.
LEMMA EventsUnlinked ==
    ASSUME QueueInv, NEW gone, gone \subseteq InUseSlots, Ov!Remove(gone)
    PROVE  QueueInv'
<1> DEFINE W == Ov!Walk
           after(j) == {i \in j + 1 .. NumSlots + 1 : W[i] \notin gone}
<1>1. PICK n, p : Places(n, p, W)
  BY QueueWalk
<1>2. /\ n \in 0 .. NumSlots /\ NumSlots \in Nat
      /\ p \in [Ov!Slots -> Nat]
      /\ W \in [0 .. NumSlots + 1 -> 0 .. NumSlots]
      /\ \A s \in InUseSlots : p[s] \in 1 .. n /\ W[p[s]] = s
      /\ \A i \in 1 .. n : W[i] \in InUseSlots /\ p[W[i]] = i
      /\ W[0] = 0 /\ \A i \in n + 1 .. NumSlots + 1 : W[i] = 0
      /\ \A s, t \in InUseSlots : p[s] < p[t] => event[s].vpts <= event[t].vpts
  BY <1>1, OverlayAssumption DEF Places
<1>3. InUseSlots \subseteq 1 .. NumSlots /\ Ov!Slots = 1 .. NumSlots /\ Ov!Queued = InUseSlots
  BY QueueWalk DEF Ov!Slots
<1>4. /\ event' = [s \in Ov!Slots |-> IF s \in gone THEN Ov!Null ELSE event[s]]
      /\ next' = Ov!Unlinked(gone)
  BY DEF Ov!Remove, Ov!Freed
<1>5. PICK e : e = Ov!Null
  OBVIOUS
<1>6. e \in OverlayEvent /\ e.type = "null" /\ ~ e.image
  <2>1. 0 \in 0 .. MaxVpts
    BY OverlayAssumption
  <2> QED
    BY <2>1, <1>5 DEF OverlayEvent, Ov!Null
<1>7. /\ event' \in [Ov!Slots -> OverlayEvent]
      /\ \A s \in gone : event'[s] = e
      /\ \A s \in Ov!Slots \ gone : event'[s] = event[s]
  <2>1. event' = [s \in Ov!Slots |-> IF s \in gone THEN e ELSE event[s]]
    BY <1>4, <1>5
  <2>2. gone \subseteq Ov!Slots /\ event \in [Ov!Slots -> OverlayEvent]
    BY <1>3 DEF QueueInv
  <2> QED
    BY <2>1, <2>2, <1>6
<1>8. InUseSlots' = InUseSlots \ gone /\ Ov!FreeSlots' = Ov!FreeSlots \cup gone
  BY <1>3, <1>6, <1>7 DEF InUseSlots, Ov!FreeSlots
<1>9. ASSUME NEW j \in 0 .. n
      PROVE  /\ W[Ov!Min(after(j))] \in 0 .. NumSlots
             /\ Leads(p, {t \in InUseSlots' : p[t] > j}, W[Ov!Min(after(j))])
  <2>1. PICK m : m = Ov!Min(after(j))
    OBVIOUS
  <2>2. m \in after(j) /\ \A i \in after(j) : m <= i
    <3>1. after(j) \subseteq Int /\ after(j) \subseteq j + 1 .. NumSlots + 1
      BY <1>2
    <3>2. IsFiniteSet(j + 1 .. NumSlots + 1)
      <4>1. j + 1 \in Int /\ NumSlots + 1 \in Int
        BY <1>2
      <4> QED
        BY <4>1, FS_Interval
    <3>3. NumSlots + 1 \in after(j)
      <4>1. NumSlots + 1 \in j + 1 .. NumSlots + 1 /\ NumSlots + 1 \in n + 1 .. NumSlots + 1
        BY <1>2
      <4>2. 0 \notin gone
        BY <1>3
      <4> QED
        BY <4>1, <4>2, <1>2
    <3> HIDE DEF after
    <3>4. IsFiniteSet(after(j))
      BY <3>1, <3>2, FS_Subset
    <3>5. \E x \in after(j) : \A y \in after(j) : x <= y
      BY <3>1, <3>3, <3>4, Extremes
    <3> QED
      BY <3>5, <2>1 DEF Ov!Min
  <2>3. m \in j + 1 .. NumSlots + 1 /\ m \in 0 .. NumSlots + 1 /\ W[m] \notin gone
    BY <2>2, <1>2
  <2>4. ASSUME NEW t \in InUseSlots', p[t] > j
        PROVE  m <= p[t] /\ p[t] \in 1 .. n
    <3>1. t \in InUseSlots /\ t \notin gone /\ p[t] \in 1 .. n /\ W[p[t]] = t
      BY <1>2, <1>8
    <3>2. p[t] \in j + 1 .. NumSlots + 1
      BY <2>4, <3>1, <1>2
    <3>3. p[t] \in after(j)
      BY <3>1, <3>2
    <3> QED
      BY <2>2, <3>1, <3>3
  <2>5. CASE m \in 1 .. n
    <3>1. W[m] \in InUseSlots' /\ p[W[m]] = m /\ m > j
      BY <2>3, <2>5, <1>2, <1>8
    <3> QED
      BY <2>1, <2>3, <2>4, <3>1, <1>2 DEF Leads
  <2>6. CASE ~ (m \in 1 .. n)
    <3>1. m \in n + 1 .. NumSlots + 1
      BY <2>3, <2>6, <1>2
    <3>2. W[m] = 0
      BY <3>1, <1>2
    <3>3. \A t \in InUseSlots' : ~ (p[t] > j)
      <4> SUFFICES ASSUME NEW t \in InUseSlots', p[t] > j
                   PROVE  FALSE
        OBVIOUS
      <4>1. m <= p[t] /\ p[t] \in 1 .. n
        BY <2>4
      <4> QED
        BY <4>1, <3>1, <1>2
    <3> QED
      BY <2>1, <2>3, <3>2, <3>3, <1>2 DEF Leads
  <2> QED
    BY <2>5, <2>6
<1> HIDE DEF after
<1>10. \A s \in InUseSlots : (CHOOSE i \in 1 .. NumSlots : W[i] = s) = p[s]
  <2> SUFFICES ASSUME NEW s \in InUseSlots
               PROVE  (CHOOSE i \in 1 .. NumSlots : W[i] = s) = p[s]
    OBVIOUS
  <2>1. p[s] \in 1 .. NumSlots /\ W[p[s]] = s /\ s # 0
    BY <1>2, <1>3
  <2>2. ASSUME NEW i \in 1 .. NumSlots, W[i] = s
        PROVE  i = p[s]
    <3>1. i \in 1 .. n \/ i \in n + 1 .. NumSlots + 1
      BY <1>2
    <3> QED
      BY <2>1, <2>2, <3>1, <1>2
  <2> QED
    BY <2>1, <2>2
<1>11. /\ next' \in [0 .. NumSlots -> 0 .. NumSlots]
       /\ next'[0] = W[Ov!Min(after(0))]
       /\ \A s \in InUseSlots' : next'[s] = W[Ov!Min(after(p[s]))]
  <2> DEFINE place(s) == IF s = 0 THEN 0 ELSE CHOOSE i \in 1 .. NumSlots : W[i] = s
  <2>1. next' = [s \in 0 .. NumSlots |->
                    IF s \in gone \/ s \notin InUseSlots \cup {0} THEN 0
                    ELSE W[Ov!Min(after(place(s)))]]
    BY <1>3, <1>4 DEF Ov!Unlinked, after
  <2>2. place(0) = 0 /\ \A s \in InUseSlots : place(s) = p[s]
    <3>1. \A s \in InUseSlots : s # 0
      BY <1>3
    <3>2. \A s : s # 0 => place(s) = CHOOSE i \in 1 .. NumSlots : W[i] = s
      OBVIOUS
    <3> QED
      BY <3>1, <3>2, <1>10, Zenon
  <2> HIDE DEF place
  <2>3. 0 \in 0 .. NumSlots /\ 0 \in 0 .. n /\ 0 \notin gone
    BY <1>2, <1>3
  <2>4. \A s \in InUseSlots : p[s] \in 0 .. n /\ s \in 0 .. NumSlots
    BY <1>2, <1>3
  <2>5. ASSUME NEW s \in 0 .. NumSlots
        PROVE  (IF s \in gone \/ s \notin InUseSlots \cup {0} THEN 0
                ELSE W[Ov!Min(after(place(s)))]) \in 0 .. NumSlots
    BY <2>2, <2>3, <2>4, <1>9
  <2>6. next' \in [0 .. NumSlots -> 0 .. NumSlots]
    BY <2>1, <2>5
  <2>7. next'[0] = W[Ov!Min(after(0))]
    BY <2>1, <2>2, <2>3
  <2>8. \A s \in InUseSlots' : next'[s] = W[Ov!Min(after(p[s]))]
    BY <2>1, <2>2, <2>4, <1>8
  <2> QED
    BY <2>6, <2>7, <2>8
<1>12. Linked(p)'
  <2>1. \A s, t \in InUseSlots' : p[s] = p[t] => s = t
    BY <1>2, <1>8
  <2>2. \A s, t \in InUseSlots' : p[s] < p[t] => event'[s].vpts <= event'[t].vpts
    BY <1>2, <1>3, <1>7, <1>8
  <2>3. Leads(p, InUseSlots', next'[0])
    <3>1. 0 \in 0 .. n
      BY <1>2
    <3>2. {t \in InUseSlots' : p[t] > 0} = InUseSlots'
      <4>1. \A t \in InUseSlots' : p[t] > 0
        BY <1>2, <1>8
      <4> QED
        BY <4>1
    <3>3. Leads(p, {t \in InUseSlots' : p[t] > 0}, W[Ov!Min(after(0))])
      BY <3>1, <1>9
    <3> QED
      BY <3>2, <3>3, <1>11
  <2>4. ASSUME NEW s \in InUseSlots'
        PROVE  Leads(p, {t \in InUseSlots' : p[t] > p[s]}, next'[s])
    <3>1. p[s] \in 0 .. n
      BY <1>2, <1>8
    <3>2. Leads(p, {t \in InUseSlots' : p[t] > p[s]}, W[Ov!Min(after(p[s]))])
      BY <3>1, <1>9
    <3> QED
      BY <3>2, <1>11
  <2>5. /\ Leads(p, InUseSlots, next[0])' <=> Leads(p, InUseSlots', next'[0])
        /\ \A s : Leads(p, {t \in InUseSlots : p[t] > p[s]}, next[s])'
                   <=> Leads(p, {t \in InUseSlots' : p[t] > p[s]}, next'[s])
    BY DEF Leads
  <2> QED
    BY <2>1, <2>2, <2>3, <2>4, <2>5 DEF Linked
<1>13. \A s \in Ov!FreeSlots' : ~ event'[s].image
  BY <1>6, <1>7, <1>8 DEF QueueInv, Ov!FreeSlots
<1>14. \A s \in InUseSlots' : event'[s].handle # -1
  BY <1>3, <1>7, <1>8 DEF QueueInv
<1>15. \E q \in [Ov!Slots -> Int] : Linked(q)'
  <2>1. p \in [Ov!Slots -> Int]
    BY <1>2
  <2> QED
    BY <2>1, <1>12
<1> QED
  BY <1>7, <1>11, <1>13, <1>14, <1>15 DEF QueueInv

\* A step that leaves the table alone.
LEMMA SameQueue ==
    ASSUME QueueInv, UNCHANGED <<event, next>>
    PROVE  QueueInv'
<1>1. PICK r \in [Ov!Slots -> Int] : Linked(r)
  BY DEF QueueInv
<1>2. InUseSlots' = InUseSlots /\ Ov!FreeSlots' = Ov!FreeSlots /\ Linked(r)'
  BY <1>1, SameLinks
<1> QED
  BY <1>2 DEF QueueInv

LEMMA OvStart == ASSUME Ov!Init PROVE OvInv
<1>1. /\ event = [s \in Ov!Slots |-> Ov!Null]
      /\ next = [s \in 0 .. NumSlots |-> 0]
  BY DEF Ov!Init
<1>2. NumSlots \in Nat /\ 0 \in 0 .. MaxVpts /\ 0 \in 0 .. NumSlots /\ MaxVpts \in Nat
  BY OverlayAssumption
<1>3. PICK e : e = Ov!Null
  OBVIOUS
<1>4. e \in OverlayEvent /\ e.type = "null" /\ ~ e.image
  BY <1>2, <1>3 DEF OverlayEvent, Ov!Null
<1>5. event \in [Ov!Slots -> OverlayEvent] /\ \A s \in Ov!Slots : event[s] = e
  BY <1>1, <1>3, <1>4
<1>6. InUseSlots = {}
  BY <1>4, <1>5 DEF InUseSlots, Ov!FreeSlots
<1>7. next \in [0 .. NumSlots -> 0 .. NumSlots] /\ next[0] = 0
  BY <1>1, <1>2
<1>8. \E r \in [Ov!Slots -> Int] : Linked(r)
  <2>1. [s \in Ov!Slots |-> 0] \in [Ov!Slots -> Int]
    OBVIOUS
  <2>2. \A r : Linked(r)
    BY <1>6, <1>7 DEF Linked, Leads
  <2> QED
    BY <2>1, <2>2
<1>9. QueueInv
  <2>1. \A s \in Ov!FreeSlots : ~ event[s].image
    BY <1>4, <1>5 DEF Ov!FreeSlots
  <2> QED
    BY <2>1, <1>5, <1>6, <1>7, <1>8 DEF QueueInv
<1>10. ObjectInv
  BY <1>2 DEF Ov!Init, ObjectInv
<1> QED
  BY <1>9, <1>10 DEF OvInv

\* video_overlay_event begins, and ends.
LEMMA OvEvents ==
    ASSUME OvInv, (\E v \in 0 .. MaxVpts : Ov!Start(v)) \/ Ov!Finish
    PROVE  OvInv'
<1>1. QueueInv'
  BY SameQueue DEF OvInv, Ov!Start, Ov!Finish, Ov!queueVars
<1>2. /\ limit' \in -1 .. MaxVpts
      /\ UNCHANGED <<held, pictures, showing, own, owner, step>>
  <2>1. -1 \in -1 .. MaxVpts /\ 0 .. MaxVpts \subseteq -1 .. MaxVpts
    BY OverlayAssumption
  <2>2. CASE \E v \in 0 .. MaxVpts : Ov!Start(v)
    BY <2>1, <2>2 DEF Ov!Start, Ov!objectVars, Ov!ownerVars
  <2>3. CASE Ov!Finish
    BY <2>1, <2>3 DEF Ov!Finish, Ov!objectVars, Ov!ownerVars
  <2> QED
    BY <2>2, <2>3
<1>3. ObjectInv'
  BY <1>2 DEF OvInv, ObjectInv
<1> QED
  BY <1>1, <1>3 DEF OvInv

\* The steps of the event that is processed.
LEMMA OvProcess ==
    ASSUME OvInv, Ov!Process
    PROVE  OvInv'
<1>1. Ov!Due
  BY DEF Ov!Process, Ov!At, Ov!ShowHide, Ov!ShowClear, Ov!ShowTake, Ov!ShowDone,
         Ov!HideNow, Ov!ButtonNow, Ov!FreeBegin, Ov!FreeEnd
<1>2. PICK f : f = Ov!First
  OBVIOUS
<1>3. PICK h : h = Ov!Handle
  OBVIOUS
<1>4. f \in InUseSlots /\ f \in Ov!Slots /\ event[f] \in OverlayEvent /\ h \in Ov!Objects
  BY <1>1, <1>2, <1>3, FirstInUse DEF OvInv, InUseSlots, Ov!Handle
<1>5. CASE Ov!ShowHide
  <2>1. /\ showing' = showing \ {h} /\ step' = "hidden"
        /\ UNCHANGED <<event, next, held, pictures, own, owner, limit>>
    BY <1>3, <1>5 DEF Ov!ShowHide, Ov!queueVars, Ov!ownerVars
  <2> QED
    BY <2>1, SameQueue DEF OvInv, ObjectInv
<1>6. CASE Ov!ShowClear
  <2>1. /\ held' = held \ {h} /\ pictures' = pictures \ {h} /\ step' = "cleared"
        /\ UNCHANGED <<event, next, showing, own, owner, limit>>
    BY <1>3, <1>6 DEF Ov!ShowClear, Ov!queueVars, Ov!ownerVars
  <2> QED
    BY <2>1, SameQueue DEF OvInv, ObjectInv
<1>7. CASE Ov!ShowTake
  <2>1. /\ held' = held \cup {h} /\ pictures' = pictures \cup {h} /\ step' = "taken"
        /\ event' = [event EXCEPT ![f].image = FALSE]
        /\ UNCHANGED <<next, showing, own, owner, limit>>
    BY <1>2, <1>3, <1>7 DEF Ov!ShowTake, Ov!ownerVars
  <2>2. ObjectInv'
    BY <2>1, <1>4 DEF OvInv, ObjectInv
  <2>3. PICK r \in [Ov!Slots -> Int] : Linked(r)
    BY DEF OvInv, QueueInv
  <2>4. event \in [Ov!Slots -> OverlayEvent]
    BY DEF OvInv, QueueInv
  <2>5. /\ event' \in [Ov!Slots -> OverlayEvent]
        /\ \A s \in Ov!Slots : /\ event'[s].type = event[s].type
                               /\ event'[s].vpts = event[s].vpts
                               /\ event'[s].handle = event[s].handle
                               /\ event'[s].image => event[s].image
    <3>1. PICK e : e = [event[f] EXCEPT !.image = FALSE]
      OBVIOUS
    <3>2. /\ e \in OverlayEvent /\ e.type = event[f].type /\ e.vpts = event[f].vpts
          /\ e.handle = event[f].handle /\ ~ e.image
      BY <3>1, <1>4 DEF OverlayEvent
    <3>3. event' = [event EXCEPT ![f] = e]
      BY <2>1, <3>1
    <3> QED
      BY <2>4, <3>2, <3>3, <1>4
  <2>6. InUseSlots' = InUseSlots /\ Ov!FreeSlots' = Ov!FreeSlots /\ Linked(r)'
    BY <2>1, <2>3, <2>5, SameLinks
  <2>7. /\ \A s \in Ov!FreeSlots' : ~ event'[s].image
        /\ \A s \in InUseSlots' : event'[s].handle # -1
    BY <2>5, <2>6 DEF OvInv, QueueInv, InUseSlots, Ov!FreeSlots
  <2>8. QueueInv'
    BY <2>1, <2>3, <2>5, <2>6, <2>7 DEF OvInv, QueueInv
  <2> QED
    BY <2>2, <2>8 DEF OvInv
<1>8. ASSUME Ov!Remove({f})
      PROVE  QueueInv'
  BY <1>4, <1>8, EventsUnlinked DEF OvInv
<1>9. CASE Ov!ShowDone
  <2>1. /\ showing' = showing \cup {h} /\ Ov!Remove({f}) /\ step' = "first"
        /\ UNCHANGED <<held, pictures, own, owner, limit>>
    BY <1>2, <1>3, <1>9 DEF Ov!ShowDone, Ov!ownerVars
  <2> QED
    BY <2>1, <1>4, <1>8 DEF OvInv, ObjectInv
<1>10. CASE Ov!HideNow
  <2>1. /\ showing' = showing \ {h} /\ Ov!Remove({f})
        /\ UNCHANGED <<held, pictures, own, owner, limit, step>>
    BY <1>2, <1>3, <1>10 DEF Ov!HideNow, Ov!ownerVars
  <2> QED
    BY <2>1, <1>8 DEF OvInv, ObjectInv
<1>11. CASE Ov!ButtonNow
  <2>1. /\ Ov!Remove({f}) /\ UNCHANGED <<pictures, own, owner, limit, step>>
        /\ (held' = held \/ held' = held \cup {h})
        /\ (showing' = showing \/ showing' = showing \cup {h})
    BY <1>2, <1>3, <1>11 DEF Ov!ButtonNow, Ov!ownerVars
  <2> QED
    BY <2>1, <1>4, <1>8 DEF OvInv, ObjectInv
<1>12. CASE Ov!FreeBegin
  <2>1. /\ showing' = showing \ {h} /\ Ov!Remove(Ov!EventsOf(h) \ {f}) /\ step' = "freeing"
        /\ UNCHANGED <<held, pictures, own, owner, limit>>
    BY <1>2, <1>3, <1>12 DEF Ov!FreeBegin, Ov!ownerVars
  <2>2. Ov!EventsOf(h) \ {f} \subseteq InUseSlots
    BY QueueWalk DEF OvInv, Ov!EventsOf
  <2>3. QueueInv'
    BY <2>1, <2>2, EventsUnlinked DEF OvInv
  <2> QED
    BY <2>1, <2>3 DEF OvInv, ObjectInv
<1>13. CASE Ov!FreeEnd
  <2>1. /\ held' = held \ {h} /\ pictures' = pictures \ {h} /\ Ov!Remove({f})
        /\ step' = "first" /\ UNCHANGED <<showing, own, owner, limit>>
    BY <1>2, <1>3, <1>13 DEF Ov!FreeEnd, Ov!ownerVars
  <2> QED
    BY <2>1, <1>8 DEF OvInv, ObjectInv
<1> QED
  BY <1>5, <1>6, <1>7, <1>9, <1>10, <1>11, <1>12, <1>13 DEF Ov!Process

\* The steps of an owner.
LEMMA OvOwner ==
    ASSUME OvInv, NEW u \in Ov!Owners,
           \/ Ov!GetHandle(u)
           \/ \E v \in 0 .. MaxVpts, ty \in {"show", "hide", "button"} : Ov!Send(u, ty, v)
           \/ Ov!OsdClose(u) \/ Ov!OsdFree(u)
           \/ Ov!FreeShowing(u) \/ Ov!FreeEvents(u) \/ Ov!FreeObject(u)
    PROVE  OvInv'
<1>1. /\ own \in [Ov!Owners -> Ov!Objects \cup {-1}]
      /\ owner \in [Ov!Owners -> {"idle", "closing", "not_showing", "no_events"}]
      /\ \A x \in Ov!Owners : owner[x] = "closing" => own[x] # -1
  BY DEF OvInv, ObjectInv
<1>2. 0 \in 0 .. MaxVpts
  BY OverlayAssumption
<1>3. CASE Ov!GetHandle(u)
  <2>1. PICK h : h = Ov!Min(Ov!Objects \ held)
    OBVIOUS
  <2>2. h \in Ov!Objects
    <3>1. Ov!Objects \subseteq Int /\ 0 \in Int /\ NumObjects - 1 \in Int
      BY OverlayAssumption DEF Ov!Objects
    <3>2. IsFiniteSet(Ov!Objects)
      BY <3>1, FS_Interval DEF Ov!Objects
    <3>3. Ov!Objects \ held \in SUBSET Ov!Objects
      OBVIOUS
    <3>4. IsFiniteSet(Ov!Objects \ held)
      BY <3>2, <3>3, FS_Subset
    <3>5. Ov!Objects \ held # {} /\ Ov!Objects \ held \subseteq Int
      BY <1>3, <3>1 DEF Ov!GetHandle
    <3>6. h \in Ov!Objects \ held
      BY <2>1, <3>4, <3>5, Extremes DEF Ov!Min
    <3> QED
      BY <3>6
  <2>3. /\ own' = [own EXCEPT ![u] = h] /\ held' = held \cup {own'[u]}
        /\ owner[u] = "idle"
        /\ UNCHANGED <<event, next, pictures, showing, owner, limit, step>>
    BY <2>1, <1>3 DEF Ov!GetHandle, Ov!queueVars
  <2>4. own' \in [Ov!Owners -> Ov!Objects \cup {-1}] /\ own'[u] = h
        /\ \A x \in Ov!Owners : x # u => own'[x] = own[x]
    BY <2>2, <2>3, <1>1
  <2>5. ObjectInv'
    BY <2>2, <2>3, <2>4, <1>1 DEF OvInv, ObjectInv
  <2> QED
    BY <2>3, <2>5, SameQueue DEF OvInv
<1>4. CASE \E v \in 0 .. MaxVpts, ty \in {"show", "hide", "button"} : Ov!Send(u, ty, v)
  <2>1. PICK v \in 0 .. MaxVpts, ty \in {"show", "hide", "button"} : Ov!Send(u, ty, v)
    BY <1>4
  <2>2. /\ own[u] # -1 /\ Ov!Add(ty, v, own[u])
        /\ UNCHANGED <<held, pictures, showing, own, owner, limit, step>>
    BY <2>1 DEF Ov!Send, Ov!objectVars, Ov!ownerVars
  <2>3. own[u] \in Ov!Objects
    BY <2>2, <1>1
  <2>4. QueueInv'
    BY <2>2, <2>3, EventLinked DEF OvInv
  <2> QED
    BY <2>2, <2>4 DEF OvInv, ObjectInv
<1>5. CASE Ov!OsdClose(u)
  <2>1. /\ own[u] # -1 /\ Ov!Add("hide", 0, own[u])
        /\ owner' = [owner EXCEPT ![u] = "closing"]
        /\ UNCHANGED <<held, pictures, showing, own, limit, step>>
    BY <1>5 DEF Ov!OsdClose, Ov!objectVars
  <2>2. own[u] \in Ov!Objects
    BY <2>1, <1>1
  <2>3. QueueInv'
    BY <2>1, <2>2, <1>2, EventLinked DEF OvInv
  <2>4. ObjectInv'
    BY <2>1, <1>1 DEF OvInv, ObjectInv
  <2> QED
    BY <2>3, <2>4 DEF OvInv
<1>6. CASE Ov!OsdFree(u)
  <2>1. /\ owner[u] = "closing" /\ Ov!Add("free", 0, own[u])
        /\ own' = [own EXCEPT ![u] = -1] /\ owner' = [owner EXCEPT ![u] = "idle"]
        /\ UNCHANGED <<held, pictures, showing, limit, step>>
    BY <1>6 DEF Ov!OsdFree, Ov!objectVars
  <2>2. own[u] \in Ov!Objects
    BY <2>1, <1>1
  <2>3. QueueInv'
    BY <2>1, <2>2, <1>2, EventLinked DEF OvInv
  <2>4. ObjectInv'
    BY <2>1, <1>1 DEF OvInv, ObjectInv
  <2> QED
    BY <2>3, <2>4 DEF OvInv
<1>7. CASE Ov!FreeShowing(u)
  <2>1. /\ showing' = showing \ {own[u]} /\ owner' = [owner EXCEPT ![u] = "not_showing"]
        /\ UNCHANGED <<event, next, held, pictures, own, limit, step>>
    BY <1>7 DEF Ov!FreeShowing, Ov!queueVars
  <2>2. ObjectInv'
    BY <2>1, <1>1 DEF OvInv, ObjectInv
  <2> QED
    BY <2>1, <2>2, SameQueue DEF OvInv
<1>8. CASE Ov!FreeEvents(u)
  <2>1. /\ Ov!Remove(Ov!EventsOf(own[u])) /\ owner' = [owner EXCEPT ![u] = "no_events"]
        /\ UNCHANGED <<held, pictures, showing, own, limit, step>>
    BY <1>8 DEF Ov!FreeEvents, Ov!objectVars
  <2>2. Ov!EventsOf(own[u]) \subseteq InUseSlots
    BY QueueWalk DEF OvInv, Ov!EventsOf
  <2>3. QueueInv'
    BY <2>1, <2>2, EventsUnlinked DEF OvInv
  <2>4. ObjectInv'
    BY <2>1, <1>1 DEF OvInv, ObjectInv
  <2> QED
    BY <2>3, <2>4 DEF OvInv
<1>9. CASE Ov!FreeObject(u)
  <2>1. /\ held' = held \ {own[u]} /\ pictures' = pictures \ {own[u]}
        /\ own' = [own EXCEPT ![u] = -1] /\ owner' = [owner EXCEPT ![u] = "idle"]
        /\ UNCHANGED <<event, next, showing, limit, step>>
    BY <1>9 DEF Ov!FreeObject, Ov!queueVars
  <2>2. ObjectInv'
    BY <2>1, <1>1 DEF OvInv, ObjectInv
  <2> QED
    BY <2>1, <2>2, SameQueue DEF OvInv
<1> QED
  BY <1>3, <1>4, <1>5, <1>6, <1>7, <1>8, <1>9

LEMMA OvStep ==
    ASSUME OvInv, [Ov!Next]_ovVars
    PROVE  OvInv'
<1>1. CASE UNCHANGED ovVars
  <2>1. UNCHANGED <<event, next, held, pictures, showing, own, owner, limit, step>>
    BY <1>1 DEF ovVars
  <2> QED
    BY <2>1, SameQueue DEF OvInv, ObjectInv
<1>2. CASE Ov!Next
  <2>1. CASE Ov!Process
    BY <2>1, OvProcess
  <2>2. CASE (\E v \in 0 .. MaxVpts : Ov!Start(v)) \/ Ov!Finish
    BY <2>2, OvEvents
  <2>3. CASE \E u \in Ov!Owners :
                \/ Ov!GetHandle(u)
                \/ \E v \in 0 .. MaxVpts, ty \in {"show", "hide", "button"} : Ov!Send(u, ty, v)
                \/ Ov!OsdClose(u) \/ Ov!OsdFree(u)
                \/ Ov!FreeShowing(u) \/ Ov!FreeEvents(u) \/ Ov!FreeObject(u)
    BY <2>3, OvOwner
  <2>4. Osds \subseteq Ov!Owners /\ Subtitles \subseteq Ov!Owners /\ 0 \in 0 .. MaxVpts
    BY OverlayAssumption DEF Ov!Owners
  <2> QED
    BY <1>2, <2>1, <2>2, <2>3, <2>4 DEF Ov!Next
<1> QED
  BY <1>1, <1>2

LEMMA OvAlways == MCSpec => []OvInv
<1>1. MCInit => OvInv
  BY OvStart DEF MCInit
<1>2. OvInv /\ [MCNext]_<<part, allVars, evVars, ovVars>> => OvInv'
  BY OvStep DEF MCNext
<1> QED
  BY <1>1, <1>2, PTL DEF MCSpec

\* The list of overlay events ends, has every slot that is in use and no other,
\* in the order of their times, and no slot in it is lost or comes back with its
\* picture, whoever adds, removes and processes.
THEOREM OverlayEventsKept == MCSpec => []EventsKept
<1>1. OvInv => EventsKept
  BY QueueKept DEF EventsKept
<1> QED
  BY <1>1, OvAlways, PTL

=============================================================================
