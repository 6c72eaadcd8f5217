----------------------------- MODULE MCDemuxing -----------------------------
(***************************************************************************)
(* What a demuxer thread works with, in one run: the demuxers, decoders and *)
(* the application of a stream (DecoderSync), a fifo's queue (FifoQueue)    *)
(* and the free list of its pool (PoolList), and the input cache            *)
(* (InputCache).  They have no state in common, so a behaviour is one of    *)
(* one of them.                                                             *)
(***************************************************************************)
EXTENDS DecoderSync, TLC

CONSTANTS g1, g2,      \* interchangeable getters
          Getters, Capacity, AllocLimit, GrowLimit, MaxSent,
          ListCapacity, ListAllocLimit, ListGrowLimit,
          Length, BufSize, MaxRead

ASSUME QueueAssumption == IsFiniteSet(Getters) /\ Capacity \in Nat
ASSUME CacheAssumption == Length \in Nat /\ BufSize \in Nat /\ MaxRead \in Nat

VARIABLES part

\* FifoQueue
VARIABLES free, nbufs, num_free, mem, ctrl, size, queue, clearing, cleared,
          fifo_size, fifo_data_size, num_waiters, waiting, asleep_get, held,
          sent, full

\* PoolList
VARIABLES top, next, cnt, listFree, out

\* InputCache
VARIABLES main, buf, buf_pos, asked, answer

queueOnly == <<free, nbufs, num_free, mem, ctrl, size, queue, clearing, cleared,
               fifo_size, fifo_data_size, num_waiters, waiting, asleep_get, held,
               sent, full>>
listOnly == <<top, next, cnt, listFree, out>>
inputOnly == <<main, buf, buf_pos, asked, answer>>

Queue == INSTANCE FifoQueue WITH asleep <- asleep_get

List == INSTANCE PoolList WITH
            Capacity <- ListCapacity, AllocLimit <- ListAllocLimit,
            GrowLimit <- ListGrowLimit, num_free <- listFree

Cache == INSTANCE InputCache

MCInit ==
    /\ part \in {"sync", "queue", "list", "input"}
    /\ Init /\ Queue!Init /\ List!Init /\ Cache!Init

\* Only demuxers and decoders must always go on.
MCNext ==
    \/ part = "sync" /\ Next /\ UNCHANGED <<part, queueOnly, listOnly, inputOnly>>
    \/ part = "queue" /\ Queue!Next /\ UNCHANGED <<part, vars, listOnly, inputOnly>>
    \/ part = "list" /\ List!Next /\ UNCHANGED <<part, vars, queueOnly, inputOnly>>
    \/ part = "input" /\ Cache!Next /\ UNCHANGED <<part, vars, queueOnly, listOnly>>
    \/ part # "sync" /\ UNCHANGED <<part, vars, queueOnly, listOnly, inputOnly>>

MCSpec == MCInit /\ [][MCNext]_<<part, vars, queueOnly, listOnly, inputOnly>>

Symmetry == Permutations({g1, g2})

\* Bound: what comes after an emergency exit, of which nothing is claimed, is
\* not followed.
Unbraked == ~braked

-----------------------------------------------------------------------------
(* States are not told apart by what is left in local variables, memory and *)
(* fields that nobody will read again, nor by counters that run at the same *)
(* distance.                                                                *)

Sending(t) == pc[t] \in {"alloc_video", "alloc_audio", "count", "put_video", "put_audio"}

Waits(t) == Sending(t) \/ pc[t] \in {"sync", "sync_wait", "ended", "end_wait"}

Ending(s) == Waits(s) \/ At(s, "exit") \/ At(s, "finished")

Awaited(t) == IF At(t, "sync") \/ At(t, "sync_wait") \/ (Sending(t) /\ job[t] = "headers")
           THEN headers ELSE finisheds

\* How far a counter has to go, and how far the two fifos are apart.
ToGo(t) == [f \in created |-> target[t][f] - Awaited(t)[f]]

Apart(counts) == IF created = Fifos THEN counts[Video] - counts[Audio] ELSE 0

SyncView ==
    <<created, queueVars, counter, Apart(headers), Apart(finisheds), demuxers_running,
      [t \in {t \in Threads : Waits(t)} |-> ToGo(t)], asleep, pc,
      [t \in {t \in Threads : Sending(t)} |-> job[t]], back, lock, pending,
      running, thread, left, [s \in {s \in Sides : ~At(s, "off")} |-> over[s]],
      [s \in {s \in Sides : Ending(s)} |-> non_user[s]], streamVars, brakeVars, mixed,
      side, requests,
      At(App, "idle") \/ seeked>>

Carrying == Queue!Out \ Queue!Filling

QueueLive == UNION {IF h \in ctrl THEN {h} ELSE h .. h + size[h] - 1 : h \in Carrying}

QueueView == <<free, nbufs, num_free, [e \in QueueLive |-> mem[e]], ctrl,
               [h \in Carrying |-> size[h]], queue, clearing, cleared, fifo_size,
               fifo_data_size, num_waiters, waiting, asleep_get, held, sent, full>>

\* Of next, in an element that is out, only whether it leads to the element
\* behind.
ListView ==
    LET heads == List!Heads
        listed == List!Listed
        live == out \cup {heads[i] : i \in 1 .. Len(heads)}
        leads(e) == e \in listed \/ next[e] = e + 1
    IN  <<top, listFree, out,
          [e \in List!Elem |-> IF leads(e) THEN next[e] ELSE 0],
          [e \in List!Elem |-> IF e \in live THEN cnt[e] ELSE 0]>>

View == CASE part = "sync" -> <<part, SyncView>>
          [] part = "queue" -> <<part, QueueView>>
          [] part = "list" -> <<part, ListView>>
          [] part = "input" -> <<part, inputOnly>>

-----------------------------------------------------------------------------
\* A chunk is in one place, and the sizes of the fifo are exact (FifoQueue).
Accounted == part = "queue" => Queue!Accounted

\* No getter sleeps through a buffer (FifoQueue).
NoSleepOnData == part = "queue" => Queue!NoSleepOnData

\* The fifo hands over all data, in order (FifoQueue!KeepsPromise, without its
\* cost in behaviours of the other parts).
KeepsPromise ==
    /\ Queue!Promise!PromiseInit
    /\ [][part = "queue" => Queue!Promise!PromiseNext]_(Queue!Promise!promiseVars)

\* The operations on the linked list are the operations of PoolSet
\* (PoolList!ImplementsPool).
ImplementsPool ==
    /\ List!Abstract!PoolInit
    /\ [][part = "list" => List!Abstract!PoolNext]_(List!Abstract!poolVars)

\* The cache delivers what its plugin would (InputCache!InputKept), but for the
\* window that read_block leaves: reads, relative seeks and positions agree
\* about what is still in the window, through short reads, failures and the end
\* of the input.
FreshInputKept ==
    /\ Cache!Promise!Init
    /\ [][part = "input" /\ ~Cache!Stale => Cache!Promise!Next]_inputOnly
=============================================================================
