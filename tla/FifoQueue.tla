------------------------------ MODULE FifoQueue ------------------------------
(***************************************************************************)
(* The queue of a fifo_buffer_t: chunks of the pool on their way from the   *)
(* demuxer to a decoder.  Each action is a section under fifo->mutex;       *)
(* clear, which holds it for several frees while the pool's own mutex is    *)
(* open to the demuxer in between, is one action per free.  Waiting for     *)
(* free pool elements is BufferPool's subject: here Take simply fails.      *)
(* An element of the pool is memory for one item of data.                   *)
(***************************************************************************)
EXTENDS PoolSet, SequencesExt

CONSTANTS Getters,   \* threads that get from the fifo
          MaxSent    \* bound: items put before the model stops

VARIABLES mem,           \* mem[e]: the item in pool element e
          ctrl,          \* out chunks whose type is in BUF_CONTROL_BASE
          size,          \* size[h]: elements of the chunk h that hold data
          queue,         \* first ... last, by their heads
          clearing,      \* what clear has taken out and not looked at yet
          cleared,       \* is clear at work, with fifo->mutex locked?
          fifo_size, fifo_data_size,
          num_waiters,   \* fifo_num_waiters
          waiting,       \* getters between num_waiters++ and num_waiters--
          asleep,        \* of these, the ones in pthread_cond_wait
          held,          \* held[g]: the chunk a getter uses, or 0
          sent,          \* items put so far
          full           \* the last data chunk put was full

dataVars == <<mem, ctrl, size, sent, full>>
countVars == <<fifo_size, fifo_data_size>>
getVars == <<num_waiters, waiting, asleep, held>>
vars == <<free, nbufs, num_free, mem, ctrl, size, queue, clearing, cleared,
          fifo_size, fifo_data_size, num_waiters, waiting, asleep, held,
          sent, full>>

Unlocked == ~ cleared

\* The chunks the demuxer has allocated and not put yet.
Filling == {h \in Out : /\ ~ Contains(queue, h)
                        /\ ~ Contains(clearing, h)
                        /\ \A g \in Getters : held[g] # h}

\* The items a chunk carries.
Contents(h) == IF h \in ctrl THEN <<mem[h]>>
                             ELSE [i \in 1 .. size[h] |-> mem[h + i - 1]]

Write(h, k, isCtrl) ==
    /\ mem' = [e \in Elems |-> IF e \in h .. h + k - 1
                               THEN <<sent + e - h + 1, isCtrl>> ELSE mem[e]]
    /\ sent + k <= MaxSent
    /\ sent' = sent + k

\* buffer_pool_alloc, size_alloc and try_alloc.
Alloc(n) ==
    /\ free # {}
    /\ Take(n)
    /\ UNCHANGED <<dataVars, queue, clearing, cleared, countVars, getVars>>

\* Negative control: only the first buffer of an empty fifo is signalled.
Signal_First == queue = <<>>

Signal == num_waiters > 0

Signalled == IF Signal /\ asleep # {} THEN {asleep \ {g} : g \in asleep}
                                      ELSE {asleep}

\* Negative controls: chunks that are not neighbours; chunks of another type.
Mergeable_Apart(prev, h) == prev \notin ctrl /\ nbufs[prev] < GrowLimit
Mergeable_Types(prev, h) == prev + nbufs[prev] = h /\ nbufs[prev] < GrowLimit

\* May put append the chunk h to the chunk at the end of the queue?
Mergeable(prev, h) ==
    /\ prev + nbufs[prev] = h
    /\ prev \notin ctrl
    /\ nbufs[prev] < GrowLimit

\* fifo_buffer_put of a data chunk with k items and, if "merge", with
\* BUF_FLAG_MERGE.  The demuxer sets that flag when the chunk before is full.
Put(h, k, merge) ==
    /\ Unlocked
    /\ h \in Filling
    /\ k \in 1 .. nbufs[h]
    /\ merge => full
    /\ Write(h, k, FALSE)
    /\ full' = (k = nbufs[h])
    /\ fifo_size' = fifo_size + nbufs[h]
    /\ fifo_data_size' = fifo_data_size + k
    /\ IF merge /\ queue # <<>> /\ Mergeable(Last(queue), h)
       THEN /\ nbufs' = [nbufs EXCEPT ![Last(queue)] = @ + nbufs[h], ![h] = 0]
            /\ size' = [size EXCEPT ![Last(queue)] = @ + k]
            /\ UNCHANGED <<queue, asleep>>
       ELSE /\ queue' = Append(queue, h)
            /\ size' = [size EXCEPT ![h] = k]
            /\ asleep' \in Signalled
            /\ UNCHANGED nbufs
    /\ UNCHANGED <<free, num_free, ctrl, clearing, cleared, num_waiters,
                   waiting, held>>

\* Control buffers come from alloc and try_alloc: one element, no data.
ControlReady(h) ==
    /\ Unlocked
    /\ h \in Filling
    /\ nbufs[h] = 1
    /\ Write(h, 1, TRUE)
    /\ ctrl' = ctrl \cup {h}
    /\ size' = [size EXCEPT ![h] = 0]
    /\ fifo_size' = fifo_size + nbufs[h]
    /\ asleep' \in Signalled
    /\ UNCHANGED <<poolVars, full, clearing, cleared, fifo_data_size,
                   num_waiters, waiting, held>>

PutControl(h) == ControlReady(h) /\ queue' = Append(queue, h)

\* fifo_buffer_insert
Insert(h) == ControlReady(h) /\ queue' = <<h>> \o queue

\* Take the first chunk off the queue.
Unqueue(g) ==
    /\ held' = [held EXCEPT ![g] = Head(queue)]
    /\ queue' = Tail(queue)
    /\ fifo_size' = fifo_size - nbufs[Head(queue)]
    /\ fifo_data_size' = fifo_data_size - size[Head(queue)]
    /\ UNCHANGED <<poolVars, dataVars, clearing, cleared>>

Idle(g) == Unlocked /\ held[g] = 0

\* fifo_buffer_get and tget of a getter that is not waiting yet.
Get(g) ==
    /\ Idle(g)
    /\ g \notin waiting
    /\ \/ /\ queue # <<>>
          /\ Unqueue(g)
          /\ UNCHANGED <<num_waiters, waiting, asleep>>
       \/ /\ queue = <<>>
          /\ num_waiters' = num_waiters + 1
          /\ waiting' = waiting \cup {g}
          /\ asleep' = asleep \cup {g}
          /\ UNCHANGED <<poolVars, dataVars, countVars, queue, clearing,
                         cleared, held>>

\* Negative control: the waiter forgets to deregister.
WaitersAfter_Kept == num_waiters

WaitersAfter == num_waiters - 1

\* A getter that was signalled has fifo->mutex back and looks again.
Awake(g) ==
    /\ Idle(g)
    /\ g \in waiting \ asleep
    /\ \/ /\ queue # <<>>
          /\ Unqueue(g)
          /\ num_waiters' = WaitersAfter
          /\ waiting' = waiting \ {g}
          /\ UNCHANGED asleep
       \/ /\ queue = <<>>
          /\ asleep' = asleep \cup {g}
          /\ UNCHANGED <<poolVars, dataVars, countVars, queue, clearing,
                         cleared, num_waiters, waiting, held>>

\* buf->free_buffer: the decoder is done with it.
Release(g) ==
    /\ held[g] # 0
    /\ GiveBack(held[g])
    /\ ctrl' = ctrl \ {held[g]}
    /\ held' = [held EXCEPT ![g] = 0]
    /\ UNCHANGED <<mem, size, sent, full, queue, clearing, cleared,
                   countVars, num_waiters, waiting, asleep>>

\* Negative control: the chunks stay in the queue.
QueueTakenOut_Stays == queue

QueueTakenOut == <<>>
SizeTakenOut == 0

\* fifo_buffer_clear takes all out at once.
ClearStart ==
    /\ Unlocked
    /\ cleared' = TRUE
    /\ clearing' = queue
    /\ queue' = QueueTakenOut
    /\ fifo_size' = SizeTakenOut
    /\ fifo_data_size' = 0
    /\ UNCHANGED <<poolVars, dataVars, getVars>>

\* "keep control bufs (flush, ...)"
ClearKeep ==
    /\ cleared
    /\ clearing # <<>>
    /\ Head(clearing) \in ctrl
    /\ queue' = Append(queue, Head(clearing))
    /\ clearing' = Tail(clearing)
    /\ fifo_size' = fifo_size + 1
    /\ fifo_data_size' = fifo_data_size + size[Head(clearing)]
    /\ UNCHANGED <<poolVars, dataVars, cleared, getVars>>

\* Negative control: control buffers do not end a run.
RunGoesOn_Control(i) == clearing[i] + nbufs[clearing[i]] = clearing[i + 1]

\* Does the chunk after the i-th continue it in memory, and go as well?
RunGoesOn(i) == /\ clearing[i] + nbufs[clearing[i]] = clearing[i + 1]
                /\ clearing[i + 1] \notin ctrl

\* "optimize: get contiguous chunk": the first i chunks go in one call.
ClearFree(i) ==
    /\ cleared
    /\ i \in 1 .. Len(clearing)
    /\ clearing[1] \notin ctrl
    /\ \A j \in 1 .. i - 1 : RunGoesOn(j)
    /\ i < Len(clearing) => ~ RunGoesOn(i)
    /\ LET gone == {clearing[j] : j \in 1 .. i}
           last == clearing[i]
       IN  /\ free' = free \cup (clearing[1] .. last + nbufs[last] - 1)
           /\ nbufs' = [h \in Elems |-> IF h \in gone THEN 0 ELSE nbufs[h]]
           /\ num_free' = num_free + (last + nbufs[last] - clearing[1])
           /\ ctrl' = ctrl \ gone
    /\ clearing' = SubSeq(clearing, i + 1, Len(clearing))
    /\ UNCHANGED <<mem, size, sent, full, queue, cleared, countVars, getVars>>

ClearEnd ==
    /\ cleared
    /\ clearing = <<>>
    /\ cleared' = FALSE
    /\ UNCHANGED <<poolVars, dataVars, queue, clearing, countVars, getVars>>

Init ==
    /\ PoolInit
    /\ mem = [e \in Elems |-> <<0, FALSE>>]
    /\ ctrl = {}
    /\ size = [e \in Elems |-> 0]
    /\ queue = <<>>
    /\ clearing = <<>>
    /\ cleared = FALSE
    /\ fifo_size = 0
    /\ fifo_data_size = 0
    /\ num_waiters = 0
    /\ waiting = {}
    /\ asleep = {}
    /\ held = [g \in Getters |-> 0]
    /\ sent = 0
    /\ full = FALSE

Next ==
    \/ \E n \in 1 .. AllocLimit : Alloc(n)
    \/ \E h \in Elems, k \in 1 .. Capacity, m \in BOOLEAN : Put(h, k, m)
    \/ \E h \in Elems : PutControl(h)
    \/ \E h \in Elems : Insert(h)
    \/ \E g \in Getters : Get(g)
    \/ \E g \in Getters : Awake(g)
    \/ \E g \in Getters : Release(g)
    \/ ClearStart
    \/ ClearKeep
    \/ \E i \in 1 .. Capacity : ClearFree(i)
    \/ ClearEnd

Spec == Init /\ [][Next]_vars

-----------------------------------------------------------------------------
TypeOK ==
    /\ mem \in [Elems -> (0 .. MaxSent) \X BOOLEAN]
    /\ ctrl \subseteq Out
    /\ size \in [Elems -> 0 .. Capacity]
    /\ queue \in Seq(Elems)
    /\ clearing \in Seq(Elems)
    /\ cleared \in BOOLEAN
    /\ fifo_size \in 0 .. Capacity
    /\ fifo_data_size \in 0 .. Capacity
    /\ num_waiters \in 0 .. Cardinality(Getters)
    /\ asleep \subseteq waiting
    /\ waiting \subseteq Getters
    /\ held \in [Getters -> 0 .. Capacity]
    /\ sent \in 0 .. MaxSent
    /\ full \in BOOLEAN

\* What the chunks of a queue have together, each as much as "each" says.
Total(each, chunks) == SumFunction([i \in DOMAIN chunks |-> each[chunks[i]]])

\* fifo_size and fifo_data_size, which the network buffering and the clients
\* judge the stream by, are exact after any mix of merging and clearing.
SizesExact ==
    /\ fifo_size = Total(nbufs, queue)
    /\ fifo_data_size = Total(size, queue)

\* A chunk is in one place: queued once, being cleared, or with one getter.
OnePlace ==
    LET all == queue \o clearing
        users == {g \in Getters : held[g] # 0}
    IN  /\ IsInjective(all)
        /\ Range(all) \subseteq Out
        /\ \A g \in users : held[g] \in Out /\ ~ Contains(all, held[g])
        /\ \A g, f \in users : g # f => held[g] # held[f]

\* Chunks and sizes are as the queue says, while a clear works on it in several
\* locked sections and decoders and demuxers go on (buffer.c).
Accounted == SizesExact /\ OnePlace

\* No getter sleeps through a buffer: when the fifo is not empty, one of the
\* waiting getters has been signalled.
NoSleepOnData ==
    Unlocked /\ queue # <<>> /\ asleep # {} => waiting # asleep

\* What is queued, and the control buffers that clear is to put back.
Items ==
    LET kept == SelectSeq(clearing, LAMBDA h : h \in ctrl)
    IN  FlattenSeq([i \in DOMAIN queue |-> Contents(queue[i])])
          \o [i \in DOMAIN kept |-> mem[kept[i]]]

Promise == INSTANCE FifoPromise
    WITH items <- Items,
         hand <- [g \in Getters |-> IF held[g] = 0 THEN <<>> ELSE Contents(held[g])]

\* The fifo hands over all data put, unchanged and in order, except what clear
\* drops; merging and reuse of pool memory are not visible to a getter.
KeepsPromise == Promise!PromiseSpec
=============================================================================
