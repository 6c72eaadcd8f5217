------------------------------ MODULE BufferPool ------------------------------
(***************************************************************************)
(* The buffer pool of a fifo with the threads that allocate from it: the    *)
(* sections under buffer_pool_mutex are the actions, and a thread inside    *)
(* pthread_cond_wait is in "asleep".  Callers of alloc wait for 2 free      *)
(* elements and callers of size_alloc for n + 2, all on the one condition   *)
(* buffer_pool_cond_not_empty; one of the large waiters may announce its    *)
(* need in buffer_pool_large_wait, all other waiters are only counted.      *)
(* Soft start (file_buf_ctrl) withholds "reserve" elements from allocation  *)
(* until that many have been freed.                                         *)
(***************************************************************************)
EXTENDS PoolSet

CONSTANTS Threads,    \* the threads that allocate
          SoftStart   \* the reserve a soft start begins with: 3/4 of the
                      \* capacity, 0 for pools of fewer than 100 elements

ASSUME WaitAssumption ==
    /\ IsFiniteSet(Threads)
    /\ SoftStart \in 0 .. Capacity

VARIABLES soft,         \* alloc_cb[0] = fbc_dummy
          reserve,      \* alloc_cb_data[0], while soft
          num_waiters,  \* buffer_pool_num_waiters
          large_wait,   \* buffer_pool_large_wait
          role,         \* how a waiting thread is registered
          need,         \* the number of available elements it waits for
          asleep        \* threads in pthread_cond_wait, not yet signalled

waitVars == <<num_waiters, large_wait, role, need>>
softVars == <<soft, reserve>>
vars == <<free, nbufs, num_free, soft, reserve, num_waiters, large_wait,
          role, need, asleep>>

LargeNum == Capacity + 3        \* LARGE_NUM: more than any thread waits for

Roles == {"none", "counted", "large"}

\* fbc_avail
Avail == IF soft THEN num_free - reserve ELSE num_free

\* Negative control: the emergency elements are handed out as well.
Wanted_All(nd) == nd

\* alloc waits for 2 and takes 1; size_alloc waits for n + 2 and takes n.
Wanted(nd) == IF nd = 2 THEN 1 ELSE nd - 2

Waiting(t) == role[t] # "none"

Counted == {t \in Threads : role[t] = "counted"}

Sleep(t, r, nd) ==
    /\ role' = [role EXCEPT ![t] = r]
    /\ need' = [need EXCEPT ![t] = nd]
    /\ num_waiters' = IF r = "counted" THEN num_waiters + 1 ELSE num_waiters
    /\ large_wait' = IF r = "large" THEN nd ELSE large_wait
    /\ asleep' = asleep \cup {t}
    /\ UNCHANGED <<free, nbufs, num_free>>

Obtain(t, nd, r) ==
    \/ Avail >= nd /\ Take(Wanted(nd)) /\ UNCHANGED <<waitVars, asleep>>
    \/ Avail < nd /\ Sleep(t, r, nd)

\* buffer_pool_alloc
Alloc(t) ==
    /\ ~ Waiting(t)
    /\ Obtain(t, 2, "counted")
    /\ UNCHANGED softVars

\* buffer_pool_size_alloc_int
SizeAllocInt(t, n) ==
    Obtain(t, n + 2, IF large_wait # LargeNum THEN "counted" ELSE "large")

\* buffer_pool_size_alloc, n being the size in elements after the limit.
SizeAlloc(t, n) ==
    /\ ~ Waiting(t)
    /\ SizeAllocInt(t, n)
    /\ UNCHANGED softVars

\* buffer_pool_realloc of the chunk at h, for a size of "aim" elements after
\* the limit: enlarge it in place, or allocate a chunk for the extra data.
\* Beside free elements n is limited first, and what is left of it is asked for.
Realloc(t, h, aim) ==
    /\ ~ Waiting(t)
    /\ h \in Out
    /\ aim > nbufs[h] \/ aim = GrowLimit
    /\ LET n == aim - nbufs[h]
           adjacent == h + nbufs[h] \in free
           left == IF adjacent THEN GrowWanted(n) ELSE n
       IN  \/ /\ GrowBy(h, n)
              /\ UNCHANGED <<waitVars, asleep>>
           \/ /\ adjacent => left < 1
              /\ SizeAllocInt(t, IF left < 1 THEN 1 ELSE left)
    /\ UNCHANGED softVars

\* buffer_pool_try_alloc: may take the last element, never waits.
TryAlloc ==
    /\ free # {}
    /\ Take(1)
    /\ UNCHANGED <<waitVars, asleep, softVars>>

\* Negative control: the announced need outlives the wait.
LargeAfter_Kept(t) == large_wait

LargeAfter(t) == IF role[t] = "large" THEN LargeNum ELSE large_wait

\* A thread that was signalled has the mutex back and tests again.
Wake(t) ==
    /\ Waiting(t)
    /\ t \notin asleep
    /\ \/ /\ Avail >= need[t]
          /\ Take(Wanted(need[t]))
          /\ num_waiters' = IF role[t] = "counted" THEN num_waiters - 1
                                                   ELSE num_waiters
          /\ large_wait' = LargeAfter(t)
          /\ role' = [role EXCEPT ![t] = "none"]
          /\ need' = [need EXCEPT ![t] = 0]
          /\ UNCHANGED asleep
       \/ /\ Avail < need[t]
          /\ asleep' = asleep \cup {t}
          /\ UNCHANGED <<poolVars, waitVars>>
    /\ UNCHANGED softVars

\* pthread_cond_signal: the sleepers left after one of them was woken.
Signalled == IF asleep = {} THEN {{}} ELSE {asleep \ {t} : t \in asleep}

\* fbc_sub
FbcSub(n) == IF ~soft THEN reserve
             ELSE IF reserve < n THEN 0 ELSE reserve - n

\* Negative controls: only one of the two reasons to signal is looked at.
MustSignal_Large(avail) == large_wait <= avail
MustSignal_Counted(avail) == num_waiters > 0

\* "dont provoke useless wakeups"
MustSignal(avail) == num_waiters > 0 \/ large_wait <= avail

\* buffer_pool_free
Free(h) ==
    /\ GiveBack(h)
    /\ reserve' = FbcSub(nbufs[h])
    /\ UNCHANGED <<soft, waitVars>>
    /\ asleep' \in IF MustSignal(Avail') THEN Signalled ELSE {asleep}

\* xine_fbc_set
FbcSet(on) ==
    /\ soft # on
    /\ soft' = on
    /\ reserve' = IF on THEN SoftStart ELSE 0
    /\ UNCHANGED <<poolVars, waitVars, asleep>>

\* fbc_reset, from fifo_buffer_clear.
FbcReset ==
    /\ soft
    /\ reserve' = SoftStart
    /\ UNCHANGED <<soft, poolVars, waitVars, asleep>>

Init ==
    /\ PoolInit
    /\ soft = FALSE
    /\ reserve = 0
    /\ num_waiters = 0
    /\ large_wait = LargeNum
    /\ role = [t \in Threads |-> "none"]
    /\ need = [t \in Threads |-> 0]
    /\ asleep = {}

Next ==
    \/ \E t \in Threads : Alloc(t)
    \/ \E t \in Threads, n \in 1 .. AllocLimit : SizeAlloc(t, n)
    \/ \E t \in Threads, h \in Elems, aim \in 0 .. GrowLimit : Realloc(t, h, aim)
    \/ TryAlloc
    \/ \E t \in Threads : Wake(t)
    \/ \E h \in Elems : Free(h)
    \/ \E on \in BOOLEAN : FbcSet(on)
    \/ FbcReset

Spec == Init /\ [][Next]_vars

-----------------------------------------------------------------------------
TypeOK ==
    /\ free \subseteq Elems
    /\ nbufs \in [Elems -> 0 .. Capacity]
    /\ num_free \in 0 .. Capacity
    /\ soft \in BOOLEAN
    /\ reserve \in 0 .. SoftStart
    /\ num_waiters \in 0 .. Cardinality(Threads)
    /\ large_wait \in 3 .. LargeNum
    /\ role \in [Threads -> Roles]
    /\ need \in [Threads -> 0 .. AllocLimit + 2]
    /\ asleep \subseteq Threads

\* num_waiters and large_wait describe the threads that wait, through any mix
\* of small and large requests and of wakeups that come to nothing.
WaitersCounted ==
    /\ num_waiters = Cardinality(Counted)
    /\ large_wait = LargeNum <=> \A t \in Threads : role[t] # "large"
    /\ \A t \in Threads : role[t] = "large" => need[t] = large_wait
    /\ \A s, t \in Threads : role[s] = "large" /\ role[t] = "large" => s = t

\* Every request that waits fits beside the reserve of a fresh soft start: at
\* the code's 3/4 a quarter of the capacity, which size_alloc's limit exceeds by
\* up to 2; in a pool without soft start every request.
Modest == \A t \in Threads : Waiting(t) => need[t] <= Capacity - SoftStart

\* When all chunks are back, nobody is left sleeping without another thread
\* that has been signalled: the conditional signal of buffer_pool_free
\* ("dont provoke useless wakeups") never drops the one that mattered, while
\* soft start is set, reset and ended at any time.
NoStranded ==
    Modest /\ Out = {} /\ asleep # {} =>
        \E t \in Threads : Waiting(t) /\ t \notin asleep

\* Only try_alloc may take the last free element: "we always keep one free
\* buffer for emergency situations".
EmergencyKept == [][num_free > 0 /\ num_free' = 0 => TryAlloc]_vars

\* Somebody who was signalled tests again, or a chunk comes back.
GoOn == (\E t \in Threads : Wake(t)) \/ (\E h \in Elems : Free(h))

Fairness == WF_vars(GoOn)

FairSpec == Spec /\ Fairness

\* Nobody begins another allocation, and the calls from outside the demuxer,
\* xine_fbc_set and the clear of a fifo, stop coming: a waiter may starve while
\* others take what is freed.
Quiet == <>[][GoOn]_vars

\* Whoever waits for the pool gets its buffer, when those who hold chunks keep
\* giving them back and no waiter asks for more than a soft start leaves (one
\* such waiter can use up the signal another one needed).
Served == Quiet /\ <>[]Modest => <>[](\A t \in Threads : ~ Waiting(t))
=============================================================================
