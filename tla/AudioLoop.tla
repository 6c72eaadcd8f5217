------------------------------ MODULE AudioLoop ------------------------------
(***************************************************************************)
(* The audio output port of audio_out.c: a decoder fills buffers from the    *)
(* free fifo and puts them into the output fifo, the output loop plays them, *)
(* and other threads flush the port, discard, change the speed or call the   *)
(* driver.  The sections under out_fifo.mutex and free_fifo.mutex are single *)
(* actions; driver.mutex, which the loop takes again and again, is modelled  *)
(* with its holder.  Buffers are only counted.  The stream is open all the   *)
(* time.  Left out: ao_open and ao_close, the single step, speeds without    *)
(* sound, a device that is unplugged, front ends that grab, and ao_exit.     *)
(***************************************************************************)
EXTENDS Integers, FiniteSets

CONSTANTS Setters,     \* threads that set the speed or close the driver
          Flushers,    \* threads that flush or discard
          Loop, Free,  \* the loop, and nobody, as holders of driver.mutex
          NumBuffers   \* NUM_AUDIO_BUFFERS

VARIABLES
    out, free,       \* out_fifo.num_buffers, free_fifo.num_buffers
    hand,            \* does the loop hold a buffer (in_buf)?
    use_wake_time,   \* 0 (play), 2 (event)
    wake_now,        \* immediate response requested
    discard,         \* out_fifo.discard_buffers
    speed, rp_speed, \* driver.speed, and what the loop knows of it
    open,            \* driver.open: 0 (closed), 1 (known idle), 2 (open)
    mutex,           \* the holder of driver.mutex
    intr_num,        \* threads that wait for driver.mutex, by their count
    lpc,             \* the step the loop is at
    pc,              \* the step a caller is at
    req,             \* what it will do when it has the driver
    dpc              \* the step the decoder is at

fifoVars == <<out, free, hand>>
wakeVars == <<use_wake_time, wake_now>>
driverVars == <<open, mutex, intr_num>>
vars == <<fifoVars, wakeVars, discard, speed, rp_speed, driverVars, lpc, pc, req, dpc>>

Callers == Setters \cup Flushers

Speeds == {"pause", "normal"}

\* What becomes of driver.open by a request.
OpenAfter(r) == CASE r = "close" -> 0
                  [] r = "flush" /\ open # 0 -> 1
                  [] OTHER -> open

Goto(t, step) == pc' = [pc EXCEPT ![t] = step]

\* The loop holds out_fifo.mutex when it marks the driver as idle.
OutUnlocked == lpc # "idle"

\* pthread_cond_signal (&out_fifo.not_empty): only the loop waits for it.
Signalled == CASE lpc = "asleep" -> "woken" [] lpc = "timed" -> "get" [] OTHER -> lpc

\* pthread_cond_broadcast (&out_fifo.empty).
Emptied == [t \in Callers |-> IF pc[t] = "empty" THEN "flush" ELSE pc[t]]

-----------------------------------------------------------------------------
\* ao_driver_lock: count oneself when the mutex is not to be had at once.
DriverLock(t, r) ==
    /\ req' = [req EXCEPT ![t] = r]
    /\ IF mutex = Free THEN mutex' = t /\ Goto(t, "have") /\ UNCHANGED intr_num
                       ELSE intr_num' = intr_num + 1 /\ Goto(t, "queue") /\ UNCHANGED mutex

\* The loop that stepped aside is told.
DriverGot(t) ==
    /\ pc[t] = "queue" /\ mutex = Free
    /\ mutex' = t
    /\ intr_num' = intr_num - 1
    /\ lpc' = CASE lpc = "aside asleep" -> "test" [] lpc = "test asleep" -> "get" [] OTHER -> lpc
    /\ Goto(t, "have")
    /\ UNCHANGED <<fifoVars, wakeVars, discard, speed, rp_speed, open, req, dpc>>

\* With the driver locked: do it and unlock.
DriverDo(t) ==
    /\ pc[t] = "have"
    /\ mutex' = Free
    /\ speed' = IF req[t] \in Speeds THEN req[t] ELSE speed
    /\ open' = OpenAfter(req[t])
    /\ Goto(t, IF speed' # speed THEN "signal" ELSE "idle")
    /\ req' = [req EXCEPT ![t] = "none"]
    /\ UNCHANGED <<fifoVars, wakeVars, discard, rp_speed, intr_num, lpc, dpc>>

\* ao_out_fifo_signal, after a speed change.
OutFifoSignal(t) ==
    /\ pc[t] = "signal" /\ OutUnlocked
    /\ wake_now' = TRUE
    /\ lpc' = Signalled
    /\ Goto(t, "idle")
    /\ UNCHANGED <<fifoVars, use_wake_time, discard, speed, rp_speed, driverVars, req, dpc>>

\* ao_speed_change_cb, AO_PROP_CLOSE_DEVICE
AskDriver(t, r) ==
    /\ t \in Setters /\ pc[t] = "idle"
    /\ DriverLock(t, r)
    /\ UNCHANGED <<fifoVars, wakeVars, discard, speed, rp_speed, open, lpc, dpc>>

-----------------------------------------------------------------------------
\* Negative control: as in the times when the loop still polled.
FlushTells_Not == lpc

\* "and its needed now that ao loop no longer polls"
FlushTells == Signalled

\* ao_flush_driver, when the last one who discards is through.
FlushDriver(t, after) ==
    IF after > 0 \/ rp_speed = "pause"
    THEN Goto(t, "idle") /\ UNCHANGED <<req, mutex, intr_num>>
    ELSE DriverLock(t, "flush")

\* Wait until the output fifo is empty, or leave.
FlushLoop(t, n) ==
    IF out > 0
    THEN /\ discard' = n
         /\ lpc' = FlushTells
         /\ Goto(t, "empty")
         /\ UNCHANGED <<req, mutex, intr_num>>
    ELSE /\ discard' = n - 1
         /\ UNCHANGED lpc
         /\ FlushDriver(t, n - 1)

\* ao_flush: ao_out_fifo_loop_flush
OutFifoLoopFlush(t) ==
    /\ OutUnlocked
    /\ \/ t \in Flushers /\ pc[t] = "idle" /\ FlushLoop(t, discard + 1)
       \/ pc[t] = "flush" /\ FlushLoop(t, discard)
    /\ UNCHANGED <<fifoVars, wakeVars, speed, rp_speed, open, dpc>>

\* AO_PROP_DISCARD_BUFFERS 1
DiscardOn(t) ==
    /\ t \in Flushers /\ pc[t] = "idle" /\ OutUnlocked
    /\ discard' = discard + 1
    /\ lpc' = Signalled
    /\ Goto(t, "discarding")
    /\ UNCHANGED <<fifoVars, wakeVars, speed, rp_speed, driverVars, req, dpc>>

\* AO_PROP_DISCARD_BUFFERS 0: "Usually, output thread already did that".
DiscardOff(t) ==
    /\ pc[t] = "discarding" /\ OutUnlocked
    /\ discard' = discard - 1
    /\ IF discard = 1
       THEN out' = 0 /\ free' = free + out /\ FlushDriver(t, 0)
       ELSE Goto(t, "idle") /\ UNCHANGED <<out, free, req, mutex, intr_num>>
    /\ UNCHANGED <<hand, wakeVars, speed, rp_speed, open, lpc, dpc>>

-----------------------------------------------------------------------------
\* ao_free_fifo_get waits, with a timeout, for a free buffer; when ports are
\* about to be rewired in pause it takes one that is not played yet.
GetBuffer ==
    /\ dpc = "idle"
    /\ \/ free > 0 /\ free' = free - 1 /\ UNCHANGED out
       \/ free = 0 /\ speed = "pause" /\ out > 0 /\ OutUnlocked /\ out' = out - 1 /\ UNCHANGED free
    /\ dpc' = "filled"
    /\ UNCHANGED <<hand, wakeVars, discard, speed, rp_speed, driverVars, lpc, pc, req>>

\* ao_put_buffer looks at discard_buffers before it takes the mutex.
PutBuffer ==
    /\ dpc = "filled"
    /\ IF discard > 0 THEN free' = free + 1 /\ dpc' = "idle"
                      ELSE dpc' = "append" /\ UNCHANGED free
    /\ UNCHANGED <<out, hand, wakeVars, discard, speed, rp_speed, driverVars, lpc, pc, req>>

\* ao_out_fifo_reref_append
Append ==
    /\ dpc = "append" /\ OutUnlocked
    /\ out' = out + 1
    /\ lpc' = IF out = 0 THEN Signalled ELSE lpc
    /\ dpc' = "idle"
    /\ UNCHANGED <<free, hand, wakeVars, discard, speed, rp_speed, driverVars, pc, req>>

-----------------------------------------------------------------------------
LoopTo(step) == lpc' = step

\* ao_free_fifo_append of the buffer in hand, on the way round the loop.
Drop == hand' = FALSE /\ free' = free + 1 /\ LoopTo("test") /\ UNCHANGED out

\* ao_out_fifo_get up to the return or the next wait.  A flush also takes the
\* buffer the loop holds.
OutFifoGet ==
    /\ lpc \in {"get", "woken"}
    /\ LET held  == hand /\ discard = 0
           queue == IF discard = 0 THEN out ELSE 0
           got   == held \/ queue > 0
           rest  == IF ~held /\ queue > 0 THEN queue - 1 ELSE queue
           use   == IF lpc = "woken" THEN 0 ELSE use_wake_time
       IN  /\ hand' = got
           /\ out' = rest
           /\ free' = IF discard = 0 THEN free
                      ELSE free + out + (IF hand THEN 1 ELSE 0)
           /\ pc' = IF discard = 0 THEN pc ELSE Emptied
           /\ use_wake_time' = use
           /\ \/ /\ (got /\ use = 0) \/ wake_now
                 /\ wake_now' = FALSE
                 /\ LoopTo(IF got THEN "look" ELSE "test")
              \/ /\ ~ ((got /\ use = 0) \/ wake_now)
                 /\ use = 0 => mutex = Free
                 /\ LoopTo(IF use = 0 /\ open = 2 /\ speed # "pause" THEN "timed" ELSE "asleep")
                 /\ UNCHANGED wake_now
    /\ UNCHANGED <<discard, speed, rp_speed, driverVars, req, dpc>>

\* "timeout?": out_fifo.mutex is held until DriverIdle.
Timeout ==
    /\ lpc = "timed"
    /\ LoopTo("idle")
    /\ UNCHANGED <<fifoVars, wakeVars, discard, speed, rp_speed, driverVars, pc, req, dpc>>

DriverIdle ==
    /\ lpc = "idle" /\ mutex = Free
    /\ open' = 1
    /\ LoopTo("get")
    /\ UNCHANGED <<fifoVars, wakeVars, discard, speed, rp_speed, mutex, intr_num, pc, req, dpc>>

\* "wait until user unpauses stream"
Look ==
    /\ lpc = "look"
    /\ rp_speed' = speed
    /\ \/ speed = "normal" /\ LoopTo("lock") /\ UNCHANGED use_wake_time
       \/ speed = "pause" /\ LoopTo("test") /\ use_wake_time' = 2
    /\ UNCHANGED <<fifoVars, wake_now, discard, speed, driverVars, pc, req, dpc>>

SameSpeed == speed = rp_speed

\* ao_driver_lock_2: the driver is ours only while the speed is what we know.
Lock2 ==
    /\ lpc \in {"lock", "write"} /\ mutex = Free
    /\ lpc = "write" => open # 0
    /\ IF SameSpeed
       THEN mutex' = Loop /\ LoopTo(IF lpc = "lock" THEN "timing" ELSE "writing")
       ELSE LoopTo("test") /\ UNCHANGED mutex
    /\ UNCHANGED <<fifoVars, wakeVars, discard, speed, rp_speed, open, intr_num, pc, req, dpc>>

\* Open the driver when needed, ask it for the delay and unlock it.  The buffer
\* is late, in time, or leaves a big gap; without a device it is dropped.
Timing ==
    /\ lpc = "timing"
    /\ mutex' = Free
    /\ open' \in IF open = 0 THEN {0, 1} ELSE {open}
    /\ \/ Drop
       \/ open' # 0 /\ LoopTo("fill") /\ UNCHANGED fifoVars
       \/ open' # 0 /\ LoopTo("write") /\ UNCHANGED fifoVars
       \/ open' # 0 /\ intr_num > 0 /\ LoopTo("aside") /\ UNCHANGED fifoVars
    /\ UNCHANGED <<wakeVars, discard, speed, rp_speed, intr_num, pc, req, dpc>>

\* "for big gaps output silence", then look at the buffer again.
Fill ==
    /\ lpc = "fill" /\ mutex = Free
    /\ mutex' = Loop
    /\ LoopTo("filling")
    /\ UNCHANGED <<fifoVars, wakeVars, discard, speed, rp_speed, open, intr_num, pc, req, dpc>>

Filled ==
    /\ lpc = "filling"
    /\ mutex' = Free
    /\ open' = IF open = 0 THEN 0 ELSE 2
    /\ LoopTo("test")
    /\ UNCHANGED <<fifoVars, wakeVars, discard, speed, rp_speed, intr_num, pc, req, dpc>>

Write ==
    /\ \/ lpc = "writing" /\ mutex' = Free /\ open' = IF open = 0 THEN 0 ELSE 2
       \/ lpc = "write" /\ open = 0 /\ UNCHANGED <<mutex, open>>
    /\ Drop
    /\ UNCHANGED <<wakeVars, discard, speed, rp_speed, intr_num, pc, req, dpc>>

\* Negative control: nobody gets a chance.
Intruders_Never == FALSE

\* "instead wait for the other thread to acquire this->driver.mutex"
Intruders == intr_num > 0

\* ao_driver_test_intr at the end of a round, and the same inside it.
TestIntr ==
    /\ lpc \in {"test", "aside"}
    /\ LoopTo(CASE Intruders /\ lpc = "test"   -> "test asleep"
                [] Intruders /\ lpc = "aside"  -> "aside asleep"
                [] ~Intruders /\ lpc = "test"  -> "get"
                [] ~Intruders /\ lpc = "aside" -> "test")
    /\ UNCHANGED <<fifoVars, wakeVars, discard, speed, rp_speed, driverVars, pc, req, dpc>>

\* ao_loop
LoopStep ==
    \/ OutFifoGet \/ Timeout \/ DriverIdle \/ Look \/ Lock2
    \/ Timing \/ Fill \/ Filled \/ Write \/ TestIntr

Init ==
    /\ out = 0 /\ free = NumBuffers /\ hand = FALSE
    /\ use_wake_time = 0 /\ wake_now = FALSE
    /\ discard = 0
    /\ speed = "normal" /\ rp_speed = "normal"
    /\ open = 0
    /\ mutex = Free /\ intr_num = 0
    /\ lpc = "get"
    /\ pc = [t \in Callers |-> "idle"]
    /\ req = [t \in Callers |-> "none"]
    /\ dpc = "idle"

\* What a thread does once it has begun.
GoOn(t) ==
    \/ DriverGot(t) \/ DriverDo(t) \/ OutFifoSignal(t) \/ DiscardOff(t)
    \/ pc[t] = "flush" /\ OutFifoLoopFlush(t)

Requests == Speeds \cup {"close"}

Ask(t) ==
    \/ pc[t] # "flush" /\ OutFifoLoopFlush(t)
    \/ DiscardOn(t)
    \/ \E r \in Requests : AskDriver(t, r)

Decode == GetBuffer \/ PutBuffer \/ Append

Next ==
    \/ LoopStep
    \/ \E t \in Callers : GoOn(t) \/ Ask(t)
    \/ Decode

Spec == Init /\ [][Next]_vars

\* Every thread that can go on does.  Nobody is favoured by a mutex.
Fairness ==
    /\ WF_vars(LoopStep)
    /\ \A t \in Callers : WF_vars(GoOn(t))
    /\ WF_vars(Append)

FairSpec == Spec /\ Fairness

-----------------------------------------------------------------------------
\* Calls from outside, which come from user actions, stop.
Calm == <>[][~ \E t \in Callers : Ask(t)]_vars

\* A flush comes back although the loop, which empties the fifo, may just hold
\* a buffer, sleep in pause or wait for the driver, and the decoder goes on.
FlushReturns == Calm => \A t \in Flushers : pc[t] \in {"empty", "flush"} ~> pc[t] \notin {"empty", "flush"}

\* "Give other threads a chance to use functions which require driver.mutex":
\* whoever queues for it gets it, without fairness of the mutex.
DriverServed == Calm => \A t \in Callers : pc[t] = "queue" ~> pc[t] # "queue"

\* "wake_now: immediate response requested (speed change, shutdown)": in a
\* playing engine the loop does not sleep while buffers wait to be played,
\* unless somebody is about to signal it.
PlaysOn ==
    lpc = "asleep" /\ out > 0 /\ speed = "normal" => \E t \in Callers : pc[t] = "signal"
=============================================================================
