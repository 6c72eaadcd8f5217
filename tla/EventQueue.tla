------------------------------ MODULE EventQueue ------------------------------
(***************************************************************************)
(* Event queues of a stream (events.c): senders append to every queue of    *)
(* the list, a listener thread per queue calls back, applications poll the  *)
(* other queues, _x_flush_events_queues waits until what was sent before is *)
(* handled, and a queue is disposed meanwhile.  event.lock covers a whole   *)
(* send or a walk of the list, the lock of a queue each access to it, so    *)
(* each action is a section under one of them.  Types are told apart only   *)
(* as far as they merge ("calm down bursting progress events").             *)
(* Left out: select, a failing malloc, and the delay for statistics.        *)
(***************************************************************************)
EXTENDS Integers, Sequences, FiniteSets, FiniteSetsExt

CONSTANTS Queues,
          Doomed,     \* the queues that are disposed
          Senders,    \* threads of the engine
          Flushers,   \* threads that open streams; a queue stands for its
                      \* listener, whose callback may do so
          NoQueue,
          Reusable,   \* MAX_REUSE_EVENTS
          MaxSent     \* bound: events that are sent

VARIABLES
    listened,      \* queues with a listener thread; the others are polled
    clock,         \* the time, by the events sent
    stamp,         \* stamp[s]: the time a sender took before event.lock, or 0
    events,        \* of a queue
    running,       \* the event its callback has, or its poller, as a sequence
    lasttime,      \* of a queue
    flush,         \* of a queue
    refs,          \* of a queue
    stage,         \* of a queue: "live", "removed", "quitting", "disposed"
    ended,         \* listeners that left their loop
    begun,         \* begun[f]: the time at which a flush began
    pc,            \* of a thread that flushes
    at,            \* the queue it waits for
    asleep,        \* threads in pthread_cond_timedwait, not signalled
    due,           \* history: events from before the flush not handled yet
    complete       \* history: neither a timeout nor somebody else's flush met

queueVars == <<events, running, lasttime, flush, refs, stage, ended>>
flushVars == <<begun, pc, at, asleep, due, complete>>
vars == <<listened, clock, stamp, queueVars, flushVars>>

Listed == {q \in Queues : stage[q] = "live"}

InUse(q) == Quantify(DOMAIN events[q], LAMBDA i : events[q][i].reused)
            + Quantify(DOMAIN running[q], LAMBDA i : running[q][i].reused)

Waiters(q) == {f \in Flushers : at[f] = q}

Flushing == \E f \in Flushers : pc[f] # "idle"

\* pthread_cond_signal (&q->q.events_processed)
Signalled(q) ==
    LET sleepers == Waiters(q) \cap asleep
    IN  IF sleepers = {} THEN {asleep} ELSE {asleep \ {f} : f \in sleepers}

-----------------------------------------------------------------------------
\* xine_event_send takes the time first and the lock then.
TakeTime(s) ==
    /\ stamp[s] = 0 /\ clock < MaxSent
    /\ clock' = clock + 1
    /\ stamp' = [stamp EXCEPT ![s] = clock']
    /\ UNCHANGED <<queueVars, flushVars>>

\* An event from the free list as long as there is one, else from malloc.
NewEvent(q, tv, kind) == [tv |-> tv, kind |-> kind, reused |-> InUse(q) < Reusable]

\* Statistics refresh an earlier one that is the last or the last but one.
Earlier(q) ==
    {i \in DOMAIN events[q] : i >= Len(events[q]) - 1 /\ events[q][i].kind = "statistics"}

Delivered(q, tv, kind) ==
    IF kind = "statistics" /\ Earlier(q) # {}
    THEN [events[q] EXCEPT ![Max(Earlier(q))].tv = tv]
    ELSE Append(events[q], NewEvent(q, tv, kind))

\* xine_event_send.  Statistics come from demuxers and buffering, which do
\* not run where the engine flushes (xine.c: open).
Send(s, kind) ==
    /\ stamp[s] > 0
    /\ kind = "statistics" => ~Flushing
    /\ LET to(q) == q \in Listed
           new(q) == Delivered(q, stamp[s], kind)
           taken(q) == Len(new(q)) > Len(events[q]) /\ InUse(q) < Reusable
       IN  /\ events' = [q \in Queues |-> IF to(q) THEN new(q) ELSE events[q]]
           /\ refs' = [q \in Queues |-> IF to(q) /\ taken(q) THEN refs[q] + 1 ELSE refs[q]]
    /\ stamp' = [stamp EXCEPT ![s] = 0]
    /\ UNCHANGED <<clock, running, lasttime, flush, stage, ended, flushVars>>

-----------------------------------------------------------------------------
\* The event the callback or the poller had is done.
Unused(q) == IF running[q][1].reused THEN refs[q] - 1 ELSE refs[q]

Take(q) ==
    /\ running[q] = <<>> /\ events[q] # <<>>
    /\ running' = [running EXCEPT ![q] = <<Head(events[q])>>]
    /\ events' = [events EXCEPT ![q] = Tail(@)]

\* listener_loop: wait for an event and call back.
CallBack(q) ==
    /\ q \in listened \ ended
    /\ Take(q)
    /\ lasttime' = [lasttime EXCEPT ![q] = Head(events[q]).tv]
    /\ UNCHANGED <<clock, stamp, flush, refs, stage, ended, flushVars>>

\* What is left to wait for after a callback.
FlushAfter(q) ==
    IF flush[q] = 0 \/ running[q][1].kind = "quit" THEN 0 ELSE flush[q] - 1

Return(q) ==
    /\ q \in listened /\ running[q] # <<>>
    /\ q \in Flushers => pc[q] = "idle"
    /\ running' = [running EXCEPT ![q] = <<>>]
    /\ refs' = [refs EXCEPT ![q] = Unused(q)]
    /\ flush' = [flush EXCEPT ![q] = FlushAfter(q)]
    /\ asleep' \in IF flush[q] > 0 /\ FlushAfter(q) = 0 THEN Signalled(q) ELSE {asleep}
    /\ ended' = IF running[q][1].kind = "quit" THEN ended \cup {q} ELSE ended
    /\ due' = [f \in Flushers |-> [due[f] EXCEPT ![q] = IF @ = 0 THEN 0 ELSE @ - 1]]
    /\ UNCHANGED <<clock, stamp, events, lasttime, stage, begun, pc, at, complete>>

\* xine_event_get and xine_event_wait, by who owns the queue.
Poll(q) ==
    /\ q \notin listened /\ stage[q] = "live"
    /\ Take(q)
    /\ UNCHANGED <<clock, stamp, lasttime, flush, refs, stage, ended, flushVars>>

\* xine_event_free, also after the queue was disposed.
Free(q) ==
    /\ q \notin listened /\ running[q] # <<>>
    /\ running' = [running EXCEPT ![q] = <<>>]
    /\ refs' = [refs EXCEPT ![q] = Unused(q)]
    /\ UNCHANGED <<clock, stamp, events, lasttime, flush, stage, ended, flushVars>>

-----------------------------------------------------------------------------
\* xine_event_dispose_queue: out of the list,
Remove(q) ==
    /\ q \in Doomed /\ stage[q] = "live"
    /\ stage' = [stage EXCEPT ![q] = "removed"]
    /\ UNCHANGED <<clock, stamp, events, running, lasttime, flush, refs, ended, flushVars>>

\* send quit event,
Quit(q) ==
    /\ stage[q] = "removed"
    /\ stage' = [stage EXCEPT ![q] = "quitting"]
    /\ events' = [events EXCEPT ![q] = Append(@, NewEvent(q, clock, "quit"))]
    /\ refs' = [refs EXCEPT ![q] = IF InUse(q) < Reusable THEN @ + 1 ELSE @]
    /\ UNCHANGED <<clock, stamp, running, lasttime, flush, ended, flushVars>>

\* Negative control: the references of events that are left stay.
Left_Kept(q) == 0

\* References of the events that nobody fetched.
Left(q) == Quantify(DOMAIN events[q], LAMBDA i : events[q][i].reused)

\* join listener thread, clean up pending events, unref.
Clean(q) ==
    /\ stage[q] = "quitting"
    /\ q \in listened => q \in ended
    /\ stage' = [stage EXCEPT ![q] = "disposed"]
    /\ refs' = [refs EXCEPT ![q] = @ - Left(q) - 1]
    /\ events' = [events EXCEPT ![q] = <<>>]
    /\ flush' = [flush EXCEPT ![q] = 0]
    /\ asleep' \in Signalled(q)
    /\ UNCHANGED <<clock, stamp, running, lasttime, ended, begun, pc, at, due, complete>>

-----------------------------------------------------------------------------
\* _x_flush_events_queues: take the time,
FlushBegin(f) ==
    /\ pc[f] = "idle"
    /\ f \in Queues => f \in listened /\ running[f] # <<>>
    /\ pc' = [pc EXCEPT ![f] = "walk"]
    /\ begun' = [begun EXCEPT ![f] = clock]
    /\ due' = [due EXCEPT ![f] = [q \in Queues |->
                   IF q \in listened THEN Len(events[q]) + Len(running[q]) ELSE 0]]
    /\ complete' = [complete EXCEPT ![f] = TRUE]
    /\ UNCHANGED <<clock, stamp, queueVars, at, asleep>>

Running(q) == Len(running[q])

\* Negative control: the event that is being handled is not waited for.
Past_Queued(q, tv) ==
    Max({n \in 0 .. Len(events[q]) : \A i \in 1 .. n : events[q][i].tv <= tv})

\* "count pending past events"
Past(q, tv) ==
    Running(q)
    + Max({n \in 0 .. Len(events[q]) : \A i \in 1 .. n : events[q][i].tv <= tv})

Count(q, tv) == IF lasttime[q] <= tv THEN Past(q, tv) ELSE 0

\* Queues this flush may wait for: "never wait for self".
Others(f) == (Listed \cap listened) \ {f}

\* Negative control: a queue that is waited for may go away.
Kept_Not(q) == refs[q]

\* "make sure this queue does not go away"
Kept(q) == refs[q] + 1

\* walk the list up to the first queue that has to be waited for.
Walk(f) ==
    LET busy == {q \in Others(f) : flush[q] # 0}
        pending == {q \in Others(f) \ busy : Count(q, begun[f]) > 0}
    IN
    /\ pc[f] = "walk"
    /\ complete' = [complete EXCEPT ![f] = @ /\ busy = {}]
    /\ IF pending = {}
       THEN /\ pc' = [pc EXCEPT ![f] = "flushed"]
            /\ UNCHANGED <<flush, refs, at, asleep>>
       ELSE \E q \in pending :
            /\ flush' = [flush EXCEPT ![q] = Count(q, begun[f])]
            /\ refs' = [refs EXCEPT ![q] = Kept(q)]
            /\ at' = [at EXCEPT ![f] = q]
            /\ asleep' = asleep \cup {f}
            /\ pc' = [pc EXCEPT ![f] = "wait"]
    /\ UNCHANGED <<clock, stamp, events, running, lasttime, stage, ended, begun, due>>

\* Unref the queue and start over: "list may have changed".
StartOver(f) ==
    /\ refs' = [refs EXCEPT ![at[f]] = @ - 1]
    /\ at' = [at EXCEPT ![f] = NoQueue]
    /\ pc' = [pc EXCEPT ![f] = "walk"]

FlushWake(f) ==
    /\ pc[f] = "wait" /\ f \notin asleep
    /\ IF flush[at[f]] > 0
       THEN asleep' = asleep \cup {f} /\ UNCHANGED <<refs, at, pc>>
       ELSE StartOver(f) /\ UNCHANGED asleep
    /\ UNCHANGED <<clock, stamp, events, running, lasttime, flush, stage, ended,
                   begun, due, complete>>

\* A second after the begin: "paranoia: cyclic wait?"
FlushTimeout(f) ==
    /\ pc[f] = "wait"
    /\ StartOver(f)
    /\ asleep' = asleep \ {f}
    /\ complete' = [complete EXCEPT ![f] = FALSE]
    /\ UNCHANGED <<clock, stamp, events, running, lasttime, flush, stage, ended,
                   begun, due>>

FlushEnd(f) ==
    /\ pc[f] = "flushed"
    /\ pc' = [pc EXCEPT ![f] = "idle"]
    /\ begun' = [begun EXCEPT ![f] = 0]
    /\ due' = [due EXCEPT ![f] = [q \in Queues |-> 0]]
    /\ complete' = [complete EXCEPT ![f] = TRUE]
    /\ UNCHANGED <<clock, stamp, queueVars, at, asleep>>

Init ==
    /\ listened \in SUBSET Queues
    /\ clock = 0 /\ stamp = [s \in Senders |-> 0]
    /\ events = [q \in Queues |-> <<>>]
    /\ running = [q \in Queues |-> <<>>]
    /\ lasttime = [q \in Queues |-> 0]
    /\ flush = [q \in Queues |-> 0]
    /\ refs = [q \in Queues |-> 1]
    /\ stage = [q \in Queues |-> "live"]
    /\ ended = {} /\ asleep = {}
    /\ begun = [f \in Flushers |-> 0]
    /\ pc = [f \in Flushers |-> "idle"]
    /\ at = [f \in Flushers |-> NoQueue]
    /\ due = [f \in Flushers |-> [q \in Queues |-> 0]]
    /\ complete = [f \in Flushers |-> TRUE]

Step ==
    \/ \E s \in Senders : TakeTime(s)
    \/ \E s \in Senders, kind \in {"plain", "statistics"} : Send(s, kind)
    \/ \E q \in Queues : CallBack(q) \/ Return(q) \/ Poll(q) \/ Free(q)
    \/ \E q \in Queues : Remove(q) \/ Quit(q) \/ Clean(q)
    \/ \E f \in Flushers : \/ FlushBegin(f) \/ Walk(f) \/ FlushWake(f)
                          \/ FlushTimeout(f) \/ FlushEnd(f)

Next == Step /\ UNCHANGED listened

Spec == Init /\ [][Next]_vars

-----------------------------------------------------------------------------
\* A flush that neither timed out nor met a queue somebody else was flushing
\* comes back when the listeners have handled all that was sent before it
\* began, except the listener's own events if it is the one who flushes.
FlushComplete ==
    \A f \in Flushers : pc[f] = "flushed" /\ complete[f] =>
        \A q \in Others(f) : due[f][q] = 0

\* A queue lives exactly as long as it is registered, one of its reusable
\* events is with a callback or an application, or a flush waits for it
\* (unref frees it at 0), whatever the order of dispose, free and flush.
RefsExact ==
    \A q \in Queues :
        refs[q] = (IF stage[q] = "disposed" THEN 0 ELSE 1) + InUse(q)
                  + Cardinality(Waiters(q))
=============================================================================
