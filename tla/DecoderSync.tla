----------------------------- MODULE DecoderSync -----------------------------
(***************************************************************************)
(* Demuxer threads, the decoders they feed and the application that plays,  *)
(* seeks, stops and opens a stream (demux.c, video_decoder.c,               *)
(* audio_decoder.c, xine.c).  Control buffers go through both fifos in      *)
(* pairs; the decoders count them, and whoever sent a pair can wait for the *)
(* counts: for HEADERS_DONE, to be sure that all before it is gone, and for *)
(* END, before the stream is declared finished.                             *)
(* A thread is at one step of these functions, named by its pc; the engine  *)
(* is not paused meanwhile (SpeedControl shows how stop and play see to it).*)
(***************************************************************************)
EXTENDS Integers, Sequences, FiniteSets, SequencesExt

CONSTANTS NumSides,    \* side streams with a demuxer
          App,         \* the thread of the application, with frontend_lock
          Jumpers,     \* side streams whose input plugin flushes by itself
          Video, Audio, \* the two fifos, and the threads of their decoders
          Nobody,
          Punctual,    \* does a new thread run before another one ends?
          Pool,        \* bound: elements of each fifo's buffer pool
          MaxChunks,   \* bound: chunks of data from a seek to the end
          MaxRequests  \* bound: requests to play, stop, open, jump

Sides == 1 .. NumSides
Threads == Sides \cup {App}
Fifos == {Video, Audio}

ASSUME SyncAssumption ==
    /\ NumSides \in Nat \ {0}
    /\ Jumpers \subseteq Sides
    /\ App \notin Sides
    /\ Video # Audio /\ Fifos \cap Threads = {} /\ Nobody \notin Threads \cup Fifos
    /\ Punctual \in BOOLEAN
    /\ Pool \in Nat \ {0, 1} /\ MaxChunks \in Nat /\ MaxRequests \in Nat

VARIABLES
    created,          \* fifos with a decoder thread; others are dummies
    fifo, hand,       \* queued buffers, and the one a decoder works on
    bufs,             \* fifos a thread has allocated a buffer of, not put yet
    pair,             \* who holds demux.pair
    counter,          \* who keeps counter.lock while it puts a pair
    headers, finisheds, demuxers_running,      \* under counter.lock
    target,           \* the counts a thread waits for
    asleep,           \* who waits for counter.changed
    pc, job, back,    \* step, kind of the pair to put, steps to return to
    lock, pending,    \* demux.lock, demux.action_pending of each side
    running, thread,  \* thread_running, thread_created
    left,             \* chunks left; at 0 the plugin is DEMUX_FINISHED
    over,             \* demux_loop's copy of that: status # DEMUX_OK
    non_user,
    status, finished_naturally, gapless_switch, emergency_brake,
    side,             \* the side stream the application is busy with
    seeked,           \* has a demuxer accepted the seek?
    requests,         \* history: requests so far
    braked,           \* history: has anybody taken the emergency exit?
    mixed             \* history: the kinds of which two pairs were under way

queueVars == <<fifo, hand, bufs, pair>>
countVars == <<counter, headers, finisheds, target, asleep>>
callVars == <<pc, job, back>>
demuxVars == <<lock, pending, running, thread, left, over, non_user, demuxers_running>>
streamVars == <<status, finished_naturally, gapless_switch>>
brakeVars == <<emergency_brake, braked>>
appVars == <<side, seeked, requests>>
vars == <<created, queueVars, countVars, callVars, demuxVars, streamVars, brakeVars, appVars, mixed>>

B2N(b) == IF b THEN 1 ELSE 0

Item(kind, t) == [kind |-> kind, by |-> t]

NoItem == Item("none", Nobody)

At(t, step) == pc[t] = step

Go(t, step) == pc' = [pc EXCEPT ![t] = step] /\ UNCHANGED <<job, back>>

\* Start putting a pair of buffers; "next" is the step after that.
SendPair(t, kind, next) ==
    /\ pc' = [pc EXCEPT ![t] = "alloc_video"]
    /\ job' = [job EXCEPT ![t] = kind]
    /\ back' = [back EXCEPT ![t] = <<next>> \o @]

Return(t) ==
    /\ pc' = [pc EXCEPT ![t] = Head(back[t])]
    /\ back' = [back EXCEPT ![t] = Tail(@)]
    /\ UNCHANGED job

-----------------------------------------------------------------------------
(* Buffers: the pools are small, and whoever needs an element waits for it. *)

Free(f) == Pool - Len(fifo[f]) - B2N(hand[f] # NoItem) - Cardinality({t \in Threads : f \in bufs[t]})

CanAlloc(f) == f \notin created \/ Free(f) > 0

\* put; a dummy fifo frees the buffer at once.
Put(f, item) == fifo' = [fifo EXCEPT ![f] = IF f \in created THEN Append(@, item) ELSE @]

Took(t, f) == bufs' = [bufs EXCEPT ![t] = @ \cup {f}]

\* Negative control: the pair is not kept together.
PairFree_Always == TRUE

PairFree == pair = Nobody

AllocVideo(t) ==
    /\ At(t, "alloc_video")
    /\ CanAlloc(Video)
    /\ Took(t, Video)
    /\ Go(t, "alloc_audio")
    /\ UNCHANGED <<fifo, hand, pair, countVars>>

AllocAudio(t) ==
    /\ At(t, "alloc_audio")
    /\ CanAlloc(Audio)
    /\ Took(t, Audio)
    /\ Go(t, IF job[t] = "headers" THEN "count" ELSE "put_video")
    /\ UNCHANGED <<fifo, hand, pair, countVars>>

\* Negative control: one count for both decoders.
Goal_Video(counts) == [f \in Fifos |-> IF f \in created THEN counts[Video] + 1 ELSE 0]

\* "counter.headers_video + 1", and the like.
Goal(counts) == [f \in Fifos |-> IF f \in created THEN counts[f] + 1 ELSE 0]

\* A pair that the decoders have not counted yet.
Queued(kind) ==
    \E f \in Fifos : hand[f].kind = kind \/ \E i \in 1 .. Len(fifo[f]) : fifo[f][i].kind = kind

Mix(kind, underWay) == mixed' = IF underWay THEN mixed \cup {kind} ELSE mixed

\* _x_demux_control_headers_done takes counter.lock and keeps it for the puts.
Count(t) ==
    /\ At(t, "count")
    /\ counter = Nobody
    /\ counter' = t
    /\ target' = [target EXCEPT ![t] = Goal(headers)]
    /\ Mix("headers", Queued("headers"))
    /\ Go(t, "put_video")
    /\ UNCHANGED <<queueVars, headers, finisheds, asleep>>

PutVideo(t) ==
    /\ At(t, "put_video")
    /\ PairFree
    /\ pair' = t
    /\ Put(Video, Item(job[t], t))
    /\ bufs' = [bufs EXCEPT ![t] = @ \ {Video}]
    /\ Go(t, "put_audio")
    /\ UNCHANGED <<hand, countVars>>

PutAudio(t) ==
    /\ At(t, "put_audio")
    /\ pair' = Nobody
    /\ Put(Audio, Item(job[t], t))
    /\ bufs' = [bufs EXCEPT ![t] = @ \ {Audio}]
    /\ IF job[t] = "headers" THEN Go(t, "sync") ELSE Return(t)
    /\ UNCHANGED <<hand, countVars>>

PairStep(t) ==
    /\ \/ Count(t)
       \/ (AllocVideo(t) \/ AllocAudio(t) \/ PutVideo(t) \/ PutAudio(t)) /\ UNCHANGED mixed
    /\ UNCHANGED <<created, demuxVars, streamVars, brakeVars, appVars>>

-----------------------------------------------------------------------------
(* Waiting for the counts of HEADERS_DONE and END. *)

Counts(t) == IF At(t, "sync") \/ At(t, "sync_wait") THEN headers ELSE finisheds

Reached(t) == \A f \in Fifos : Counts(t)[f] >= target[t][f]

Lower(s) == pending' = [pending EXCEPT ![s] = @ - 1]

\* action_pending is raised and lowered for the first side stream.
SyncDone(t) ==
    /\ Lower(1)
    /\ Return(t)
    /\ counter' = Nobody
    /\ UNCHANGED asleep

Sync(t) ==
    /\ At(t, "sync") \/ (At(t, "sync_wait") /\ t \notin asleep /\ counter = Nobody)
    /\ IF Reached(t)
       THEN SyncDone(t)
       ELSE /\ asleep' = asleep \cup {t}
            /\ counter' = Nobody
            /\ Go(t, "sync_wait")
            /\ UNCHANGED pending
    /\ UNCHANGED <<created, queueVars, headers, finisheds, target, lock, running, thread,
                   left, over, non_user, demuxers_running, streamVars, brakeVars,
                   appVars>>

\* demux_loop waits for the decoders to reach its END.
EndWait(s) ==
    /\ At(s, "end_wait") /\ s \notin asleep /\ counter = Nobody
    /\ IF Reached(s)
       THEN Go(s, "finished") /\ UNCHANGED asleep
       ELSE asleep' = asleep \cup {s} /\ UNCHANGED callVars
    /\ UNCHANGED <<created, queueVars, counter, headers, finisheds, target, demuxVars, streamVars,
                   brakeVars, appVars>>

\* demux_unstick_ao_loop
Stuck == status = "stop" \/ left[1] = 0

\* play_internal lets the demuxers go on one by one before it sets "status".
\* As the code does, take the 300ms of demux_loop and the 5s of the emergency
\* exit for longer than that, unless play_internal waits for t itself.
AppInTime(t) == ~At(App, "go_on") /\ (At(App, "start") => side = t)

\* A demuxer counts itself when its thread gets to run.
Counted(s) == ~At(s, "start")

\* "Taking the emergency exit", after 5 timeouts of 1s.
Emergency(t) ==
    /\ t \in asleep
    /\ counter = Nobody
    /\ Stuck
    /\ AppInTime(t)
    /\ emergency_brake' = TRUE /\ braked' = TRUE
    /\ asleep' = asleep \ {t}
    /\ IF At(t, "end_wait")
       THEN Go(t, "finished") /\ UNCHANGED pending
       ELSE Lower(1) /\ Return(t)
    /\ UNCHANGED <<created, queueVars, counter, headers, finisheds, target, lock, running, thread,
                   left, over, non_user, demuxers_running, streamVars, appVars>>

-----------------------------------------------------------------------------
(* _x_demux_flush_engine *)

HeadersDone(t, next) ==
    /\ SendPair(t, "headers", next)
    /\ pending' = [pending EXCEPT ![1] = @ + 1]

\* The items of other kinds, in order.
Without(items, kinds) ==
    LET rest[n \in 0 .. Len(items)] ==
            IF n = 0 THEN <<>>
            ELSE IF items[n].kind \in kinds THEN rest[n - 1]
            ELSE Append(rest[n - 1], items[n])
    IN  rest[Len(items)]

\* "keep control bufs (flush, ...)"
Kept(items) == Without(items, {"data"})

Clear(f) == fifo' = [fifo EXCEPT ![f] = Kept(@)]

FlushBegin(t) ==
    /\ At(t, "flush")
    /\ IF gapless_switch \/ finished_naturally THEN Return(t) ELSE Go(t, "clear_video")
    /\ UNCHANGED <<queueVars, pending>>

FlushClear(t) ==
    /\ \/ At(t, "clear_video") /\ Clear(Video) /\ Go(t, "clear_audio")
       \/ At(t, "clear_audio") /\ Clear(Audio) /\ Go(t, "reset")
    /\ UNCHANGED <<hand, bufs, pair, pending>>

\* Here the buffers are allocated with demux.pair held.
FlushReset(t) ==
    /\ \/ /\ At(t, "reset")
          /\ PairFree
          /\ pair' = t
          /\ Go(t, "reset_video")
          /\ UNCHANGED <<fifo, pending>>
       \/ /\ At(t, "reset_video")
          /\ CanAlloc(Video)
          /\ Put(Video, Item("reset", t))
          /\ Go(t, "reset_audio")
          /\ UNCHANGED <<pair, pending>>
       \/ /\ At(t, "reset_audio")
          /\ CanAlloc(Audio)
          /\ Put(Audio, Item("reset", t))
          /\ pair' = Nobody
          /\ HeadersDone(t, "flushed")
    /\ UNCHANGED <<hand, bufs>>

FlushEnd(t) == At(t, "flushed") /\ Return(t) /\ UNCHANGED <<queueVars, pending>>

Flush(t) ==
    /\ FlushBegin(t) \/ FlushClear(t) \/ FlushReset(t) \/ FlushEnd(t)
    /\ UNCHANGED <<created, countVars, lock, running, thread, left, over, non_user,
                   demuxers_running, streamVars, brakeVars, appVars>>

-----------------------------------------------------------------------------
(* demux_loop *)

Loops(s) == ~over[s] /\ running[s] /\ ~emergency_brake

Unlock(s) == lock' = [lock EXCEPT ![s] = Nobody]

LoopStart(s) ==
    /\ \/ /\ At(s, "start")
          /\ counter = Nobody
          /\ demuxers_running' = demuxers_running + 1
          /\ Go(s, "enter")
          /\ UNCHANGED <<lock, over, emergency_brake>>
       \/ /\ At(s, "enter")
          /\ lock[s] = Nobody
          /\ lock' = [lock EXCEPT ![s] = s]
          /\ emergency_brake' = FALSE
          /\ over' = [over EXCEPT ![s] = left[s] = 0]
          /\ Go(s, "chunk")
          /\ UNCHANGED demuxers_running
    /\ UNCHANGED <<created, queueVars, countVars, pending, running, thread, left, non_user, streamVars,
                   braked, appVars>>

\* send_chunk: a buffer for one of the decoders.
Chunk(s) ==
    /\ At(s, "chunk")
    /\ \/ /\ Loops(s) /\ left[s] > 0
          /\ \E f \in Fifos : Go(s, IF f = Video THEN "data_video" ELSE "data_audio")
          /\ UNCHANGED over
       \/ /\ Loops(s) /\ left[s] = 0
          /\ over' = [over EXCEPT ![s] = TRUE]
          /\ Go(s, "check")
       \/ /\ ~Loops(s)
          /\ SendPair(s, "nop", "drain")
          /\ UNCHANGED over
    /\ UNCHANGED <<created, queueVars, countVars, lock, pending, running, thread, left, non_user,
                   demuxers_running, streamVars, brakeVars, appVars>>

SendData(s) ==
    /\ \E f \in Fifos :
        /\ At(s, IF f = Video THEN "data_video" ELSE "data_audio")
        /\ CanAlloc(f)
        /\ Put(f, Item("data", s))
    /\ left' = [left EXCEPT ![s] = @ - 1]
    /\ over' = [over EXCEPT ![s] = left[s] = 1]
    /\ Go(s, "check")
    /\ UNCHANGED <<created, hand, bufs, pair, countVars, lock, pending, running, thread, non_user,
                   demuxers_running, streamVars, brakeVars, appVars>>

\* A chunk with a jump, as in a DVD menu.
Jump(s) ==
    /\ At(s, "chunk") /\ Loops(s) /\ s \in Jumpers /\ requests < MaxRequests
    /\ requests' = requests + 1
    /\ pc' = [pc EXCEPT ![s] = "flush"]
    /\ back' = [back EXCEPT ![s] = <<"check">>]
    /\ UNCHANGED <<job, created, queueVars, countVars, demuxVars, streamVars, brakeVars, side, seeked>>

\* "someone may want to interrupt us"
Interrupted(s) == pending[s] > 0

LetIn(s) ==
    /\ \/ /\ At(s, "check")
          /\ IF Interrupted(s) THEN Unlock(s) /\ Go(s, "suspended") ELSE Go(s, "chunk") /\ UNCHANGED lock
       \/ /\ At(s, "suspended")
          /\ pending[s] <= 0
          /\ Go(s, "resume")
          /\ UNCHANGED lock
       \/ /\ At(s, "resume")
          /\ lock[s] = Nobody
          /\ lock' = [lock EXCEPT ![s] = s]
          /\ Go(s, "chunk")
    /\ UNCHANGED <<created, queueVars, countVars, pending, running, thread, left, over, non_user,
                   demuxers_running, streamVars, brakeVars, appVars>>

\* The delay of 300ms is over, or the user did seek or stop.
DelayOver(s) == left[s] > 0 \/ ~running[s] \/ AppInTime(s)

\* "wait before sending end buffers: user might want to do a new seek"
Drain(s) ==
    /\ \/ /\ At(s, "drain")
          /\ IF running[s] /\ over[s] /\ ~emergency_brake /\ (fifo[Video] # <<>> \/ fifo[Audio] # <<>>)
             THEN Unlock(s) /\ Go(s, "drain_wait")
             ELSE Go(s, "delay") /\ UNCHANGED lock
          /\ UNCHANGED over
       \/ /\ At(s, "drain_wait") \/ (At(s, "delay_wait") /\ DelayOver(s))
          /\ lock[s] = Nobody
          /\ lock' = [lock EXCEPT ![s] = s]
          /\ over' = [over EXCEPT ![s] = left[s] = 0]
          /\ Go(s, IF At(s, "drain_wait") THEN "drain" ELSE "again")
    /\ UNCHANGED <<created, queueVars, countVars, pending, running, thread, left, non_user,
                   demuxers_running, streamVars, brakeVars, appVars>>

\* "stream end may well happen during xine_play (seek close to end)", so
\* "delay that message a bit".
Delay(s) ==
    /\ At(s, "delay")
    /\ IF running[s] /\ over[s]
       THEN Unlock(s) /\ Go(s, "delay_wait")
       ELSE Go(s, "again") /\ UNCHANGED lock
    /\ UNCHANGED <<created, queueVars, countVars, pending, running, thread, left, over, non_user,
                   demuxers_running, streamVars, brakeVars, appVars>>

Again(s) ==
    /\ At(s, "again")
    /\ IF Loops(s)
       THEN Go(s, "chunk") /\ UNCHANGED <<running, non_user>>
       ELSE /\ Go(s, "exit")
            /\ non_user' = [non_user EXCEPT ![s] = running[s]]
            /\ running' = [running EXCEPT ![s] = FALSE]
    /\ UNCHANGED <<created, queueVars, countVars, lock, pending, thread, left, over, demuxers_running,
                   streamVars, brakeVars, appVars>>

\* Negative control: every side stream ends the stream.
LastSide_Any(n) == TRUE

LastSide(n) == n = 0

\* END pairs that are announced, or not counted yet.
EndsUnderWay ==
    \/ Queued("end")
    \/ \E t \in Threads : job[t] = "end" /\ pc[t] \in {"alloc_video", "alloc_audio", "put_video", "put_audio"}

\* "do stream end stuff only if this is the last side stream."
LoopExit(s) ==
    /\ At(s, "exit")
    /\ counter = Nobody
    /\ Punctual => \A r \in Sides : Counted(r)
    /\ demuxers_running' = demuxers_running - 1
    /\ IF LastSide(demuxers_running - 1)
       THEN /\ target' = [target EXCEPT ![s] = Goal(finisheds)]
            /\ SendPair(s, "end", "ended")
            /\ Mix("end", EndsUnderWay)
            /\ UNCHANGED lock
       ELSE Go(s, "off") /\ Unlock(s) /\ UNCHANGED <<target, mixed>>
    /\ UNCHANGED <<created, queueVars, counter, headers, finisheds, asleep, pending, running, thread,
                   left, over, non_user, streamVars, brakeVars, appVars>>

Ended(s) ==
    /\ At(s, "ended")
    /\ Unlock(s)
    /\ Go(s, "end_wait")
    /\ UNCHANGED <<created, queueVars, countVars, pending, running, thread, left, over, non_user,
                   demuxers_running, streamVars, brakeVars, appVars>>

\* _x_handle_stream_end, with XINE_EVENT_UI_PLAYBACK_FINISHED.
StreamEnd(s) ==
    /\ At(s, "finished")
    /\ status' = "stop"
    /\ finished_naturally' = (finished_naturally \/ non_user[s])
    /\ Go(s, "off")
    /\ UNCHANGED <<created, queueVars, countVars, demuxVars, gapless_switch, brakeVars, appVars>>

DemuxStep(s) ==
    LoopStart(s) \/ Chunk(s) \/ SendData(s) \/ LetIn(s) \/ Drain(s) \/ Delay(s) \/ Again(s)
        \/ EndWait(s) \/ Ended(s) \/ StreamEnd(s)

-----------------------------------------------------------------------------
(* The decoder loops. *)

Take(f) ==
    /\ hand[f] = NoItem /\ fifo[f] # <<>>
    /\ hand' = [hand EXCEPT ![f] = Head(fifo[f])]
    /\ fifo' = [fifo EXCEPT ![f] = Tail(@)]
    /\ UNCHANGED <<bufs, pair, countVars>>

Done(f) == hand' = [hand EXCEPT ![f] = NoItem]

Decode(f) ==
    /\ hand[f].kind \in {"data", "reset", "nop"}
    /\ Done(f)
    /\ UNCHANGED <<fifo, bufs, pair, countVars>>

Other(f) == IF f = Video THEN Audio ELSE Video

\* Negative control: the first decoder of a pair wakes, not the second.
PairComplete_First(f) == headers[f] + 1 > headers[Other(f)]

\* "avoid useless wakes on an incomplete pair"
PairComplete(f) == Other(f) \notin created \/ headers[f] + 1 <= headers[Other(f)]

HeadersSeen(f) ==
    /\ hand[f].kind = "headers"
    /\ counter = Nobody
    /\ headers' = [headers EXCEPT ![f] = @ + 1]
    /\ asleep' = IF PairComplete(f) THEN {} ELSE asleep
    /\ Done(f)
    /\ UNCHANGED <<fifo, bufs, pair, counter, finisheds, target>>

EndSeen(f) ==
    LET n == finisheds[f] + 1 IN
    /\ hand[f].kind = "end"
    /\ counter = Nobody
    /\ finisheds' = [finisheds EXCEPT ![f] = n]
    /\ IF Other(f) \in created /\ n > finisheds[Other(f)]
       THEN /\ asleep' = asleep \cup {f}
            /\ hand' = [hand EXCEPT ![f] = Item("barrier", hand[f].by)]
       ELSE /\ asleep' = IF Other(f) \notin created \/ n = finisheds[Other(f)] THEN {} ELSE asleep
            /\ Done(f)
    /\ UNCHANGED <<fifo, bufs, pair, counter, headers, target>>

\* "wait for video (audio) to reach this marker"
Barrier(f) ==
    /\ hand[f].kind = "barrier" /\ f \notin asleep
    /\ counter = Nobody
    /\ IF finisheds[f] > finisheds[Other(f)]
       THEN asleep' = asleep \cup {f} /\ UNCHANGED hand
       ELSE Done(f) /\ UNCHANGED asleep
    /\ UNCHANGED <<fifo, bufs, pair, counter, headers, finisheds, target>>

DecoderStep(f) ==
    /\ f \in created
    /\ Take(f) \/ Decode(f) \/ HeadersSeen(f) \/ EndSeen(f) \/ Barrier(f)
    /\ UNCHANGED <<created, callVars, demuxVars, streamVars, brakeVars, appVars>>

-----------------------------------------------------------------------------
(* The application: xine_stop, xine_open and xine_play, under frontend_lock. *)

Request == requests < MaxRequests /\ requests' = requests + 1

\* xine_set_param (XINE_PARAM_GAPLESS_SWITCH)
SetGapless ==
    /\ At(App, "idle") /\ Request /\ ~gapless_switch
    /\ gapless_switch' = TRUE
    /\ UNCHANGED <<created, queueVars, countVars, callVars, demuxVars, status, finished_naturally,
                   brakeVars, side, seeked>>

\* stop_internal; xine_open goes on with new headers.
StopBegin ==
    /\ At(App, "idle") /\ Request
    /\ \E then \in {"idle", "open"} :
        IF status = "play"
        THEN /\ status' = "stop"
             /\ pc' = [pc EXCEPT ![App] = "stop_side"]
             /\ back' = [back EXCEPT ![App] = <<then>>]
             /\ UNCHANGED <<job, mixed>>
        ELSE /\ pc' = [pc EXCEPT ![App] = "alloc_video"]
             /\ job' = [job EXCEPT ![App] = "end"]
             /\ back' = [back EXCEPT ![App] = <<"stop_side", then>>]
             /\ Mix("end", EndsUnderWay)
             /\ UNCHANGED status
    /\ side' = 1
    /\ UNCHANGED <<created, queueVars, countVars, demuxVars, finished_naturally, gapless_switch,
                   brakeVars, seeked>>

\* _x_action_raise
Hint(n) == n + 1

\* _x_demux_stop_thread, for each side stream with a thread.
StopSide ==
  /\ UNCHANGED <<created, queueVars, countVars, left, over, non_user, demuxers_running, streamVars,
                 brakeVars, seeked, requests>>
  /\
    \/ /\ At(App, "stop_side")
       /\ \/ side > NumSides /\ Return(App) /\ UNCHANGED <<side, pending>>
          \/ /\ side <= NumSides /\ ~thread[side]
             /\ side' = side + 1
             /\ UNCHANGED <<callVars, pending>>
          \/ /\ side <= NumSides /\ thread[side]
             /\ pending' = [pending EXCEPT ![side] = Hint(@)]
             /\ Go(App, "stop_lock")
             /\ UNCHANGED side
       /\ UNCHANGED <<lock, running, thread>>
    \/ /\ At(App, "stop_lock")
       /\ lock[side] = Nobody
       /\ lock' = [lock EXCEPT ![side] = App]
       /\ running' = [running EXCEPT ![side] = FALSE]
       /\ Lower(side)
       /\ pc' = [pc EXCEPT ![App] = "flush"]
       /\ back' = [back EXCEPT ![App] = <<"stop_unlock">> \o @]
       /\ UNCHANGED <<job, side, thread>>
    \/ /\ At(App, "stop_unlock")
       /\ Unlock(side)
       /\ Go(App, "stop_join")
       /\ UNCHANGED <<side, pending, running, thread>>
    \/ /\ At(App, "stop_join")
       /\ At(side, "off")
       /\ thread' = [thread EXCEPT ![side] = FALSE]
       /\ side' = side + 1
       /\ Go(App, "stop_side")
       /\ UNCHANGED <<lock, pending, running>>

\* The end of open_internal: "send and decode headers".
Open ==
    /\ \/ /\ At(App, "open")
          /\ HeadersDone(App, "opened")
          /\ UNCHANGED status
       \/ /\ At(App, "opened")
          /\ status' = "stop"
          /\ Go(App, "idle")
          /\ UNCHANGED pending
    /\ UNCHANGED <<created, queueVars, countVars, lock, running, thread, left, over, non_user,
                   demuxers_running, finished_naturally, gapless_switch, brakeVars, appVars>>

\* play_internal.  Only with input that seeks fast, or with several sides,
\* the fifos are cleared before the demuxers are suspended.
PlayBegin ==
    /\ At(App, "idle") /\ Request /\ status # "idle"
    /\ finished_naturally' \in {finished_naturally, FALSE}
    /\ pending' = [s \in Sides |-> Hint(pending[s])]
    /\ \E early \in BOOLEAN :
        Go(App, IF ~gapless_switch /\ ~finished_naturally' /\ early THEN "play_video" ELSE "play_lock")
    /\ side' = 1
    /\ seeked' = FALSE
    /\ UNCHANGED <<created, queueVars, countVars, lock, running, thread, left, over, non_user,
                   demuxers_running, status, gapless_switch, brakeVars>>

PlayClear ==
    /\ \/ At(App, "play_video") /\ Clear(Video) /\ Go(App, "play_audio")
       \/ At(App, "play_audio") /\ Clear(Audio) /\ Go(App, "play_lock")
    /\ UNCHANGED <<created, hand, bufs, pair, countVars, demuxVars, streamVars, brakeVars, appVars>>

\* Suspend all demuxers, then seek them all.
Seek ==
    /\ \/ /\ At(App, "play_lock")
          /\ lock[side] = Nobody
          /\ lock' = [lock EXCEPT ![side] = App]
          /\ IF side < NumSides THEN side' = side + 1 /\ UNCHANGED callVars
                                ELSE side' = 1 /\ Go(App, "seek")
          /\ UNCHANGED <<left, seeked>>
       \/ /\ At(App, "seek") /\ side <= NumSides
          /\ \E n \in 0 .. MaxChunks :
                left' = [left EXCEPT ![side] = n] /\ seeked' = (seeked \/ n > 0)
          /\ side' = side + 1
          /\ IF running[side]
             THEN /\ pc' = [pc EXCEPT ![App] = "flush"]
                  /\ back' = [back EXCEPT ![App] = <<"seek">>]
                  /\ UNCHANGED job
             ELSE UNCHANGED callVars
          /\ UNCHANGED lock
       \/ /\ At(App, "seek") /\ side > NumSides
          /\ side' = 1
          /\ Go(App, "go_on")
          /\ UNCHANGED <<lock, left, seeked>>
    /\ UNCHANGED <<created, queueVars, countVars, pending, running, thread, over, non_user,
                   demuxers_running, streamVars, brakeVars, requests>>

\* Negative control: a thread that has ended, but not been joined, will do.
NeedsThread_Unmade(s) == ~thread[s]

NeedsThread(s) == ~running[s]

\* "now resume demuxer thread if it is running already"; else
\* _x_demux_start_thread, which joins the thread that ran before.
GoOn ==
    /\ \/ /\ At(App, "go_on") /\ side <= NumSides
          /\ Unlock(side) /\ Lower(side)
          /\ IF NeedsThread(side) /\ left[side] > 0
             THEN Go(App, "start") /\ UNCHANGED side
             ELSE side' = side + 1 /\ UNCHANGED callVars
          /\ UNCHANGED <<running, thread>>
       \/ /\ At(App, "start")
          /\ lock[side] = Nobody
          /\ At(side, "off")
          /\ running' = [running EXCEPT ![side] = TRUE]
          /\ thread' = [thread EXCEPT ![side] = TRUE]
          /\ pc' = [pc EXCEPT ![App] = "go_on", ![side] = "start"]
          /\ side' = side + 1
          /\ UNCHANGED <<lock, pending, job, back>>
    /\ UNCHANGED <<created, queueVars, countVars, left, over, non_user, demuxers_running, streamVars,
                   brakeVars, seeked, requests>>

\* status and finished_naturally come after the demuxers go on.  Then the call
\* waits up to 10s for the first frame, and ends a gapless switch.
Playing ==
    /\ \/ /\ At(App, "go_on") /\ side > NumSides
          /\ IF seeked THEN status' = "play" /\ finished_naturally' = FALSE
                       ELSE UNCHANGED <<status, finished_naturally>>
          /\ Go(App, "played")
          /\ UNCHANGED gapless_switch
       \/ /\ At(App, "played")
          /\ gapless_switch' = FALSE
          /\ Go(App, "idle")
          /\ UNCHANGED <<status, finished_naturally>>
    /\ UNCHANGED <<created, queueVars, countVars, demuxVars, brakeVars, appVars>>

AppStep == StopSide \/ Open \/ PlayClear \/ Seek \/ GoOn \/ Playing

-----------------------------------------------------------------------------
Init ==
    /\ created \in SUBSET Fifos \ {{}}
    /\ fifo = [f \in Fifos |-> <<>>]
    /\ hand = [f \in Fifos |-> NoItem]
    /\ bufs = [t \in Threads |-> {}]
    /\ pair = Nobody
    /\ counter = Nobody
    /\ headers = [f \in Fifos |-> 0]
    /\ finisheds = [f \in Fifos |-> 0]
    /\ demuxers_running = 0
    /\ target = [t \in Threads |-> [f \in Fifos |-> 0]]
    /\ asleep = {}
    /\ pc = [t \in Threads |-> IF t \in Sides THEN "off" ELSE "idle"]
    /\ job = [t \in Threads |-> "nop"]
    /\ back = [t \in Threads |-> <<>>]
    /\ lock = [s \in Sides |-> Nobody]
    /\ pending = [s \in Sides |-> 0]
    /\ running = [s \in Sides |-> FALSE]
    /\ thread = [s \in Sides |-> FALSE]
    /\ left = [s \in Sides |-> 0]
    /\ over = [s \in Sides |-> TRUE]
    /\ non_user = [s \in Sides |-> FALSE]
    /\ status = "stop"
    /\ finished_naturally = FALSE
    /\ gapless_switch = FALSE
    /\ emergency_brake = FALSE
    /\ side = 1
    /\ seeked = FALSE
    /\ requests = 0
    /\ braked = FALSE
    /\ mixed = {}

GoesOn(t) ==
    \/ PairStep(t)
    \/ t \in Sides /\ LoopExit(t)
    \/ /\ \/ Sync(t) \/ Flush(t)
          \/ t \in Sides /\ DemuxStep(t)
          \/ t = App /\ AppStep
       /\ UNCHANGED mixed

Asks ==
    \/ StopBegin
    \/ (SetGapless \/ PlayBegin \/ \E s \in Sides : Jump(s)) /\ UNCHANGED mixed

\* All is quiet; otherwise a state without a step is a cyclic wait.
Rest ==
    /\ \A t \in Threads : pc[t] \in {"idle", "off"}
    /\ \A f \in Fifos : hand[f] = NoItem /\ fifo[f] = <<>>
    /\ UNCHANGED vars

Next ==
    \/ \E t \in Threads : GoesOn(t) \/ (Emergency(t) /\ UNCHANGED mixed)
    \/ \E f \in Fifos : DecoderStep(f) /\ UNCHANGED mixed
    \/ Asks
    \/ Rest

Spec == Init /\ [][Next]_vars

-----------------------------------------------------------------------------
Kinds == {"data", "reset", "nop", "headers", "end", "barrier", "none"}

TypeOK ==
    /\ created \subseteq Fifos
    /\ \A f \in Fifos :
        /\ \A i \in 1 .. Len(fifo[f]) : fifo[f][i].kind \in Kinds \ {"barrier", "none"}
        /\ hand[f].kind \in Kinds
        /\ headers[f] \in Nat /\ finisheds[f] \in Nat
        /\ f \in created => Free(f) \in 0 .. Pool
    /\ pair \in Threads \cup {Nobody} /\ counter \in Threads \cup {Nobody}
    /\ asleep \subseteq Threads \cup Fifos
    /\ demuxers_running \in 0 .. NumSides
    /\ pending \in [Sides -> Nat]
    /\ status \in {"idle", "stop", "play"}

\* Buffers of these kinds that t has put and not every decoder has passed.
Unseen(t, kinds) ==
    \E f \in Fifos :
        \/ hand[f].by = t /\ hand[f].kind \in kinds
        \/ \E i \in 1 .. Len(fifo[f]) : fifo[f][i].by = t /\ fifo[f][i].kind \in kinds

\* "sync with decoder fifos, making sure everything gets processed": when
\* _x_demux_control_headers_done returns, both decoders have passed what its
\* caller sent before, and all data of the demuxers that the caller holds back,
\* as long as nobody took the emergency exit.  Else "we flush too early (before
\* the old data has left decoders)".  A caller counts from the counts it finds
\* (headers + 1): when another thread's pair is on its way then, that pair ends
\* this wait, so that runs in which two were under way at a time are left out.
Synced ==
    ~braked /\ "headers" \notin mixed => \A t \in Threads : pc[t] \in {"flushed", "opened"} =>
        /\ ~Unseen(t, {"data", "reset", "headers"})
        /\ \A s \in Sides : lock[s] = t => ~Unseen(s, {"data"})

\* The stream is declared finished when both decoders are through with it, as
\* long as nobody took the emergency exit, and no END of an earlier xine_stop,
\* which nobody waits for, was still queued when this one was counted for.
FinishedIsPlayed ==
    ~braked /\ "end" \notin mixed => \A s \in Sides : At(s, "finished") => ~Unseen(s, {"data", "end"})

\* "do stream end stuff only if this is the last side stream."
LastSideEnds ==
    [][\A s \in Sides : At(s, "exit") /\ pc'[s] # "exit" /\ pc'[s] # "off" =>
        \A r \in Sides \ {s} : ~running[r]]_vars

\* The control buffers a decoder has not passed yet.
Control(f) ==
    LET at == IF hand[f].kind = "barrier" THEN Item("end", hand[f].by) ELSE hand[f]
    IN  Without(<<at>> \o fifo[f], {"data", "none"})

\* demux.pair: both decoders meet the control buffers in the same order.
PairsInOrder ==
    /\ TypeOK
    /\ pair = Nobody /\ created = Fifos =>
        IsSuffix(Control(Video), Control(Audio)) \/ IsSuffix(Control(Audio), Control(Video))

\* Nobody sleeps on a count that is reached, unless somebody took the
\* emergency exit, or two pairs of a kind were under way at a time: then the
\* targets of a later wait may be unequal, and the "incomplete pair" is all it
\* waits for.  (It looks again every second.)
WaitersTold ==
    ~braked /\ mixed = {} => \A w \in asleep : IF w \in Fifos THEN finisheds[w] > finisheds[Other(w)] ELSE ~Reached(w)

\* When xine_play has returned, a stream with XINE_STATUS_PLAY has a demuxer
\* that will end it some time (unless the emergency exit made that one quit).
PlayHasDemuxer ==
    ~braked /\ At(App, "idle") /\ status = "play" => \E s \in Sides : ~At(s, "off")
=============================================================================
