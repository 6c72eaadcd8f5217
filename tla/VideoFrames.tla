----------------------------- MODULE VideoFrames -----------------------------
(***************************************************************************)
(* Frames of a video port (video_out.c): a decoder gets free frames and     *)
(* queues them for display, the render thread moves them to a list of its   *)
(* own, shows, drops or keeps them, and clients flush.  free_queue.mutex,   *)
(* display_queue.mutex, grab.lock and the mutex of a frame are held for     *)
(* single steps only, so each step is an action.                            *)
(* Time is left to chance: a frame is early, due or too old.  Left out:     *)
(* overlays, cropping, grab requests, the loop's end, the rewire emergency, *)
(* and that a port without clients stays open: vo_open sets discard_frames  *)
(* to 0 and does not happen while somebody flushes.                         *)
(***************************************************************************)
EXTENDS Integers, Sequences, FiniteSets, FiniteSetsExt, SequencesExt

CONSTANTS Frames, NoFrame,
          Clients,   \* threads that flush and discard
          Reserve,   \* free frames that are kept back in pause
          MaxRefs    \* bound: frames the decoder refers to when it gets one more

VARIABLES
    lock,         \* lock_counter of a frame
    first,        \* frames to show with is_first > 0
    free,         \* free_queue
    queue,        \* display_queue
    reserved,     \* free_queue.locked_for_read
    flush_extra, discard,
    ready,        \* rp.ready_*
    hand,         \* the frame the render thread shows
    filler,       \* rp.last_flushed
    still,        \* grab.last_frame
    paused,       \* trigger_drawing.speed
    rpc,          \* the render thread
    mine,         \* the frames the decoder refers to
    dpc,          \* the decoder: "get", "draw" or, inside vo_frame_draw, "append"
    fresh,        \* the frame it draws next
    pc,           \* of a client
    discarding    \* clients between VO_PROP_DISCARD_FRAMES on and off

freeVars == <<lock, free>>
queueVars == <<queue, flush_extra, discard>>
renderVars == <<ready, hand, filler, still, rpc, reserved>>
decoderVars == <<mine, fresh, dpc>>
clientVars == <<paused, pc, discarding>>
vars == <<freeVars, first, queueVars, renderVars, decoderVars, clientVars>>

Waiters == {c \in Clients : pc[c] # "run"}

\* References dropped, as a bag of frames; those without any left become free.
Dropped(n) ==
    /\ lock' = [f \in Frames |-> lock[f] - n[f]]
    /\ free' = free \cup {f \in Frames : n[f] > 0 /\ lock[f] <= n[f]}

Once(f) == [g \in Frames |-> IF g = f THEN 1 ELSE 0]
Twice(S) == [g \in Frames |-> IF g \in S THEN 2 ELSE 0]

-----------------------------------------------------------------------------
\* Free frames are all alike, so any of them stands for the one that fits.
Unused == Min(free)

\* vo_get_frame: "prevent decoder thread from allocating too many new frames".
GetFrame ==
    /\ dpc = "get" /\ Cardinality(mine) < MaxRefs
    /\ Cardinality(free) > reserved
    /\ LET f == Unused IN
        /\ free' = free \ {f}
        /\ lock' = [lock EXCEPT ![f] = 1]
        /\ mine' = mine \cup {f}
        /\ fresh' = f
    /\ dpc' = "draw"
    /\ UNCHANGED <<first, queueVars, renderVars, clientVars>>

\* vo_frame_draw looks at discard_frames without a lock,
Draw ==
    /\ dpc = "draw"
    /\ IF discard > 0
       THEN dpc' = "get" /\ fresh' = NoFrame
       ELSE dpc' = "append" /\ UNCHANGED fresh
    /\ UNCHANGED <<freeVars, first, queueVars, renderVars, mine, clientVars>>

\* marks the first frame after a seek, references the frame twice
\* (vo_frame_inc2_lock) and queues it (vo_display_reref_append).
RerefAppend ==
    /\ dpc = "append"
    /\ lock' = [lock EXCEPT ![fresh] = @ + 2]
    /\ queue' = Append(queue, fresh)
    /\ first' \in {first, first \cup {fresh}}
    /\ fresh' = NoFrame
    /\ dpc' = "get"
    /\ UNCHANGED <<free, flush_extra, discard, renderVars, mine, clientVars>>

\* vo_frame_dec_lock by the decoder, which may keep a reference frame.
FreeFrame(f) ==
    /\ f \in mine \ {fresh}
    /\ Dropped(Once(f))
    /\ mine' = mine \ {f}
    /\ UNCHANGED <<first, queueVars, renderVars, dpc, fresh, clientVars>>

-----------------------------------------------------------------------------
\* Negative control: only what is moved now is counted.
Extra_Moved(list, more) == Len(more)

\* flush_extra: ready frames a flush has to wait for, the one that is shown
\* next included until it is.
Extra(list, more) == Len(list) + Len(more)

\* vo_ready_refill, with the list it starts from.
Refill(list) ==
    /\ ready' = list \o queue
    /\ flush_extra' = Extra(list, queue)
    /\ queue' = <<>>

\* ADD_READY_FRAMES
AddReadyFrames(list) ==
    IF Len(list) = 0 \/ (Len(list) < 2 /\ queue # <<>>)
    THEN Refill(list)
    ELSE ready' = list /\ UNCHANGED <<flush_extra, queue>>

\* vo_ready_get_all; need_flush_signal is set when the next step is to tell.
GetAll(tell, goon) ==
    /\ ready' = <<>> /\ queue' = <<>>
    /\ flush_extra' = 0
    /\ rpc' = IF Waiters # {} THEN tell ELSE goon

\* pthread_cond_broadcast (&this->display_queue.done_flushing)
Broadcast == pc' = [c \in Clients |-> IF pc[c] = "asleep" THEN "woken" ELSE pc[c]]

\* What a flush frees of the ready frames and the old filler.
Replaced(all, keep) == (Range(all) \cup ({filler} \ {NoFrame})) \ keep

\* The last frame of a list that is in the set S, or f.
LastIn(list, S, f) ==
    LET places == {i \in DOMAIN list : list[i] \in S}
    IN  IF places = {} THEN f ELSE list[Max(places)]

\* next_frame with discard_frames: "drop everything now, and return latest
\* first frame if any", and keep the latest other frame as a filler.
NextFlush ==
    /\ rpc = "next" /\ discard > 0
    /\ LET all    == ready \o queue
           latest == LastIn(all, first, NoFrame)
           other  == LastIn(all, Frames \ first, filler)
           gone   == Twice(Replaced(all, {latest, other}))
           backup == other # NoFrame /\ still = NoFrame
       IN  /\ GetAll("tell", IF latest = NoFrame THEN "relax" ELSE "show")
           /\ filler' = other
           /\ still' = IF backup THEN other ELSE still
           /\ lock' = [f \in Frames |-> lock[f] - gone[f] + (IF backup /\ f = other THEN 1 ELSE 0)]
           /\ free' = free \cup {f \in Frames : gone[f] > 0 /\ lock[f] <= 2}
           /\ hand' = latest
           /\ first' = first \cap {latest}
    /\ UNCHANGED <<discard, reserved, decoderVars, clientVars>>

\* "Make sure clients dont miss this."
NextTell ==
    /\ rpc = "tell"
    /\ Broadcast
    /\ rpc' = IF hand = NoFrame THEN "relax" ELSE "show"
    /\ UNCHANGED <<freeVars, first, queueVars, ready, hand, filler, still, reserved, decoderVars,
                   paused, discarding>>

NextRefill ==
    /\ rpc = "next" /\ discard = 0
    /\ AddReadyFrames(ready)
    /\ rpc' = "scan"
    /\ UNCHANGED <<freeVars, first, discard, hand, filler, still, reserved, decoderVars,
                   clientVars>>

\* A first frame waits for the decoder to let it go, a few rounds at most, and
\* the filler may be shown in between.
Poll ==
    /\ rpc = "scan" /\ ready # <<>> /\ Head(ready) \in first /\ lock[Head(ready)] > 2
    /\ \/ filler # NoFrame /\ hand' = filler /\ filler' = NoFrame /\ rpc' = "show"
       \/ rpc' = "idle" /\ UNCHANGED <<hand, filler>>
    /\ UNCHANGED <<freeVars, first, queueVars, ready, still, reserved, decoderVars, clientVars>>

\* Too early, or no frame.
NoneDue ==
    /\ rpc = "scan"
    /\ ready # <<>> => Head(ready) \notin first
    /\ rpc' = "idle"
    /\ UNCHANGED <<freeVars, first, queueVars, ready, hand, filler, still, reserved, decoderVars,
                   clientVars>>

\* The references a frame loses that is thrown away: all, or the one for
\* rendering when it becomes the still frame, whose predecessor loses its own.
Thrown(f, backup) ==
    [g \in Frames |-> IF backup THEN (IF g = f THEN 1 ELSE 0) + (IF g = still THEN 1 ELSE 0)
                                ELSE (IF g = f THEN 2 ELSE 0)]

\* "throwing away image because it's too old"; "last frame? back it up".
TooOld ==
    /\ rpc = "scan" /\ ready # <<>> /\ Head(ready) \notin first
    /\ AddReadyFrames(Tail(ready))
    /\ Dropped(Thrown(Head(ready), ready' = <<>>))
    /\ still' = IF ready' = <<>> THEN Head(ready) ELSE still
    /\ UNCHANGED <<first, discard, hand, filler, reserved, rpc, decoderVars, clientVars>>

\* "OK, show this one"; "we dont need that filler anymore".
Due ==
    /\ rpc = "scan" /\ ready # <<>>
    /\ hand' = Head(ready)
    /\ ready' = Tail(ready)
    /\ Dropped(Twice({filler} \ {NoFrame}))
    /\ filler' = NoFrame
    /\ rpc' = "show"
    /\ UNCHANGED <<first, queueVars, still, reserved, decoderVars, clientVars>>

\* overlay_and_display_frame: the driver gives the frame back, or it is freed.
Show ==
    /\ rpc \in {"show", "step", "clone", "pause_clone"}
    /\ Dropped(Once(hand))
    /\ first' = first \ {hand}
    /\ IF rpc \in {"show", "step"}
       THEN rpc' = (IF rpc = "show" THEN "grab" ELSE "step_grab") /\ UNCHANGED hand
       ELSE rpc' = (IF rpc = "clone" THEN "relax" ELSE "pause_wait") /\ hand' = NoFrame
    /\ UNCHANGED <<queueVars, ready, filler, still, reserved, decoderVars, clientVars>>

\* vo_grab_current_frame
Grab ==
    /\ rpc \in {"grab", "step_grab"}
    /\ IF still = NoFrame THEN UNCHANGED freeVars ELSE Dropped(Once(still))
    /\ still' = hand
    /\ hand' = NoFrame
    /\ rpc' = IF rpc = "grab" THEN "relax" ELSE "pause_wait"
    /\ UNCHANGED <<first, queueVars, ready, filler, reserved, decoderVars, clientVars>>

\* Negative control: a frame the decoder refers to is taken.
Whistled_Any(list) == {i \in DOMAIN list : list[i] # still}

\* vo_ready_get_dupl: "one that is not a DR1 reference frame".
Whistled(list) == {i \in DOMAIN list : lock[list[i]] <= 2 /\ list[i] # still}

CloneFrom(f) ==
    /\ lock' = [lock EXCEPT ![f] = 1]
    /\ first' = first \ {f}
    /\ hand' = f
    /\ rpc' = IF rpc = "idle" THEN "clone" ELSE "pause_clone"

\* duplicate_frame: a still frame, from a free frame or a ready one.
Duplicate ==
    /\ rpc \in {"idle", "paused"} /\ still # NoFrame
    /\ \/ /\ free # {}
          /\ CloneFrom(Unused)
          /\ free' = free \ {Unused}
          /\ UNCHANGED <<ready, queue, flush_extra>>
       \/ LET list == ready \o queue IN
            /\ free = {}
            /\ flush_extra' = Extra(ready, queue)
            /\ queue' = <<>>
            /\ UNCHANGED free
            /\ IF Whistled(list) = {}
               THEN /\ ready' = list
                    /\ rpc' = IF rpc = "idle" THEN "relax" ELSE "pause_wait"
                    /\ UNCHANGED <<lock, first, hand>>
               ELSE \E i \in Whistled(list) :
                    CloneFrom(list[i]) /\ ready' = RemoveAt(list, i)
    /\ UNCHANGED <<discard, filler, still, reserved, decoderVars, clientVars>>

\* "now the time critical stuff is done"
Relax ==
    /\ rpc \in {"idle", "relax"}
    /\ AddReadyFrames(ready)
    /\ rpc' = "sleep"
    /\ UNCHANGED <<freeVars, first, discard, hand, filler, still, reserved, decoderVars,
                   clientVars>>

\* "wait until it's time to display next frame", at most a moment.
Sleep ==
    /\ rpc = "sleep"
    /\ \/ rpc' = "next" /\ UNCHANGED reserved
       \/ /\ paused /\ (discard > 0 => ready = <<>> /\ queue = <<>>)
          /\ rpc' = "pause" /\ reserved' = Reserve
    /\ UNCHANGED <<freeVars, first, queueVars, ready, hand, filler, still, decoderVars, clientVars>>

\* paused_loop: refill, "set last_frame to play the same frame several times",
Pause ==
    /\ rpc = "pause"
    /\ AddReadyFrames(ready)
    /\ LET backup == still = NoFrame /\ ready' # <<>>
       IN  /\ still' = IF backup THEN Head(ready') ELSE still
           /\ lock' = IF backup THEN [lock EXCEPT ![Head(ready')] = @ + 1] ELSE lock
    /\ rpc' = "paused"
    /\ UNCHANGED <<free, first, discard, hand, filler, reserved, decoderVars, clientVars>>

\* then a single step, a still frame (Duplicate) or neither,
Step ==
    /\ rpc = "paused"
    /\ \/ rpc' = "pause_wait" /\ UNCHANGED <<hand, ready>>
       \/ ready # <<>> /\ rpc' = "step" /\ hand' = Head(ready) /\ ready' = Tail(ready)
    /\ UNCHANGED <<freeVars, first, queueVars, filler, still, reserved, decoderVars, clientVars>>

\* Negative control: a paused loop does not flush.
PauseFlushes_Not == FALSE

PauseFlushes == discard > 0

\* and "wait for 1/25s or wakeup", then "flush when requested".
PauseWait ==
    /\ rpc = "pause_wait"
    /\ IF PauseFlushes
       THEN GetAll("pause_tell", IF paused THEN "pause" ELSE "unpause")
            /\ Dropped(Twice(Range(ready \o queue)))
            /\ first' = {}
       ELSE /\ rpc' = IF paused THEN "pause" ELSE "unpause"
            /\ UNCHANGED <<freeVars, first, queue, ready, flush_extra>>
    /\ UNCHANGED <<discard, hand, filler, still, reserved, decoderVars, clientVars>>

PauseTell ==
    /\ rpc = "pause_tell"
    /\ Broadcast
    /\ rpc' = IF paused THEN "pause" ELSE "unpause"
    /\ UNCHANGED <<freeVars, first, queueVars, ready, hand, filler, still, reserved, decoderVars,
                   paused, discarding>>

Unpause ==
    /\ rpc = "unpause"
    /\ reserved' = 0
    /\ rpc' = "next"
    /\ UNCHANGED <<freeVars, first, queueVars, ready, hand, filler, still, decoderVars, clientVars>>

\* video_out_loop
Render ==
    \/ NextFlush \/ NextTell \/ NextRefill
    \/ Poll \/ NoneDue \/ TooOld \/ Due
    \/ Show \/ Grab \/ Duplicate \/ Relax \/ Sleep
    \/ Pause \/ Step \/ PauseWait \/ PauseTell \/ Unpause

-----------------------------------------------------------------------------
\* vo_speed_change_cb
SpeedChange ==
    /\ paused' = ~paused
    /\ UNCHANGED <<freeVars, first, queueVars, renderVars, decoderVars, pc, discarding>>

\* What vo_wait_flush waits for.
Pending == flush_extra > 0 \/ queue # <<>>

DiscardOn(c) ==
    /\ pc[c] = "run" /\ c \notin discarding
    /\ discard' = discard + 1
    /\ discarding' = discarding \cup {c}
    /\ UNCHANGED <<freeVars, first, queue, flush_extra, renderVars, decoderVars, paused, pc>>

\* The last one makes "sure display queue is empty" before discard is lifted.
DiscardOff(c) ==
    /\ pc[c] = "run" /\ c \in discarding
    /\ discarding' = discarding \ {c}
    /\ IF discard = 1 /\ Pending
       THEN pc' = [pc EXCEPT ![c] = "asleep"] /\ UNCHANGED discard
       ELSE discard' = discard - 1 /\ UNCHANGED pc
    /\ UNCHANGED <<freeVars, first, queue, flush_extra, renderVars, decoderVars, paused>>

\* vo_flush up to the wait; without one it changes nothing.
Flush(c) ==
    /\ pc[c] = "run"
    /\ Pending
    /\ discard' = discard + 1
    /\ pc' = [pc EXCEPT ![c] = "asleep"]
    /\ UNCHANGED <<freeVars, first, queue, flush_extra, renderVars, decoderVars,
                   paused, discarding>>

\* vo_wait_flush after a broadcast, and the end of the flush.
Wake(c) ==
    /\ pc[c] = "woken"
    /\ IF Pending
       THEN pc' = [pc EXCEPT ![c] = "asleep"] /\ UNCHANGED discard
       ELSE pc' = [pc EXCEPT ![c] = "run"] /\ discard' = discard - 1
    /\ UNCHANGED <<freeVars, first, queue, flush_extra, renderVars, decoderVars,
                   paused, discarding>>

Init ==
    /\ lock = [f \in Frames |-> 0]
    /\ first = {}
    /\ free = Frames
    /\ queue = <<>> /\ ready = <<>>
    /\ reserved = 0 /\ flush_extra = 0 /\ discard = 0
    /\ hand = NoFrame /\ filler = NoFrame /\ still = NoFrame
    /\ paused = FALSE
    /\ rpc = "next"
    /\ mine = {} /\ fresh = NoFrame /\ dpc = "get"
    /\ pc = [c \in Clients |-> "run"]
    /\ discarding = {}

Decode == GetFrame \/ Draw \/ RerefAppend \/ \E f \in Frames : FreeFrame(f)

Request(c) == DiscardOn(c) \/ DiscardOff(c) \/ Flush(c)

Next ==
    \/ Render
    \/ Decode
    \/ SpeedChange
    \/ \E c \in Clients : Request(c) \/ Wake(c)

Spec == Init /\ [][Next]_vars

\* The render thread never blocks, and woken clients get the mutex.
Fairness ==
    /\ WF_vars(Render)
    /\ \A c \in Clients : WF_vars(Wake(c))

FairSpec == Spec /\ Fairness

-----------------------------------------------------------------------------
B2N(b) == IF b THEN 1 ELSE 0

\* "When queuing new frame, we add 2 refs. 1 for rendering, and 1 for still
\* frame backup": through queues, flush, filler, still frames and duplicates
\* the lock counter of a frame is what its holders count for, and exactly the
\* frames without holders are free; else frames get lost or are overwritten
\* while they are decoded from or shown.
LocksExact ==
    \A f \in Frames :
        /\ lock[f] = B2N(f \in mine) + B2N(f = still)
                     + 2 * B2N(f \in Range(queue) \cup Range(ready)) + 2 * B2N(f = filler)
                     + B2N(f = hand) * (CASE rpc \in {"grab", "step_grab", "clone", "pause_clone"} -> 1
                                          [] OTHER -> 2)
        /\ f \in free <=> lock[f] = 0

\* A flush lets its caller go when nothing that was queued is still to be
\* shown, not in the private list of the render thread nor in its hand,
\* except the first frame after a seek and the filler.
FlushedAway ==
    ~Pending => /\ ready = <<>>
                /\ rpc \in {"show", "step"} => hand \in first

\* A flush comes back, from a playing or a paused port, however long the
\* decoder and other clients go on.
VideoFlushReturns == \A c \in Clients : pc[c] # "run" ~> pc[c] = "run"
=============================================================================
