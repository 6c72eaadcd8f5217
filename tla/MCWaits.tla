------------------------------- MODULE MCWaits -------------------------------
(***************************************************************************)
(* Threads that wait for each other, in one run: both decoders at a         *)
(* discontinuity (Discontinuity), those who flush or want the driver and    *)
(* the audio loop (AudioLoop), those who flush and the render thread        *)
(* (VideoFrames).  They have no state in common, so a behaviour is one of   *)
(* one of them.                                                             *)
(***************************************************************************)
EXTENDS Discontinuity

CONSTANTS NumBuffers, Clients

VARIABLES part

\* AudioLoop
VARIABLES out, free, hand, use_wake_time, wake_now, discard, speed, rp_speed,
          open, mutex, intr_num, lpc, caller, req, dpc

\* VideoFrames
VARIABLES lock, first, frames, queue, reserved, flush_extra, discards, ready, shown,
          filler, still, paused, rpc, mine, fresh, decoder, client, discarding

aoVars == <<out, free, hand, use_wake_time, wake_now, discard, speed, rp_speed,
            open, mutex, intr_num, lpc, caller, req, dpc>>
voVars == <<lock, first, frames, queue, reserved, flush_extra, discards, ready, shown,
            filler, still, paused, rpc, mine, fresh, decoder, client, discarding>>

Ao == INSTANCE AudioLoop WITH
          Setters <- {1}, Flushers <- {2}, Loop <- 4, Free <- 0, pc <- caller

Vo == INSTANCE VideoFrames WITH
          Frames <- {1, 2}, NoFrame <- 0, Reserve <- 1, MaxRefs <- 1,
          free <- frames, hand <- shown, discard <- discards, dpc <- decoder, pc <- client

MCInit ==
    /\ part \in {"discontinuity", "audio", "video"}
    /\ Init /\ (part = "discontinuity" \/ have = Sides)
    /\ Ao!Init
    /\ Vo!Init

\* Bound: only client 1 of the video port discards, client 2 just flushes.
MCNext ==
    \/ part = "discontinuity" /\ Next /\ UNCHANGED <<part, aoVars, voVars>>
    \/ part = "audio" /\ Ao!Next /\ UNCHANGED <<part, vars, voVars>>
    \/ part = "video" /\ Vo!Next /\ discarding' \subseteq {1} /\ UNCHANGED <<part, vars, aoVars>>

\* The fairness of each part, where that part is at work.
MCFairness ==
    /\ \A s \in Sides :
        /\ WF_vars(part = "discontinuity" /\ Wake(s))
        /\ WF_vars(part = "discontinuity" /\ Meet(s))
    /\ WF_aoVars(part = "audio" /\ Ao!LoopStep)
    /\ \A t \in Ao!Callers : WF_aoVars(part = "audio" /\ Ao!GoOn(t))
    /\ WF_aoVars(part = "audio" /\ Ao!Append)
    /\ WF_voVars(part = "video" /\ Vo!Render)
    /\ \A c \in Clients : WF_voVars(part = "video" /\ Vo!Wake(c))

MCSpec == MCInit /\ [][MCNext]_<<part, vars, aoVars, voVars>> /\ MCFairness

-----------------------------------------------------------------------------
\* ao_out_fifo_manual_flush and _loop_flush come back (AudioLoop).
FlushReturns == Ao!FlushReturns

\* Who wants the audio driver gets it (AudioLoop).
DriverServed == Ao!DriverServed

\* vo_wait_flush comes back (VideoFrames).
VideoFlushReturns == Vo!VideoFlushReturns
=============================================================================
