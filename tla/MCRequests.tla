----------------------------- MODULE MCRequests -----------------------------
(***************************************************************************)
(* What is asked for now and served later, in one run: speeds, by decoders  *)
(* under net_buf_ctrl and an application that stops and rewires             *)
(* (SpeedControl), the event queues of a stream (EventQueue), and the       *)
(* events of the overlay manager (Overlays).  They have no state in common, *)
(* so a behaviour is one of one of them.                                    *)
(***************************************************************************)
EXTENDS SpeedControl, TLC

CONSTANTS Queues, Doomed, Senders, Flushers, Reusable, MaxSent,
          Osds, Subtitles, NumSlots, NumObjects, MaxVpts

VARIABLES part

\* EventQueue
VARIABLES listened, time, stamp, events, running, lasttime, flush, refs, stage,
          ended, begun, flusher, visits, asleep, due, complete

\* Overlays
VARIABLES event, next, held, pictures, showing, own, owner, limit, step

evVars == <<listened, time, stamp, events, running, lasttime, flush, refs, stage,
            ended, begun, flusher, visits, asleep, due, complete>>
ovVars == <<event, next, held, pictures, showing, own, owner, limit, step>>

Ev == INSTANCE EventQueue WITH
          NoQueue <- None, clock <- time, at <- visits, pc <- flusher

Ov == INSTANCE Overlays WITH
          Decoders <- Subtitles, pc <- owner

\* None stands for no queue.
ASSUME EventAssumption ==
    /\ IsFiniteSet(Flushers) /\ None \notin Queues /\ Reusable \in Nat

ASSUME OverlayAssumption == NumSlots \in Nat /\ NumObjects \in Nat /\ MaxVpts \in Nat

MCInit ==
    /\ part \in {"speed", "events", "overlays"}
    /\ SpeedInit
    /\ Ev!Init /\ (part = "events" \/ listened = {})
    /\ Ov!Init

MCNext ==
    \/ part = "speed" /\ SpeedNext /\ UNCHANGED <<part, evVars, ovVars>>
    \/ part = "events" /\ Ev!Next /\ UNCHANGED <<part, allVars, ovVars>>
    \/ part = "overlays" /\ Ov!Next /\ UNCHANGED <<part, allVars, evVars>>

MCSpec == MCInit /\ [][MCNext]_<<part, allVars, evVars, ovVars>>

\* The history of wishes tells nothing apart: with net_buf_ctrl the last one
\* need not win.
View == <<part, NoWish, evVars, ovVars>>

-----------------------------------------------------------------------------
\* A flush ends when what was sent before it is handled (EventQueue).
FlushComplete == part = "events" => Ev!FlushComplete

\* An event queue is freed with its last reference (EventQueue).
RefsExact == part = "events" => Ev!RefsExact

\* The list of overlay events is whole and in order (Overlays).
EventsKept == part = "overlays" => Ov!EventsKept
=============================================================================
