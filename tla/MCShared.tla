------------------------------ MODULE MCShared ------------------------------
(***************************************************************************)
(* What the engine's threads share, in one run: the port ticket (PortTicket, *)
(* with interchangeable decoders and applications), the frames of a video   *)
(* port (VideoFrames), the ports of post plugins (PostUse) and the          *)
(* discontinuities of a metronom (Discontinuity).  They have no state in    *)
(* common, so a behaviour is one of one of them.                            *)
(***************************************************************************)
EXTENDS PortTicket, TLC

CONSTANTS d1, d2, a1, a2,
          None,
          Frames, Clients, Reserve, MaxRefs,
          Plugins, Streams, App, Renderer, MaxAliases,
          Video, Audio, MaxDisc

VARIABLES part

\* VideoFrames
VARIABLES lock, first, free, queue, reserved, flush_extra, discard, ready, hand,
          filler, still, paused, rpc, mine, fresh, dpc, client, discarding

\* PostUse
VARIABLES usage, below, top, aliases, inside, returning, pending, disposed, freed,
          rewiring, old, stack

\* Discontinuity
VARIABLES have, kinds, count, handled, last, bounce, side, asleep, applied

voVars == <<lock, first, free, queue, reserved, flush_extra, discard, ready, hand,
            filler, still, paused, rpc, mine, fresh, dpc, client, discarding>>
postVars == <<usage, below, top, aliases, inside, returning, pending, disposed, freed,
              rewiring, old, stack>>
discVars == <<have, kinds, count, handled, last, bounce, side, asleep, applied>>

Vo == INSTANCE VideoFrames WITH
          NoFrame <- None, pc <- client

Post == INSTANCE PostUse WITH Output <- None

Disc == INSTANCE Discontinuity WITH pc <- side

\* Frames have an order, and None stands for no frame.
ASSUME VideoAssumption ==
    /\ IsFiniteSet(Frames) /\ Frames \subseteq Int /\ None \notin Frames
    /\ IsFiniteSet(Clients) /\ Reserve \in Nat /\ MaxRefs \in Nat

\* None stands for the port of an output.
ASSUME PostAssumption ==
    /\ IsFiniteSet(Plugins) /\ IsFiniteSet(UNION Plugins) /\ None \notin UNION Plugins
    /\ IsFiniteSet(Streams) /\ App \notin Streams /\ Renderer \notin Streams /\ App # Renderer

ASSUME SidesAssumption == Video # Audio /\ MaxDisc \in Nat

MCInit ==
    /\ part \in {"ticket", "video", "post", "discontinuity"}
    /\ Init
    /\ Vo!Init
    /\ Post!Init
    /\ Disc!Init /\ (part = "discontinuity" \/ have = Disc!Sides)

MCNext ==
    \/ part = "ticket" /\ Next /\ UNCHANGED <<part, voVars, postVars, discVars>>
    \/ part = "video" /\ Vo!Next /\ UNCHANGED <<part, vars, postVars, discVars>>
    \/ part = "post" /\ Post!Next /\ UNCHANGED <<part, vars, voVars, discVars>>
    \/ part = "discontinuity" /\ Disc!Next /\ UNCHANGED <<part, vars, voVars, postVars>>

MCSpec == MCInit /\ [][MCNext]_<<part, vars, voVars, postVars, discVars>>

Symmetry == Permutations({d1, d2}) \cup Permutations({a1, a2})

-----------------------------------------------------------------------------
\* Frames are neither lost nor used by two at once (VideoFrames).
LocksExact == part = "video" => Vo!LocksExact

\* A flush ends when nothing that was queued is still to be shown (VideoFrames).
FlushedAway == part = "video" => Vo!FlushedAway

\* A post plugin is freed once, with its last use (PostUse).
FreedWithLastUse == part = "post" => Post!FreedWithLastUse

\* Discontinuities take effect once and in order (Discontinuity).
AppliedInOrder == part = "discontinuity" => Disc!AppliedInOrder

\* No decoder goes on before its discontinuity took effect (Discontinuity).
EffectFirst == part = "discontinuity" => Disc!EffectFirst
=============================================================================
