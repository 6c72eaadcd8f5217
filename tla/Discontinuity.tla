---------------------------- MODULE Discontinuity ----------------------------
(***************************************************************************)
(* The discontinuity protocol of metronom.c.  Both decoder threads meet the  *)
(* same discontinuities (BUF_CONTROL_START and _NEWPTS go in pairs into both *)
(* fifos) in the same order, and count them.  The timing values of a stream  *)
(* must change once for each: the side that comes first may do so alone for  *)
(* a DISC_ABSOLUTE, otherwise it waits for the other side, which does.       *)
(***************************************************************************)
EXTENDS Integers, Sequences

CONSTANTS Video, Audio,  \* the two sides
          MaxDisc        \* bound: discontinuities met

ASSUME DiscontinuityAssumption == Video # Audio /\ MaxDisc \in Nat

VARIABLES
    have,     \* have_video and have_audio: the sides with an output port
    kinds,    \* the kinds of the discontinuities that were met
    count,    \* disc.video_count and disc.audio_count
    handled,  \* disc.handled_count
    last,     \* disc.last_type and last_offs: whose parameters they are
    bounce,   \* bounce.left_audio >= 0
    pc,       \* a side inside the wait is counted in num_..._waiters
    asleep,   \* sides in pthread_cond_wait, not yet signalled
    applied   \* history: the discontinuities whose parameters took effect

vars == <<have, kinds, count, handled, last, bounce, pc, asleep, applied>>

Sides == {Video, Audio}

Other(s) == IF s = Video THEN Audio ELSE Video

Apply(n) == applied' = Append(applied, n)

\* metronom_handle_discontinuity leaves a bounce behind: DISC_ABSOLUTE does,
\* DISC_STREAMSTART and _SEEK end it.
BounceAfter(kind) == kind = "absolute"

\* Negative control: nobody is told.
Told_Nobody(s, n) == asleep

\* The other side is signalled when it waits for a number that is reached now.
Told(s, n) ==
    IF pc[Other(s)] = "wait" /\ count[Other(s)] <= n THEN asleep \ {Other(s)} ELSE asleep

\* Negative control: both sides remember their parameters.
LastAfter_Kept(s, n) == last

\* Video passes its parameters on, audio does when there is no video.
LastAfter(s, n) == IF s = Video \/ Video \notin have THEN n ELSE last

\* Negative control: what is done alone is not counted.
HandledAlone_Not(n) == handled

\* The number that is handled when one side does it alone.
HandledAlone(n) == n

\* "while (audio_count < video_count)" and the other way round.
MustWait(s, n) == Other(s) \in have /\ count[Other(s)] < n

\* A side that waits for the other side tests again after a signal.
Wake(s) ==
    /\ pc[s] = "wait" /\ s \notin asleep
    /\ IF count[Other(s)] < count[s]
       THEN asleep' = asleep \cup {s} /\ UNCHANGED pc
       ELSE pc' = [pc EXCEPT ![s] = "run"] /\ UNCHANGED asleep
    /\ UNCHANGED <<have, kinds, count, handled, last, bounce, applied>>

\* The kind is the same for both sides: the first one finds it in its buffer.
Meets(s, n, kind) ==
    /\ pc[s] = "run" /\ s \in have
    /\ n = count[s] + 1
    /\ IF n <= Len(kinds) THEN kind = kinds[n] /\ UNCHANGED kinds
                          ELSE kinds' = Append(kinds, kind)
    /\ count' = [count EXCEPT ![s] = n]
    /\ UNCHANGED have

\* "if (video_count <= handled_count)": the other side did it.
Handled(s, n, kind) ==
    /\ Meets(s, n, kind)
    /\ n <= handled
    /\ asleep' = Told(s, n)
    /\ UNCHANGED <<handled, last, bounce, pc, applied>>

\* The try of a DISC_ABSOLUTE, for small steps, returns to the previous
\* offset, and when no bounce is under way.
Alone(s, n, kind) ==
    /\ Meets(s, n, kind)
    /\ n > handled
    /\ kind = "absolute"
    /\ Apply(n)
    /\ handled' = HandledAlone(n)
    /\ bounce' = TRUE
    /\ asleep' = Told(s, n)
    /\ UNCHANGED <<last, pc>>

\* Wait for the other side, or take effect for both.
Together(s, n, kind) ==
    /\ Meets(s, n, kind)
    /\ n > handled
    /\ kind = "absolute" => bounce
    /\ last' = LastAfter(s, n)
    /\ IF MustWait(s, n)
       THEN /\ pc' = [pc EXCEPT ![s] = "wait"]
            /\ asleep' = Told(s, n) \cup {s}
            /\ UNCHANGED <<handled, bounce, applied>>
       ELSE /\ Apply(last')
            /\ handled' = handled + 1
            /\ bounce' = BounceAfter(kind)
            /\ asleep' = Told(s, n)
            /\ UNCHANGED pc

\* metronom_handle_video_discontinuity, metronom_handle_audio_discontinuity
HandleDiscontinuity(s, n, kind) ==
    \/ Handled(s, n, kind)
    \/ Alone(s, n, kind)
    \/ Together(s, n, kind)

\* metronom_got_video_frame and _audio_samples: the grace time is used up.
BounceEnds(s) ==
    /\ bounce /\ pc[s] = "run" /\ s \in have
    /\ bounce' = FALSE
    /\ UNCHANGED <<have, kinds, count, handled, last, pc, asleep, applied>>

Init ==
    /\ have \in (SUBSET Sides) \ {{}}
    /\ kinds = <<>>
    /\ count = [s \in Sides |-> 0]
    /\ handled = 0
    /\ last = 0
    /\ bounce = FALSE
    /\ pc = [s \in Sides |-> "run"]
    /\ asleep = {}
    /\ applied = <<>>

Meet(s) ==
    \E n \in 1 .. MaxDisc, kind \in {"absolute", "seek"} : HandleDiscontinuity(s, n, kind)

Next == \E s \in Sides : Meet(s) \/ Wake(s) \/ BounceEnds(s)

Spec == Init /\ [][Next]_vars

\* Both decoder threads find the second half of every pair in their fifos.
Fairness ==
    \A s \in Sides :
        /\ WF_vars(Wake(s))
        /\ WF_vars(Meet(s))

FairSpec == Spec /\ Fairness

-----------------------------------------------------------------------------
\* Every discontinuity takes effect once, in order and with its own
\* parameters, whichever side comes first, waits, or does it alone; two
\* parties that each apply it would shift all later time stamps.
AppliedInOrder == applied = [i \in 1 .. handled |-> i]

\* A decoder goes on behind a discontinuity only when it took effect:
\* frames that follow it are timed with the new offset.
EffectFirst == \A s \in have : pc[s] = "run" => count[s] <= handled

\* No side waits for a number the other side has reached, or for ever.
Reunited == \A s \in Sides : pc[s] = "wait" ~> pc[s] = "run"
=============================================================================
