----------------------------- MODULE SpeedControl -----------------------------
(***************************************************************************)
(* Playback speed: xine_set_param and input plugins (setters), net_buf_ctrl *)
(* from the get callback of a decoder or from its feeding side, xine_stop,   *)
(* close_internal, and port rewiring all change the one clock of the engine, *)
(* and pause the decoders by the port ticket of module PortTicket.           *)
(* A thread of a decoder or application is at one step of these functions;   *)
(* between two steps any other thread may run.                               *)
(***************************************************************************)
EXTENDS PortTicket, Sequences

CONSTANTS Stoppers,   \* applications in xine_stop, one for each stream
          Rewirers,   \* applications that rewire ports
          Feeders,    \* threads that feed a fifo under net_buf_ctrl
          Speeds,     \* what applications set; 0 is XINE_SPEED_PAUSE
          Normal,     \* XINE_FINE_SPEED_NORMAL
          LiveOn,     \* XINE_LIVE_PAUSE_ON
          LiveOff,    \* XINE_LIVE_PAUSE_OFF
          None,       \* nothing wanted
          Gapless,    \* does close_internal meet streams that end by themselves?
          MaxGranted, \* bound: tickets_granted when a decoder goes on
          MaxNest     \* bound: revokes of one thread that are not undone

\* Threads that call set_param; those that stop and rewire do so as well.
Setters == Apps \ Feeders

ASSUME SpeedAssumption ==
    /\ Stoppers \cup Rewirers \cup Feeders \subseteq Apps
    /\ Speeds \subseteq Nat
    /\ Normal \in Nat \ {0}
    /\ LiveOn \in Nat /\ LiveOff \in Nat /\ LiveOn # LiveOff
    /\ {LiveOn, LiveOff} \cap (Speeds \cup {0, Normal}) = {}
    /\ None \notin Speeds \cup {0, Normal, LiveOn, LiveOff}
    /\ Gapless \in BOOLEAN
    /\ MaxGranted \in Nat /\ MaxNest \in Nat

VARIABLES
    clock,                 \* the speed of the master clock
    audio,                 \* AO_PROP_CLOCK_SPEED
    changing, ignore,      \* SPEED_FLAG_CHANGING, SPEED_FLAG_IGNORE_CHANGE
    want_live, want_new,   \* SPEED_FLAG_WANT_LIVE and _NEW, with their values
    asleep_done,           \* threads waiting for speed_change_done
    at,                    \* the step a thread is at
    doing,                 \* the argument of its set_speed_internal
    back,                  \* the steps to return to, innermost first
    nbc_speed,             \* the speed net_buf_ctrl set last
    nbc_stale,             \* threads in nbc_set_speed that set another one
    wish                   \* history: the outcome of all wishes in their order

flagVars == <<changing, ignore, want_live, want_new, asleep_done>>
clockVars == <<clock, audio>>
callVars == <<at, doing, back>>
nbcVars == <<nbc_speed, nbc_stale>>
speedVars == <<flagVars, clockVars, callVars, nbcVars, wish>>

Live == {LiveOn, LiveOff}

At(t, step) == at[t] = step /\ Running(t)

\* The next step of t; "done" returns to the caller.
Goto(t, step) ==
    /\ at' = [at EXCEPT ![t] = IF step = "done" THEN Head(back[t]) ELSE step]
    /\ back' = [back EXCEPT ![t] = IF step = "done" THEN Tail(@) ELSE @]
    /\ doing' = [doing EXCEPT ![t] = IF step = "done" THEN Normal ELSE @]

\* set_speed_internal (speed), with the steps that follow it.
Call(t, speed, then) ==
    /\ at' = [at EXCEPT ![t] = "decide"]
    /\ doing' = [doing EXCEPT ![t] = speed]
    /\ back' = [back EXCEPT ![t] = then]

-----------------------------------------------------------------------------
\* The first step when the clock is running, and when it is not.
FirstStep(speed) ==
    IF speed = 0 THEN "pause" ELSE IF speed \in Live \cup {clock} THEN "done" ELSE "audio"

\* Negative control: decoders are not let go.
FirstStepPaused_Held(speed) ==
    IF speed = 0 THEN "done" ELSE IF speed \in Live THEN "live" ELSE "audio"

FirstStepPaused(speed) ==
    IF speed = 0 THEN "done" ELSE IF speed \in Live THEN "live" ELSE "unpause"

Decide(t) ==
    /\ At(t, "decide")
    /\ Goto(t, IF clock = 0 THEN FirstStepPaused(doing[t]) ELSE FirstStep(doing[t]))
    /\ UNCHANGED <<vars, flagVars, clockVars, nbcVars, wish>>

\* issue and revoke with XINE_TICKET_FLAG_PAUSE.
LetGoOn(t) == IF pause_revoked THEN IssuePause(t) ELSE UNCHANGED vars

Hold(t) == IF pause_revoked THEN UNCHANGED vars ELSE RevokePause(t)

SwitchLive(t) ==
    /\ At(t, "live")
    /\ IF doing[t] = LiveOn THEN LetGoOn(t) ELSE Hold(t)
    /\ Goto(t, "done")
    /\ UNCHANGED <<flagVars, clockVars, nbcVars, wish>>

Unpause(t) ==
    /\ At(t, "unpause")
    /\ LetGoOn(t)
    /\ Goto(t, "audio")
    /\ UNCHANGED <<flagVars, clockVars, nbcVars, wish>>

PauseDecoders(t) ==
    /\ At(t, "pause")
    /\ pause_revoked \/ nest[t] < MaxNest
    /\ Hold(t)
    /\ Goto(t, "clock off")
    /\ UNCHANGED <<flagVars, clockVars, nbcVars, wish>>

StopClock(t) ==
    /\ At(t, "clock off")
    /\ clock' = 0
    /\ Goto(t, "audio")
    /\ UNCHANGED <<vars, flagVars, audio, nbcVars, wish>>

EnterAudio(t) ==
    /\ At(t, "audio")
    /\ Acquire(t, TRUE)
    /\ Goto(t, "tell audio")
    /\ UNCHANGED <<flagVars, clockVars, nbcVars, wish>>

TellAudio(t) ==
    /\ At(t, "tell audio")
    /\ audio' = doing[t]
    /\ Release(t, TRUE)
    /\ Goto(t, IF doing[t] = 0 THEN "done" ELSE "clock on")
    /\ UNCHANGED <<flagVars, clock, nbcVars, wish>>

StartClock(t) ==
    /\ At(t, "clock on")
    /\ clock' = doing[t]
    /\ Goto(t, "done")
    /\ UNCHANGED <<vars, flagVars, audio, nbcVars, wish>>

SetSpeedInternal(t) ==
    \/ Decide(t) \/ SwitchLive(t) \/ Unpause(t) \/ PauseDecoders(t)
    \/ StopClock(t) \/ EnterAudio(t) \/ TellAudio(t) \/ StartClock(t)

-----------------------------------------------------------------------------
(* _x_set_fine_speed, and net_buf_ctrl's use of it. *)

\* What a wish makes of the outcome of the wishes before it.
Wished(speed) ==
    IF speed \in Live
    THEN IF wish.speed = 0 THEN [wish EXCEPT !.held = (speed = LiveOff)] ELSE wish
    ELSE [speed |-> speed,
          held |-> speed = 0 /\ (wish.speed = 0 => wish.held)]

\* Negative control: the first wish stays.
Remember_First(speed) ==
    IF speed \in Live
    THEN want_live' = speed /\ UNCHANGED want_new
    ELSE want_new' = (IF want_new = None THEN speed ELSE want_new) /\ UNCHANGED want_live

\* "remember latest speed wishes from elsewhere"
Remember(speed) ==
    IF speed \in Live
    THEN want_live' = speed /\ UNCHANGED want_new
    ELSE want_new' = speed /\ UNCHANGED want_live

\* Negative control: a change under way does not keep out another one.
Busy_Never == FALSE

Busy == changing

\* The first section of _x_set_fine_speed; "then" follows its return.
SetFineSpeed(t, speed, then) ==
    \/ /\ ignore
       /\ at' = [at EXCEPT ![t] = then]
       /\ UNCHANGED <<flagVars, doing, back, wish>>
    \/ /\ ~ignore /\ Busy
       /\ Remember(speed)
       /\ wish' = Wished(speed)
       /\ at' = [at EXCEPT ![t] = then]
       /\ UNCHANGED <<changing, ignore, asleep_done, doing, back>>
    \/ /\ ~ignore /\ ~Busy
       /\ changing' = TRUE
       /\ wish' = Wished(speed)
       /\ Call(t, speed, <<"changed", then>>)
       /\ UNCHANGED <<ignore, want_live, want_new, asleep_done>>

\* Negative control: those who wait are not told.
TellDone_Not == asleep_done

\* Who still waits when a change is complete.
TellDone == IF ignore THEN {} ELSE asleep_done

\* The section of _x_set_fine_speed after set_speed_internal.
Changed(t) ==
    /\ At(t, "changed")
    /\ \/ /\ want_live # None
          /\ want_live' = None
          /\ Call(t, want_live, <<"changed">> \o back[t])
          /\ UNCHANGED <<changing, ignore, want_new, asleep_done>>
       \/ /\ want_live = None /\ want_new # None
          /\ want_new' = None
          /\ Call(t, want_new, <<"changed">> \o back[t])
          /\ UNCHANGED <<changing, ignore, want_live, asleep_done>>
       \/ /\ want_live = None /\ want_new = None
          /\ changing' = FALSE
          /\ asleep_done' = TellDone
          /\ Goto(t, "done")
          /\ UNCHANGED <<ignore, want_live, want_new>>
    /\ UNCHANGED <<vars, clockVars, nbcVars, wish>>

\* xine_set_param (XINE_PARAM_FINE_SPEED), or an input plugin.
SetSpeed(t) ==
    /\ At(t, "idle")
    /\ t \in Setters
    /\ \E speed \in Speeds : SetFineSpeed(t, speed, "idle")
    /\ UNCHANGED <<vars, clockVars, nbcVars>>

\* nbc_set_speed (0) in the get callback of a decoder, and (normal) in the
\* put and alloc callbacks.  net_buf_ctrl's mutex is not held meanwhile.
NbcCall(t, speed) == SetFineSpeed(t, speed, IF speed = 0 THEN "nbc live" ELSE "nbc")

NbcSetSpeed(t) ==
    /\ At(t, "idle")
    /\ \/ t \in Decoders /\ HolderPauses /\ nbc_speed' = 0
       \/ t \in Feeders /\ nbc_speed' = Normal
    /\ NbcCall(t, nbc_speed')
    /\ nbc_stale' = {u \in Decoders \cup Feeders : u # t /\ at[u] # "idle"}
    /\ UNCHANGED <<vars, clockVars>>

\* "allow decoding while paused"
NbcLive(t) ==
    /\ At(t, "nbc live")
    /\ SetFineSpeed(t, LiveOn, "nbc")
    /\ UNCHANGED <<vars, clockVars, nbcVars>>

\* "make sure to apply the latest change anyway"
NbcAgain(t) ==
    /\ At(t, "nbc")
    /\ IF t \in nbc_stale
       THEN NbcCall(t, nbc_speed)
       ELSE Goto(t, "idle") /\ UNCHANGED <<flagVars, wish>>
    /\ nbc_stale' = nbc_stale \ {t}
    /\ UNCHANGED <<vars, clockVars, nbc_speed>>

-----------------------------------------------------------------------------
(* xine_stop and close_internal: lock_run, stop_internal, unlock_run. *)

\* Negative control: the last wish of others comes after lock_run.
RunWish_Theirs == IF want_new = None THEN Normal ELSE want_new

\* What lock_run has a change under way end with.
RunWish == Normal

\* lock_run; "wait" is off for streams that end by themselves.
LockRun(t, wait) ==
    /\ At(t, "idle")
    /\ t \in Stoppers
    /\ wait \/ Gapless
    /\ ignore' = TRUE
    /\ wish' = Wished(Normal)
    /\ LET next == IF wait THEN "enter" ELSE "stop" IN
       \/ /\ changing
          /\ want_new' = RunWish
          /\ at' = [at EXCEPT ![t] = IF wait THEN "wait" ELSE next]
          /\ asleep_done' = IF wait THEN asleep_done \cup {t} ELSE asleep_done
          /\ UNCHANGED <<doing, back>>
       \/ /\ ~changing
          /\ Call(t, Normal, <<next>>)
          /\ UNCHANGED <<want_new, asleep_done>>
    /\ UNCHANGED <<vars, changing, want_live, clockVars, nbcVars>>

LockRunWake(t) ==
    /\ At(t, "wait")
    /\ t \notin asleep_done
    /\ IF changing
       THEN asleep_done' = asleep_done \cup {t} /\ UNCHANGED callVars
       ELSE Goto(t, "enter") /\ UNCHANGED asleep_done
    /\ UNCHANGED <<vars, changing, ignore, want_live, want_new, clockVars, nbcVars, wish>>

EnterStop(t) ==
    /\ At(t, "enter")
    /\ Acquire(t, TRUE)
    /\ Goto(t, "stop")
    /\ UNCHANGED <<flagVars, clockVars, nbcVars, wish>>

\* stop_internal: "make sure we're not in paused state"
StopInternal(t) ==
    /\ At(t, "stop")
    /\ \/ wish' = Wished(Normal) /\ Call(t, Normal, <<"stopped">>)
       \/ Goto(t, "stopped") /\ UNCHANGED wish     \* not playing
    /\ UNCHANGED <<vars, flagVars, clockVars, nbcVars>>

LeaveStop(t) ==
    /\ At(t, "stopped")
    /\ IF low[t] > 0 THEN Release(t, TRUE) ELSE UNCHANGED vars
    /\ Goto(t, "unlock")
    /\ UNCHANGED <<flagVars, clockVars, nbcVars, wish>>

UnlockRun(t) ==
    /\ At(t, "unlock")
    /\ ignore' = FALSE
    /\ Goto(t, "idle")
    /\ UNCHANGED <<vars, changing, want_live, want_new, asleep_done, clockVars, nbcVars, wish>>

\* stream_rewire_audio, stream_rewire_video: the engine stays paused for
\* the next rewire.
RewireBegin(t) ==
    /\ At(t, "idle")
    /\ t \in Rewirers
    /\ RevokeRewire(t)
    /\ Goto(t, "rewire")
    /\ UNCHANGED <<flagVars, clockVars, nbcVars, wish>>

RewirePause(t) ==
    /\ At(t, "rewire")
    /\ wish' = Wished(LiveOff)
    /\ Call(t, LiveOff, <<"rewired">>)
    /\ UNCHANGED <<vars, flagVars, clockVars, nbcVars>>

RewireEnd(t) ==
    /\ At(t, "rewired")
    /\ IssueRewire(t)
    /\ Goto(t, "idle")
    /\ UNCHANGED <<flagVars, clockVars, nbcVars, wish>>

-----------------------------------------------------------------------------
\* A decoder's loop takes its ticket, gives it back in tget and renews it
\* when an output port has nothing to give.
Decode(t) ==
    /\ At(t, "idle")
    /\ t \in Decoders
    /\ tickets_granted < MaxGranted
    /\ \/ low[t] = 0 /\ Acquire(t, FALSE)
       \/ Release(t, FALSE)
       \/ \E f \in {Plain, Irrevocable, Rewire} : low[t] > 0 /\ Renew(t, f)
    /\ UNCHANGED speedVars

SpeedWake(t) == Wake(t) /\ UNCHANGED speedVars

SpeedInit ==
    /\ Init
    /\ clock = Normal /\ audio = Normal
    /\ changing = FALSE /\ ignore = FALSE
    /\ want_live = None /\ want_new = None
    /\ asleep_done = {}
    /\ at = [t \in Threads |-> "idle"]
    /\ doing = [t \in Threads |-> Normal]
    /\ back = [t \in Threads |-> <<>>]
    /\ nbc_speed = Normal
    /\ nbc_stale = {}
    /\ wish = [speed |-> Normal, held |-> FALSE]

\* Inside a speed change, stop or rewire a thread goes on by itself.
GoOn(t) ==
    \/ SetSpeedInternal(t) \/ Changed(t) \/ NbcLive(t) \/ NbcAgain(t)
    \/ LockRunWake(t) \/ EnterStop(t) \/ StopInternal(t) \/ LeaveStop(t) \/ UnlockRun(t)
    \/ RewirePause(t) \/ RewireEnd(t)
    \/ SpeedWake(t)

Ask(t) ==
    \/ SetSpeed(t) \/ NbcSetSpeed(t)
    \/ \E wait \in BOOLEAN : LockRun(t, wait)
    \/ RewireBegin(t)

SpeedNext == \E t \in Threads : GoOn(t) \/ Ask(t) \/ Decode(t)

allVars == <<vars, speedVars>>

\* The state without the history of wishes.
NoWish == <<vars, flagVars, clockVars, callVars, nbcVars>>

SpeedSpec == SpeedInit /\ [][SpeedNext]_allVars

-----------------------------------------------------------------------------
Steps == {"idle", "decide", "live", "unpause", "pause", "clock off", "audio",
          "tell audio", "clock on", "changed", "nbc live", "nbc", "wait", "enter",
          "stop", "stopped", "unlock", "rewire", "rewired"}

Wishes == Speeds \cup {0, Normal} \cup Live

SpeedTypeOK ==
    /\ clock \in Wishes \ Live /\ audio \in Wishes \ Live
    /\ changing \in BOOLEAN /\ ignore \in BOOLEAN
    /\ want_live \in Live \cup {None}
    /\ want_new \in (Wishes \ Live) \cup {None}
    /\ asleep_done \subseteq Stoppers
    /\ at \in [Threads -> Steps]
    /\ doing \in [Threads -> Wishes]
    /\ \A t \in Threads : back[t] \in Seq(Steps) /\ Len(back[t]) <= 2
    /\ nbc_speed \in {0, Normal}
    /\ nbc_stale \subseteq Decoders \cup Feeders

InSetSpeed(t) ==
    at[t] \in {"decide", "live", "unpause", "pause", "clock off", "audio", "tell audio", "clock on"}

\* No speed change is under way.
AtRest == ~changing /\ \A t \in Threads : ~InSetSpeed(t)

\* set_speed_internal under SPEED_FLAG_CHANGING has one caller at a time; the
\* wishes that come meanwhile are only kept while it can apply them.
OneChanger ==
    /\ SpeedTypeOK
    /\ Cardinality({t \in Threads : at[t] = "changed" \/ (\E i \in DOMAIN back[t] : back[t][i] = "changed")})
         = B2N(changing)
    /\ want_live # None \/ want_new # None => changing

\* "unpause. all decoder and post threads may continue now": the engine never
\* comes to rest with its clock running and its decoders held.
RunMeansRun == AtRest /\ clock # 0 => ~pause_revoked

\* The audio device follows the clock, however changes overlap.
AudioFollows == AtRest => audio = clock

\* "remember latest speed wishes from elsewhere, and apply them after the
\* current one": at rest the engine is as the wishes in their order say.
LatestWins == AtRest => clock = wish.speed /\ pause_revoked = wish.held

\* "make sure that other threads cannot change the speed, especially pausing
\* the stream": from lock_run to unlock_run the engine runs.
RunLocked ==
    \A t \in Stoppers :
        at[t] \in {"enter", "stop", "stopped", "unlock"} /\ ~Gapless
            => clock = Normal /\ ~changing /\ ~pause_revoked

\* Who waits in lock_run has a change under way to wait for.
LockRunWoken == asleep_done # {} => changing

\* revoke waits "for them to release/renew": there is somebody who can.
RevokerHasHolder ==
    \A t \in asleep_revoked :
        \/ \E u \in Threads : u # t /\ low[u] > 0 /\ pc[u] \notin {"acquire", "renew"}
        \/ rewirers > 0 /\ plain_renewers > 0
        \/ atomic_revokers > 0

\* Decoders answer a revocation: in tget, or when they need a buffer.
Yield(t) ==
    /\ At(t, "idle") /\ t \in Decoders /\ low[t] > 0 /\ ticket_revoked # 0
    /\ Release(t, FALSE) \/ Renew(t, Rewire)
    /\ UNCHANGED speedVars

SpeedFairness ==
    /\ \A t \in Threads : WF_allVars(GoOn(t) /\ ~SpeedWake(t))
    /\ \A t \in Threads : SF_allVars(SpeedWake(t))
    /\ \A t \in Decoders : SF_allVars(Yield(t))

SpeedFairSpec == SpeedSpec /\ SpeedFairness

\* Wishes and stops come to an end.
Patient == <>[][~ \E t \in Threads : Ask(t)]_allVars

\* "Avoid that freeze": whoever changes the speed, or stops, gets through.
SpeedReturns == Patient => \A t \in Threads : at[t] # "idle" ~> at[t] = "idle"
=============================================================================
