------------------------------- MODULE MCSpeed -------------------------------
(***************************************************************************)
(* Pausing, in one run: SpeedControl with decoders that do not pause, and   *)
(* the bare port ticket (PortTicket, as Ticket) with a decoder that pauses  *)
(* while it holds its ticket and an application that pauses and rewires.    *)
(* They have no state in common, so a behaviour is one of one of them.      *)
(***************************************************************************)
EXTENDS SpeedControl

CONSTANT Pausers   \* applications that use the bare ticket

VARIABLES part

\* PortTicket
VARIABLES revoked, paused, granted, irrevocable, renewers, tkRewirers, pending,
          atomic, atomicThread, tkLow, tkNest, tkWriter, tkReaders, tkPc, tkArg,
          tkIssued, tkRevoked, tkSaved, tkHeld, tkPauser

tkVars == <<revoked, paused, granted, irrevocable, renewers, tkRewirers, pending,
            atomic, atomicThread, tkLow, tkNest, tkWriter, tkReaders, tkPc, tkArg,
            tkIssued, tkRevoked, tkSaved, tkHeld, tkPauser>>

Ticket == INSTANCE PortTicket WITH
    Apps <- Pausers, MaxHold <- 1, Rewiring <- TRUE, HolderPauses <- TRUE,
    ticket_revoked <- revoked, pause_revoked <- paused, tickets_granted <- granted,
    irrevocable_tickets <- irrevocable, plain_renewers <- renewers,
    rewirers <- tkRewirers, pending_revocations <- pending,
    atomic_revokers <- atomic, atomic_revoker_thread <- atomicThread,
    low <- tkLow, nest <- tkNest, writer <- tkWriter, readers <- tkReaders,
    pc <- tkPc, arg <- tkArg, asleep_issued <- tkIssued, asleep_revoked <- tkRevoked,
    saved <- tkSaved, irr_held <- tkHeld, pauser <- tkPauser

MCInit == part \in {"speed", "ticket"} /\ SpeedInit /\ Ticket!Init

MCVars == <<allVars, tkVars>>

InSpeed(A) == part = "speed" /\ A /\ UNCHANGED tkVars
InTicket(A) == part = "ticket" /\ A /\ UNCHANGED allVars

MCNext ==
    \/ part = "speed" /\ SpeedNext /\ UNCHANGED <<part, tkVars>>
    \/ part = "ticket" /\ Ticket!Next /\ UNCHANGED <<part, allVars>>

\* SpeedFairness, and PortTicket's Fairness.  A behaviour never leaves its
\* part, so fairness for the action of either part is fairness for both.
MCFairness ==
    /\ \A t \in Threads :
        /\ WF_MCVars(\/ InSpeed(GoOn(t) /\ ~SpeedWake(t))
                     \/ t \in Ticket!Threads /\ InTicket(Ticket!UnlockPortRewiring(t)))
        /\ SF_MCVars(\/ InSpeed(SpeedWake(t))
                     \/ t \in Ticket!Threads /\ InTicket(Ticket!Wake(t)))
    /\ \A t \in Ticket!Threads :
        /\ SF_MCVars(\/ t \in Decoders /\ InSpeed(Yield(t))
                     \/ InTicket(Ticket!LetGo(t)))
        /\ SF_MCVars(InTicket(paused /\ Ticket!MayUnpause(t) /\ Ticket!IssuePause(t)))
    /\ \A t \in Pausers : SF_MCVars(InTicket(Ticket!MayIssue(t) /\ Ticket!IssueRewire(t)))

MCSpec == MCInit /\ [][MCNext]_<<part, MCVars>> /\ MCFairness

-----------------------------------------------------------------------------
\* No freeze of the engine by pausing or rewiring (PortTicket).
TicketReturns == Ticket!NoFreeze
=============================================================================
