------------------------------ MODULE PortTicket ------------------------------
(***************************************************************************)
(* The port ticket (xine_ticket_t): a read lock for the threads that use    *)
(* the output ports, which the engine revokes to pause them or to rewire    *)
(* ports under them.  Every action is one section under ticket->lock; a     *)
(* thread inside pthread_cond_wait has its "pc" at the wait and is in       *)
(* asleep_issued or asleep_revoked until the condition is broadcast.        *)
(* A holder entry's count is "low" plus "nest" times 0x80000: the revokes   *)
(* the holder itself has under way, with its own grants saved.              *)
(***************************************************************************)
EXTENDS Integers, FiniteSets, Functions

CONSTANTS Decoders,   \* threads of decoders, and those they start
          Apps,       \* threads of the application
          NoThread,   \* nobody
          MaxHold,    \* bound: tickets one thread holds at a time
          Rewiring,   \* does the application rewire ports?
          HolderPauses  \* do decoders pause while they hold tickets, as
                        \* net_buf_ctrl does from their get callback?

Threads == Decoders \cup Apps

ASSUME TicketAssumption ==
    /\ IsFiniteSet(Threads)
    /\ NoThread \notin Threads
    /\ MaxHold \in Nat \ {0}
    /\ Rewiring \in BOOLEAN
    /\ HolderPauses \in BOOLEAN

VARIABLES
    ticket_revoked,        \* 0, 1, or 3 with XINE_TICKET_FLAG_REWIRE
    pause_revoked,
    tickets_granted,
    irrevocable_tickets,
    plain_renewers,
    rewirers,
    pending_revocations,
    atomic_revokers,
    atomic_revoker_thread,
    low, nest,             \* the entry of a thread in holder_threads
    writer,                \* who holds port_rewiring_lock for writing
    readers,               \* and who for reading (lock_port_rewiring)
    pc, arg,               \* where a thread waits, and with which flags
    asleep_issued, asleep_revoked,
    saved,                 \* history: low[t] when t's outermost revoke began
    irr_held,              \* history: irrevocable tickets among low[t]
    pauser                 \* history: the thread of the current pause

statusVars == <<ticket_revoked, pause_revoked, pending_revocations, rewirers,
                atomic_revokers, atomic_revoker_thread>>
grantVars == <<tickets_granted, irrevocable_tickets, plain_renewers>>
entryVars == <<low, nest, saved, irr_held>>
lockVars == <<writer, readers>>
threadVars == <<pc, arg>>
sleepVars == <<asleep_issued, asleep_revoked>>
vars == <<statusVars, grantVars, entryVars, lockVars, threadVars, sleepVars,
          pauser>>

Plain == "plain"
Irrevocable == "irrevocable"
Rewire == "rewire"
Pause == "pause"

B2N(b) == IF b THEN 1 ELSE 0

Running(t) == pc[t] = "run"

\* Is the thread in holder_threads?
Found(t) == low[t] > 0 \/ nest[t] > 0

InAtomic(t) == atomic_revokers > 0 /\ atomic_revoker_thread = t

\* The public status for the given pending revocations and rewirers.
Status(pend, rew) == IF pend = 0 THEN 0 ELSE IF rew > 0 THEN 3 ELSE 1

-----------------------------------------------------------------------------
\* Negative control: irrevocable tickets are granted inside atomic sections.
MustWait_Irrevocable(t, irr) == pending_revocations > 0 /\ ~irr

\* acquire has to wait.
MustWait(t, irr) ==
    /\ pending_revocations > 0
    /\ IF atomic_revokers > 0 THEN atomic_revoker_thread # t ELSE ~irr

Grant(t, irr) ==
    /\ tickets_granted' = tickets_granted + 1
    /\ irrevocable_tickets' = irrevocable_tickets + B2N(irr)
    /\ irr_held' = [irr_held EXCEPT ![t] = @ + B2N(irr)]
    /\ UNCHANGED plain_renewers

\* ticket_acquire
Acquire(t, irr) ==
    /\ Running(t)
    /\ low' = [low EXCEPT ![t] = @ + 1]
    /\ \/ /\ Found(t) \/ ~MustWait(t, irr)
          /\ Grant(t, irr)
          /\ UNCHANGED <<threadVars, sleepVars>>
       \/ /\ ~Found(t) /\ MustWait(t, irr)
          /\ pc' = [pc EXCEPT ![t] = "acquire"]
          /\ arg' = [arg EXCEPT ![t] = IF irr THEN Irrevocable ELSE Plain]
          /\ asleep_issued' = asleep_issued \cup {t}
          /\ UNCHANGED <<grantVars, irr_held, asleep_revoked>>
    /\ UNCHANGED <<statusVars, nest, saved, lockVars, pauser>>

AcquireWake(t) ==
    LET irr == arg[t] = Irrevocable IN
    /\ pc[t] = "acquire"
    /\ t \notin asleep_issued
    /\ \/ /\ MustWait(t, irr)
          /\ asleep_issued' = asleep_issued \cup {t}
          /\ UNCHANGED <<grantVars, irr_held, threadVars>>
       \/ /\ ~MustWait(t, irr)
          /\ Grant(t, irr)
          /\ pc' = [pc EXCEPT ![t] = "run"]
          /\ arg' = [arg EXCEPT ![t] = Plain]
          /\ UNCHANGED asleep_issued
    /\ UNCHANGED <<statusVars, low, nest, saved, lockVars, asleep_revoked, pauser>>

\* Negative control: tell the revoker only when nobody at all is left.
ReleaseTells_Early(granted, irr) == pending_revocations > 0 /\ irr = 0 /\ granted > 0

\* Does release wake the revoker?
ReleaseTells(granted, irr) ==
    pending_revocations > 0 /\ (granted = 0 \/ (rewirers > 0 /\ irr = 0))

\* Negative control: the priority of irrevocable tickets outlives them.
IrrevocablesAfter_Kept(irr) == irrevocable_tickets

IrrevocablesAfter(irr) ==
    IF irrevocable_tickets > 0 THEN irrevocable_tickets - B2N(irr) ELSE 0

\* ticket_release
Release(t, irr) ==
    LET granted == IF tickets_granted > 0 THEN tickets_granted - 1 ELSE 0
        irrs == IrrevocablesAfter(irr)
    IN
    /\ Running(t)
    /\ low[t] > 0
    /\ low' = [low EXCEPT ![t] = @ - 1]
    /\ tickets_granted' = granted
    /\ irrevocable_tickets' = irrs
    /\ irr_held' = [irr_held EXCEPT ![t] = @ - B2N(irr)]
    /\ asleep_revoked' = IF ReleaseTells(granted, irrs) THEN {} ELSE asleep_revoked
    /\ UNCHANGED <<statusVars, plain_renewers, nest, saved, lockVars,
                   threadVars, asleep_issued, pauser>>

-----------------------------------------------------------------------------
\* The condition a holder waits for in renew.
RenewWaits(f) ==
    /\ pending_revocations > 0
    /\ irrevocable_tickets = 0 \/ f # Irrevocable
    /\ f # Rewire => rewirers = 0

\* Negative control: the saved self grants are forgotten.
Restored_Not(t) == tickets_granted

\* "If our thread still has saved self grants and calls this, restore them."
Restored(t) == IF nest[t] > 0 THEN tickets_granted + low[t] ELSE tickets_granted

\* ticket_renew of a holder.
RenewHolder(t, f) ==
    LET granted == Restored(t) IN
    /\ nest' = [nest EXCEPT ![t] = 0]
    /\ saved' = [saved EXCEPT ![t] = 0]
    /\ asleep_revoked' = IF granted = low[t] THEN {} ELSE asleep_revoked
    /\ \/ /\ RenewWaits(f)
          /\ tickets_granted' = granted - low[t]
          /\ plain_renewers' = plain_renewers + B2N(f # Rewire)
          /\ pc' = [pc EXCEPT ![t] = "renew"]
          /\ arg' = [arg EXCEPT ![t] = f]
          /\ asleep_issued' = asleep_issued \cup {t}
       \/ /\ ~RenewWaits(f)
          /\ tickets_granted' = granted
          /\ UNCHANGED <<plain_renewers, threadVars, asleep_issued>>
    /\ UNCHANGED <<low, irr_held, irrevocable_tickets>>

\* ticket_renew of a thread decoders start behind the engine's back.
RenewStranger(t) ==
    /\ pending_revocations > 0 /\ tickets_granted = 0
    /\ pc' = [pc EXCEPT ![t] = "stranger"]
    /\ asleep_issued' = asleep_issued \cup {t}
    /\ UNCHANGED <<grantVars, entryVars, arg, asleep_revoked>>

\* ticket_renew: f tells plain (0), irrevocable (1) or XINE_TICKET_FLAG_REWIRE.
\* The cases that change nothing are left out.
Renew(t, f) ==
    /\ Running(t)
    /\ ticket_revoked # 0
    /\ ~InAtomic(t)
    /\ IF Found(t) THEN RenewHolder(t, f) ELSE RenewStranger(t)
    /\ UNCHANGED <<statusVars, lockVars, pauser>>

RenewWake(t) ==
    /\ t \notin asleep_issued
    /\ \/ /\ pc[t] = "renew" /\ RenewWaits(arg[t])
          /\ asleep_issued' = asleep_issued \cup {t}
          /\ UNCHANGED <<grantVars, threadVars>>
       \/ /\ pc[t] = "renew" /\ ~RenewWaits(arg[t])
          /\ tickets_granted' = tickets_granted + low[t]
          /\ plain_renewers' = plain_renewers - B2N(arg[t] # Rewire)
          /\ pc' = [pc EXCEPT ![t] = "run"]
          /\ arg' = [arg EXCEPT ![t] = Plain]
          /\ UNCHANGED <<irrevocable_tickets, asleep_issued>>
       \/ /\ pc[t] = "stranger" /\ pending_revocations > 0 /\ tickets_granted = 0
          /\ asleep_issued' = asleep_issued \cup {t}
          /\ UNCHANGED <<grantVars, threadVars>>
       \/ /\ pc[t] = "stranger" /\ (pending_revocations = 0 \/ tickets_granted > 0)
          /\ pc' = [pc EXCEPT ![t] = "run"]
          /\ UNCHANGED <<grantVars, arg, asleep_issued>>
    /\ UNCHANGED <<statusVars, entryVars, lockVars, asleep_revoked, pauser>>

-----------------------------------------------------------------------------
\* The condition revoke waits for.
RevokeWaits(granted, rew) ==
    granted > 0 \/ (rew > 0 /\ plain_renewers > 0) \/ atomic_revokers > 0

\* Negative control: a thread that revokes waits for its own tickets.
SelfGrants_Kept(t) == 0

\* "dont freeze on self grants, save them"
SelfGrants(t) == IF nest[t] = 0 THEN low[t] ELSE 0

RenewersTold(f) == f = Rewire /\ plain_renewers > 0

\* "Its ours now."
Own(t, f) ==
    IF f = Rewire
    THEN atomic_revoker_thread' = t /\ atomic_revokers' = atomic_revokers + 1
    ELSE UNCHANGED <<atomic_revoker_thread, atomic_revokers>>

\* The mutexed section of ticket_revoke.
RevokeSection(t, f) ==
    LET granted == tickets_granted - SelfGrants(t)
        rew == rewirers + B2N(f = Rewire)
        waits == ~InAtomic(t) /\ RevokeWaits(granted, rew)
    IN
    /\ nest' = [nest EXCEPT ![t] = IF Found(t) THEN @ + 1 ELSE @]
    /\ saved' = [saved EXCEPT ![t] = IF Found(t) /\ nest[t] = 0 THEN low[t] ELSE @]
    /\ tickets_granted' = granted
    /\ pending_revocations' = pending_revocations + 1
    /\ rewirers' = rew
    /\ asleep_issued' = IF RenewersTold(f) THEN {} ELSE asleep_issued
    /\ ticket_revoked' = Status(1, rew)
    /\ IF waits
       THEN /\ pc' = [pc EXCEPT ![t] = "revoke"]
            /\ arg' = [arg EXCEPT ![t] = f]
            /\ asleep_revoked' = asleep_revoked \cup {t}
            /\ UNCHANGED <<atomic_revoker_thread, atomic_revokers>>
       ELSE /\ Own(t, f)
            /\ UNCHANGED <<threadVars, asleep_revoked>>
    /\ UNCHANGED <<low, irr_held, irrevocable_tickets, plain_renewers>>

\* ticket_revoke with XINE_TICKET_FLAG_REWIRE; before port_rewiring_lock is
\* free the caller has changed nothing.
RevokeRewire(t) ==
    /\ Running(t)
    /\ writer = NoThread /\ readers = {}
    /\ writer' = t
    /\ RevokeSection(t, Rewire)
    /\ UNCHANGED <<pause_revoked, readers, pauser>>

PauseFresh == ~pause_revoked

\* ticket_revoke with XINE_TICKET_FLAG_PAUSE: once is enough.
RevokePause(t) ==
    /\ Running(t)
    /\ PauseFresh
    /\ pause_revoked' = TRUE
    /\ pauser' = t
    /\ RevokeSection(t, Pause)
    /\ UNCHANGED lockVars

RevokeWake(t) ==
    /\ pc[t] = "revoke"
    /\ t \notin asleep_revoked
    /\ ticket_revoked' = Status(1, rewirers)
    /\ \/ /\ RevokeWaits(tickets_granted, rewirers)
          /\ asleep_revoked' = asleep_revoked \cup {t}
          /\ UNCHANGED <<threadVars, atomic_revokers, atomic_revoker_thread>>
       \/ /\ ~RevokeWaits(tickets_granted, rewirers)
          /\ Own(t, arg[t])
          /\ pc' = [pc EXCEPT ![t] = "run"]
          /\ arg' = [arg EXCEPT ![t] = Plain]
          /\ UNCHANGED asleep_revoked
    /\ UNCHANGED <<pause_revoked, pending_revocations, rewirers, grantVars,
                   entryVars, lockVars, asleep_issued, pauser>>

\* Negative control: only the end of all revocations is told.
IssueTells_Last(n) == n = 0

\* Does issue wake those who wait for tickets?
IssueTells(n) == ticket_revoked # n

RewirersAfter(f) == rewirers - B2N(f = Rewire)

StatusAfter(pend, rew) == Status(pend, rew)

\* The mutexed section of ticket_issue; "restore self grants" at the end.
IssueSection(t, f) ==
    LET pend == pending_revocations - 1
        rew == RewirersAfter(f)
        now == StatusAfter(pend, rew)
        back == nest[t] = 1
    IN
    /\ pending_revocations' = pend
    /\ rewirers' = rew
    /\ atomic_revokers' = atomic_revokers - B2N(f = Rewire)
    /\ asleep_revoked' = IF f = Rewire THEN {} ELSE asleep_revoked
    /\ ticket_revoked' = now
    /\ asleep_issued' = IF IssueTells(now) THEN {} ELSE asleep_issued
    /\ nest' = [nest EXCEPT ![t] = IF @ > 0 THEN @ - 1 ELSE @]
    /\ saved' = [saved EXCEPT ![t] = IF back THEN 0 ELSE @]
    /\ tickets_granted' = IF back THEN tickets_granted + low[t] ELSE tickets_granted
    /\ UNCHANGED <<atomic_revoker_thread, low, irr_held, irrevocable_tickets,
                   plain_renewers, threadVars>>

IssueRewire(t) ==
    /\ Running(t)
    /\ writer = t
    /\ IssueSection(t, Rewire)
    /\ writer' = NoThread
    /\ UNCHANGED <<pause_revoked, readers, pauser>>

IssuePause(t) ==
    /\ Running(t)
    /\ pause_revoked
    /\ pause_revoked' = FALSE
    /\ pauser' = NoThread
    /\ IssueSection(t, Pause)
    /\ UNCHANGED lockVars

\* ticket_lock_port_rewiring with a timeout of 0, and the unlock.
LockPortRewiring(t) ==
    /\ Running(t)
    /\ t \notin readers
    /\ writer = NoThread
    /\ readers' = readers \cup {t}
    /\ UNCHANGED <<statusVars, grantVars, entryVars, writer, threadVars, sleepVars, pauser>>

UnlockPortRewiring(t) ==
    /\ Running(t)
    /\ t \in readers
    /\ readers' = readers \ {t}
    /\ UNCHANGED <<statusVars, grantVars, entryVars, writer, threadVars, sleepVars, pauser>>

Init ==
    /\ ticket_revoked = 0
    /\ pause_revoked = FALSE
    /\ tickets_granted = 0
    /\ irrevocable_tickets = 0
    /\ plain_renewers = 0
    /\ rewirers = 0
    /\ pending_revocations = 0
    /\ atomic_revokers = 0
    /\ atomic_revoker_thread = NoThread
    /\ low = [t \in Threads |-> 0]
    /\ nest = [t \in Threads |-> 0]
    /\ writer = NoThread
    /\ readers = {}
    /\ pc = [t \in Threads |-> "run"]
    /\ arg = [t \in Threads |-> Plain]
    /\ asleep_issued = {}
    /\ asleep_revoked = {}
    /\ saved = [t \in Threads |-> 0]
    /\ irr_held = [t \in Threads |-> 0]
    /\ pauser = NoThread

-----------------------------------------------------------------------------
(* How the engine's threads use the ticket ("be sure to pair them properly"). *)

\* Only what was acquired inside a thread's own revoke is released there.
MayRelease(t, irr) ==
    /\ low[t] > saved[t]
    /\ IF irr THEN irr_held[t] > 0 ELSE low[t] > irr_held[t]

\* renew without the irrevocable flag needs a thread without such tickets.
MayRenew(t, f) == t \in Decoders /\ (f = Irrevocable \/ irr_held[t] = 0) /\ (nest[t] > 0 => low[t] = saved[t])

\* Applications rewire, and their threads hold no tickets meanwhile.
MayRewire(t) == Rewiring /\ t \in Apps /\ ~Found(t) /\ t \notin readers

MayPause(t) == IF t \in Apps THEN ~Found(t) ELSE HolderPauses

\* An application would stop for the length of a pause that it has to end.
MayAcquire(t, irr) == low[t] < MaxHold /\ (t \in Apps => irr)

MayIssue(t) == low[t] = saved[t] \/ nest[t] = 0

\* A pause ends when revoke has returned, and by the thread that began it
\* as long as that thread's own tickets are saved.
MayUnpause(t) ==
    /\ t \in Apps \/ pauser = t
    /\ pc[pauser] # "revoke"
    /\ pauser = t \/ nest[pauser] = 0
    /\ MayIssue(t)

Step(t) ==
    \/ \E irr \in BOOLEAN : MayAcquire(t, irr) /\ Acquire(t, irr)
    \/ \E irr \in BOOLEAN : MayRelease(t, irr) /\ Release(t, irr)
    \/ \E f \in {Plain, Irrevocable, Rewire} : MayRenew(t, f) /\ Renew(t, f)
    \/ MayRewire(t) /\ RevokeRewire(t)
    \/ MayPause(t) /\ RevokePause(t)
    \/ MayIssue(t) /\ IssueRewire(t)
    \/ pause_revoked /\ MayUnpause(t) /\ IssuePause(t)
    \/ LockPortRewiring(t)
    \/ UnlockPortRewiring(t)

Wake(t) == AcquireWake(t) \/ RenewWake(t) \/ RevokeWake(t)

Next == \E t \in Threads : Step(t) \/ Wake(t)

Spec == Init /\ [][Next]_vars

-----------------------------------------------------------------------------
Waits == {"run", "acquire", "renew", "stranger", "revoke"}

Flags == {Plain, Irrevocable, Rewire, Pause}

TypeOK ==
    /\ ticket_revoked \in {0, 1, 3}
    /\ pause_revoked \in BOOLEAN
    /\ tickets_granted \in Nat
    /\ irrevocable_tickets \in Nat
    /\ plain_renewers \in Nat
    /\ rewirers \in {0, 1}
    /\ pending_revocations \in 0 .. 2
    /\ atomic_revokers \in {0, 1}
    /\ atomic_revoker_thread \in Threads \cup {NoThread}
    /\ low \in [Threads -> 0 .. MaxHold]
    /\ nest \in [Threads -> 0 .. 2]
    /\ writer \in Threads \cup {NoThread}
    /\ readers \subseteq Threads
    /\ pc \in [Threads -> Waits]
    /\ arg \in [Threads -> Flags]
    /\ asleep_issued \subseteq Threads
    /\ asleep_revoked \subseteq Threads
    /\ saved \in [Threads -> 0 .. MaxHold]
    /\ irr_held \in [Threads -> 0 .. MaxHold]
    /\ pauser \in Threads \cup {NoThread}

\* The tickets of t that stand in the way of a revoke.
Granted(t) == IF pc[t] \in {"acquire", "renew"} THEN 0 ELSE low[t] - saved[t]

Grants == [t \in Threads |-> Granted(t)]

\* Those who wait in renew where a rewire is not safe.
PlainRenewers == {t \in Threads : pc[t] = "renew" /\ arg[t] # Rewire}

\* tickets_granted, irrevocable_tickets and plain_renewers agree with the
\* holder list through waits, renewals and saved self grants; a count that is
\* off freezes a revoker for good or lets it run into a decoder.
CountsExact ==
    /\ TypeOK
    /\ tickets_granted = SumFunction(Grants)
    /\ irrevocable_tickets = SumFunction(irr_held)
    /\ plain_renewers = Cardinality(PlainRenewers)

\* "a pair of atomic revoke and issue cannot be interrupted ... by other
\* threads acquiring tickets": between the two no other thread uses ports,
\* and those that wait with a ticket do so where a rewire is safe.
AtomicExclusive ==
    \A t, u \in Threads :
        InAtomic(t) /\ t # u => /\ Granted(u) = 0
                                /\ u \notin PlainRenewers
                                /\ u \notin readers

\* "between acquire and relese of an irrevocable ticket ... you will never be
\* blocked by ticket revocation".
IrrevocableNeverBlocked ==
    \A t \in Threads : irr_held[t] > 0 => pc[t] \notin {"acquire", "renew"}

\* Nobody sleeps when there is nothing left to wait for, and holders of an
\* irrevocable ticket do not sleep at all.
NoLostWakeup ==
    /\ IrrevocableNeverBlocked
    /\ \A t \in asleep_issued :
        /\ pending_revocations > 0
        /\ pc[t] = "acquire" => MustWait(t, arg[t] = Irrevocable)
        /\ pc[t] = "renew" /\ arg[t] # Rewire => rewirers = 0
    /\ \A t \in asleep_revoked : RevokeWaits(tickets_granted, rewirers)

-----------------------------------------------------------------------------
\* The last ticket of a decoder goes back.
LetGo(t) == low[t] = 1 /\ \E irr \in BOOLEAN : MayRelease(t, irr) /\ Release(t, irr)

\* Woken threads get the mutex.  tget releases the ticket of a decoder loop
\* when ticket_revoked is set, users of irrevocable tickets are quick, and
\* those who rewire or pause come to the end of it.
Fairness ==
    /\ \A t \in Threads : SF_vars(Wake(t))
    /\ \A t \in Threads : SF_vars(LetGo(t))
    /\ \A t \in Threads : WF_vars(UnlockPortRewiring(t))
    /\ \A t \in Apps : SF_vars(MayIssue(t) /\ IssueRewire(t))
    /\ \A t \in Threads : SF_vars(pause_revoked /\ MayUnpause(t) /\ IssuePause(t))

FairSpec == Spec /\ Fairness

\* New irrevocable tickets, which a pending revocation does not hold back,
\* and new revocations, which come from user actions, stop coming.
Quiet == <>[][/\ pending_revocations' <= pending_revocations
              /\ \A t \in Threads : irr_held'[t] <= irr_held[t]]_vars

\* A revoke gets through, and whoever waits for a ticket or for its renewal
\* gets on: no freeze of the engine by pausing or rewiring.
NoFreeze == Quiet => \A t \in Threads : pc[t] # "run" ~> pc[t] = "run"
=============================================================================
