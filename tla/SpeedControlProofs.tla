--------------------------- MODULE SpeedControlProofs ---------------------------
(***************************************************************************)
(* Proofs about the port ticket and playback speed, for any number of       *)
(* threads and speeds.                                                      *)
(*                                                                         *)
(* The first part is about the ticket, by itself (Spec is PortTicket's): its *)
(* counters agree with the holder list, nobody sleeps past a wake-up, and an *)
(* atomic section is exclusive.                                             *)
(*                                                                         *)
(* The second part is about the engine: two changes of the speed never      *)
(* meet, no waiting setter is forgotten, and audio output, the lock of stop *)
(* and the last wish are as they must be when no call is left.  What is     *)
(* shown follows a call through its steps: "back" is the stack of a thread, *)
(* and most of the invariant says which lock goes with which step.          *)
(*                                                                         *)
(* The third part puts the two together: speed control uses the ticket as   *)
(* module PortTicket says its callers do, so that what the first part shows *)
(* of any such callers holds of the engine: whoever revokes the tickets for *)
(* a pause has a holder to wait for.                                        *)
(***************************************************************************)
EXTENDS SpeedControl, SumLemmas, SequenceTheorems

-----------------------------------------------------------------------------
(* The inductive invariant. *)

\* What the entry of a thread says, by where the thread waits: its own grants
\* are saved exactly while it has revokes nested, and only then.
Entry(t) ==
    /\ saved[t] <= low[t]
    /\ irr_held[t] <= low[t]
    /\ nest[t] = 0 <=> saved[t] = 0
    /\ pc[t] = "acquire" => low[t] = 1 /\ nest[t] = 0 /\ irr_held[t] = 0
    /\ pc[t] = "renew" => low[t] > 0 /\ nest[t] = 0 /\ irr_held[t] = 0
    /\ pc[t] = "stranger" => low[t] = 0 /\ nest[t] = 0

Entries == \A t \in Threads : Entry(t)

\* There are at most two revocations: that of the writer of
\* port_rewiring_lock and the pause.  The public status tells them.
Revocations ==
    /\ rewirers = B2N(writer # NoThread)
    /\ pause_revoked <=> pauser # NoThread
    /\ pending_revocations = rewirers + B2N(pause_revoked)
    /\ ticket_revoked = Status(pending_revocations, rewirers)
    /\ atomic_revokers = IF writer # NoThread /\ pc[writer] # "revoke" THEN 1 ELSE 0
    /\ atomic_revokers > 0 => atomic_revoker_thread = writer

\* Who waits in revoke, and how deep a thread's revokes can nest.
Revoker(t) ==
    /\ pc[t] = "revoke" => \/ arg[t] = Rewire /\ writer = t
                           \/ arg[t] = Pause /\ pauser = t /\ writer # t
    /\ nest[t] <= B2N(writer = t) + B2N(pauser = t)

Revokers == \A t \in Threads : Revoker(t)

\* Who waits where.
Sleepers ==
    /\ \A t \in asleep_issued : pc[t] \in {"acquire", "renew", "stranger"}
    /\ \A t \in asleep_revoked : pc[t] = "revoke"

\* The types of all but the counters, which Revocations and Counts give.
Types ==
    /\ pause_revoked \in BOOLEAN
    /\ atomic_revoker_thread \in Threads \cup {NoThread}
    /\ low \in [Threads -> 0 .. MaxHold]
    /\ nest \in [Threads -> 0 .. 2]
    /\ writer \in Threads \cup {NoThread}
    /\ readers \subseteq Threads
    /\ pc \in [Threads -> Waits]
    /\ arg \in [Threads -> Flags]
    /\ asleep_issued \subseteq Threads
    /\ asleep_revoked \subseteq Threads
    /\ saved \in [Threads -> 0 .. MaxHold]
    /\ irr_held \in [Threads -> 0 .. MaxHold]
    /\ pauser \in Threads \cup {NoThread}

Counts ==
    /\ tickets_granted = SumFunction(Grants)
    /\ irrevocable_tickets = SumFunction(irr_held)
    /\ plain_renewers = Cardinality(PlainRenewers)

Core == Types /\ Counts /\ Entries /\ Revocations /\ Revokers /\ Sleepers

-----------------------------------------------------------------------------
(* What the sums are, and how they change. *)

\* What the holder table counts are natural numbers.
LEMMA GrantsNat ==
    ASSUME Types, Entries
    PROVE  /\ Grants \in [Threads -> Nat]
           /\ irr_held \in [Threads -> Nat]
           /\ PlainRenewers \subseteq Threads
<1>1. MaxHold \in Nat
  BY TicketAssumption
<1>2. ASSUME NEW t \in Threads
      PROVE  Granted(t) \in Nat
  <2>1. low[t] \in Nat /\ saved[t] \in Nat /\ saved[t] <= low[t]
    BY <1>1 DEF Types, Entries, Entry
  <2> QED
    BY <2>1 DEF Granted
<1>3. irr_held \in [Threads -> Nat]
  BY <1>1 DEF Types
<1> QED
  BY <1>2, <1>3 DEF Grants, PlainRenewers

\* The counters are natural numbers, no smaller than what a thread adds.
LEMMA CountsNat ==
    ASSUME Core
    PROVE  /\ tickets_granted \in Nat
           /\ irrevocable_tickets \in Nat
           /\ plain_renewers \in Nat
           /\ \A t \in Threads : Granted(t) <= tickets_granted
           /\ \A t \in Threads : irr_held[t] <= irrevocable_tickets
           /\ \A t \in PlainRenewers : plain_renewers > 0
<1>1. /\ Grants \in [Threads -> Nat] /\ irr_held \in [Threads -> Nat]
      /\ PlainRenewers \subseteq Threads
  BY GrantsNat DEF Core
<1>2. IsFiniteSet(Threads)
  BY TicketAssumption
<1>3. SumFunction(Grants) \in Nat /\ SumFunction(irr_held) \in Nat
  BY <1>1, <1>2, SumIsNat
<1>4. \A t \in Threads : Grants[t] <= SumFunction(Grants) /\ irr_held[t] <= SumFunction(irr_held)
  BY <1>1, <1>2, SumAtLeast
<1>5. IsFiniteSet(PlainRenewers)
  BY <1>1, <1>2, FS_Subset
<1>6. /\ Cardinality(PlainRenewers) \in Nat
      /\ Cardinality(PlainRenewers) = 0 <=> PlainRenewers = {}
  BY <1>5, FS_CardinalityType, FS_EmptySet
<1>7. \A t \in Threads : Grants[t] = Granted(t)
  BY DEF Grants
<1> QED
  BY <1>3, <1>4, <1>6, <1>7 DEF Core, Counts

\* A step that changes the entry of t only, and the counters by as much,
\* keeps the counters exact.
LEMMA CountsFollow ==
    ASSUME Core, Types', Entries', NEW t \in Threads,
           \A u \in Threads \ {t} : /\ Granted(u)' = Granted(u)
                                    /\ irr_held'[u] = irr_held[u]
                                    /\ u \in PlainRenewers' <=> u \in PlainRenewers,
           tickets_granted' = tickets_granted + Granted(t)' - Granted(t),
           irrevocable_tickets' = irrevocable_tickets + irr_held'[t] - irr_held[t],
           plain_renewers' = plain_renewers + B2N(t \in PlainRenewers') - B2N(t \in PlainRenewers)
    PROVE  Counts'
<1>1. /\ Grants \in [Threads -> Nat] /\ irr_held \in [Threads -> Nat]
      /\ PlainRenewers \subseteq Threads
  BY GrantsNat DEF Core
<1>2. /\ Grants' \in [Threads -> Nat] /\ irr_held' \in [Threads -> Nat]
      /\ PlainRenewers' \subseteq Threads
  <2>1. MaxHold \in Nat
    BY TicketAssumption
  <2>2. ASSUME NEW u \in Threads
        PROVE  Granted(u)' \in Nat
    <3>1. low'[u] \in Nat /\ saved'[u] \in Nat /\ saved'[u] <= low'[u]
      BY <2>1 DEF Types, Entries, Entry
    <3> QED
      BY <3>1 DEF Granted
  <2>3. irr_held' \in [Threads -> Nat]
    BY <2>1 DEF Types
  <2> QED
    BY <2>2, <2>3 DEF Grants, PlainRenewers
<1>3. IsFiniteSet(Threads)
  BY TicketAssumption
<1>4. \A u \in Threads : Grants[u] = Granted(u) /\ Grants'[u] = Granted(u)'
  BY DEF Grants
<1>5. tickets_granted' = SumFunction(Grants')
  <2>1. SumFunction(Grants') = SumFunction(Grants) + Grants'[t] - Grants[t]
    <3>1. Grants \in [Threads -> Int] /\ Grants' \in [Threads -> Int]
      BY <1>1, <1>2
    <3>2. \A u \in Threads \ {t} : Grants'[u] = Grants[u]
      BY <1>4
    <3> QED
      BY <1>3, <3>1, <3>2, SumUpdate
  <2> QED
    BY <1>4, <2>1 DEF Core, Counts
<1>6. irrevocable_tickets' = SumFunction(irr_held')
  <2>1. irr_held \in [Threads -> Int] /\ irr_held' \in [Threads -> Int]
    BY <1>1, <1>2
  <2>2. SumFunction(irr_held') = SumFunction(irr_held) + irr_held'[t] - irr_held[t]
    BY <1>3, <2>1, SumUpdate
  <2> QED
    BY <2>2 DEF Core, Counts
<1>7. plain_renewers' = Cardinality(PlainRenewers')
  <2>1. IsFiniteSet(PlainRenewers)
    BY <1>1, <1>3, FS_Subset
  <2>2. plain_renewers = Cardinality(PlainRenewers) /\ Cardinality(PlainRenewers) \in Nat
    BY <2>1, FS_CardinalityType DEF Core, Counts
  <2>3. CASE t \in PlainRenewers' <=> t \in PlainRenewers
    <3>1. PlainRenewers' = PlainRenewers
      BY <1>1, <1>2, <2>3
    <3> QED
      BY <2>2, <2>3, <3>1 DEF B2N
  <2>4. CASE t \in PlainRenewers' /\ t \notin PlainRenewers
    <3>1. PlainRenewers' = PlainRenewers \cup {t}
      BY <1>1, <1>2, <2>4
    <3>2. Cardinality(PlainRenewers') = Cardinality(PlainRenewers) + 1
      BY <2>1, <2>4, <3>1, FS_AddElement
    <3> QED
      BY <2>2, <2>4, <3>2 DEF B2N
  <2>5. CASE t \notin PlainRenewers' /\ t \in PlainRenewers
    <3>1. PlainRenewers' = PlainRenewers \ {t}
      BY <1>1, <1>2, <2>5
    <3>2. Cardinality(PlainRenewers') = Cardinality(PlainRenewers) - 1
      BY <2>1, <2>5, <3>1, FS_RemoveElement
    <3> QED
      BY <2>2, <2>5, <3>2 DEF B2N
  <2> QED
    BY <2>3, <2>4, <2>5
<1> QED
  BY <1>5, <1>6, <1>7 DEF Counts

-----------------------------------------------------------------------------
(* Each operation keeps Core. *)

\* The entry of a thread, in numbers.
LEMMA EntryTypes ==
    ASSUME Core, NEW t \in Threads
    PROVE  /\ low[t] \in Nat /\ low[t] <= MaxHold /\ MaxHold \in Nat
           /\ saved[t] \in Nat /\ saved[t] <= low[t]
           /\ irr_held[t] \in Nat /\ irr_held[t] <= low[t]
           /\ nest[t] \in 0 .. 2 /\ (nest[t] = 0 <=> saved[t] = 0)
           /\ nest[t] <= B2N(writer = t) + B2N(pauser = t)
  BY TicketAssumption DEF Core, Types, Entries, Entry, Revokers, Revoker

\* A running thread takes one more ticket, or sets out to wait for its first.
LEMMA AcquireKeeps ==
    ASSUME Core, NEW t \in Threads, NEW irr \in BOOLEAN,
           MayAcquire(t, irr), Acquire(t, irr)
    PROVE  Core'
<1> USE DEF Running, Plain, Irrevocable, Rewire
<1> USE EntryTypes
<1>0. pc[t] = "run" /\ low[t] < MaxHold
  BY DEF Acquire, MayAcquire
<1>1. Types'
  <2>1. low' \in [Threads -> 0 .. MaxHold]
    BY <1>0 DEF Acquire, Core, Types
  <2>2. irr_held' \in [Threads -> 0 .. MaxHold]
    BY <1>0 DEF Acquire, Core, Types, Grant, B2N
  <2>3. /\ pc' \in [Threads -> Waits] /\ arg' \in [Threads -> Flags]
        /\ asleep_issued' \subseteq Threads /\ asleep_revoked' \subseteq Threads
    BY DEF Acquire, Core, Types, Grant, threadVars, sleepVars, Waits, Flags
  <2> QED
    BY <2>1, <2>2, <2>3 DEF Acquire, Core, Types, statusVars, lockVars
<1>2. Entries'
  <2> SUFFICES ASSUME NEW u \in Threads
               PROVE  Entry(u)'
    BY DEF Entries
  <2>1. CASE u # t
    BY <2>1 DEF Acquire, Core, Types, Entries, Entry, Grant, threadVars
  <2>2. CASE u = t
    BY <1>0, <2>2 DEF Acquire, Core, Types, Entries, Entry, Grant, threadVars, Found, B2N
  <2> QED
    BY <2>1, <2>2
<1>3. Counts'
  <2>1. \A u \in Threads \ {t} : /\ Granted(u)' = Granted(u)
                                 /\ irr_held'[u] = irr_held[u]
                                 /\ u \in PlainRenewers' <=> u \in PlainRenewers
    BY DEF Acquire, Core, Types, Grant, threadVars, Granted, PlainRenewers
  <2>2. t \notin PlainRenewers' /\ t \notin PlainRenewers
    BY <1>0 DEF Acquire, Core, Types, Grant, threadVars, PlainRenewers
  <2>3. tickets_granted' = tickets_granted + Granted(t)' - Granted(t)
    BY <1>0, CountsNat DEF Acquire, Core, Types, Grant, grantVars, threadVars, Granted, Found
  <2>4. irrevocable_tickets' = irrevocable_tickets + irr_held'[t] - irr_held[t]
    BY <1>0, CountsNat DEF Acquire, Core, Types, Grant, grantVars, B2N
  <2>5. plain_renewers' = plain_renewers + B2N(t \in PlainRenewers') - B2N(t \in PlainRenewers)
    BY <2>2, CountsNat DEF Acquire, Grant, grantVars, B2N
  <2> QED
    BY <1>1, <1>2, <2>1, <2>3, <2>4, <2>5, CountsFollow
<1>4. Revocations'
  BY <1>0 DEF Acquire, Core, Types, Revocations, statusVars, lockVars, Status, B2N, threadVars
<1>5. Revokers'
  BY <1>0 DEF Acquire, Core, Types, Revokers, Revoker, statusVars, lockVars, B2N, threadVars
<1>6. Sleepers'
  BY <1>0 DEF Acquire, Core, Types, Sleepers, sleepVars, threadVars
<1> QED
  BY <1>1, <1>2, <1>3, <1>4, <1>5, <1>6 DEF Core

\* Who was woken in acquire takes its ticket or goes on waiting.
LEMMA AcquireWakeKeeps ==
    ASSUME Core, NEW t \in Threads, AcquireWake(t)
    PROVE  Core'
<1> USE EntryTypes DEF Plain, Irrevocable, Rewire
<1>0. pc[t] = "acquire" /\ low[t] = 1 /\ nest[t] = 0 /\ saved[t] = 0 /\ irr_held[t] = 0
  BY DEF AcquireWake, Core, Entries, Entry
<1>1. Types'
  <2>1. irr_held' \in [Threads -> 0 .. MaxHold]
    BY <1>0 DEF AcquireWake, Core, Types, Grant, B2N
  <2>2. /\ pc' \in [Threads -> Waits] /\ arg' \in [Threads -> Flags]
        /\ asleep_issued' \subseteq Threads
    BY DEF AcquireWake, Core, Types, threadVars, Waits, Flags
  <2> QED
    BY <2>1, <2>2 DEF AcquireWake, Core, Types, statusVars, lockVars
<1>2. Entries'
  <2> SUFFICES ASSUME NEW u \in Threads
               PROVE  Entry(u)'
    BY DEF Entries
  <2>1. CASE u # t
    BY <2>1 DEF AcquireWake, Core, Types, Entries, Entry, Grant, threadVars
  <2>2. CASE u = t
    BY <1>0, <2>2 DEF AcquireWake, Core, Types, Entries, Entry, Grant, threadVars, B2N
  <2> QED
    BY <2>1, <2>2
<1>3. Counts'
  <2>1. \A u \in Threads \ {t} : /\ Granted(u)' = Granted(u)
                                 /\ irr_held'[u] = irr_held[u]
                                 /\ u \in PlainRenewers' <=> u \in PlainRenewers
    BY DEF AcquireWake, Core, Types, Grant, threadVars, Granted, PlainRenewers
  <2>2. t \notin PlainRenewers' /\ t \notin PlainRenewers
    BY <1>0 DEF AcquireWake, Core, Types, Grant, threadVars, PlainRenewers
  <2>3. tickets_granted' = tickets_granted + Granted(t)' - Granted(t)
    BY <1>0, CountsNat DEF AcquireWake, Core, Types, Grant, grantVars, threadVars, Granted
  <2>4. irrevocable_tickets' = irrevocable_tickets + irr_held'[t] - irr_held[t]
    BY <1>0, CountsNat DEF AcquireWake, Core, Types, Grant, grantVars, B2N
  <2>5. plain_renewers' = plain_renewers + B2N(t \in PlainRenewers') - B2N(t \in PlainRenewers)
    BY <2>2, CountsNat DEF AcquireWake, Grant, grantVars, B2N
  <2> QED
    BY <1>1, <1>2, <2>1, <2>3, <2>4, <2>5, CountsFollow
<1>4. Revocations'
  BY <1>0 DEF AcquireWake, Core, Types, Revocations, statusVars, lockVars, Status, B2N, threadVars
<1>5. Revokers'
  BY <1>0 DEF AcquireWake, Core, Types, Revokers, Revoker, statusVars, lockVars, B2N, threadVars
<1>6. Sleepers'
  BY <1>0 DEF AcquireWake, Core, Types, Sleepers, threadVars
<1> QED
  BY <1>1, <1>2, <1>3, <1>4, <1>5, <1>6 DEF Core

\* A thread gives back what it took since its own revoke.
LEMMA ReleaseKeeps ==
    ASSUME Core, NEW t \in Threads, NEW irr \in BOOLEAN,
           MayRelease(t, irr), Release(t, irr)
    PROVE  Core'
<1> USE EntryTypes DEF Plain, Irrevocable, Rewire
<1>0. pc[t] = "run" /\ low[t] > saved[t] /\ B2N(irr) <= irr_held[t]
      /\ irr_held[t] - B2N(irr) <= low[t] - 1
  BY DEF Release, MayRelease, Running, B2N
<1>1. Types'
  <2>1. low' \in [Threads -> 0 .. MaxHold] /\ irr_held' \in [Threads -> 0 .. MaxHold]
    BY <1>0 DEF Release, Core, Types, B2N
  <2>2. asleep_revoked' \subseteq Threads
    BY DEF Release, Core, Types
  <2> QED
    BY <2>1, <2>2 DEF Release, Core, Types, statusVars, lockVars, threadVars
<1>2. Entries'
  <2> SUFFICES ASSUME NEW u \in Threads
               PROVE  Entry(u)'
    BY DEF Entries
  <2>1. CASE u # t
    BY <2>1 DEF Release, Core, Types, Entries, Entry, threadVars
  <2>2. CASE u = t
    BY <1>0, <2>2 DEF Release, Core, Types, Entries, Entry, threadVars, B2N
  <2> QED
    BY <2>1, <2>2
<1>3. Counts'
  <2>1. \A u \in Threads \ {t} : /\ Granted(u)' = Granted(u)
                                 /\ irr_held'[u] = irr_held[u]
                                 /\ u \in PlainRenewers' <=> u \in PlainRenewers
    BY DEF Release, Core, Types, threadVars, Granted, PlainRenewers
  <2>2. t \notin PlainRenewers' /\ t \notin PlainRenewers
    BY <1>0 DEF Release, threadVars, PlainRenewers
  <2>3. Granted(t) = low[t] - saved[t] /\ Granted(t)' = low[t] - 1 - saved[t]
    BY <1>0 DEF Release, Core, Types, threadVars, Granted
  <2>4. tickets_granted' = tickets_granted + Granted(t)' - Granted(t)
    BY <1>0, <2>3, CountsNat DEF Release
  <2>5. irrevocable_tickets' = irrevocable_tickets + irr_held'[t] - irr_held[t]
    BY <1>0, CountsNat DEF Release, Core, Types, IrrevocablesAfter, B2N
  <2>6. plain_renewers' = plain_renewers + B2N(t \in PlainRenewers') - B2N(t \in PlainRenewers)
    BY <2>2, CountsNat DEF Release, B2N
  <2> QED
    BY <1>1, <1>2, <2>1, <2>4, <2>5, <2>6, CountsFollow
<1>4. Revocations'
  BY <1>0 DEF Release, Core, Types, Revocations, statusVars, lockVars, Status, B2N, threadVars
<1>5. Revokers'
  BY <1>0 DEF Release, Core, Types, Revokers, Revoker, statusVars, lockVars, B2N, threadVars
<1>6. Sleepers'
  BY <1>0 DEF Release, Core, Types, Sleepers, threadVars
<1> QED
  BY <1>1, <1>2, <1>3, <1>4, <1>5, <1>6 DEF Core

\* A holder that renews gets back what it had saved; while it waits, nothing
\* of its own is granted.
LEMMA RenewHolderKeeps ==
    ASSUME Core, NEW t \in Threads, NEW f \in {Plain, Irrevocable, Rewire},
           MayRenew(t, f), Renew(t, f), Found(t)
    PROVE  Core'
<1> USE EntryTypes DEF Plain, Irrevocable, Rewire
<1>0. /\ pc[t] = "run" /\ low[t] > 0 /\ RenewHolder(t, f)
      /\ nest[t] > 0 => low[t] = saved[t]
      /\ f = "irrevocable" \/ irr_held[t] = 0
      /\ UNCHANGED <<statusVars, lockVars, pauser>>
  BY DEF Renew, MayRenew, Running, Found
<1>1. Types'
  <2>1. nest' \in [Threads -> 0 .. 2] /\ saved' \in [Threads -> 0 .. MaxHold]
    BY <1>0 DEF RenewHolder, Core, Types
  <2>2. /\ pc' \in [Threads -> Waits] /\ arg' \in [Threads -> Flags]
        /\ asleep_issued' \subseteq Threads /\ asleep_revoked' \subseteq Threads
    BY <1>0 DEF RenewHolder, Core, Types, threadVars, Waits, Flags
  <2> QED
    BY <1>0, <2>1, <2>2 DEF RenewHolder, Core, Types, statusVars, lockVars
<1>2. RenewWaits(f) => irr_held[t] = 0
  BY <1>0, CountsNat DEF RenewWaits
<1>3. Entries'
  <2> SUFFICES ASSUME NEW u \in Threads
               PROVE  Entry(u)'
    BY DEF Entries
  <2>1. CASE u # t
    BY <1>0, <2>1 DEF RenewHolder, Core, Types, Entries, Entry, threadVars
  <2>2. CASE u = t
    BY <1>0, <1>2, <2>2 DEF RenewHolder, Core, Types, Entries, Entry, threadVars
  <2> QED
    BY <2>1, <2>2
<1>4. Counts'
  <2>1. \A u \in Threads \ {t} : /\ Granted(u)' = Granted(u)
                                 /\ irr_held'[u] = irr_held[u]
                                 /\ u \in PlainRenewers' <=> u \in PlainRenewers
    BY <1>0 DEF RenewHolder, Core, Types, threadVars, Granted, PlainRenewers
  <2>2. t \notin PlainRenewers
    BY <1>0 DEF PlainRenewers
  <2>3. t \in PlainRenewers' <=> RenewWaits(f) /\ f # Rewire
    BY <1>0 DEF RenewHolder, Core, Types, threadVars, PlainRenewers
  <2>4. Granted(t) = low[t] - saved[t] /\ Granted(t)' = IF RenewWaits(f) THEN 0 ELSE low[t]
    BY <1>0 DEF RenewHolder, Core, Types, threadVars, Granted
  <2>5. Restored(t) = tickets_granted + low[t] - Granted(t)
    BY <1>0, <2>4, CountsNat DEF Restored
  <2>6. tickets_granted' = tickets_granted + Granted(t)' - Granted(t)
    BY <1>0, <2>4, <2>5, CountsNat DEF RenewHolder
  <2>7. irrevocable_tickets' = irrevocable_tickets + irr_held'[t] - irr_held[t]
    BY <1>0, CountsNat DEF RenewHolder
  <2>8. plain_renewers' = plain_renewers + B2N(t \in PlainRenewers') - B2N(t \in PlainRenewers)
    BY <1>0, <2>2, <2>3, CountsNat DEF RenewHolder, B2N
  <2> QED
    BY <1>1, <1>3, <2>1, <2>6, <2>7, <2>8, CountsFollow
<1>5. Revocations'
  BY <1>0 DEF RenewHolder, Core, Types, Revocations, statusVars, lockVars, Status, B2N, threadVars
<1>6. Revokers'
  <2> SUFFICES ASSUME NEW u \in Threads
               PROVE  Revoker(u)'
    BY DEF Revokers
  <2>1. CASE u # t
    BY <1>0, <2>1 DEF RenewHolder, Core, Types, Revokers, Revoker, lockVars, B2N, threadVars
  <2>2. CASE u = t
    BY <1>0, <2>2 DEF RenewHolder, Core, Types, Revokers, Revoker, lockVars, B2N, threadVars
  <2> QED
    BY <2>1, <2>2
<1>7. Sleepers'
  BY <1>0 DEF RenewHolder, Core, Types, Sleepers, threadVars
<1> QED
  BY <1>1, <1>3, <1>4, <1>5, <1>6, <1>7 DEF Core

\* A thread without a ticket waits for the other decoders' first ones.
LEMMA RenewStrangerKeeps ==
    ASSUME Core, NEW t \in Threads, NEW f \in {Plain, Irrevocable, Rewire},
           Renew(t, f), ~Found(t)
    PROVE  Core'
<1> USE EntryTypes DEF Plain, Irrevocable, Rewire
<1>0. /\ pc[t] = "run" /\ low[t] = 0 /\ nest[t] = 0 /\ RenewStranger(t)
      /\ UNCHANGED <<statusVars, lockVars, pauser>>
  BY DEF Renew, Running, Found
<1>1. Types'
  <2>1. pc' \in [Threads -> Waits] /\ asleep_issued' \subseteq Threads
    BY <1>0 DEF RenewStranger, Core, Types, Waits
  <2> QED
    BY <1>0, <2>1 DEF RenewStranger, Core, Types, statusVars, lockVars, entryVars
<1>2. Entries'
  BY <1>0 DEF RenewStranger, Core, Types, Entries, Entry, entryVars
<1>3. Counts'
  <2>1. \A u \in Threads : /\ Granted(u)' = Granted(u)
                           /\ irr_held'[u] = irr_held[u]
                           /\ u \in PlainRenewers' <=> u \in PlainRenewers
    BY <1>0 DEF RenewStranger, Core, Types, entryVars, Granted, PlainRenewers
  <2>2. Granted(t) = 0 /\ Granted(t)' = 0
    BY <1>0, <2>1 DEF Granted
  <2>3. UNCHANGED grantVars
    BY <1>0 DEF RenewStranger
  <2>4. tickets_granted' = tickets_granted + Granted(t)' - Granted(t)
    BY <2>2, <2>3, CountsNat DEF grantVars
  <2>5. irrevocable_tickets' = irrevocable_tickets + irr_held'[t] - irr_held[t]
    BY <2>1, <2>3, CountsNat DEF grantVars
  <2>6. plain_renewers' = plain_renewers + B2N(t \in PlainRenewers') - B2N(t \in PlainRenewers)
    BY <2>1, <2>3, CountsNat DEF grantVars, B2N
  <2> QED
    BY <1>1, <1>2, <2>1, <2>4, <2>5, <2>6, CountsFollow
<1>4. Revocations'
  BY <1>0 DEF RenewStranger, Core, Types, Revocations, statusVars, lockVars, Status, B2N
<1>5. Revokers'
  BY <1>0 DEF RenewStranger, Core, Types, Revokers, Revoker, entryVars, lockVars, B2N
<1>6. Sleepers'
  BY <1>0 DEF RenewStranger, Core, Types, Sleepers
<1> QED
  BY <1>1, <1>2, <1>3, <1>4, <1>5, <1>6 DEF Core

\* Who was woken in renew has its grants again or goes on waiting.
LEMMA RenewWakeKeeps ==
    ASSUME Core, NEW t \in Threads, RenewWake(t)
    PROVE  Core'
<1> USE EntryTypes DEF Plain, Irrevocable, Rewire
<1>0. /\ pc[t] \in {"renew", "stranger"} /\ nest[t] = 0 /\ saved[t] = 0
      /\ pc[t] = "stranger" => low[t] = 0
      /\ UNCHANGED <<statusVars, entryVars, lockVars, asleep_revoked, pauser>>
  BY DEF RenewWake, Core, Entries, Entry
<1>1. Types'
  <2>1. /\ pc' \in [Threads -> Waits] /\ arg' \in [Threads -> Flags]
        /\ asleep_issued' \subseteq Threads
    BY DEF RenewWake, Core, Types, threadVars, Waits, Flags
  <2> QED
    BY <1>0, <2>1 DEF Core, Types, statusVars, lockVars, entryVars
<1>2. Entries'
  <2> SUFFICES ASSUME NEW u \in Threads
               PROVE  Entry(u)'
    BY DEF Entries
  <2>1. pc'[u] = pc[u] \/ pc'[u] = "run"
    BY DEF RenewWake, Core, Types, threadVars
  <2> QED
    BY <1>0, <2>1 DEF Core, Types, Entries, Entry, entryVars
<1>3. Counts'
  <2>1. \A u \in Threads \ {t} : /\ Granted(u)' = Granted(u)
                                 /\ irr_held'[u] = irr_held[u]
                                 /\ u \in PlainRenewers' <=> u \in PlainRenewers
    <3>1. \A u \in Threads \ {t} : pc'[u] = pc[u] /\ arg'[u] = arg[u]
      BY DEF RenewWake, Core, Types, threadVars
    <3> QED
      BY <1>0, <3>1 DEF entryVars, Granted, PlainRenewers
  <2>2. irrevocable_tickets' = irrevocable_tickets /\ irr_held' = irr_held
    BY <1>0 DEF RenewWake, entryVars, grantVars
  <2>3. CASE pc'[t] = pc[t]
    <3>1. UNCHANGED <<grantVars, threadVars>>
      BY <1>0, <2>3 DEF RenewWake, Core, Types
    <3>2. Granted(t)' = Granted(t) /\ (t \in PlainRenewers' <=> t \in PlainRenewers)
      BY <1>0, <3>1 DEF entryVars, Granted, PlainRenewers, threadVars
    <3>3. Granted(t) \in Nat
      BY GrantsNat DEF Core, Grants
    <3> QED
      BY <1>1, <1>2, <2>1, <2>2, <3>1, <3>2, <3>3, CountsNat, CountsFollow DEF grantVars, B2N
  <2>4. CASE pc'[t] # pc[t] /\ pc[t] = "renew"
    <3>1. /\ tickets_granted' = tickets_granted + low[t]
          /\ plain_renewers' = plain_renewers - B2N(arg[t] # Rewire)
          /\ pc'[t] = "run"
      BY <2>4 DEF RenewWake, Core, Types, threadVars
    <3>2. Granted(t) = 0 /\ Granted(t)' = low[t]
      BY <1>0, <2>4, <3>1 DEF entryVars, Granted
    <3>3. t \notin PlainRenewers' /\ (t \in PlainRenewers <=> arg[t] # Rewire)
      BY <2>4, <3>1 DEF PlainRenewers
    <3> QED
      BY <1>1, <1>2, <2>1, <2>2, <3>1, <3>2, <3>3, CountsNat, CountsFollow DEF B2N
  <2>5. CASE pc'[t] # pc[t] /\ pc[t] = "stranger"
    <3>1. UNCHANGED grantVars /\ pc'[t] = "run"
      BY <2>5 DEF RenewWake, Core, Types, threadVars
    <3>2. Granted(t) = 0 /\ Granted(t)' = 0
      BY <1>0, <2>5, <3>1 DEF entryVars, Granted
    <3>3. t \notin PlainRenewers' /\ t \notin PlainRenewers
      BY <2>5, <3>1 DEF PlainRenewers
    <3> QED
      BY <1>1, <1>2, <2>1, <2>2, <3>1, <3>2, <3>3, CountsNat, CountsFollow DEF grantVars, B2N
  <2> QED
    BY <1>0, <2>3, <2>4, <2>5
<1>4. Revocations'
  <2>1. \A u \in Threads : pc'[u] = "revoke" <=> pc[u] = "revoke"
    BY DEF RenewWake, Core, Types, threadVars
  <2> QED
    BY <1>0, <2>1 DEF Core, Types, Revocations, statusVars, lockVars, Status, B2N
<1>5. Revokers'
  <2>1. \A u \in Threads : pc'[u] = "revoke" => pc[u] = "revoke" /\ arg'[u] = arg[u]
    BY DEF RenewWake, Core, Types, threadVars
  <2> QED
    BY <1>0, <2>1 DEF Core, Types, Revokers, Revoker, entryVars, lockVars, B2N
<1>6. Sleepers'
  BY DEF RenewWake, Core, Types, Sleepers, threadVars
<1> QED
  BY <1>1, <1>2, <1>3, <1>4, <1>5, <1>6 DEF Core

\* What revoke does to the entry of its thread: the grants are saved with the
\* first of its revokes that finds it a holder.
LEMMA RevokeEntries ==
    ASSUME Core, NEW t \in Threads, NEW f \in {Rewire, Pause},
           Running(t), nest[t] <= 1, RevokeSection(t, f),
           readers' = readers, writer' \in {writer, t}, pauser' \in {pauser, t},
           pause_revoked' \in BOOLEAN
    PROVE  /\ Types'
           /\ Entries'
           /\ Counts'
           /\ \A u \in Threads \ {t} : nest'[u] = nest[u]
           /\ nest'[t] \in {nest[t], nest[t] + 1}
<1> USE EntryTypes DEF Plain, Irrevocable, Rewire, Pause
<1>0. pc[t] = "run"
  BY DEF Running
<1>1. Types'
  <2>1. nest' \in [Threads -> 0 .. 2] /\ saved' \in [Threads -> 0 .. MaxHold]
    BY DEF RevokeSection, Core, Types
  <2>2. /\ pc' \in [Threads -> Waits] /\ arg' \in [Threads -> Flags]
        /\ asleep_issued' \subseteq Threads /\ asleep_revoked' \subseteq Threads
        /\ atomic_revoker_thread' \in Threads \cup {NoThread}
    BY DEF RevokeSection, Core, Types, threadVars, Waits, Flags, Own
  <2> QED
    BY <2>1, <2>2 DEF RevokeSection, Core, Types
<1>2. \A u \in Threads \ {t} :
         /\ nest'[u] = nest[u] /\ saved'[u] = saved[u] /\ pc'[u] = pc[u] /\ arg'[u] = arg[u]
  BY DEF RevokeSection, Core, Types, threadVars
<1>3. /\ low' = low /\ irr_held' = irr_held
      /\ nest'[t] = IF Found(t) THEN nest[t] + 1 ELSE nest[t]
      /\ saved'[t] = IF Found(t) /\ nest[t] = 0 THEN low[t] ELSE saved[t]
      /\ pc'[t] \in {"run", "revoke"}
  BY <1>0 DEF RevokeSection, Core, Types, threadVars
<1>4. Entries'
  <2> SUFFICES ASSUME NEW u \in Threads
               PROVE  Entry(u)'
    BY DEF Entries
  <2>1. CASE u # t
    BY <1>2, <1>3, <2>1 DEF Core, Entries, Entry
  <2>2. CASE u = t
    BY <1>3, <2>2 DEF Entry, Found
  <2> QED
    BY <2>1, <2>2
<1>5. Counts'
  <2>1. \A u \in Threads \ {t} : /\ Granted(u)' = Granted(u)
                                 /\ irr_held'[u] = irr_held[u]
                                 /\ u \in PlainRenewers' <=> u \in PlainRenewers
    BY <1>2, <1>3 DEF Granted, PlainRenewers
  <2>2. t \notin PlainRenewers' /\ t \notin PlainRenewers
    BY <1>0, <1>3 DEF PlainRenewers
  <2>3. Granted(t) = low[t] - saved[t] /\ Granted(t)' = low[t] - saved'[t]
    BY <1>0, <1>3 DEF Granted
  <2>4. tickets_granted' = tickets_granted + Granted(t)' - Granted(t)
    BY <1>3, <2>3, CountsNat DEF RevokeSection, SelfGrants, Found
  <2>5. irrevocable_tickets' = irrevocable_tickets /\ plain_renewers' = plain_renewers
    BY DEF RevokeSection
  <2> QED
    BY <1>1, <1>3, <1>4, <2>1, <2>2, <2>4, <2>5, CountsNat, CountsFollow DEF B2N
<1> QED
  BY <1>1, <1>2, <1>3, <1>4, <1>5

\* A rewire begins, or waits to begin: now there is a writer.
LEMMA RevokeRewireKeeps ==
    ASSUME Core, NEW t \in Threads, RevokeRewire(t)
    PROVE  Core'
<1> USE EntryTypes DEF Plain, Irrevocable, Rewire, Pause
<1>0. /\ pc[t] = "run" /\ writer = NoThread /\ writer' = t /\ t # NoThread
      /\ RevokeSection(t, Rewire)
      /\ UNCHANGED <<pause_revoked, readers, pauser>>
  BY TicketAssumption DEF RevokeRewire, Running
<1>1. nest[t] <= 1
  BY <1>0 DEF B2N
<1>2. /\ Types' /\ Entries' /\ Counts'
      /\ \A u \in Threads \ {t} : nest'[u] = nest[u]
      /\ nest'[t] \in {nest[t], nest[t] + 1}
  BY <1>0, <1>1, RevokeEntries DEF Running, Core, Types
<1>3. /\ atomic_revokers = 0 /\ rewirers = 0 /\ pending_revocations = B2N(pause_revoked)
      /\ ~InAtomic(t)
  BY <1>0 DEF Core, Revocations, B2N, InAtomic
<1>4. Revocations'
  <2>1. rewirers' = 1 /\ pending_revocations' = 1 + B2N(pause_revoked) /\ ticket_revoked' = 3
    BY <1>0, <1>3 DEF RevokeSection, Status, B2N
  <2>2. \/ pc'[t] = "revoke" /\ atomic_revokers' = 0
        \/ pc'[t] = "run" /\ atomic_revokers' = 1 /\ atomic_revoker_thread' = t
    BY <1>0, <1>3 DEF RevokeSection, Core, Types, Own, threadVars
  <2>3. pause_revoked' <=> pauser' # NoThread
    BY <1>0 DEF Core, Revocations
  <2> QED
    BY <1>0, <2>1, <2>2, <2>3 DEF Revocations, Status, B2N
<1>5. Revokers'
  <2> SUFFICES ASSUME NEW u \in Threads
               PROVE  Revoker(u)'
    BY DEF Revokers
  <2>1. CASE u # t
    <3>1. pc'[u] = pc[u] /\ arg'[u] = arg[u] /\ nest'[u] = nest[u]
      BY <1>0, <1>2, <2>1 DEF RevokeSection, Core, Types, threadVars
    <3>2. u # NoThread
      BY TicketAssumption
    <3> QED
      BY <1>0, <2>1, <3>1, <3>2 DEF Core, Revokers, Revoker, B2N
  <2>2. CASE u = t
    <3>1. pc'[t] = "revoke" => arg'[t] = Rewire
      BY <1>0 DEF RevokeSection, Core, Types, threadVars
    <3> QED
      BY <1>0, <1>2, <2>2, <3>1 DEF Core, Revokers, Revoker, B2N
  <2> QED
    BY <2>1, <2>2
<1>6. Sleepers'
  BY <1>0 DEF RevokeSection, Core, Types, Sleepers, threadVars
<1> QED
  BY <1>2, <1>4, <1>5, <1>6 DEF Core

\* A pause begins, or waits to begin.
LEMMA RevokePauseKeeps ==
    ASSUME Core, NEW t \in Threads, RevokePause(t)
    PROVE  Core'
<1> USE EntryTypes DEF Plain, Irrevocable, Rewire, Pause
<1>0. /\ pc[t] = "run" /\ pauser = NoThread /\ pauser' = t /\ t # NoThread
      /\ pause_revoked = FALSE /\ pause_revoked' = TRUE
      /\ RevokeSection(t, Pause)
      /\ UNCHANGED <<writer, readers>>
  BY TicketAssumption DEF RevokePause, Running, PauseFresh, lockVars, Core, Revocations, Types
<1>1. nest[t] <= 1
  BY <1>0 DEF B2N
<1>2. /\ Types' /\ Entries' /\ Counts'
      /\ \A u \in Threads \ {t} : nest'[u] = nest[u]
      /\ nest'[t] \in {nest[t], nest[t] + 1}
  BY <1>0, <1>1, RevokeEntries DEF Running
<1>3. /\ rewirers = B2N(writer # NoThread) /\ pending_revocations = rewirers
      /\ UNCHANGED <<atomic_revokers, atomic_revoker_thread>>
  BY <1>0 DEF Core, Revocations, B2N, RevokeSection, Own
<1>4. writer = t => pc'[t] = "run"
  BY <1>0 DEF Core, Types, Revocations, RevokeSection, InAtomic, threadVars
<1>5. Revocations'
  <2>1. rewirers' = rewirers /\ pending_revocations' = rewirers + 1 /\ ticket_revoked' = Status(1, rewirers)
    BY <1>0, <1>3 DEF RevokeSection, B2N
  <2>2. writer # NoThread => (pc'[writer] = "revoke" <=> pc[writer] = "revoke")
    BY <1>0, <1>4 DEF RevokeSection, Core, Types, threadVars
  <2> QED
    BY <1>0, <1>3, <2>1, <2>2 DEF Core, Revocations, Status, B2N
<1>6. Revokers'
  <2> SUFFICES ASSUME NEW u \in Threads
               PROVE  Revoker(u)'
    BY DEF Revokers
  <2>1. CASE u # t
    <3>1. pc'[u] = pc[u] /\ arg'[u] = arg[u] /\ nest'[u] = nest[u]
      BY <1>0, <1>2, <2>1 DEF RevokeSection, Core, Types, threadVars
    <3>2. u # NoThread
      BY TicketAssumption
    <3> QED
      BY <1>0, <2>1, <3>1, <3>2 DEF Core, Revokers, Revoker, B2N
  <2>2. CASE u = t
    <3>1. pc'[t] = "revoke" => arg'[t] = Pause
      BY <1>0 DEF RevokeSection, Core, Types, threadVars
    <3> QED
      BY <1>0, <1>2, <1>4, <2>2, <3>1 DEF Core, Revokers, Revoker, B2N
  <2> QED
    BY <2>1, <2>2
<1>7. Sleepers'
  BY <1>0 DEF RevokeSection, Core, Types, Sleepers, threadVars
<1> QED
  BY <1>2, <1>5, <1>6, <1>7 DEF Core

\* Who was woken in revoke comes back from it or goes on waiting.
LEMMA RevokeWakeKeeps ==
    ASSUME Core, NEW t \in Threads, RevokeWake(t)
    PROVE  Core'
<1> USE EntryTypes DEF Plain, Irrevocable, Rewire, Pause
<1>0. /\ pc[t] = "revoke" /\ t # NoThread
      /\ UNCHANGED <<pause_revoked, pending_revocations, rewirers, grantVars,
                     entryVars, lockVars, asleep_issued, pauser>>
      /\ pending_revocations > 0
      /\ \/ arg[t] = Rewire /\ writer = t
         \/ arg[t] = Pause /\ pauser = t /\ writer # t
  BY TicketAssumption DEF RevokeWake, Core, Revokers, Revoker, Revocations, B2N
<1>1. /\ pc' \in [Threads -> Waits] /\ arg' \in [Threads -> Flags]
      /\ \A u \in Threads \ {t} : pc'[u] = pc[u] /\ arg'[u] = arg[u]
      /\ pc'[t] = "run" \/ (pc'[t] = "revoke" /\ arg'[t] = arg[t])
  BY <1>0 DEF RevokeWake, Core, Types, threadVars, Waits, Flags
<1>2. Types'
  <2>1. asleep_revoked' \subseteq Threads /\ atomic_revoker_thread' \in Threads \cup {NoThread}
    BY <1>0 DEF RevokeWake, Core, Types, Own
  <2> QED
    BY <1>0, <1>1, <2>1 DEF Core, Types, entryVars, lockVars
<1>3. Entries'
  BY <1>0, <1>1 DEF Core, Entries, Entry, entryVars
<1>4. Counts'
  <2>1. \A u \in Threads : Granted(u)' = Granted(u) /\ (u \in PlainRenewers' <=> u \in PlainRenewers)
    BY <1>0, <1>1 DEF Granted, PlainRenewers, entryVars
  <2>2. Grants' = Grants /\ PlainRenewers' = PlainRenewers
    BY <2>1 DEF Grants, PlainRenewers
  <2> QED
    BY <1>0, <2>2 DEF Core, Counts, grantVars, entryVars
<1>5. Revocations'
  <2>1. ticket_revoked' = Status(pending_revocations, rewirers)
    BY <1>0 DEF RevokeWake, Core, Revocations, Status
  <2>2. CASE UNCHANGED <<threadVars, atomic_revokers, atomic_revoker_thread>>
    BY <1>0, <2>1, <2>2 DEF Core, Revocations, lockVars, threadVars, Status, B2N
  <2>3. CASE pc'[t] = "run" /\ Own(t, arg[t])
    <3>1. CASE arg[t] = Rewire
      BY <1>0, <2>1, <2>3, <3>1 DEF Core, Revocations, lockVars, Own, Status, B2N
    <3>2. CASE arg[t] # Rewire
      <4>1. writer # NoThread => pc'[writer] = pc[writer]
        BY <1>0, <1>1, <3>2 DEF Core, Types
      <4> QED
        BY <1>0, <2>1, <2>3, <3>2, <4>1 DEF Core, Revocations, lockVars, Own, Status, B2N
    <3> QED
      BY <3>1, <3>2
  <2> QED
    BY <2>2, <2>3 DEF RevokeWake, Core, Types
<1>6. Revokers'
  BY <1>0, <1>1 DEF Core, Revokers, Revoker, lockVars, entryVars, B2N
<1>7. Sleepers'
  BY <1>0, <1>1 DEF RevokeWake, Core, Types, Sleepers, threadVars
<1> QED
  BY <1>2, <1>3, <1>4, <1>5, <1>6, <1>7 DEF Core

\* What issue does to the entry of its thread: with the last of its revokes
\* the grants are back, all of them saved ones.
LEMMA IssueEntries ==
    ASSUME Core, NEW t \in Threads, NEW f \in {Rewire, Pause},
           Running(t), MayIssue(t), IssueSection(t, f),
           readers' = readers, writer' \in {writer, NoThread}, pauser' \in {pauser, NoThread},
           pause_revoked' \in BOOLEAN
    PROVE  /\ Types'
           /\ Entries'
           /\ Counts'
           /\ \A u \in Threads \ {t} : nest'[u] = nest[u]
           /\ nest'[t] = IF nest[t] > 0 THEN nest[t] - 1 ELSE 0
<1> USE EntryTypes DEF Plain, Irrevocable, Rewire, Pause
<1>0. pc[t] = "run" /\ (low[t] = saved[t] \/ nest[t] = 0)
  BY DEF Running, MayIssue
<1>1. Types'
  <2>1. nest' \in [Threads -> 0 .. 2] /\ saved' \in [Threads -> 0 .. MaxHold]
    BY DEF IssueSection, Core, Types
  <2>2. asleep_issued' \subseteq Threads /\ asleep_revoked' \subseteq Threads
    BY DEF IssueSection, Core, Types
  <2> QED
    BY <2>1, <2>2 DEF IssueSection, Core, Types, threadVars
<1>2. \A u \in Threads \ {t} : nest'[u] = nest[u] /\ saved'[u] = saved[u]
  BY DEF IssueSection, Core, Types
<1>3. /\ low' = low /\ irr_held' = irr_held /\ pc' = pc /\ arg' = arg
      /\ nest'[t] = IF nest[t] > 0 THEN nest[t] - 1 ELSE 0
      /\ saved'[t] = IF nest[t] = 1 THEN 0 ELSE saved[t]
  BY DEF IssueSection, Core, Types, threadVars
<1>4. Entries'
  <2> SUFFICES ASSUME NEW u \in Threads
               PROVE  Entry(u)'
    BY DEF Entries
  <2>1. CASE u # t
    BY <1>2, <1>3, <2>1 DEF Core, Entries, Entry
  <2>2. CASE u = t
    BY <1>0, <1>3, <2>2 DEF Entry
  <2> QED
    BY <2>1, <2>2
<1>5. Counts'
  <2>1. \A u \in Threads \ {t} : /\ Granted(u)' = Granted(u)
                                 /\ irr_held'[u] = irr_held[u]
                                 /\ u \in PlainRenewers' <=> u \in PlainRenewers
    BY <1>2, <1>3 DEF Granted, PlainRenewers
  <2>2. t \notin PlainRenewers' /\ t \notin PlainRenewers
    BY <1>0, <1>3 DEF PlainRenewers
  <2>3. Granted(t) = low[t] - saved[t] /\ Granted(t)' = low[t] - saved'[t]
    BY <1>0, <1>3 DEF Granted
  <2>4. tickets_granted' = tickets_granted + Granted(t)' - Granted(t)
    BY <1>0, <1>3, <2>3, CountsNat DEF IssueSection
  <2>5. irrevocable_tickets' = irrevocable_tickets /\ plain_renewers' = plain_renewers
    BY DEF IssueSection
  <2> QED
    BY <1>1, <1>3, <1>4, <2>1, <2>2, <2>4, <2>5, CountsNat, CountsFollow DEF B2N
<1> QED
  BY <1>1, <1>2, <1>3, <1>4, <1>5

\* A rewire ends.
LEMMA IssueRewireKeeps ==
    ASSUME Core, NEW t \in Threads, MayIssue(t), IssueRewire(t)
    PROVE  Core'
<1> USE EntryTypes DEF Plain, Irrevocable, Rewire, Pause
<1>0. /\ pc[t] = "run" /\ writer = t /\ writer' = NoThread /\ t # NoThread
      /\ IssueSection(t, Rewire)
      /\ UNCHANGED <<pause_revoked, readers, pauser>>
  BY TicketAssumption DEF IssueRewire, Running
<1>1. /\ Types' /\ Entries' /\ Counts'
      /\ \A u \in Threads \ {t} : nest'[u] = nest[u]
      /\ nest'[t] = IF nest[t] > 0 THEN nest[t] - 1 ELSE 0
  BY <1>0, IssueEntries DEF Running, Core, Types
<1>2. pc' = pc /\ arg' = arg
  BY <1>0 DEF IssueSection, threadVars
<1>3. Revocations'
  <2>1. atomic_revokers = 1 /\ rewirers = 1 /\ pending_revocations = 1 + B2N(pause_revoked)
    BY <1>0 DEF Core, Revocations, B2N
  <2>2. /\ atomic_revokers' = 0 /\ rewirers' = 0 /\ pending_revocations' = B2N(pause_revoked)
        /\ ticket_revoked' = Status(pending_revocations', 0)
    BY <1>0, <2>1 DEF IssueSection, RewirersAfter, StatusAfter, B2N
  <2> QED
    BY <1>0, <2>2 DEF Core, Revocations, B2N
<1>4. Revokers'
  <2> SUFFICES ASSUME NEW u \in Threads
               PROVE  Revoker(u)'
    BY DEF Revokers
  <2>1. CASE u # t
    BY TicketAssumption, <1>0, <1>1, <1>2, <2>1 DEF Core, Revokers, Revoker, B2N
  <2>2. CASE u = t
    BY <1>0, <1>1, <1>2, <2>2 DEF Core, Revokers, Revoker, B2N
  <2> QED
    BY <2>1, <2>2
<1>5. Sleepers'
  BY <1>0, <1>2 DEF IssueSection, Core, Sleepers
<1> QED
  BY <1>1, <1>3, <1>4, <1>5 DEF Core

\* A pause ends, by its thread or by one that holds nothing of its own.
LEMMA IssuePauseKeeps ==
    ASSUME Core, NEW t \in Threads, MayUnpause(t), IssuePause(t)
    PROVE  Core'
<1> USE EntryTypes DEF Plain, Irrevocable, Rewire, Pause
<1>0. /\ pc[t] = "run" /\ pauser' = NoThread /\ t # NoThread
      /\ pause_revoked = TRUE /\ pause_revoked' = FALSE
      /\ pauser \in Threads /\ pc[pauser] # "revoke"
      /\ pauser = t \/ nest[pauser] = 0
      /\ MayIssue(t) /\ IssueSection(t, Pause)
      /\ UNCHANGED <<writer, readers>>
  BY TicketAssumption DEF IssuePause, MayUnpause, Running, lockVars, Core, Revocations, Types
<1>1. /\ Types' /\ Entries' /\ Counts'
      /\ \A u \in Threads \ {t} : nest'[u] = nest[u]
      /\ nest'[t] = IF nest[t] > 0 THEN nest[t] - 1 ELSE 0
  BY <1>0, IssueEntries DEF Running, Core, Types
<1>2. pc' = pc /\ arg' = arg
  BY <1>0 DEF IssueSection, threadVars
<1>3. Revocations'
  <2>1. rewirers = B2N(writer # NoThread) /\ pending_revocations = rewirers + 1
    BY <1>0 DEF Core, Revocations, B2N
  <2>2. /\ rewirers' = rewirers /\ pending_revocations' = rewirers
        /\ ticket_revoked' = Status(pending_revocations', rewirers)
        /\ atomic_revokers' = atomic_revokers /\ atomic_revoker_thread' = atomic_revoker_thread
    BY <1>0, <2>1 DEF IssueSection, RewirersAfter, StatusAfter, B2N, Core, Revocations
  <2> QED
    BY <1>0, <1>2, <2>1, <2>2 DEF Core, Revocations, B2N
<1>4. Revokers'
  <2> SUFFICES ASSUME NEW u \in Threads
               PROVE  Revoker(u)'
    BY DEF Revokers
  <2>0. u # NoThread
    BY TicketAssumption
  <2>1. CASE u # t
    BY <1>0, <1>1, <1>2, <2>0, <2>1 DEF Core, Revokers, Revoker, B2N
  <2>2. CASE u = t
    BY <1>0, <1>1, <1>2, <2>2 DEF Core, Revokers, Revoker, B2N
  <2> QED
    BY <2>1, <2>2
<1>5. Sleepers'
  BY <1>0, <1>2 DEF IssueSection, Core, Sleepers
<1> QED
  BY <1>1, <1>3, <1>4, <1>5 DEF Core

\* Locking port_rewiring_lock for reading changes nothing of the ticket.
LEMMA ReadersKeep ==
    ASSUME Core, readers' \subseteq Threads,
           UNCHANGED <<statusVars, grantVars, entryVars, writer, threadVars, sleepVars, pauser>>
    PROVE  Core'
<1> USE DEF statusVars, grantVars, entryVars, threadVars, sleepVars
<1>1. Types'
  BY DEF Core, Types
<1>2. Grants' = Grants /\ PlainRenewers' = PlainRenewers
  BY DEF Grants, Granted, PlainRenewers
<1>3. Counts'
  BY <1>2 DEF Core, Counts
<1> QED
  BY <1>1, <1>3 DEF Core, Entries, Entry, Revocations, Status, Revokers, Revoker, Sleepers

\* Nobody holds a ticket at first.
LEMMA InitCore == Init => Core
<1> SUFFICES ASSUME Init PROVE Core
  OBVIOUS
<1>1. Types
  <2>1. 0 \in 0 .. MaxHold /\ 0 \in 0 .. 2
    BY TicketAssumption
  <2>2. "run" \in Waits /\ Plain \in Flags
    BY DEF Waits, Flags
  <2> QED
    BY <2>1, <2>2 DEF Init, Types
<1>2. IsFiniteSet(Threads)
  BY TicketAssumption
<1>3. Counts
  <2>1. Grants \in [Threads -> Int] /\ irr_held \in [Threads -> Int]
    BY DEF Init, Grants, Granted
  <2>2. \A t \in Threads : Grants[t] = 0 /\ irr_held[t] = 0
    BY DEF Init, Grants, Granted
  <2>3. SumFunction(Grants) = 0 /\ SumFunction(irr_held) = 0
    BY <1>2, <2>1, <2>2, SumOfZero
  <2>4. PlainRenewers = {}
    BY DEF Init, PlainRenewers
  <2>5. Cardinality(PlainRenewers) = 0
    BY <2>4, FS_EmptySet
  <2> QED
    BY <2>3, <2>5 DEF Init, Counts
<1>4. Entries
  BY DEF Init, Entries, Entry
<1>5. Revocations
  BY DEF Init, Revocations, Status, B2N
<1>6. Revokers
  BY TicketAssumption DEF Init, Revokers, Revoker, B2N
<1>7. Sleepers
  BY DEF Init, Sleepers
<1> QED
  BY <1>1, <1>3, <1>4, <1>5, <1>6, <1>7 DEF Core

\* Every step keeps Core, whatever the settings.
LEMMA NextCore == Core /\ [Next]_vars => Core'
<1> SUFFICES ASSUME Core, [Next]_vars PROVE Core'
  OBVIOUS
<1>1. CASE UNCHANGED vars
  BY <1>1, ReadersKeep DEF vars, lockVars, Core, Types
<1>2. ASSUME NEW t \in Threads, Step(t) PROVE Core'
  <2>1. ASSUME NEW irr \in BOOLEAN, MayAcquire(t, irr), Acquire(t, irr) PROVE Core'
    BY <2>1, AcquireKeeps
  <2>2. ASSUME NEW irr \in BOOLEAN, MayRelease(t, irr), Release(t, irr) PROVE Core'
    BY <2>2, ReleaseKeeps
  <2>3. ASSUME NEW f \in {Plain, Irrevocable, Rewire}, MayRenew(t, f), Renew(t, f) PROVE Core'
    BY <2>3, RenewHolderKeeps, RenewStrangerKeeps
  <2>4. CASE RevokeRewire(t)
    BY <2>4, RevokeRewireKeeps
  <2>5. CASE RevokePause(t)
    BY <2>5, RevokePauseKeeps
  <2>6. CASE MayIssue(t) /\ IssueRewire(t)
    BY <2>6, IssueRewireKeeps
  <2>7. CASE MayUnpause(t) /\ IssuePause(t)
    BY <2>7, IssuePauseKeeps
  <2>8. CASE LockPortRewiring(t)
    BY <2>8, ReadersKeep DEF LockPortRewiring, Core, Types
  <2>9. CASE UnlockPortRewiring(t)
    BY <2>9, ReadersKeep DEF UnlockPortRewiring, Core, Types
  <2> QED
    BY <1>2, <2>1, <2>2, <2>3, <2>4, <2>5, <2>6, <2>7, <2>8, <2>9 DEF Step
<1>3. ASSUME NEW t \in Threads, Wake(t) PROVE Core'
  BY <1>3, AcquireWakeKeeps, RenewWakeKeeps, RevokeWakeKeeps DEF Wake
<1> QED
  BY <1>1, <1>2, <1>3 DEF Next

\* Core gives the types of the counters too.
LEMMA CoreExact == Core => CountsExact
<1> SUFFICES ASSUME Core PROVE CountsExact
  OBVIOUS
<1>1. rewirers \in {0, 1} /\ pending_revocations \in 0 .. 2 /\ atomic_revokers \in {0, 1}
  BY DEF Core, Types, Revocations, B2N
<1>2. ticket_revoked \in {0, 1, 3}
  BY DEF Core, Revocations, Status
<1>3. TypeOK
  BY <1>1, <1>2, CountsNat DEF Core, Types, TypeOK
<1> QED
  BY <1>3 DEF Core, Counts, CountsExact

\* Types, entries, revocations and counts are right at any time, also with
\* holders that pause and applications that rewire.
THEOREM CoreHolds == Spec => []Core
  BY InitCore, NextCore, PTL DEF Spec

\* tickets_granted, irrevocable_tickets and plain_renewers agree with the
\* holder list at any time, for any threads and with any of the settings.
THEOREM CountsExactHolds == Spec => []CountsExact
  BY CoreHolds, CoreExact, PTL

-----------------------------------------------------------------------------
(* No lost wake-up, and exclusive atomic sections.  Both need that decoders do *)
(* not pause while they hold tickets, or that nobody rewires: self grants that *)
(* come back end the privacy of another thread's atomic section.               *)

\* Nobody nests revokes when holders do not pause, nobody rewires when the
\* application does not.
Settings ==
    /\ ~HolderPauses => \A t \in Threads : nest[t] = 0
    /\ ~Rewiring => writer = NoThread

\* Who sleeps for a ticket has something to wait for.
IssuedAsleep ==
    \A t \in asleep_issued :
        /\ pending_revocations > 0
        /\ pc[t] = "acquire" => MustWait(t, arg[t] = Irrevocable)
        /\ pc[t] = "renew" /\ arg[t] # Rewire => rewirers = 0

\* So has who sleeps in revoke.
RevokedAsleep == \A t \in asleep_revoked : RevokeWaits(tickets_granted, rewirers)

\* No port is rewired while another thread reads the wiring.
WiringLocked == writer # NoThread => readers = {}

Idle(t) == Granted(t) = 0 /\ t \notin PlainRenewers

\* In an atomic section no other thread has a grant, or waits with one where
\* a rewire is not safe.
Private == atomic_revokers > 0 => \A t \in Threads \ {writer} : Idle(t)

Untouched(u) ==
    /\ low'[u] = low[u] /\ nest'[u] = nest[u] /\ saved'[u] = saved[u]
    /\ irr_held'[u] = irr_held[u] /\ pc'[u] = pc[u] /\ arg'[u] = arg[u]

\* A step of a thread leaves the entries of all others alone.
LEMMA OthersStay ==
    ASSUME Core, NEW t \in Threads, Step(t) \/ Wake(t), NEW u \in Threads \ {t}
    PROVE  Untouched(u)
<1> USE DEF Core, Types, entryVars, threadVars
<1>1. ASSUME NEW irr \in BOOLEAN, Acquire(t, irr) PROVE Untouched(u)
  BY <1>1 DEF Acquire, Grant, Untouched
<1>2. ASSUME NEW irr \in BOOLEAN, Release(t, irr) PROVE Untouched(u)
  BY <1>2 DEF Release, Untouched
<1>3. ASSUME NEW f \in {Plain, Irrevocable, Rewire}, Renew(t, f) PROVE Untouched(u)
  BY <1>3 DEF Renew, RenewHolder, RenewStranger, Untouched
<1>4. CASE RevokeRewire(t)
  BY <1>4 DEF RevokeRewire, RevokeSection, Untouched
<1>5. CASE RevokePause(t)
  BY <1>5 DEF RevokePause, RevokeSection, Untouched
<1>6. CASE IssueRewire(t)
  BY <1>6 DEF IssueRewire, IssueSection, Untouched
<1>7. CASE IssuePause(t)
  BY <1>7 DEF IssuePause, IssueSection, Untouched
<1>8. CASE LockPortRewiring(t) \/ UnlockPortRewiring(t)
  BY <1>8 DEF LockPortRewiring, UnlockPortRewiring, Untouched
<1>9. CASE AcquireWake(t)
  BY <1>9 DEF AcquireWake, Grant, Untouched
<1>10. CASE RenewWake(t)
  BY <1>10 DEF RenewWake, Untouched
<1>11. CASE RevokeWake(t)
  BY <1>11 DEF RevokeWake, Untouched
<1> HIDE DEF Core, Types, entryVars, threadVars
<1> QED
  BY ONLY Step(t) \/ Wake(t), <1>1, <1>2, <1>3, <1>4, <1>5, <1>6, <1>7, <1>8, <1>9, <1>10, <1>11 DEF Step, Wake

\* What does not happen in a setting does not begin to.
LEMMA SettingsKept ==
    ASSUME Core, Settings, NEW t \in Threads, Step(t) \/ Wake(t)
    PROVE  Settings'
<1>1. ~HolderPauses => nest'[t] = 0
  <2> SUFFICES ASSUME ~HolderPauses PROVE nest'[t] = 0
    OBVIOUS
  <2>1. nest[t] = 0
    BY DEF Settings
  <2> USE <2>1 DEF Core, Types, entryVars
  <2>2. CASE RevokeRewire(t) /\ MayRewire(t)
    BY <2>2 DEF RevokeRewire, RevokeSection, MayRewire
  <2>3. CASE RevokePause(t) /\ MayPause(t)
    BY <2>3 DEF RevokePause, RevokeSection, MayPause
  <2>4. ASSUME NEW f \in {Plain, Irrevocable, Rewire}, Renew(t, f) PROVE nest'[t] = 0
    BY <2>4 DEF Renew, RenewHolder, RenewStranger
  <2>5. CASE IssueRewire(t)
    BY <2>5 DEF IssueRewire, IssueSection
  <2>6. CASE IssuePause(t)
    BY <2>6 DEF IssuePause, IssueSection
  <2>7. CASE AcquireWake(t) \/ RenewWake(t) \/ RevokeWake(t)
    BY <2>7 DEF AcquireWake, RenewWake, RevokeWake
  <2>8. CASE LockPortRewiring(t) \/ UnlockPortRewiring(t)
    BY <2>8 DEF LockPortRewiring, UnlockPortRewiring
  <2>9. ASSUME NEW irr \in BOOLEAN, Acquire(t, irr) \/ Release(t, irr) PROVE nest'[t] = 0
    BY <2>9 DEF Acquire, Release
  <2> QED
    BY <2>2, <2>3, <2>4, <2>5, <2>6, <2>7, <2>8, <2>9 DEF Step, Wake
<1>2. ~HolderPauses => \A u \in Threads : nest'[u] = 0
  BY <1>1, OthersStay DEF Settings, Untouched
<1>3. ~Rewiring => writer' = NoThread
  <2> SUFFICES ASSUME ~Rewiring, writer = NoThread PROVE writer' = NoThread
    BY DEF Settings
  <2>1. ~ MayRewire(t)
    BY DEF MayRewire
  <2>2. writer' # writer => (RevokeRewire(t) /\ MayRewire(t)) \/ IssueRewire(t)
    BY DEF Step, Wake, Acquire, Release, Renew, RevokePause, IssuePause, LockPortRewiring,
           UnlockPortRewiring, AcquireWake, RenewWake, RevokeWake, lockVars
  <2> QED
    BY <2>1, <2>2 DEF IssueRewire
<1> QED
  BY <1>2, <1>3 DEF Settings

\* The rewiring lock keeps readers out while it is held for writing.
LEMMA WiringKept ==
    ASSUME Core, WiringLocked, NEW t \in Threads, Step(t) \/ Wake(t)
    PROVE  WiringLocked'
<1>1. CASE UNCHANGED <<writer, readers>>
  BY <1>1 DEF WiringLocked
<1>2. CASE RevokeRewire(t) \/ IssueRewire(t) \/ LockPortRewiring(t) \/ UnlockPortRewiring(t)
  BY <1>2 DEF WiringLocked, RevokeRewire, IssueRewire, LockPortRewiring, UnlockPortRewiring
<1> QED
  BY <1>1, <1>2 DEF Step, Wake, Acquire, Release, Renew, RevokePause, IssuePause,
                    AcquireWake, RenewWake, RevokeWake, lockVars

\* Where something is pending, a thread sleeps in revoke or a section is atomic.
LEMMA PendingOf ==
    ASSUME Core
    PROVE  /\ asleep_revoked # {} => pending_revocations > 0
           /\ atomic_revokers > 0 => /\ writer \in Threads /\ atomic_revoker_thread = writer
                                     /\ pending_revocations > 0 /\ rewirers = 1
           /\ pending_revocations \in 0 .. 2 /\ rewirers \in 0 .. 1 /\ atomic_revokers \in 0 .. 1
           /\ rewirers = 1 <=> writer # NoThread
           /\ \A t \in Threads : t # NoThread
<1>1. pending_revocations \in 0 .. 2 /\ rewirers \in 0 .. 1 /\ atomic_revokers \in 0 .. 1
  BY DEF Core, Types, Revocations, B2N
<1>2. \A t \in Threads : t # NoThread
  BY TicketAssumption
<1>3. ASSUME NEW t \in asleep_revoked
      PROVE  pending_revocations > 0
  <2>1. t \in Threads /\ pc[t] = "revoke"
    BY DEF Core, Types, Sleepers
  <2>2. writer = t \/ pauser = t
    BY <2>1 DEF Core, Revokers, Revoker
  <2> QED
    BY <1>2, <2>1, <2>2 DEF Core, Revocations, B2N
<1>4. atomic_revokers > 0 => /\ writer \in Threads /\ atomic_revoker_thread = writer
                             /\ pending_revocations > 0 /\ rewirers = 1
  BY DEF Core, Types, Revocations, B2N
<1>5. rewirers = 1 <=> writer # NoThread
  BY DEF Core, Revocations, B2N
<1> QED
  BY <1>1, <1>2, <1>3, <1>4, <1>5

\* What IssuedAsleep and RevokedAsleep say of the next state.
StillIssued(u) ==
    /\ pending_revocations' > 0
    /\ pc'[u] = "acquire" => MustWait(u, arg[u] = Irrevocable)'
    /\ pc'[u] = "renew" /\ arg'[u] # Rewire => rewirers' = 0

StillRevoked == RevokeWaits(tickets_granted, rewirers)'

\* Whoever sleeps for a ticket goes on having something to wait for.
LEMMA IssuedKept ==
    ASSUME Core, IssuedAsleep, NEW t \in Threads, Step(t) \/ Wake(t),
           NEW u \in asleep_issued'
    PROVE  StillIssued(u)
<1>a. u \in asleep_issued =>
        /\ u \in Threads /\ pc[u] \in {"acquire", "renew", "stranger"}
        /\ pending_revocations > 0
        /\ pc[u] = "acquire" => MustWait(u, arg[u] = Irrevocable)
        /\ pc[u] = "renew" /\ arg[u] # Rewire => rewirers = 0
  BY DEF IssuedAsleep, Core, Types, Sleepers
<1>b. u \in Threads /\ u # t => Untouched(u)
  BY OthersStay
<1> USE PendingOf DEF Rewire, Plain, Irrevocable, Pause
<1>1. ASSUME NEW irr \in BOOLEAN, Acquire(t, irr) PROVE StillIssued(u)
  <2>1. UNCHANGED statusVars
    BY <1>1 DEF Acquire
  <2>2. CASE u \in asleep_issued /\ u # t
    BY <1>a, <1>b, <2>1, <2>2 DEF StillIssued, Untouched, MustWait, statusVars
  <2>3. CASE u = t
    BY <1>1, <1>a, <2>1, <2>3 DEF StillIssued, Acquire, MustWait, statusVars, sleepVars, Core, Types, Running
  <2> QED
    BY <1>1, <2>2, <2>3 DEF Acquire, sleepVars
<1>2. CASE AcquireWake(t)
  <2>1. UNCHANGED statusVars
    BY <1>2 DEF AcquireWake
  <2>2. CASE u \in asleep_issued /\ u # t
    BY <1>a, <1>b, <2>1, <2>2 DEF StillIssued, Untouched, MustWait, statusVars
  <2>3. CASE u = t
    BY <1>2, <2>1, <2>3 DEF StillIssued, AcquireWake, MustWait, statusVars, threadVars
  <2> QED
    BY <1>2, <2>2, <2>3 DEF AcquireWake
<1>3. ASSUME NEW irr \in BOOLEAN, Release(t, irr) PROVE StillIssued(u)
  BY <1>3, <1>a DEF StillIssued, Release, MustWait, statusVars, threadVars
<1>4. ASSUME NEW f \in {Plain, Irrevocable, Rewire}, Renew(t, f) PROVE StillIssued(u)
  <2>1. UNCHANGED statusVars
    BY <1>4 DEF Renew
  <2>2. CASE u \in asleep_issued /\ u # t
    BY <1>a, <1>b, <2>1, <2>2 DEF StillIssued, Untouched, MustWait, statusVars
  <2>3. CASE u = t
    BY <1>4, <1>a, <2>1, <2>3 DEF StillIssued, Renew, RenewHolder, RenewStranger, RenewWaits, statusVars,
          Core, Types, Running
  <2> QED
    BY <1>4, <2>2, <2>3 DEF Renew, RenewHolder, RenewStranger
<1>5. CASE RenewWake(t)
  <2>1. UNCHANGED statusVars
    BY <1>5 DEF RenewWake
  <2>2. CASE u \in asleep_issued /\ u # t
    BY <1>a, <1>b, <2>1, <2>2 DEF StillIssued, Untouched, MustWait, statusVars
  <2>3. CASE u = t
    BY <1>5, <2>1, <2>3 DEF StillIssued, RenewWake, RenewWaits, statusVars, threadVars
  <2> QED
    BY <1>5, <2>2, <2>3 DEF RenewWake
<1>6. CASE RevokeRewire(t)
  <2>1. /\ asleep_issued' = asleep_issued /\ plain_renewers <= 0
        /\ pending_revocations' = pending_revocations + 1 /\ rewirers' = rewirers + 1
        /\ atomic_revokers = 0
        /\ \/ atomic_revokers' = 0
           \/ atomic_revokers' = 1 /\ atomic_revoker_thread' = t
    BY <1>6, CountsNat DEF RevokeRewire, RevokeSection, RenewersTold, Own, B2N
  <2>2. u \in asleep_issued /\ u \notin PlainRenewers
    BY <2>1, CountsNat
  <2>3. u # t /\ Untouched(u)
    BY <1>6, <1>a, <1>b, <2>2 DEF RevokeRewire, Running
  <2> QED
    BY <1>a, <2>1, <2>2, <2>3 DEF StillIssued, Untouched, MustWait, PlainRenewers
<1>7. CASE RevokePause(t)
  <2>1. /\ asleep_issued' = asleep_issued
        /\ pending_revocations' = pending_revocations + 1 /\ rewirers' = rewirers
        /\ UNCHANGED <<atomic_revokers, atomic_revoker_thread>>
    BY <1>7 DEF RevokePause, RevokeSection, RenewersTold, Own, B2N
  <2>2. u # t /\ Untouched(u)
    BY <1>7, <1>a, <1>b, <2>1 DEF RevokePause, Running
  <2> QED
    BY <1>a, <2>1, <2>2 DEF StillIssued, Untouched, MustWait
<1>8. CASE RevokeWake(t)
  <2>1. /\ asleep_issued' = asleep_issued
        /\ pending_revocations' = pending_revocations /\ rewirers' = rewirers
        /\ \/ UNCHANGED <<atomic_revokers, atomic_revoker_thread>>
           \/ atomic_revokers = 0 /\ atomic_revokers' = 1 /\ atomic_revoker_thread' = t
    BY <1>8 DEF RevokeWake, Own, RevokeWaits
  <2>2. u # t /\ Untouched(u)
    BY <1>8, <1>a, <1>b, <2>1 DEF RevokeWake
  <2> QED
    BY <1>a, <2>1, <2>2 DEF StillIssued, Untouched, MustWait
<1>9. CASE IssueRewire(t)
  <2>1. ticket_revoked = 3
    BY <1>9 DEF IssueRewire, Core, Revocations, Status, B2N
  <2>2. StatusAfter(pending_revocations - 1, RewirersAfter(Rewire)) # 3
    BY <1>9 DEF IssueRewire, StatusAfter, RewirersAfter, Status, B2N
  <2> QED
    BY <1>9, <2>1, <2>2 DEF IssueRewire, IssueSection, IssueTells
<1>10. CASE pause_revoked /\ IssuePause(t)
  <2>1. /\ pending_revocations' = pending_revocations - 1 /\ rewirers' = rewirers
        /\ UNCHANGED <<atomic_revokers, atomic_revoker_thread, pc, arg>>
    BY <1>10 DEF IssuePause, IssueSection, RewirersAfter, B2N, threadVars
  <2>2. CASE rewirers = 0
    <3>1. ticket_revoked = 1 /\ pending_revocations - 1 = 0
      BY <1>10, <2>2 DEF Core, Revocations, Status, B2N
    <3>2. StatusAfter(pending_revocations - 1, RewirersAfter(Pause)) = 0
      BY <2>2, <3>1 DEF StatusAfter, RewirersAfter, Status, B2N
    <3> QED
      BY <1>10, <3>1, <3>2 DEF IssuePause, IssueSection, IssueTells
  <2>3. CASE rewirers = 1
    <3>1. pending_revocations' = 1
      BY <1>10, <2>1, <2>3 DEF Core, Revocations, B2N
    <3>2. u \in asleep_issued
      BY <1>10 DEF IssuePause, IssueSection
    <3> QED
      BY <1>a, <2>1, <3>1, <3>2 DEF StillIssued, MustWait
  <2> QED
    BY <2>2, <2>3
<1>11. CASE LockPortRewiring(t) \/ UnlockPortRewiring(t)
  BY <1>11, <1>a DEF StillIssued, LockPortRewiring, UnlockPortRewiring, MustWait, statusVars,
                     threadVars, sleepVars
<1> HIDE DEF Rewire, Plain, Irrevocable, Pause
<1> QED
  BY ONLY Step(t) \/ Wake(t), <1>1, <1>2, <1>3, <1>4, <1>5, <1>6, <1>7, <1>8, <1>9, <1>10, <1>11
     DEF Step, Wake

\* Whoever sleeps in revoke goes on having something to wait for.
LEMMA RevokedKept ==
    ASSUME Core, Settings, RevokedAsleep, ~ (HolderPauses /\ Rewiring),
           NEW t \in Threads, Step(t) \/ Wake(t), NEW u \in asleep_revoked'
    PROVE  StillRevoked
<1>a. /\ tickets_granted \in Nat /\ plain_renewers \in Nat /\ rewirers \in 0 .. 1
      /\ atomic_revokers \in 0 .. 1 /\ low[t] \in Nat /\ saved[t] \in Nat /\ nest[t] \in 0 .. 2
      /\ Granted(t) <= tickets_granted /\ (nest[t] = 0 <=> saved[t] = 0)
  BY CountsNat, PendingOf, EntryTypes
<1>b. u \in asleep_revoked => /\ RevokeWaits(tickets_granted, rewirers)
                              /\ pending_revocations > 0
  BY PendingOf DEF RevokedAsleep
<1> USE <1>a DEF Rewire, Plain, Irrevocable, Pause
<1>1. ASSUME NEW irr \in BOOLEAN, Acquire(t, irr) PROVE StillRevoked
  <2>1. /\ tickets_granted' \in {tickets_granted, tickets_granted + 1}
        /\ UNCHANGED <<plain_renewers, statusVars, asleep_revoked>>
    BY <1>1 DEF Acquire, Grant, grantVars, sleepVars
  <2> QED
    BY <1>b, <2>1 DEF StillRevoked, RevokeWaits, statusVars
<1>2. CASE AcquireWake(t)
  <2>1. /\ tickets_granted' \in {tickets_granted, tickets_granted + 1}
        /\ UNCHANGED <<plain_renewers, statusVars, asleep_revoked>>
    BY <1>2 DEF AcquireWake, Grant, grantVars
  <2> QED
    BY <1>b, <2>1 DEF StillRevoked, RevokeWaits, statusVars
<1>3. ASSUME NEW irr \in BOOLEAN, MayRelease(t, irr), Release(t, irr) PROVE StillRevoked
  <2>1. Granted(t) > 0 /\ Granted(t) \in Nat
    BY <1>3 DEF MayRelease, Release, Running, Granted
  <2>2. tickets_granted' = tickets_granted - 1 /\ UNCHANGED <<plain_renewers, statusVars>>
    BY <1>3, <2>1 DEF Release
  <2>3. asleep_revoked' = asleep_revoked /\ ~ (pending_revocations > 0 /\ tickets_granted - 1 = 0)
    BY <1>3, <2>2 DEF Release, ReleaseTells
  <2> QED
    BY <1>b, <2>2, <2>3 DEF StillRevoked, RevokeWaits, statusVars
<1>4. ASSUME NEW f \in {Plain, Irrevocable, Rewire}, MayRenew(t, f), Renew(t, f) PROVE StillRevoked
  <2>1. UNCHANGED statusVars
    BY <1>4 DEF Renew
  <2>2. CASE RenewStranger(t)
    BY <1>b, <2>1, <2>2 DEF RenewStranger, StillRevoked, RevokeWaits, statusVars, grantVars
  <2>3. CASE RenewHolder(t, f)
    <3>1. Restored(t) >= low[t] /\ Restored(t) \in Nat
      BY <1>4 DEF Restored, Granted, Renew, Running
    <3>2. Restored(t) # low[t]
      BY <2>3 DEF RenewHolder
    <3>3. tickets_granted' \in Nat /\ tickets_granted' > 0
      BY <2>3, <3>1, <3>2 DEF RenewHolder
    <3> QED
      BY <3>3 DEF StillRevoked, RevokeWaits
  <2> QED
    BY <1>4, <2>2, <2>3 DEF Renew
<1>5. CASE RenewWake(t)
  <2>1. UNCHANGED <<statusVars, asleep_revoked>>
    BY <1>5 DEF RenewWake
  <2>2. CASE UNCHANGED grantVars
    BY <1>b, <2>1, <2>2 DEF StillRevoked, RevokeWaits, statusVars, grantVars
  <2>3. CASE pc[t] = "renew" /\ tickets_granted' = tickets_granted + low[t]
    BY <2>3 DEF StillRevoked, RevokeWaits, Core, Entries, Entry
  <2> QED
    BY <1>5, <2>2, <2>3 DEF RenewWake
<1>6. ASSUME MayRewire(t), RevokeRewire(t) PROVE StillRevoked
  <2>1. SelfGrants(t) = 0
    BY <1>6 DEF MayRewire, SelfGrants, Found
  <2>2. /\ tickets_granted' = tickets_granted /\ rewirers' = rewirers + 1
        /\ plain_renewers' = plain_renewers
        /\ atomic_revokers' \in {atomic_revokers, atomic_revokers + 1}
    BY <1>6, <2>1 DEF RevokeRewire, RevokeSection, Own, B2N
  <2>3. CASE u \in asleep_revoked
    BY <1>b, <2>2, <2>3 DEF StillRevoked, RevokeWaits
  <2>4. CASE u \notin asleep_revoked
    <3>1. /\ RevokeWaits(tickets_granted, rewirers + 1)
          /\ atomic_revokers' = atomic_revokers
      BY <1>6, <2>1, <2>4 DEF RevokeRewire, RevokeSection, B2N
    <3> QED
      BY <2>2, <3>1 DEF StillRevoked, RevokeWaits
  <2> QED
    BY <2>3, <2>4
<1>7. ASSUME MayPause(t), RevokePause(t) PROVE StillRevoked
  <2>1. /\ tickets_granted' = tickets_granted - SelfGrants(t) /\ rewirers' = rewirers
        /\ plain_renewers' = plain_renewers /\ atomic_revokers' = atomic_revokers
    BY <1>7 DEF RevokePause, RevokeSection, Own, B2N
  <2>2. CASE u \in asleep_revoked
    <3>1. CASE HolderPauses
      <4>1. writer = NoThread /\ pauser = NoThread
        BY <1>7, <3>1 DEF Settings, RevokePause, PauseFresh, Core, Revocations
      <4>2. u \in Threads /\ pc[u] = "revoke"
        BY <2>2 DEF Core, Types, Sleepers
      <4> QED
        BY <4>1, <4>2, PendingOf DEF Core, Revokers, Revoker
    <3>2. CASE ~HolderPauses
      <4>1. SelfGrants(t) = 0
        BY <1>7, <3>2 DEF MayPause, SelfGrants, Found
      <4> QED
        BY <1>b, <2>1, <2>2, <4>1 DEF StillRevoked, RevokeWaits
    <3> QED
      BY <3>1, <3>2
  <2>3. CASE u \notin asleep_revoked
    <3>1. RevokeWaits(tickets_granted - SelfGrants(t), rewirers)
      BY <1>7, <2>3 DEF RevokePause, RevokeSection, B2N
    <3> QED
      BY <2>1, <3>1 DEF StillRevoked, RevokeWaits
  <2> QED
    BY <2>2, <2>3
<1>8. CASE RevokeWake(t)
  <2>1. /\ UNCHANGED <<tickets_granted, plain_renewers, rewirers>>
        /\ \/ atomic_revokers' = atomic_revokers + 1
           \/ asleep_revoked' = asleep_revoked /\ atomic_revokers' = atomic_revokers
           \/ /\ RevokeWaits(tickets_granted, rewirers)
              /\ atomic_revokers' = atomic_revokers
    BY <1>8 DEF RevokeWake, Own, grantVars
  <2> QED
    BY <1>b, <2>1 DEF StillRevoked, RevokeWaits
<1>9. CASE IssueRewire(t)
  BY <1>9 DEF IssueRewire, IssueSection
<1>10. CASE IssuePause(t)
  <2>1. /\ tickets_granted' \in {tickets_granted, tickets_granted + low[t]}
        /\ UNCHANGED <<plain_renewers, rewirers, atomic_revokers, asleep_revoked>>
    BY <1>10 DEF IssuePause, IssueSection, RewirersAfter, B2N
  <2> QED
    BY <1>b, <2>1 DEF StillRevoked, RevokeWaits
<1>11. CASE LockPortRewiring(t) \/ UnlockPortRewiring(t)
  BY <1>11, <1>b DEF StillRevoked, LockPortRewiring, UnlockPortRewiring, RevokeWaits, statusVars,
                     grantVars, sleepVars
<1> HIDE DEF Rewire, Plain, Irrevocable, Pause
<1> QED
  BY ONLY Step(t) \/ Wake(t), <1>1, <1>2, <1>3, <1>4, <1>5, <1>6, <1>7, <1>8, <1>9, <1>10, <1>11
     DEF Step, Wake

\* An atomic section stays private, whatever the other threads do.
LEMMA PrivateKept ==
    ASSUME Core, Settings, Private, ~ (HolderPauses /\ Rewiring),
           NEW t \in Threads, Step(t) \/ Wake(t), atomic_revokers' > 0,
           NEW u \in Threads, u # writer'
    PROVE  Idle(u)'
<1>a. u # t /\ Idle(u) => Idle(u)'
  <2> SUFFICES ASSUME u # t, Idle(u) PROVE Idle(u)'
    OBVIOUS
  <2>1. Untouched(u)
    BY OthersStay
  <2> QED
    BY <2>1 DEF Untouched, Idle, Granted, PlainRenewers
<1>b. /\ tickets_granted \in Nat /\ plain_renewers \in Nat /\ rewirers \in 0 .. 1
      /\ atomic_revokers \in 0 .. 1 /\ low[t] \in Nat /\ saved[t] \in Nat /\ nest[t] \in 0 .. 2
      /\ (nest[t] = 0 <=> saved[t] = 0)
  BY CountsNat, PendingOf, EntryTypes
\* The section begins: nothing is granted, nobody waits with a grant.
<1>1. CASE atomic_revokers = 0
  <2>1. /\ rewirers' > 0 /\ plain_renewers = 0 /\ writer' = t
        /\ tickets_granted = 0
    <3>1. CASE MayRewire(t) /\ RevokeRewire(t)
      <4>1. SelfGrants(t) = 0
        BY <1>b, <3>1 DEF MayRewire, SelfGrants, Found
      <4>2. RevokeRewire(t) /\ RevokeSection(t, Rewire) /\ writer' = t
        BY <3>1 DEF RevokeRewire
      <4>3. rewirers' = rewirers + 1
        BY <4>2 DEF RevokeSection, B2N
      <4>4. ~RevokeWaits(tickets_granted - SelfGrants(t), rewirers + 1)
        BY <1>1, <4>2 DEF RevokeSection, InAtomic, B2N
      <4> QED
        BY <1>b, <4>1, <4>2, <4>3, <4>4 DEF RevokeWaits
    <3>2. CASE RevokeWake(t)
      <4>1. ~RevokeWaits(tickets_granted, rewirers) /\ arg[t] = Rewire
        BY <1>1, <3>2 DEF RevokeWake, Own
      <4>2. writer = t /\ writer' = t /\ rewirers' = rewirers
        BY <3>2, <4>1 DEF RevokeWake, Core, Revokers, Revoker, lockVars, Rewire, Pause
      <4> QED
        BY <1>b, <4>1, <4>2, PendingOf DEF RevokeWaits
    <3>3. CASE UNCHANGED atomic_revokers
      BY <1>1, <3>3
    <3>4. CASE IssueRewire(t) \/ IssuePause(t)
      BY <1>b, <1>1, <3>4 DEF IssueRewire, IssuePause, IssueSection, B2N
    <3>5. CASE RevokePause(t)
      BY <1>1, <3>5 DEF RevokePause, RevokeSection, Own, Pause, Rewire
    <3> QED
      BY <3>1, <3>2, <3>3, <3>4, <3>5 DEF Step, Wake, Acquire, Release, Renew, LockPortRewiring,
         UnlockPortRewiring, AcquireWake, RenewWake, statusVars
  <2>2. Idle(u)
    <3>1. Granted(u) <= 0 /\ u \notin PlainRenewers
      BY <2>1, CountsNat
    <3>2. Granted(u) \in Nat
      BY GrantsNat DEF Core, Grants
    <3> QED
      BY <3>1, <3>2 DEF Idle
  <2> QED
    BY <1>a, <2>1, <2>2
\* It goes on: whoever is not its thread has no entry and has to wait.
<1>2. CASE atomic_revokers > 0
  <2>1. /\ writer \in Threads /\ atomic_revoker_thread = writer
        /\ pending_revocations > 0 /\ rewirers = 1
    BY <1>2, PendingOf
  <2>2. nest[t] = 0 /\ saved[t] = 0
    BY <1>b, <2>1, TicketAssumption DEF Settings
  <2>3. writer' = writer
    <3>1. writer # NoThread /\ atomic_revokers = 1
      BY <1>b, <1>2, <2>1, TicketAssumption
    <3>2. ~RevokeRewire(t)
      BY <3>1 DEF RevokeRewire
    <3>3. ~IssueRewire(t)
      BY <1>b, <3>1 DEF IssueRewire, IssueSection, B2N
    <3> QED
      BY <3>2, <3>3 DEF Step, Wake, Acquire, Release, Renew, RevokePause,
         IssuePause, LockPortRewiring, UnlockPortRewiring, AcquireWake, RenewWake, RevokeWake,
         lockVars
  <2>4. u # writer
    BY <2>3
  <2>5. Idle(u)
    BY <1>2, <2>4 DEF Private
  <2>6. CASE u = t
    <3>1. /\ nest[t] = 0 /\ saved[t] = 0 /\ MustWait(t, TRUE) /\ MustWait(t, FALSE)
          /\ pc[t] \notin {"acquire", "renew"} => low[t] = 0 /\ ~Found(t)
          /\ ~InAtomic(t)
      BY <1>b, <1>2, <2>1, <2>2, <2>4, <2>5, <2>6 DEF MustWait, Idle, Granted, Found, InAtomic
    <3>2. Untouched(t) => Idle(t)'
      BY <2>5, <2>6 DEF Untouched, Idle, Granted, PlainRenewers
    <3> USE DEF Core, Types, Rewire, Plain, Irrevocable, Pause
    <3>3. ASSUME NEW irr \in BOOLEAN, Acquire(t, irr) PROVE Idle(t)'
      <4>1. pc'[t] = "acquire"
        BY <3>1, <3>3 DEF Acquire, Running
      <4> QED
        BY <4>1 DEF Idle, Granted, PlainRenewers
    <3>4. ASSUME NEW irr \in BOOLEAN, MayRelease(t, irr), Release(t, irr) PROVE Idle(t)'
      BY <1>b, <3>1, <3>4 DEF MayRelease, Release, Running
    <3>5. ASSUME NEW f \in {Plain, Irrevocable, Rewire}, Renew(t, f) PROVE Idle(t)'
      <4>1. low'[t] = 0 /\ saved'[t] = 0 /\ pc'[t] = "stranger"
        BY <3>1, <3>5 DEF Renew, Running, RenewStranger, entryVars
      <4> QED
        BY <4>1 DEF Idle, Granted, PlainRenewers
    <3>6. CASE RevokePause(t)
      <4>1. low'[t] = 0 /\ saved'[t] = 0 /\ pc'[t] \in {"run", "revoke"}
        BY <3>1, <3>6 DEF RevokePause, RevokeSection, Running, threadVars
      <4> QED
        BY <2>6, <4>1 DEF Idle, Granted, PlainRenewers
    <3>7. CASE IssuePause(t)
      <4>1. low'[t] = 0 /\ saved'[t] = 0 /\ pc'[t] = "run"
        BY <3>1, <3>7 DEF IssuePause, IssueSection, Running, threadVars
      <4> QED
        BY <2>6, <4>1 DEF Idle, Granted, PlainRenewers
    <3>8. CASE AcquireWake(t)
      <4>1. MustWait(t, arg[t] = Irrevocable)
        BY <3>1 DEF MustWait
      <4> QED
        BY <2>6, <3>2, <3>8, <4>1 DEF AcquireWake, threadVars, Untouched
    <3>9. CASE RenewWake(t)
      <4>1. CASE pc[t] = "renew"
        <5>1. arg[t] = Rewire
          BY <2>5, <2>6, <4>1 DEF Idle, PlainRenewers
        <5>2. RenewWaits(arg[t])
          BY <2>1, <5>1 DEF RenewWaits
        <5> QED
          BY <2>6, <3>2, <3>9, <4>1, <5>2 DEF RenewWake, threadVars, entryVars, Untouched
      <4>2. CASE pc[t] = "stranger"
        <5>1. low'[t] = 0 /\ saved'[t] = 0 /\ pc'[t] \in {"run", "stranger"}
          BY <3>1, <3>9, <4>2 DEF RenewWake, threadVars, entryVars
        <5> QED
          BY <2>6, <5>1 DEF Idle, Granted, PlainRenewers
      <4> QED
        BY <3>9, <4>1, <4>2 DEF RenewWake
    <3>10. CASE RevokeWake(t)
      <4>1. low'[t] = 0 /\ saved'[t] = 0 /\ pc'[t] \in {"run", "revoke"}
        BY <3>1, <3>10 DEF RevokeWake, threadVars, entryVars
      <4> QED
        BY <2>6, <4>1 DEF Idle, Granted, PlainRenewers
    <3>11. CASE LockPortRewiring(t) \/ UnlockPortRewiring(t)
      BY <2>6, <3>2, <3>11 DEF LockPortRewiring, UnlockPortRewiring, threadVars, entryVars, Untouched
    <3>12. ~RevokeRewire(t) /\ ~IssueRewire(t)
      BY <2>1, <2>4, <2>6, TicketAssumption DEF RevokeRewire, IssueRewire
    <3> HIDE DEF Core, Types, Rewire, Plain, Irrevocable, Pause
    <3> QED
      BY <2>6, <3>3, <3>4, <3>5, <3>6, <3>7, <3>8, <3>9, <3>10, <3>11, <3>12 DEF Step, Wake
  <2> QED
    BY <1>a, <2>5, <2>6
<1> QED
  BY <1>b, <1>1, <1>2

-----------------------------------------------------------------------------
SafeInv == Core /\ Settings /\ WiringLocked /\ IssuedAsleep /\ RevokedAsleep /\ Private

\* Nobody waits at first.
LEMMA InitSafe == Init => SafeInv
<1> SUFFICES ASSUME Init PROVE SafeInv
  OBVIOUS
<1>1. Settings /\ WiringLocked /\ IssuedAsleep /\ RevokedAsleep /\ Private
  BY DEF Init, Settings, WiringLocked, IssuedAsleep, RevokedAsleep, Private
<1> QED
  BY <1>1, InitCore DEF SafeInv

\* Every step keeps SafeInv, unless holders pause and applications rewire.
LEMMA NextSafe ==
    ASSUME ~ (HolderPauses /\ Rewiring), SafeInv, [Next]_vars
    PROVE  SafeInv'
<1>1. Core'
  BY NextCore DEF SafeInv
<1>2. CASE UNCHANGED vars
  <2> USE <1>2 DEF vars, statusVars, grantVars, entryVars, lockVars, threadVars, sleepVars
  <2>1. Settings' /\ WiringLocked'
    BY DEF SafeInv, Settings, WiringLocked
  <2>2. IssuedAsleep'
    BY DEF SafeInv, IssuedAsleep, MustWait
  <2>3. RevokedAsleep'
    BY DEF SafeInv, RevokedAsleep, RevokeWaits
  <2>4. Private'
    BY DEF SafeInv, Private, Idle, Granted, PlainRenewers
  <2> QED
    BY <1>1, <2>1, <2>2, <2>3, <2>4 DEF SafeInv
<1>3. ASSUME NEW t \in Threads, Step(t) \/ Wake(t) PROVE SafeInv'
  <2>1. Settings' /\ WiringLocked'
    BY <1>3, SettingsKept, WiringKept DEF SafeInv
  <2>2. \A u \in asleep_issued' : StillIssued(u)
    BY <1>3, IssuedKept DEF SafeInv
  <2>3. \A u \in asleep_revoked' : StillRevoked
    BY <1>3, RevokedKept DEF SafeInv
  <2>4. IssuedAsleep' /\ RevokedAsleep'
    BY <2>2, <2>3 DEF IssuedAsleep, RevokedAsleep, StillIssued, StillRevoked
  <2>5. Private'
    BY <1>3, PrivateKept DEF SafeInv, Private
  <2> QED
    BY <1>1, <2>1, <2>4, <2>5 DEF SafeInv
<1> QED
  BY <1>2, <1>3 DEF Next

\* SafeInv has what the two properties say.
LEMMA SafeMeans == SafeInv => NoLostWakeup /\ AtomicExclusive
<1> SUFFICES ASSUME SafeInv PROVE NoLostWakeup /\ AtomicExclusive
  OBVIOUS
<1>1. IrrevocableNeverBlocked
  BY EntryTypes DEF SafeInv, Core, Entries, Entry, IrrevocableNeverBlocked
<1>2. NoLostWakeup
  BY <1>1 DEF SafeInv, IssuedAsleep, RevokedAsleep, NoLostWakeup
<1>3. AtomicExclusive
  <2> SUFFICES ASSUME NEW t \in Threads, NEW u \in Threads, InAtomic(t), t # u
               PROVE  Granted(u) = 0 /\ u \notin PlainRenewers /\ u \notin readers
    BY DEF AtomicExclusive
  <2>1. atomic_revokers > 0 /\ writer = t /\ t # NoThread
    BY PendingOf DEF InAtomic, SafeInv
  <2>2. Idle(u) /\ readers = {}
    BY <2>1 DEF SafeInv, Private, WiringLocked
  <2> QED
    BY <2>2 DEF Idle
<1> QED
  BY <1>2, <1>3

\* Who sleeps in the ticket has something to wait for, and an atomic section has
\* its ticket to itself.
THEOREM SafeHolds ==
    ASSUME ~ (HolderPauses /\ Rewiring)
    PROVE  Spec => []SafeInv
<1>1. SafeInv /\ [Next]_vars => SafeInv'
  BY NextSafe
<1> QED
  BY <1>1, InitSafe, PTL DEF Spec

\* Nobody sleeps when there is nothing left to wait for, whoever revokes,
\* issues, releases or renews.
THEOREM NoLostWakeupHolds ==
    ASSUME ~ (HolderPauses /\ Rewiring)
    PROVE  Spec => []NoLostWakeup
  BY SafeHolds, SafeMeans, PTL

\* Between the revoke and the issue of a rewire no other thread uses ports.
THEOREM AtomicExclusiveHolds ==
    ASSUME ~ (HolderPauses /\ Rewiring)
    PROVE  Spec => []AtomicExclusive
  BY SafeHolds, SafeMeans, PTL

-----------------------------------------------------------------------------
(* The engine: changes of the speed. *)

\* The steps of set_speed_internal.
Inside == {"decide", "live", "unpause", "pause", "clock off", "audio", "tell audio", "clock on"}

\* Where _x_set_fine_speed returns to, and where a call without
\* SPEED_FLAG_CHANGING does.
Returns == {"idle", "nbc live", "nbc"}
Outer == {"enter", "stop", "stopped", "rewired"}

\* Which steps a thread can come to: stops and rewires are those of their
\* applications, and a decoder pauses only where holders of tickets do so.
Entitled(t, step) ==
    /\ step \in {"wait", "enter", "stop", "stopped", "unlock"} => t \in Stoppers
    /\ step \in {"rewire", "rewired"} => t \in Rewirers
    /\ step = "nbc live" => HolderPauses

\* The steps a thread has to return to.
Stack(t) ==
    \/ at[t] \in Inside /\ \E r \in Returns : back[t] = <<"changed", r>> /\ Entitled(t, r)
    \/ at[t] \in Inside /\ \E r \in Outer : back[t] = <<r>> /\ Entitled(t, r)
    \/ at[t] = "changed" /\ \E r \in Returns : back[t] = <<r>> /\ Entitled(t, r)
    \/ at[t] \notin Inside \cup {"changed"} /\ back[t] = <<>>

\* t changes the speed under SPEED_FLAG_CHANGING.
Changer(t) == at[t] = "changed" \/ (at[t] \in Inside /\ Len(back[t]) = 2)

\* The lists of at most two steps that "back" ever holds.
LEMMA Lists ==
    ASSUME NEW r \in Steps
    PROVE  /\ Head(<<"changed", r>>) = "changed" /\ Tail(<<"changed", r>>) = <<r>>
           /\ Len(<<"changed", r>>) = 2 /\ <<"changed", r>> \in Seq(Steps)
           /\ Head(<<r>>) = r /\ Tail(<<r>>) = <<>> /\ Len(<<r>>) = 1 /\ <<r>> \in Seq(Steps)
           /\ Len(<<>>) = 0 /\ <<>> \in Seq(Steps)
           /\ <<"changed">> \o <<r>> = <<"changed", r>>
<1>1. "changed" \in Steps
  BY DEF Steps
<1>2. Head(<<"changed", r>>) = "changed"
  OBVIOUS
<1>3. Tail(<<"changed", r>>) = <<r>>
  OBVIOUS
<1>4. Len(<<"changed", r>>) = 2 
  OBVIOUS
<1>5. <<"changed", r>> \in Seq(Steps)
  BY <1>1
<1>6. Head(<<r>>) = r /\ Tail(<<r>>) = <<>> 
  OBVIOUS
<1>7. Len(<<r>>) = 1 /\ <<r>> \in Seq(Steps)
  OBVIOUS
<1>8. Len(<<>>) = 0 /\ <<>> \in Seq(Steps)
  OBVIOUS
<1>9. <<"changed">> \o <<r>> = <<"changed", r>>
  <2> DEFINE s == <<"changed">> \o <<r>>
             c == <<"changed", r>>
  <2>1. <<"changed">> \in Seq(Steps) /\ Len(<<"changed">>) = 1 /\ <<"changed">>[1] = "changed" /\ <<r>>[1] = r
    BY <1>1
  <2>2. /\ s \in Seq(Steps) /\ Len(s) = 2 
        /\ \A i \in 1 .. 2 : s[i] = IF i <= 1 THEN <<"changed">>[i] ELSE <<r>>[i - 1]
    BY <2>1, <1>7, ConcatProperties
  <2>3. c[1] = "changed" /\ c[2] = r
    OBVIOUS
  <2> HIDE DEF s, c
  <2>4. s[1] = "changed" /\ s[2] = r
    BY <2>1, <2>2
  <2>5. \A i \in 1 .. Len(s) : s[i] = c[i]
    BY <2>2, <2>3, <2>4
  <2>6. c \in Seq(Steps) /\ Len(c) = 2
    BY <1>4, <1>5 DEF c
  <2>7. s = c
    BY <2>2, <2>5, <2>6, SeqEqual
  <2> QED
    BY <2>7 DEF s, c
<1> QED
  BY <1>2, <1>3, <1>4, <1>5, <1>6, <1>7, <1>8, <1>9

\* What the argument of set_speed_internal is at its steps.
Argument(t) ==
    /\ at[t] = "live" => doing[t] \in Live
    /\ at[t] \in {"unpause", "audio", "tell audio", "clock on", "pause", "clock off"} => doing[t] \notin Live
    /\ at[t] \in {"pause", "clock off"} => doing[t] = 0
    /\ at[t] \in {"unpause", "clock on"} => doing[t] # 0

SpeedTypes ==
    /\ clock \in Wishes \ Live /\ audio \in Wishes \ Live
    /\ changing \in BOOLEAN /\ ignore \in BOOLEAN
    /\ want_live \in Live \cup {None}
    /\ want_new \in (Wishes \ Live) \cup {None}
    /\ at \in [Threads -> Steps]
    /\ doing \in [Threads -> Wishes]
    /\ back \in [Threads -> Seq(Steps)]
    /\ nbc_speed \in {0, Normal} /\ (nbc_speed = 0 => HolderPauses)
    /\ nbc_stale \subseteq Decoders \cup Feeders

Calls == \A t \in Threads : Stack(t) /\ Argument(t) /\ Entitled(t, at[t])

Waiting == \A s \in asleep_done : s \in Stoppers /\ at[s] = "wait"

\* Nobody is kept waiting for a change that nobody makes.
OneOwner ==
    /\ \A t, u \in Threads : Changer(t) /\ Changer(u) => t = u
    /\ changing <=> \E t \in Threads : Changer(t)
    /\ want_live # None \/ want_new # None => changing

Shape == SpeedTypes /\ Calls /\ Waiting /\ OneOwner

-----------------------------------------------------------------------------
\* What a step of t does to the calls under way: those of others stay.
Alone(t) ==
    /\ at' \in [Threads -> Steps] /\ doing' \in [Threads -> Wishes] /\ back' \in [Threads -> Seq(Steps)]
    /\ \A u \in Threads \ {t} : at'[u] = at[u] /\ doing'[u] = doing[u] /\ back'[u] = back[u]

Keeps(t) == changing' = changing /\ (Changer(t)' <=> Changer(t))
Begins(t) == ~ changing /\ changing' = TRUE /\ Changer(t)'
Ends(t) == Changer(t) /\ changing' = FALSE /\ ~ Changer(t)'
Role(t) == Keeps(t) \/ Begins(t) \/ Ends(t)

Good(t) == Alone(t) /\ Stack(t)' /\ Argument(t)' /\ Entitled(t, at[t])' /\ Role(t)

\* The assumptions on the speeds and the threads, in the sets used below.
LEMMA Constants ==
    /\ Live \subseteq Wishes /\ 0 \in Wishes \ Live /\ Normal \in Wishes \ Live /\ Speeds \subseteq Wishes \ Live
    /\ Normal # 0 /\ LiveOn # LiveOff /\ LiveOn \in Live /\ LiveOff \in Live
    /\ Inside \subseteq Steps /\ Returns \subseteq Steps /\ Outer \subseteq Steps
    /\ Stoppers \subseteq Threads /\ Rewirers \subseteq Threads /\ Feeders \subseteq Threads
BY SpeedAssumption DEF Live, Wishes, Inside, Returns, Outer, Steps, Threads

\* A step to another step of set_speed_internal leaves the call as it is.
LEMMA GotoInside ==
    ASSUME SpeedTypes, NEW t \in Threads, Stack(t), Entitled(t, at[t]),
           NEW step \in Inside, at[t] \in Inside, Goto(t, step)
    PROVE  /\ Alone(t) /\ Stack(t)' /\ Entitled(t, at[t])' /\ (Changer(t)' <=> Changer(t))
           /\ at'[t] = step /\ doing'[t] = doing[t]
<1>1. step # "done" /\ step \in Steps /\ step # "changed"
  BY DEF Inside, Steps
<1>2. /\ at' = [at EXCEPT ![t] = step]
      /\ back' = [back EXCEPT ![t] = @]
      /\ doing' = [doing EXCEPT ![t] = @]
  BY <1>1 DEF Goto
<1>3. Alone(t) /\ at'[t] = step /\ doing'[t] = doing[t] /\ back'[t] = back[t]
  BY <1>1, <1>2 DEF SpeedTypes, Alone
<1>4. Stack(t)'
  BY <1>3, <1>1 DEF Stack, Inside
<1>5. (Changer(t)' <=> Changer(t))
  BY <1>3, <1>1 DEF Changer, Inside
<1>6. Entitled(t, step)
  BY DEF Inside, Entitled
<1>7. Entitled(t, at[t])'
  BY <1>3, <1>6 DEF Entitled
<1> QED
  BY <1>3, <1>4, <1>5, <1>7

\* The three ways a call returns.
LEMMA GotoDone ==
    ASSUME SpeedTypes, NEW t \in Threads, Stack(t), Entitled(t, at[t]),
           at[t] \in Inside \cup {"changed"}, Goto(t, "done")
    PROVE  /\ Alone(t) /\ Stack(t)' /\ Argument(t)' /\ Entitled(t, at[t])'
           /\ at'[t] = Head(back[t]) /\ (Changer(t)' <=> at'[t] = "changed")
           /\ Changer(t) /\ at[t] \in Inside => at'[t] = "changed"
           /\ at[t] \in Inside /\ ~ Changer(t) => at'[t] \in Outer
           /\ at[t] = "changed" => at'[t] \in Returns
<1>1. /\ at' = [at EXCEPT ![t] = Head(back[t])]
      /\ back' = [back EXCEPT ![t] = Tail(@)]
      /\ doing' = [doing EXCEPT ![t] = Normal]
  BY DEF Goto
<1>2. CASE at[t] \in Inside /\ \E r \in Returns : back[t] = <<"changed", r>> /\ Entitled(t, r)
  <2>1. PICK r \in Returns : back[t] = <<"changed", r>> /\ Entitled(t, r)
    BY <1>2
  <2>2. r \in Steps /\ "changed" \in Steps /\ at[t] # "changed" /\ Normal \in Wishes
    BY Constants, <1>2 DEF Steps, Inside
  <2>3. Head(back[t]) = "changed" /\ Tail(back[t]) = <<r>> /\ <<r>> \in Seq(Steps) /\ Len(back[t]) = 2
    BY <2>1, <2>2, Lists
  <2>4. Alone(t) /\ at'[t] = "changed" /\ back'[t] = <<r>>
    BY <1>1, <2>2, <2>3 DEF SpeedTypes, Alone
  <2>5. Stack(t)' /\ Argument(t)' /\ Changer(t)' /\ Changer(t)
    BY <2>1, <2>4, <2>3, <1>2 DEF Stack, Argument, Changer
  <2>6. Entitled(t, at[t])'
    BY <2>4 DEF Entitled, Inside
  <2> QED
    BY <2>2, <2>3, <2>4, <2>5, <2>6
<1>3. CASE at[t] \in Inside /\ \E r \in Outer : back[t] = <<r>> /\ Entitled(t, r)
  <2>1. PICK r \in Outer : back[t] = <<r>> /\ Entitled(t, r)
    BY <1>3
  <2>2. r \in Steps /\ r \notin Inside \cup {"changed", "wait"} /\ at[t] # "changed" /\ Normal \in Wishes
    BY Constants, <1>3 DEF Steps, Inside, Outer
  <2>3. Head(back[t]) = r /\ Tail(back[t]) = <<>> /\ <<>> \in Seq(Steps) /\ Len(back[t]) = 1
    BY <2>1, <2>2, Lists
  <2>4. Alone(t) /\ at'[t] = r /\ back'[t] = <<>>
    BY <1>1, <2>2, <2>3 DEF SpeedTypes, Alone
  <2>5. Argument(t)' /\ ~ Changer(t)'
    BY <2>2, <2>4 DEF Argument, Changer, Inside
  <2>7. ~ Changer(t)
    BY <2>2, <2>3 DEF Changer
  <2>6. Stack(t)'
    BY <2>2, <2>4 DEF Stack
  <2>9. Entitled(t, at[t])'
    BY <2>1, <2>4 DEF Entitled
  <2> QED
    BY <2>2, <2>3, <2>4, <2>5, <2>6, <2>7, <2>9
<1>4. CASE at[t] = "changed" /\ \E r \in Returns : back[t] = <<r>> /\ Entitled(t, r)
  <2>1. PICK r \in Returns : back[t] = <<r>> /\ Entitled(t, r)
    BY <1>4
  <2>2. r \in Steps /\ r \notin Inside \cup {"changed", "wait"} /\ at[t] \notin Inside /\ Normal \in Wishes
    BY Constants, <1>4 DEF Steps, Inside, Returns
  <2>3. Head(back[t]) = r /\ Tail(back[t]) = <<>> /\ <<>> \in Seq(Steps) /\ Len(back[t]) = 1
    BY <2>1, <2>2, Lists
  <2>4. Alone(t) /\ at'[t] = r /\ back'[t] = <<>>
    BY <1>1, <2>2, <2>3 DEF SpeedTypes, Alone
  <2>5. Stack(t)' /\ Argument(t)' /\ ~ Changer(t)' /\ Changer(t)
    BY <2>2, <2>4, <2>3, <1>4 DEF Stack, Argument, Changer, Inside
  <2>7. Entitled(t, at[t])'
    BY <2>1, <2>4 DEF Entitled
  <2> QED
    BY <2>2, <2>3, <2>4, <2>5, <2>7
<1> QED
  BY <1>2, <1>3, <1>4 DEF Stack

\* Steps between calls.
LEMMA GotoOuter ==
    ASSUME SpeedTypes, NEW t \in Threads, Stack(t), at[t] \notin Inside \cup {"changed"},
           NEW step \in Steps, step \notin Inside \cup {"changed"}, Entitled(t, step),
           at' = [at EXCEPT ![t] = step], back' = back, doing' = doing
    PROVE  /\ Alone(t) /\ Stack(t)' /\ Argument(t)' /\ Entitled(t, at[t])' /\ (Changer(t)' <=> Changer(t))
           /\ at'[t] = step
<1>1. Alone(t) /\ at'[t] = step /\ back'[t] = back[t]
  BY DEF SpeedTypes, Alone
<1>2. Stack(t)' /\ Argument(t)' /\ (Changer(t)' <=> Changer(t))
  BY <1>1 DEF Stack, Argument, Changer, Inside
<1>3. Entitled(t, at[t])'
  BY <1>1 DEF Entitled
<1> QED
  BY <1>1, <1>2, <1>3

\* A call of set_speed_internal begins at its first step, with the flag or without.
LEMMA CallInside ==
    ASSUME SpeedTypes, NEW t \in Threads, NEW speed \in Wishes, NEW then, Call(t, speed, then),
           \/ \E r \in Returns : then = <<"changed", r>> /\ Entitled(t, r)
           \/ \E r \in Outer : then = <<r>> /\ Entitled(t, r)
    PROVE  /\ Alone(t) /\ Stack(t)' /\ Argument(t)' /\ Entitled(t, at[t])'
           /\ Changer(t)' <=> \E r \in Returns : then = <<"changed", r>>
           /\ at'[t] = "decide" /\ doing'[t] = speed
<1>1. "decide" \in Inside /\ "decide" \in Steps /\ "decide" # "changed"
  BY DEF Inside, Steps
<1>2. ASSUME NEW r \in Returns, then = <<"changed", r>>
      PROVE  then \in Seq(Steps) /\ Len(then) = 2
  BY <1>2, Constants, Lists
<1>3. ASSUME NEW r \in Outer, then = <<r>>
      PROVE  then \in Seq(Steps) /\ Len(then) = 1
  BY <1>3, Constants, Lists
<1>4. then \in Seq(Steps)
  BY <1>2, <1>3
<1>5. Alone(t) /\ at'[t] = "decide" /\ doing'[t] = speed /\ back'[t] = then
  BY <1>1, <1>4 DEF Call, SpeedTypes, Alone
<1>6. Stack(t)' /\ Argument(t)'
  BY <1>1, <1>5 DEF Stack, Argument
<1>7. Changer(t)' <=> Len(then) = 2
  BY <1>1, <1>5 DEF Changer
<1>8. Changer(t)' <=> \E r \in Returns : then = <<"changed", r>>
  <2>1. CASE \E r \in Returns : then = <<"changed", r>>
    BY <2>1, <1>2, <1>7
  <2>2. CASE \E r \in Outer : then = <<r>>
    BY <2>2, <1>2, <1>3, <1>7
  <2> QED
    BY <2>1, <2>2
<1>9. Entitled(t, at[t])'
  BY <1>5 DEF Entitled
<1> QED
  BY <1>5, <1>6, <1>8, <1>9

\* The variables outside the calls of threads.
FlagTypes ==
    /\ clock \in Wishes \ Live /\ audio \in Wishes \ Live
    /\ changing \in BOOLEAN /\ ignore \in BOOLEAN
    /\ want_live \in Live \cup {None}
    /\ want_new \in (Wishes \ Live) \cup {None}
    /\ nbc_speed \in {0, Normal} /\ (nbc_speed = 0 => HolderPauses)
    /\ nbc_stale \subseteq Decoders \cup Feeders

Wanted == want_live # None \/ want_new # None

\* Who is asleep after a step of t was so before, or is at the wait.
KeepsAsleep(t) ==
    \A s \in asleep_done' : /\ s \in Stoppers
                            /\ (s \in asleep_done /\ s # t) \/ at'[s] = "wait"

\* A step of one thread keeps Shape when its own call is in order after it, a
\* kept wish has a change to apply it, and nobody else goes to sleep.
LEMMA ShapeFollows ==
    ASSUME Shape, NEW t \in Threads, Good(t), FlagTypes', Wanted' => changing',
           KeepsAsleep(t)
    PROVE  Shape'
<1>1. SpeedTypes'
  BY DEF Good, Alone, FlagTypes, SpeedTypes
<1>2. ASSUME NEW u \in Threads, u # t
      PROVE  Stack(u)' /\ Argument(u)' /\ Entitled(u, at[u])' /\ (Changer(u)' <=> Changer(u))
  <2>1. at'[u] = at[u] /\ doing'[u] = doing[u] /\ back'[u] = back[u]
    BY <1>2 DEF Good, Alone
  <2>2. Stack(u) /\ Argument(u) /\ Entitled(u, at[u])
    BY DEF Shape, Calls
  <2>3. Stack(u)'
    BY <2>1, <2>2 DEF Stack
  <2>4. Argument(u)'
    BY <2>1, <2>2 DEF Argument
  <2>5. Changer(u)' <=> Changer(u)
    BY <2>1 DEF Changer
  <2>6. Entitled(u, at[u])'
    BY <2>1, <2>2 DEF Entitled
  <2> QED
    BY <2>3, <2>4, <2>5, <2>6
<1>3. Calls'
  BY <1>2 DEF Good, Calls
<1>4. Waiting'
  <2> SUFFICES ASSUME NEW s \in asleep_done' PROVE s \in Stoppers /\ at'[s] = "wait"
    BY DEF Waiting, KeepsAsleep
  <2>1. CASE s \in asleep_done /\ s # t
    BY <2>1, Constants DEF Shape, Waiting, Good, Alone
  <2> QED
    BY <2>1 DEF KeepsAsleep
<1>5. OneOwner'
  <2> DEFINE C(u) == Changer(u)
  <2>1. /\ \A v, u \in Threads : C(v) /\ C(u) => v = u
        /\ changing <=> \E u \in Threads : C(u)
    BY DEF Shape, OneOwner
  <2>2. \A u \in Threads : u # t => (C(u)' <=> C(u))
    BY <1>2
  <2>3. \/ (changing' <=> changing) /\ (C(t)' <=> C(t))
        \/ ~ changing /\ changing' /\ C(t)'
        \/ C(t) /\ ~ changing' /\ ~ C(t)'
    BY DEF Good, Role, Keeps, Begins, Ends
  <2> HIDE DEF C
  <2>4. /\ \A v, u \in Threads : C(v)' /\ C(u)' => v = u
        /\ changing' <=> \E u \in Threads : C(u)'
    BY <2>1, <2>2, <2>3
  <2> QED
    BY <2>4 DEF OneOwner, C, Wanted
<1> QED
  BY <1>1, <1>3, <1>4, <1>5 DEF Shape

-----------------------------------------------------------------------------
\* What the actions leave alone, for those who do not look at the flags.
LEMMA FlagsOf ==
    ASSUME Shape
    PROVE  FlagTypes /\ (Wanted => changing)
           /\ \A t \in Threads : Stack(t) /\ Argument(t) /\ Entitled(t, at[t]) /\ at[t] \in Steps /\ doing[t] \in Wishes
  BY DEF Shape, SpeedTypes, FlagTypes, OneOwner, Wanted, Calls

\* Whoever is not at the wait of lock_run is not asleep there.
LEMMA Awake ==
    ASSUME Shape, NEW t \in Threads, at[t] # "wait", asleep_done' \subseteq asleep_done
    PROVE  KeepsAsleep(t)
  BY DEF Shape, Waiting, KeepsAsleep

\* The steps of set_speed_internal keep Shape.
LEMMA InsideShape ==
    ASSUME Shape, NEW t \in Threads, SetSpeedInternal(t)
    PROVE  Shape'
<1> USE FlagsOf
<1>0. /\ at[t] \in Inside /\ at[t] \notin {"wait", "changed"} /\ SpeedTypes /\ Stack(t) /\ Argument(t)
      /\ UNCHANGED <<flagVars, nbcVars>>
  BY DEF SetSpeedInternal, Decide, SwitchLive, Unpause, PauseDecoders, StopClock, EnterAudio,
         TellAudio, StartClock, At, Inside, Shape, clockVars
<1>1. Good(t)
  <2>1. \/ Goto(t, "done") 
        \/ \E step \in Inside : /\ Goto(t, step) 
                                /\ step = "live" => doing[t] \in Live
                                /\ step \in {"unpause", "audio", "tell audio", "clock on", "pause", "clock off"} => doing[t] \notin Live
                                /\ step \in {"pause", "clock off"} => doing[t] = 0
                                /\ step \in {"unpause", "clock on"} => doing[t] # 0
    <3>1. CASE Decide(t)
      <4>1. 0 \notin Live
        BY Constants
      <4>2. CASE clock = 0
        BY <3>1, <4>1, <4>2 DEF Decide, FirstStepPaused, Inside
      <4>3. CASE clock # 0
        BY <3>1, <4>1, <4>3 DEF Decide, FirstStep, Inside
      <4> QED
        BY <4>2, <4>3
    <3>2. CASE SwitchLive(t) \/ StartClock(t)
      BY <3>2 DEF SwitchLive, StartClock
    <3>3. CASE Unpause(t)
      BY <3>3, <1>0 DEF Unpause, At, Inside, Argument
    <3>4. CASE PauseDecoders(t)
      BY <3>4, <1>0 DEF PauseDecoders, At, Inside, Argument
    <3>5. CASE StopClock(t)
      BY <3>5, <1>0 DEF StopClock, At, Inside, Argument
    <3>6. CASE EnterAudio(t)
      BY <3>6, <1>0 DEF EnterAudio, At, Inside, Argument
    <3>7. CASE TellAudio(t)
      BY <3>7, <1>0 DEF TellAudio, At, Inside, Argument
    <3> QED
      BY <3>1, <3>2, <3>3, <3>4, <3>5, <3>6, <3>7 DEF SetSpeedInternal
  <2>2. changing' = changing
    BY <1>0 DEF flagVars
  <2>3. CASE Goto(t, "done")
    <3>1. Alone(t) /\ Stack(t)' /\ Argument(t)' /\ Entitled(t, at[t])' /\ (Changer(t)' <=> Changer(t))
      BY <1>0, <2>3, GotoDone DEF Outer
    <3> QED
      BY <2>2, <3>1 DEF Good, Role, Keeps
  <2>4. ASSUME NEW step \in Inside, Goto(t, step), 
                                   step = "live" => doing[t] \in Live,
                                   step \in {"unpause", "audio", "tell audio", "clock on", "pause", "clock off"} => doing[t] \notin Live,
                                   step \in {"pause", "clock off"} => doing[t] = 0,
                                   step \in {"unpause", "clock on"} => doing[t] # 0
        PROVE  Good(t)
    <3>1. Alone(t) /\ Stack(t)' /\ Entitled(t, at[t])' /\ (Changer(t)' <=> Changer(t)) /\ at'[t] = step /\ doing'[t] = doing[t]
      BY <1>0, <2>4, GotoInside
    <3>2. Argument(t)'
      BY <2>4, <3>1 DEF Argument, Inside
    <3> QED
      BY <2>2, <3>1, <3>2 DEF Good, Role, Keeps
  <2> QED
    BY <2>1, <2>3, <2>4
<1>2. clock' \in Wishes \ Live /\ audio' \in Wishes \ Live
  <2>1. CASE StopClock(t)
    BY <2>1, Constants DEF StopClock, FlagTypes
  <2>2. CASE TellAudio(t)
    BY <2>2, <1>0 DEF TellAudio, FlagTypes, Argument, At
  <2>3. CASE StartClock(t)
    BY <2>3, <1>0 DEF StartClock, FlagTypes, Argument, At
  <2>4. CASE UNCHANGED clockVars
    BY <2>4 DEF clockVars, FlagTypes
  <2> QED
    BY <2>1, <2>2, <2>3, <2>4 DEF SetSpeedInternal, Decide, SwitchLive, Unpause, PauseDecoders, EnterAudio
<1>3. FlagTypes' /\ (Wanted' => changing') /\ asleep_done' = asleep_done
  BY <1>0, <1>2 DEF FlagTypes, flagVars, nbcVars, Wanted
<1>4. KeepsAsleep(t)
  BY <1>0, <1>3, Awake
<1> QED
  BY <1>1, <1>3, <1>4, ShapeFollows

\* The first section of _x_set_fine_speed.
LEMMA SetFineSpeedShape ==
    ASSUME Shape, NEW t \in Threads, at[t] \in Returns, NEW speed \in Wishes, NEW then \in Returns,
           Entitled(t, then), SetFineSpeed(t, speed, then)
    PROVE  /\ Good(t) /\ (Wanted' => changing') /\ asleep_done' = asleep_done
           /\ changing' \in BOOLEAN /\ ignore' \in BOOLEAN
           /\ want_live' \in Live \cup {None} /\ want_new' \in (Wishes \ Live) \cup {None}
<1> USE FlagsOf
<1>0. /\ at[t] \notin Inside \cup {"changed"} /\ then \in Steps /\ then \notin Inside \cup {"changed"}
      /\ SpeedTypes /\ Stack(t)
  BY Constants DEF Shape, Returns, Inside
<1>1. CASE ignore
  <2>1. at' = [at EXCEPT ![t] = then] /\ UNCHANGED <<flagVars, doing, back>>
    BY <1>1 DEF SetFineSpeed
  <2>2. Good(t)
    BY <2>1, <1>0, GotoOuter DEF flagVars, Good, Role, Keeps
  <2> QED
    BY <2>1, <2>2 DEF flagVars, FlagTypes, Wanted
<1>2. CASE ~ ignore /\ changing
  <2>1. at' = [at EXCEPT ![t] = then] /\ Remember(speed) /\ UNCHANGED <<changing, ignore, asleep_done, doing, back>>
    BY <1>2 DEF SetFineSpeed, Busy
  <2>2. Good(t)
    BY <2>1, <1>0, GotoOuter DEF Good, Role, Keeps
  <2> QED
    BY <2>1, <2>2, <1>2 DEF FlagTypes, Remember
<1>3. CASE ~ ignore /\ ~ changing
  <2>1. /\ changing' = TRUE /\ Call(t, speed, <<"changed", then>>)
        /\ UNCHANGED <<ignore, want_live, want_new, asleep_done>>
    BY <1>3 DEF SetFineSpeed, Busy
  <2>2. Alone(t) /\ Stack(t)' /\ Argument(t)' /\ Entitled(t, at[t])' /\ Changer(t)'
    BY <2>1, <1>0, CallInside
  <2>3. Good(t)
    BY <2>1, <2>2, <1>3 DEF Good, Role, Begins
  <2> QED
    BY <2>1, <2>3 DEF FlagTypes
<1> QED
  BY <1>1, <1>2, <1>3 DEF Shape, SpeedTypes

\* The first section of _x_set_fine_speed keeps Shape, whoever calls it.
LEMMA FineSpeedShape ==
    ASSUME Shape, NEW t \in Threads, SetSpeed(t) \/ NbcSetSpeed(t) \/ NbcLive(t) \/ NbcAgain(t)
    PROVE  Shape'
<1> USE FlagsOf
<1>1. /\ clock' = clock /\ audio' = audio
      /\ nbc_speed' \in {0, Normal} /\ nbc_stale' \subseteq Decoders \cup Feeders
      /\ nbc_speed' = 0 => HolderPauses
      /\ at[t] \in Returns
  BY DEF SetSpeed, NbcSetSpeed, NbcLive, NbcAgain, clockVars, nbcVars, At, Returns, FlagTypes
<1>2. \/ \E speed \in Wishes, then \in Returns : Entitled(t, then) /\ SetFineSpeed(t, speed, then)
      \/ Goto(t, "idle") /\ UNCHANGED flagVars
  <2>1. CASE SetSpeed(t)
    BY <2>1, Constants DEF SetSpeed, Returns, Entitled
  <2>2. CASE NbcSetSpeed(t)
    BY <2>2, <1>1, Constants DEF NbcSetSpeed, NbcCall, Returns, Entitled
  <2>3. CASE NbcLive(t)
    BY <2>3, Constants DEF NbcLive, Returns, Entitled
  <2>4. CASE NbcAgain(t)
    BY <2>4, Constants DEF NbcAgain, NbcCall, Returns, FlagTypes, Entitled
  <2> QED
    BY <2>1, <2>2, <2>3, <2>4
<1>3. /\ Good(t) /\ (Wanted' => changing') /\ asleep_done' = asleep_done
      /\ changing' \in BOOLEAN /\ ignore' \in BOOLEAN
      /\ want_live' \in Live \cup {None} /\ want_new' \in (Wishes \ Live) \cup {None}
  <2>1. ASSUME NEW speed \in Wishes, NEW then \in Returns, Entitled(t, then), SetFineSpeed(t, speed, then)
        PROVE <1>3!:
    BY <2>1, <1>1, SetFineSpeedShape
  <2>2. CASE Goto(t, "idle") /\ UNCHANGED flagVars
    <3>1. /\ at[t] \notin Inside \cup {"changed"} /\ "idle" \in Steps /\ "idle" \notin Inside \cup {"changed"}
          /\ SpeedTypes /\ Stack(t) /\ Entitled(t, "idle")
      BY <1>1 DEF Returns, Inside, Steps, Shape, Entitled
    <3>2. at' = [at EXCEPT ![t] = "idle"] /\ back' = back /\ doing' = doing
      BY <2>2, <3>1 DEF Goto, SpeedTypes
    <3>3. Good(t)
      BY <3>1, <3>2, <2>2, GotoOuter DEF Good, Role, Keeps, flagVars
    <3> QED
      BY <3>3, <2>2 DEF flagVars, FlagTypes, Wanted
  <2> QED
    BY <1>2, <2>1, <2>2
<1>4. FlagTypes'
  BY <1>1, <1>3 DEF FlagTypes
<1>5. KeepsAsleep(t)
  BY <1>1, <1>3, Awake DEF Returns
<1> QED
  BY <1>3, <1>4, <1>5, ShapeFollows

\* The last section of _x_set_fine_speed keeps Shape: it applies a wish that was
\* kept, or ends the change.
LEMMA ChangedShape ==
    ASSUME Shape, NEW t \in Threads, Changed(t)
    PROVE  Shape'
<1> USE FlagsOf
<1>0. /\ at[t] = "changed" /\ SpeedTypes /\ Stack(t) /\ Changer(t) /\ changing 
      /\ UNCHANGED <<clockVars, nbcVars>>
  BY DEF Changed, At, Shape, OneOwner, Changer
<1>1. ASSUME NEW speed \in Wishes, Call(t, speed, <<"changed">> \o back[t]), changing' = changing
      PROVE  Good(t)
  <2>1. PICK r \in Returns : back[t] = <<r>> /\ Entitled(t, r)
    BY <1>0 DEF Stack, Inside
  <2>2. <<"changed">> \o back[t] = <<"changed", r>>
    BY <2>1, Constants, Lists
  <2>3. Call(t, speed, <<"changed", r>>)
    BY <1>1, <2>2
  <2>4. Alone(t) /\ Stack(t)' /\ Argument(t)' /\ Entitled(t, at[t])' /\ Changer(t)'
    BY <1>0, <2>1, <2>3, CallInside
  <2> QED
    BY <1>0, <1>1, <2>4 DEF Good, Role, Keeps
<1>2. CASE want_live # None
  <2>1. /\ want_live' = None /\ Call(t, want_live, <<"changed">> \o back[t])
        /\ UNCHANGED <<changing, ignore, want_new, asleep_done>>
    BY <1>2 DEF Changed
  <2>2. want_live \in Wishes
    BY <1>2, Constants DEF FlagTypes
  <2>3. Good(t)
    BY <1>1, <2>1, <2>2
  <2>4. FlagTypes' /\ (Wanted' => changing') /\ asleep_done' \subseteq asleep_done
    BY <2>1, <1>0 DEF FlagTypes, Wanted, clockVars, nbcVars
  <2> QED
    BY <2>3, <2>4, <1>0, Awake, ShapeFollows
<1>3. CASE want_live = None /\ want_new # None
  <2>1. /\ want_new' = None /\ Call(t, want_new, <<"changed">> \o back[t])
        /\ UNCHANGED <<changing, ignore, want_live, asleep_done>>
    BY <1>3 DEF Changed
  <2>2. want_new \in Wishes
    BY <1>3, Constants DEF FlagTypes
  <2>3. Good(t)
    BY <1>1, <2>1, <2>2
  <2>4. FlagTypes' /\ (Wanted' => changing') /\ asleep_done' \subseteq asleep_done
    BY <2>1, <1>0 DEF FlagTypes, Wanted, clockVars, nbcVars
  <2> QED
    BY <2>3, <2>4, <1>0, Awake, ShapeFollows
<1>4. CASE want_live = None /\ want_new = None
  <2>1. /\ changing' = FALSE /\ asleep_done' = TellDone /\ Goto(t, "done")
        /\ UNCHANGED <<ignore, want_live, want_new>>
    BY <1>4 DEF Changed
  <2>2. Alone(t) /\ Stack(t)' /\ Argument(t)' /\ Entitled(t, at[t])' /\ (Changer(t)' <=> at'[t] = "changed") /\ at'[t] \in Returns
    BY <2>1, <1>0, GotoDone
  <2>3. Good(t)
    BY <2>1, <2>2, <1>0 DEF Good, Role, Ends, Returns
  <2>4. FlagTypes' /\ (Wanted' => changing') /\ asleep_done' \subseteq asleep_done
    BY <2>1, <1>0, <1>4 DEF FlagTypes, Wanted, clockVars, nbcVars, TellDone
  <2> QED
    BY <2>3, <2>4, <1>0, Awake, ShapeFollows
<1> QED
  BY <1>2, <1>3, <1>4

\* lock_run keeps Shape.
LEMMA LockRunShape ==
    ASSUME Shape, NEW t \in Threads, NEW wait \in BOOLEAN, LockRun(t, wait)
    PROVE  Shape'
<1> USE FlagsOf
<1> DEFINE next == IF wait THEN "enter" ELSE "stop"
<1>0. /\ at[t] = "idle" /\ t \in Stoppers /\ ignore' = TRUE /\ SpeedTypes /\ Stack(t)
      /\ UNCHANGED <<changing, want_live, clockVars, nbcVars>>
  BY DEF LockRun, At, Shape
<1>1. /\ at[t] \notin Inside \cup {"changed"} /\ next \in Outer /\ next \in Steps
      /\ next \notin Inside \cup {"changed"} /\ Entitled(t, next) /\ Entitled(t, "wait")
  BY <1>0 DEF Outer, Inside, Steps, Entitled
<1>2. CASE changing
  <2> DEFINE step == IF wait THEN "wait" ELSE next
  <2>1. /\ want_new' = Normal /\ at' = [at EXCEPT ![t] = step] /\ UNCHANGED <<doing, back>>
        /\ asleep_done' = IF wait THEN asleep_done \cup {t} ELSE asleep_done
    BY <1>2 DEF LockRun, RunWish
  <2>2. step \in Steps /\ step \notin Inside \cup {"changed"} /\ Entitled(t, step)
    BY <1>1 DEF Inside, Steps
  <2> HIDE DEF next, step
  <2>3. Good(t) /\ at'[t] = step
    BY <2>1, <2>2, <1>0, <1>1, GotoOuter DEF Good, Role, Keeps
  <2> USE DEF next, step
  <2>4. FlagTypes' /\ (Wanted' => changing')
    BY <2>1, <1>0, <1>2, Constants DEF FlagTypes, clockVars, nbcVars
  <2>5. KeepsAsleep(t)
    BY <2>1, <2>3, <1>0 DEF Shape, Waiting, KeepsAsleep
  <2> QED
    BY <2>3, <2>4, <2>5, ShapeFollows
<1>3. CASE ~ changing
  <2>1. Call(t, Normal, <<next>>) /\ UNCHANGED <<want_new, asleep_done>>
    BY <1>3 DEF LockRun
  <2> HIDE DEF next
  <2>2. \A r \in Returns : <<next>> # <<"changed", r>>
    BY <1>1, Constants, Lists
  <2>3. Alone(t) /\ Stack(t)' /\ Argument(t)' /\ Entitled(t, at[t])' /\ ~ Changer(t)'
    BY <2>1, <2>2, <1>0, <1>1, Constants, CallInside
  <2>4. ~ Changer(t)
    BY <1>1 DEF Changer
  <2>5. Good(t)
    BY <2>3, <2>4, <1>0 DEF Good, Role, Keeps
  <2>6. FlagTypes' /\ (Wanted' => changing') /\ asleep_done' \subseteq asleep_done
    BY <2>1, <1>0 DEF FlagTypes, Wanted, clockVars, nbcVars
  <2> QED
    BY <2>5, <2>6, <1>0, Awake, ShapeFollows
<1> QED
  BY <1>2, <1>3

\* The steps of xine_stop, close_internal and of rewiring between their calls.
LEMMA OuterShape ==
    ASSUME Shape, NEW t \in Threads,
           EnterStop(t) \/ LeaveStop(t) \/ UnlockRun(t) \/ RewireBegin(t) \/ RewireEnd(t) \/ LockRunWake(t)
    PROVE  Shape'
<1> USE FlagsOf
<1>0. /\ at[t] \notin Inside \cup {"changed"} /\ SpeedTypes /\ Stack(t)
      /\ UNCHANGED <<changing, want_live, want_new, clockVars, nbcVars>> /\ ignore' \in BOOLEAN
  BY DEF EnterStop, LeaveStop, UnlockRun, RewireBegin, RewireEnd, LockRunWake, At, flagVars, Inside, Shape, FlagTypes
<1>1. ASSUME NEW step \in {"stop", "unlock", "idle", "rewire", "enter"}, Entitled(t, step), Goto(t, step)
      PROVE  Good(t) /\ at'[t] = step
  <2>1. step \in Steps /\ step \notin Inside \cup {"changed"} /\ step # "done"
    BY DEF Inside, Steps
  <2>2. at' = [at EXCEPT ![t] = step] /\ back' = back /\ doing' = doing
    BY <1>1, <2>1, <1>0 DEF Goto, SpeedTypes
  <2> QED
    BY <1>1, <2>1, <2>2, <1>0, GotoOuter DEF Good, Role, Keeps
<1>2. FlagTypes' /\ (Wanted' => changing')
  BY <1>0 DEF FlagTypes, Wanted, clockVars, nbcVars
<1>3. CASE LockRunWake(t) /\ changing
  <2>1. asleep_done' = asleep_done \cup {t} /\ UNCHANGED callVars /\ at[t] = "wait"
    BY <1>3 DEF LockRunWake, At
  <2>2. t \in Stoppers /\ at'[t] = "wait"
    BY <2>1 DEF callVars, Entitled
  <2>3. at' = at /\ back' = back /\ doing' = doing
    BY <2>1 DEF callVars
  <2>4. Alone(t) /\ Role(t)
    BY <1>0, <2>3 DEF Alone, SpeedTypes, Role, Keeps, Changer
  <2>5. Stack(t)' /\ Argument(t)' /\ Entitled(t, at[t])'
    BY <2>3 DEF Stack, Argument, Entitled
  <2>6. Good(t)
    BY <2>4, <2>5 DEF Good
  <2> QED
    BY <2>1, <2>2, <2>6, <1>2, ShapeFollows DEF KeepsAsleep, Shape, Waiting
<1>4. CASE LockRunWake(t) /\ ~ changing
  <2>1. asleep_done' = asleep_done /\ Goto(t, "enter") /\ t \notin asleep_done
    BY <1>4 DEF LockRunWake
  <2>2. KeepsAsleep(t)
    BY <2>1 DEF KeepsAsleep, Shape, Waiting
  <2>3. Entitled(t, "enter")
    BY <1>4 DEF LockRunWake, At, Entitled
  <2> QED
    BY <2>1, <2>2, <2>3, <1>1, <1>2, ShapeFollows
<1>5. CASE ~ LockRunWake(t)
  <2>1. /\ asleep_done' = asleep_done /\ at[t] # "wait"
        /\ \E step \in {"stop", "unlock", "idle", "rewire", "enter"} : Goto(t, step) /\ Entitled(t, step)
    BY <1>5 DEF EnterStop, LeaveStop, UnlockRun, RewireBegin, RewireEnd, At, flagVars, Entitled
  <2> QED
    BY <2>1, <1>1, <1>2, Awake, ShapeFollows
<1> QED
  BY <1>3, <1>4, <1>5

\* The calls of set_speed_internal without the flag keep Shape.
LEMMA StopShape ==
    ASSUME Shape, NEW t \in Threads, StopInternal(t) \/ RewirePause(t)
    PROVE  Shape'
<1> USE FlagsOf
<1>0. /\ at[t] \notin Inside \cup {"changed", "wait"} /\ SpeedTypes /\ Stack(t)
      /\ UNCHANGED <<flagVars, clockVars, nbcVars>>
  BY DEF StopInternal, RewirePause, At, Inside, Shape
<1>1. FlagTypes' /\ (Wanted' => changing') /\ changing' = changing /\ asleep_done' = asleep_done
  BY <1>0 DEF FlagTypes, Wanted, flagVars, clockVars, nbcVars
<1>2. ASSUME NEW speed \in Wishes, NEW r \in Outer, Entitled(t, r), Call(t, speed, <<r>>)
      PROVE  Good(t)
  <2>1. \A q \in Returns : <<r>> # <<"changed", q>>
    BY Constants, Lists
  <2>2. Alone(t) /\ Stack(t)' /\ Argument(t)' /\ Entitled(t, at[t])' /\ ~ Changer(t)'
    BY <2>1, <1>0, <1>2, Constants, CallInside
  <2>3. ~ Changer(t)
    BY <1>0 DEF Changer
  <2> QED
    BY <2>2, <2>3, <1>1 DEF Good, Role, Keeps
<1>3. CASE StopInternal(t) /\ Goto(t, "stopped")
  <2>1. "stopped" \in Steps /\ "stopped" \notin Inside \cup {"changed"} /\ "stopped" # "done"
    BY DEF Inside, Steps
  <2>2. at' = [at EXCEPT ![t] = "stopped"] /\ back' = back /\ doing' = doing
    BY <1>3, <2>1, <1>0 DEF Goto, SpeedTypes
  <2>3. Entitled(t, "stopped")
    BY <1>3 DEF StopInternal, At, Entitled
  <2> QED
    BY <2>1, <2>2, <2>3, <1>0, <1>1, GotoOuter, Awake, ShapeFollows DEF Good, Role, Keeps
<1>4. CASE \E speed \in Wishes, r \in Outer : Call(t, speed, <<r>>) /\ Entitled(t, r)
  BY <1>0, <1>1, <1>2, <1>4, Awake, ShapeFollows
<1>6. CASE StopInternal(t)
  BY <1>3, <1>4, <1>6, Constants DEF StopInternal, Outer, At, Entitled
<1>7. CASE RewirePause(t)
  BY <1>4, <1>7, Constants DEF RewirePause, Outer, At, Entitled
<1> QED
  BY <1>6, <1>7

\* Ticket calls of decoders, and wake-ups, are no part of a speed change.
LEMMA StillShape == Shape /\ UNCHANGED speedVars => Shape'
<1> SUFFICES ASSUME Shape, UNCHANGED speedVars PROVE Shape'
  OBVIOUS
<1> USE DEF speedVars, flagVars, clockVars, callVars, nbcVars
<1>1. SpeedTypes'
  BY DEF Shape, SpeedTypes
<1>2. ASSUME NEW t \in Threads
      PROVE  Stack(t)' /\ Argument(t)' /\ Entitled(t, at[t])' /\ (Changer(t)' <=> Changer(t))
  BY DEF Shape, Calls, Stack, Argument, Entitled, Changer
<1>3. Calls'
  BY <1>2 DEF Calls
<1>4. Waiting'
  BY DEF Shape, Waiting
<1>5. OneOwner'
  BY <1>2 DEF Shape, OneOwner
<1> QED
  BY <1>1, <1>3, <1>4, <1>5 DEF Shape

\* No call is under way at first.
LEMMA InitShape == SpeedInit => Shape
<1> SUFFICES ASSUME SpeedInit PROVE Shape
  OBVIOUS
<1> USE DEF SpeedInit
<1>0. <<>> \in Seq(Steps) /\ "idle" \in Steps /\ "idle" \notin Inside \cup {"changed"}
  BY DEF Steps, Inside
<1>1. SpeedTypes
  BY <1>0, Constants DEF SpeedTypes
<1>2. ASSUME NEW t \in Threads PROVE Stack(t) /\ Argument(t) /\ Entitled(t, at[t]) /\ ~ Changer(t)
  BY <1>0 DEF Stack, Argument, Changer, Entitled
<1>3. Calls /\ Waiting /\ OneOwner
  BY <1>2 DEF Calls, Waiting, OneOwner
<1> QED
  BY <1>1, <1>3 DEF Shape

\* Every step keeps Shape.
LEMMA NextShape ==
    ASSUME Shape, [SpeedNext]_allVars
    PROVE  Shape'
<1>1. CASE UNCHANGED allVars
  BY <1>1, StillShape DEF allVars
<1>2. ASSUME NEW t \in Threads, GoOn(t) PROVE Shape'
  BY <1>2, InsideShape, ChangedShape, FineSpeedShape, OuterShape, StopShape, StillShape DEF GoOn, SpeedWake
<1>3. ASSUME NEW t \in Threads, Ask(t) PROVE Shape'
  BY <1>3, FineSpeedShape, OuterShape, LockRunShape DEF Ask
<1>4. ASSUME NEW t \in Threads, Decode(t) PROVE Shape'
  BY <1>4, StillShape DEF Decode
<1> QED
  BY <1>1, <1>2, <1>3, <1>4 DEF SpeedNext

\* The changer of Shape is the one that OneChanger counts.
LEMMA ShapeMeans == Shape => OneChanger
<1> SUFFICES ASSUME Shape PROVE OneChanger
  OBVIOUS
<1>1. ASSUME NEW t \in Threads
      PROVE  /\ back[t] \in Seq(Steps) /\ Len(back[t]) <= 2
             /\ Changer(t) <=> at[t] = "changed" \/ \E i \in DOMAIN back[t] : back[t][i] = "changed"
  <2>1. Stack(t)
    BY DEF Shape, Calls
  <2>2. CASE at[t] \in Inside /\ \E r \in Returns : back[t] = <<"changed", r>>
    <3>1. PICK r \in Returns : back[t] = <<"changed", r>>
      BY <2>2
    <3>2. back[t] \in Seq(Steps) /\ Len(back[t]) = 2
      BY <3>1, Constants, Lists
    <3>3. DOMAIN back[t] = 1 .. 2 /\ back[t][1] = "changed"
      BY <3>1
    <3> QED
      BY <2>2, <3>2, <3>3 DEF Changer
  <2>3. CASE at[t] \in Inside /\ \E r \in Outer : back[t] = <<r>>
    <3>1. PICK r \in Outer : back[t] = <<r>>
      BY <2>3
    <3>2. back[t] \in Seq(Steps) /\ Len(back[t]) = 1 /\ at[t] # "changed"
      BY <2>3, <3>1, Constants, Lists DEF Inside
    <3>3. DOMAIN back[t] = {1} /\ back[t][1] # "changed"
      BY <3>1 DEF Outer
    <3> QED
      BY <3>2, <3>3 DEF Changer
  <2>4. CASE at[t] = "changed" /\ \E r \in Returns : back[t] = <<r>>
    <3>1. PICK r \in Returns : back[t] = <<r>>
      BY <2>4
    <3>2. back[t] \in Seq(Steps) /\ Len(back[t]) = 1
      BY <3>1, Constants, Lists
    <3> QED
      BY <2>4, <3>2 DEF Changer
  <2>5. CASE at[t] \notin Inside \cup {"changed"} /\ back[t] = <<>>
    BY <2>5 DEF Changer
  <2> QED
    BY <2>1, <2>2, <2>3, <2>4, <2>5 DEF Stack
<1> DEFINE Owners == {t \in Threads : at[t] = "changed" \/ (\E i \in DOMAIN back[t] : back[t][i] = "changed")}
<1>2. /\ \A t, u \in Owners : t = u
      /\ changing <=> Owners # {}
  BY <1>1 DEF Shape, OneOwner
<1>3. Cardinality(Owners) = B2N(changing)
  <2>1. CASE changing
    <3>1. PICK t \in Owners : Owners = {t}
      BY <2>1, <1>2
    <3>2. Cardinality({t}) = 1
      BY FS_Singleton
    <3> QED
      BY <2>1, <3>1, <3>2 DEF B2N
  <2>2. CASE ~ changing
    BY <2>2, <1>2, FS_EmptySet DEF B2N
  <2> QED
    BY <2>1, <2>2
<1>4. SpeedTypeOK
  BY <1>1 DEF SpeedTypeOK, Shape, SpeedTypes, Waiting
<1> QED
  BY <1>3, <1>4 DEF OneChanger, Shape, OneOwner

\* Every call stack is one the code can have, and SPEED_FLAG_CHANGING has one
\* owner while it is set and none otherwise.
THEOREM ShapeHolds == SpeedSpec => []Shape
  BY InitShape, NextShape, PTL DEF SpeedSpec

\* Whatever threads call _x_set_fine_speed, stop, close or rewire, one at a
\* time is inside its SPEED_FLAG_CHANGING, and no wish is kept without it.
THEOREM OneChangerHolds == SpeedSpec => []OneChanger
  BY ShapeHolds, ShapeMeans, PTL

-----------------------------------------------------------------------------
(* Who waits in lock_run.                                                    *)

\* One stream at a time stops.
OneStopper == \A s, u \in Stoppers : s = u

\* A step of t leaves the calls of others alone.
Others(t) ==
    \A u \in Threads \ {t} :
        /\ at'[u] = at[u] /\ doing'[u] = doing[u] /\ back'[u] = back[u]
        /\ Changer(u)' <=> Changer(u)

\* A step of t is not a step in the call of another thread.
LEMMA CallsOfOthers ==
    ASSUME Shape, NEW t \in Threads, GoOn(t) \/ Ask(t) \/ Decode(t)
    PROVE  Others(t)
<1> SUFFICES ASSUME NEW u \in Threads \ {t}
             PROVE  at'[u] = at[u] /\ doing'[u] = doing[u] /\ back'[u] = back[u]
  BY DEF Others, Changer
<1>0. SpeedTypes
  BY DEF Shape
<1>1. ASSUME NEW step, Goto(t, step) PROVE at'[u] = at[u] /\ doing'[u] = doing[u] /\ back'[u] = back[u]
  BY <1>0, <1>1 DEF Goto, SpeedTypes
<1>2. ASSUME NEW speed, NEW then, Call(t, speed, then)
      PROVE  at'[u] = at[u] /\ doing'[u] = doing[u] /\ back'[u] = back[u]
  BY <1>0, <1>2 DEF Call, SpeedTypes
<1>3. ASSUME NEW speed, NEW then, SetFineSpeed(t, speed, then)
      PROVE  at'[u] = at[u] /\ doing'[u] = doing[u] /\ back'[u] = back[u]
  BY <1>0, <1>2, <1>3 DEF SetFineSpeed, SpeedTypes
<1>4. CASE UNCHANGED callVars
  BY <1>4 DEF callVars
<1>5. CASE SetSpeedInternal(t)
  BY <1>1, <1>5 DEF SetSpeedInternal, Decide, SwitchLive, Unpause, PauseDecoders, StopClock,
                    EnterAudio, TellAudio, StartClock
<1>6. CASE SetSpeed(t) \/ NbcSetSpeed(t) \/ NbcLive(t) \/ NbcAgain(t)
  BY <1>1, <1>3, <1>6 DEF SetSpeed, NbcSetSpeed, NbcLive, NbcAgain, NbcCall
<1>7. CASE Changed(t) \/ StopInternal(t) \/ RewirePause(t)
  BY <1>1, <1>2, <1>7 DEF Changed, StopInternal, RewirePause
<1>8. CASE EnterStop(t) \/ LeaveStop(t) \/ UnlockRun(t) \/ RewireBegin(t) \/ RewireEnd(t) \/ LockRunWake(t)
  BY <1>1, <1>4, <1>8 DEF EnterStop, LeaveStop, UnlockRun, RewireBegin, RewireEnd, LockRunWake
<1>9. CASE \E wait \in BOOLEAN : LockRun(t, wait)
  BY <1>0, <1>2, <1>9 DEF LockRun, SpeedTypes
<1>10. CASE SpeedWake(t) \/ Decode(t)
  BY <1>4, <1>10 DEF SpeedWake, Decode, speedVars
<1> QED
  BY <1>5, <1>6, <1>7, <1>8, <1>9, <1>10 DEF GoOn, Ask


\* What a step of t makes of its own call.
LEMMA InsideTurn ==
    ASSUME Shape, NEW t \in Threads, SetSpeedInternal(t)
    PROVE  /\ at[t] \in Inside /\ UNCHANGED <<flagVars, wish>>
           /\ Changer(t)' <=> Changer(t)
           /\ \/ at'[t] \in Inside /\ doing'[t] = doing[t]
              \/ Goto(t, "done") /\ at'[t] = "changed" /\ Changer(t)
              \/ Goto(t, "done") /\ at'[t] \in Outer /\ ~ Changer(t)
<1>0. /\ at[t] \in Inside /\ SpeedTypes /\ Stack(t) /\ Entitled(t, at[t])
      /\ UNCHANGED <<flagVars, wish>>
  BY DEF SetSpeedInternal, Decide, SwitchLive, Unpause, PauseDecoders, StopClock, EnterAudio,
         TellAudio, StartClock, At, Inside, Shape, Calls
<1>1. Goto(t, "done") \/ \E step \in Inside : Goto(t, step)
  <2>1. CASE Decide(t)
    BY <2>1 DEF Decide, FirstStep, FirstStepPaused, Inside
  <2> QED
    BY <2>1 DEF SetSpeedInternal, SwitchLive, Unpause, PauseDecoders, StopClock, EnterAudio,
         TellAudio, StartClock, Inside
<1>2. CASE Goto(t, "done")
  BY <1>0, <1>2, GotoDone DEF Outer
<1>3. CASE \E step \in Inside : Goto(t, step)
  BY <1>0, <1>3, GotoInside
<1> QED
  BY <1>0, <1>1, <1>2, <1>3

\* A call of set_speed_internal from where there was none.
LEMMA CallTurn ==
    ASSUME Shape, NEW t \in Threads, NEW speed, NEW then, Call(t, speed, then)
    PROVE  /\ at'[t] = "decide" /\ doing'[t] = speed
           /\ (\E r \in Steps : then = <<"changed", r>>) => Changer(t)'
           /\ (\E r \in Steps : then = <<r>>) => ~ Changer(t)'
<1>1. at'[t] = "decide" /\ doing'[t] = speed /\ back'[t] = then
  BY DEF Call, Shape, SpeedTypes
<1>2. Changer(t)' <=> Len(then) = 2
  BY <1>1 DEF Changer, Inside
<1> QED
  BY <1>1, <1>2, Lists

\* What the first section of _x_set_fine_speed does: it drops the speed, keeps it
\* for the change under way, or begins a change.
LEMMA FineTurn ==
    ASSUME Shape, NEW t \in Threads, SetSpeed(t) \/ NbcSetSpeed(t) \/ NbcLive(t) \/ NbcAgain(t)
    PROVE  /\ at[t] \in Returns /\ ~ Changer(t) /\ UNCHANGED <<vars, clockVars, ignore, asleep_done>>
           /\ \/ at'[t] \in Returns /\ UNCHANGED <<flagVars, wish>>
              \/ \E speed \in Wishes : 
                   /\ ~ ignore /\ wish' = Wished(speed) /\ (speed \in Live => HolderPauses)
                   /\ \/ changing /\ UNCHANGED changing /\ at'[t] \in Returns /\ Remember(speed)
                      \/ /\ ~ changing /\ changing' = TRUE /\ UNCHANGED <<want_live, want_new>>
                         /\ at'[t] = "decide" /\ doing'[t] = speed /\ Changer(t)'
<1>0. at[t] \in Returns /\ SpeedTypes /\ FlagTypes /\ Entitled(t, at[t])
  BY FlagsOf DEF Shape, SetSpeed, NbcSetSpeed, NbcLive, NbcAgain, At, Returns
<1>1. at[t] \in Returns /\ ~ Changer(t) /\ UNCHANGED <<vars, clockVars, ignore, asleep_done>>
  BY <1>0 DEF SetSpeed, NbcSetSpeed, NbcLive, NbcAgain, NbcCall, SetFineSpeed, flagVars, Returns, Inside, Changer
<1>2. \/ \E speed \in Wishes, then \in Returns : SetFineSpeed(t, speed, then) /\ (speed \in Live => HolderPauses)
      \/ Goto(t, "idle") /\ UNCHANGED <<flagVars, wish>>
  <2>1. CASE SetSpeed(t)
    BY <2>1, Constants DEF SetSpeed, Returns
  <2>2. CASE NbcSetSpeed(t)
    BY <2>2, Constants DEF NbcSetSpeed, NbcCall, Returns
  <2>3. CASE NbcLive(t)
    BY <2>3, <1>0, Constants DEF NbcLive, Returns, At, Entitled
  <2>4. CASE NbcAgain(t)
    BY <2>4, <1>0, Constants DEF NbcAgain, NbcCall, Returns, FlagTypes
  <2> QED
    BY <2>1, <2>2, <2>3, <2>4
<1>3. CASE Goto(t, "idle") /\ UNCHANGED <<flagVars, wish>>
  BY <1>0, <1>1, <1>3 DEF Goto, SpeedTypes, Returns
<1>4. ASSUME NEW speed \in Wishes, NEW then \in Returns, SetFineSpeed(t, speed, then), speed \in Live => HolderPauses
      PROVE  \/ at'[t] \in Returns /\ UNCHANGED <<flagVars, wish>>
             \/ /\ ~ ignore /\ wish' = Wished(speed) /\ (speed \in Live => HolderPauses)
                /\ \/ changing /\ UNCHANGED changing /\ at'[t] \in Returns /\ Remember(speed)
                   \/ /\ ~ changing /\ changing' = TRUE /\ UNCHANGED <<want_live, want_new>>
                      /\ at'[t] = "decide" /\ doing'[t] = speed /\ Changer(t)'
  <2>1. CASE ignore
    BY <1>0, <1>4, <2>1 DEF SetFineSpeed, SpeedTypes
  <2>2. CASE ~ ignore /\ changing
    BY <1>0, <1>4, <2>2 DEF SetFineSpeed, SpeedTypes, Busy
  <2>3. CASE ~ ignore /\ ~ changing
    <3>1. /\ changing' = TRUE /\ wish' = Wished(speed) /\ Call(t, speed, <<"changed", then>>)
          /\ UNCHANGED <<want_live, want_new>>
      BY <1>4, <2>3 DEF SetFineSpeed, Busy
    <3>2. at'[t] = "decide" /\ doing'[t] = speed /\ Changer(t)'
      BY <3>1, CallTurn, Constants
    <3> QED
      BY <1>4, <2>3, <3>1, <3>2
  <2> QED
    BY <1>0, <2>1, <2>2, <2>3 DEF SpeedTypes
<1> QED
  BY <1>1, <1>2, <1>3, <1>4

\* What the last section does: it takes a wish that was kept, or ends the change.
LEMMA ChangedTurn ==
    ASSUME Shape, NEW t \in Threads, Changed(t)
    PROVE  /\ at[t] = "changed" /\ Changer(t) /\ changing
           /\ UNCHANGED <<vars, clockVars, ignore, wish>>
           /\ \/ /\ want_live # None /\ want_live' = None /\ UNCHANGED <<changing, want_new, asleep_done>>
                 /\ at'[t] = "decide" /\ doing'[t] = want_live /\ Changer(t)'
              \/ /\ want_live = None /\ want_new # None /\ want_new' = None
                 /\ UNCHANGED <<changing, want_live, asleep_done>>
                 /\ at'[t] = "decide" /\ doing'[t] = want_new /\ Changer(t)'
              \/ /\ want_live = None /\ want_new = None /\ UNCHANGED <<want_live, want_new>>
                 /\ changing' = FALSE /\ asleep_done' = TellDone
                 /\ at'[t] \in Returns /\ ~ Changer(t)'
<1>0. at[t] = "changed" /\ Changer(t) /\ changing /\ SpeedTypes /\ Stack(t) /\ Entitled(t, at[t])
  BY DEF Changed, At, Changer, Shape, OneOwner, Calls
<1>1. UNCHANGED <<vars, clockVars, ignore, wish>>
  BY DEF Changed
<1>2. ASSUME NEW speed, Call(t, speed, <<"changed">> \o back[t])
      PROVE  at'[t] = "decide" /\ doing'[t] = speed /\ Changer(t)'
  <2>1. PICK r \in Steps : back[t] = <<r>>
    BY <1>0, Constants DEF Stack, Inside
  <2>2. <<"changed">> \o back[t] = <<"changed", r>>
    BY <2>1, Lists
  <2> QED
    BY <1>2, <2>2, CallTurn
<1>3. Goto(t, "done") => at'[t] \in Returns /\ ~ Changer(t)'
  BY <1>0, GotoDone DEF Returns
<1> QED
  BY <1>0, <1>1, <1>2, <1>3 DEF Changed

\* What lock_run does: it leaves its wish to the change under way, or calls
\* set_speed_internal itself.
LEMMA LockRunTurn ==
    ASSUME Shape, NEW t \in Threads, NEW wait \in BOOLEAN, LockRun(t, wait)
    PROVE  /\ at[t] = "idle" /\ ~ Changer(t) /\ t \in Stoppers /\ (wait \/ Gapless)
           /\ UNCHANGED <<vars, clockVars, changing, want_live>> /\ ignore' = TRUE /\ wish' = Wished(Normal)
           /\ \/ /\ changing /\ want_new' = Normal /\ asleep_done' \subseteq asleep_done \cup {t}
                 /\ at'[t] = IF wait THEN "wait" ELSE "stop"
              \/ /\ ~ changing /\ UNCHANGED <<want_new, asleep_done>>
                 /\ at'[t] = "decide" /\ doing'[t] = Normal /\ ~ Changer(t)'
<1>1. /\ at[t] = "idle" /\ ~ Changer(t) /\ t \in Stoppers /\ (wait \/ Gapless)
      /\ UNCHANGED <<vars, clockVars, changing, want_live>> /\ ignore' = TRUE /\ wish' = Wished(Normal)
  BY DEF LockRun, At, Changer, Inside
<1>2. CASE changing
  <2>1. /\ want_new' = Normal /\ at' = [at EXCEPT ![t] = IF wait THEN "wait" ELSE "stop"]
        /\ asleep_done' = IF wait THEN asleep_done \cup {t} ELSE asleep_done
    BY <1>2 DEF LockRun, RunWish
  <2>2. at'[t] = IF wait THEN "wait" ELSE "stop"
    BY <2>1 DEF Shape, SpeedTypes
  <2> QED
    BY <1>1, <1>2, <2>1, <2>2
<1>3. CASE ~ changing
  <2>1. /\ Call(t, Normal, <<IF wait THEN "enter" ELSE "stop">>) /\ UNCHANGED <<want_new, asleep_done>>
    BY <1>3 DEF LockRun
  <2>2. (IF wait THEN "enter" ELSE "stop") \in Steps
    BY DEF Steps
  <2> QED
    BY <1>1, <1>3, <2>1, <2>2, CallTurn
<1> QED
  BY <1>1, <1>2, <1>3

\* What the steps of stop and of rewiring do.
LEMMA OuterTurn ==
    ASSUME Shape, NEW t \in Threads,
           \/ EnterStop(t) \/ LeaveStop(t) \/ UnlockRun(t) \/ LockRunWake(t)
           \/ StopInternal(t) \/ RewireBegin(t) \/ RewirePause(t) \/ RewireEnd(t)
    PROVE  /\ UNCHANGED <<clockVars, changing, want_live, want_new>> /\ ~ Changer(t)
           /\ \/ at[t] = "enter" /\ at'[t] = "stop" /\ UNCHANGED <<ignore, asleep_done, wish>>
              \/ at[t] = "stopped" /\ at'[t] = "unlock" /\ UNCHANGED <<ignore, asleep_done, wish>>
              \/ at[t] = "unlock" /\ at'[t] = "idle" /\ ignore' = FALSE /\ UNCHANGED <<asleep_done, wish>>
              \/ at[t] = "wait" /\ at'[t] = "wait" /\ changing /\ UNCHANGED <<ignore, wish>>
              \/ at[t] = "wait" /\ at'[t] = "enter" /\ ~ changing /\ UNCHANGED <<ignore, asleep_done, wish>>
              \/ at[t] = "stop" /\ at'[t] = "stopped" /\ UNCHANGED <<ignore, asleep_done, wish>>
              \/ /\ at[t] = "stop" /\ UNCHANGED <<ignore, asleep_done>> /\ wish' = Wished(Normal)
                 /\ at'[t] = "decide" /\ doing'[t] = Normal /\ ~ Changer(t)'
              \/ t \in Rewirers /\ at[t] \in {"idle", "rewire", "rewired"} /\ at'[t] # "wait" /\ UNCHANGED <<ignore, asleep_done>>
<1>0. SpeedTypes /\ Entitled(t, at[t])
  BY DEF Shape, Calls
<1>1. UNCHANGED <<clockVars, changing, want_live, want_new>> /\ ~ Changer(t)
  BY DEF EnterStop, LeaveStop, UnlockRun, LockRunWake, StopInternal, RewireBegin, RewirePause, RewireEnd,
         At, flagVars, Changer, Inside
<1>2. ASSUME NEW step, step # "done", Goto(t, step) PROVE at'[t] = step
  BY <1>0, <1>2 DEF Goto, SpeedTypes
<1>3. CASE EnterStop(t) \/ LeaveStop(t) \/ UnlockRun(t)
  BY <1>1, <1>2, <1>3 DEF EnterStop, LeaveStop, UnlockRun, At, flagVars
<1>4. CASE LockRunWake(t)
  BY <1>1, <1>2, <1>4 DEF LockRunWake, At, callVars
<1>5. CASE StopInternal(t)
  <2>1. CASE Goto(t, "stopped") /\ UNCHANGED wish
    BY <1>1, <1>2, <1>5, <2>1 DEF StopInternal, At, flagVars
  <2>2. CASE wish' = Wished(Normal) /\ Call(t, Normal, <<"stopped">>)
    <3>1. at'[t] = "decide" /\ doing'[t] = Normal /\ ~ Changer(t)'
      BY <2>2, CallTurn DEF Steps
    <3> QED
      BY <1>1, <1>5, <2>2, <3>1 DEF StopInternal, At, flagVars
  <2> QED
    BY <1>5, <2>1, <2>2 DEF StopInternal
<1>6. CASE RewireBegin(t) \/ RewireEnd(t)
  BY <1>0, <1>1, <1>2, <1>6 DEF RewireBegin, RewireEnd, At, Entitled, flagVars
<1>7. CASE RewirePause(t)
  BY <1>0, <1>1, <1>7 DEF RewirePause, Call, SpeedTypes, At, Entitled, flagVars
<1> QED
  BY <1>3, <1>4, <1>5, <1>6, <1>7

\* Who waits in lock_run has set SPEED_FLAG_IGNORE_CHANGE, and is asleep only
\* while somebody will find it set.
Woken ==
    /\ \A s \in Stoppers : at[s] = "wait" => ignore
    /\ asleep_done # {} => changing

\* Where one stream stops, every step keeps Woken.
LEMMA NextWoken ==
    ASSUME OneStopper, Shape, Woken, [SpeedNext]_allVars
    PROVE  Woken'
<1> USE DEF Woken
<1>0. /\ \A s \in asleep_done : s \in Stoppers /\ at[s] = "wait"
      /\ changing \in BOOLEAN /\ ignore \in BOOLEAN
      /\ Stoppers \subseteq Threads
  BY Constants DEF Shape, Waiting, SpeedTypes
<1>1. CASE UNCHANGED speedVars
  BY <1>1 DEF speedVars, flagVars, callVars
<1>2. ASSUME NEW t \in Threads, Others(t), at'[t] = "wait" => ignore', ignore' = ignore,
             asleep_done' # {} => changing'
      PROVE  Woken'
  BY <1>0, <1>2 DEF Others
<1>3. ASSUME NEW t \in Threads, GoOn(t) \/ Ask(t) PROVE Others(t)
  BY <1>3, CallsOfOthers
<1>4. ASSUME NEW t \in Threads, SetSpeedInternal(t)
      PROVE  Woken'
  <2>1. at'[t] # "wait" /\ UNCHANGED flagVars
    BY <1>4, InsideTurn DEF Inside, Outer
  <2> QED
    BY <1>2, <1>3, <1>4, <2>1 DEF GoOn, flagVars
<1>5. ASSUME NEW t \in Threads, SetSpeed(t) \/ NbcSetSpeed(t) \/ NbcLive(t) \/ NbcAgain(t)
      PROVE  Woken'
  <2>1. at'[t] # "wait" /\ ignore' = ignore /\ asleep_done' = asleep_done /\ (changing => changing')
    BY <1>5, FineTurn DEF flagVars, Returns
  <2> QED
    BY <1>2, <1>3, <1>5, <2>1 DEF GoOn, Ask
<1>6. ASSUME NEW t \in Threads, Changed(t)
      PROVE  Woken'
  <2>1. at'[t] # "wait" /\ ignore' = ignore
    BY <1>6, ChangedTurn DEF Returns
  <2>2. asleep_done' # {} => changing'
    BY <1>0, <1>6, ChangedTurn DEF TellDone
  <2> QED
    BY <1>2, <1>3, <1>6, <2>1, <2>2 DEF GoOn
<1>7. ASSUME NEW t \in Threads, NEW wait \in BOOLEAN, LockRun(t, wait)
      PROVE  Woken'
  BY <1>7, LockRunTurn, <1>0
<1>8. ASSUME NEW t \in Threads,
           \/ EnterStop(t) \/ LeaveStop(t) \/ UnlockRun(t) \/ LockRunWake(t)
           \/ StopInternal(t) \/ RewireBegin(t) \/ RewirePause(t) \/ RewireEnd(t)
      PROVE  Woken'
  <2>1. CASE at[t] = "unlock" /\ at'[t] = "idle" /\ ignore' = FALSE /\ UNCHANGED <<asleep_done, wish>>
    <3>1. t \in Stoppers
      BY <2>1 DEF Shape, Calls, Entitled
    <3>2. \A s \in Stoppers : at'[s] # "wait"
      BY <3>1, <2>1 DEF OneStopper
    <3> QED
      BY <1>8, <2>1, <3>2, <1>0, OuterTurn
  <2>2. CASE ~ (at[t] = "unlock" /\ at'[t] = "idle" /\ ignore' = FALSE /\ UNCHANGED <<asleep_done, wish>>)
    <3>1. ignore' = ignore /\ (at'[t] = "wait" => at[t] = "wait") /\ changing' = changing
          /\ (asleep_done' = asleep_done \/ changing)
      BY <1>8, <2>2, OuterTurn
    <3>2. at[t] = "wait" => t \in Stoppers
      BY DEF Shape, Calls, Entitled
    <3> QED
      BY <1>2, <1>3, <1>8, <3>1, <3>2 DEF GoOn, Ask
  <2> QED
    BY <2>1, <2>2
<1> QED
  BY <1>1, <1>4, <1>5, <1>6, <1>7, <1>8 DEF SpeedNext, GoOn, Ask, Decode, SpeedWake, allVars

\* Where one stream stops, its wait in lock_run is under SPEED_FLAG_IGNORE_CHANGE
\* and with a change that is still under way.
THEOREM WokenHolds ==
    ASSUME OneStopper
    PROVE  SpeedSpec => []Woken
<1>1. SpeedInit => Woken
  BY Constants DEF SpeedInit, Woken
<1>2. Shape /\ Woken /\ [SpeedNext]_allVars => Woken'
  BY NextWoken
<1> QED
  BY <1>1, <1>2, ShapeHolds, PTL DEF SpeedSpec

\* Where one stream at a time stops, whoever sleeps in lock_run has a change
\* under way that will tell its end; with two, unlock_run of one takes the
\* wake-up of the other away.
THEOREM LockRunWokenHolds ==
    ASSUME OneStopper
    PROVE  SpeedSpec => []LockRunWoken
<1>1. Woken => LockRunWoken
  BY DEF Woken, LockRunWoken
<1> QED
  BY <1>1, WokenHolds, PTL

-----------------------------------------------------------------------------
(* Where streams do not rewire and do not end by themselves, and one at a time *)
(* stops, the speed changes exclude each other.                                *)

OneByOne == OneStopper /\ Rewirers = {} /\ ~ Gapless

\* t is between lock_run and unlock_run, and no longer waits.
Locked(t) ==
    \/ at[t] \in {"enter", "stop", "stopped", "unlock"}
    \/ at[t] \in Inside /\ ~ Changer(t)

LockedAlone == \A t \in Threads : Locked(t) => ignore /\ ~ changing

\* Only what locks the run is locked.
LEMMA LockedStops ==
    ASSUME OneByOne, Shape, NEW t \in Threads, Locked(t)
    PROVE  t \in Stoppers
<1>0. Stack(t) /\ Entitled(t, at[t]) /\ at[t] \in Steps
  BY FlagsOf
<1>1. CASE at[t] \in {"enter", "stop", "stopped", "unlock"}
  BY <1>0, <1>1 DEF Entitled
<1>2. CASE at[t] \in Inside /\ ~ Changer(t)
  <2>1. at[t] # "changed"
    BY <1>2 DEF Inside
  <2>2. \A r \in Returns : back[t] # <<"changed", r>>
    BY <1>2, Constants, Lists DEF Changer
  <2>3. PICK r \in Outer : back[t] = <<r>> /\ Entitled(t, r)
    BY <1>0, <1>2, <2>1, <2>2 DEF Stack
  <2> QED
    BY <2>3 DEF Outer, Entitled, OneByOne
<1> QED
  BY <1>1, <1>2 DEF Locked

\* Two threads never change the speed at once, nor while one has locked the run.
LEMMA Exclusive ==
    ASSUME OneByOne, Shape, LockedAlone, NEW t \in Threads, NEW u \in Threads,
           at[t] \in Inside \cup {"changed"} \/ Locked(t),
           at[u] \in Inside \cup {"changed"} \/ Locked(u)
    PROVE  t = u
<1>1. Changer(t) \/ Locked(t)
  BY DEF Changer, Locked
<1>2. Changer(u) \/ Locked(u)
  BY DEF Changer, Locked
<1>3. Changer(t) /\ Changer(u) => t = u
  BY DEF Shape, OneOwner
<1>4. Locked(t) /\ Locked(u) => t = u
  BY LockedStops DEF OneByOne, OneStopper
<1>5. ~ (Changer(t) /\ Locked(u)) /\ ~ (Changer(u) /\ Locked(t))
  BY DEF Shape, OneOwner, LockedAlone
<1> QED
  BY <1>1, <1>2, <1>3, <1>4, <1>5

\* Others are locked after a step of t just as before.
LEMMA LockedOthers ==
    ASSUME NEW t \in Threads, Others(t), NEW u \in Threads \ {t}
    PROVE  Locked(u)' <=> Locked(u)
  BY DEF Others, Locked

\* Where changes come one by one, every step keeps LockedAlone.
LEMMA NextLocked ==
    ASSUME OneByOne, Shape, Woken, LockedAlone, [SpeedNext]_allVars
    PROVE  LockedAlone'
<1>0. changing \in BOOLEAN /\ ignore \in BOOLEAN
  BY DEF Shape, SpeedTypes
<1>1. CASE UNCHANGED speedVars
  BY <1>1 DEF speedVars, flagVars, callVars, LockedAlone, Locked, Changer
<1>2. ASSUME NEW t \in Threads, GoOn(t) \/ Ask(t) \/ Decode(t),
             Locked(t)' => ignore' /\ ~ changing',
             ignore => ignore', ~ ignore \/ changing' = changing \/ ~ changing'
      PROVE  LockedAlone'
  <2> SUFFICES ASSUME NEW u \in Threads, Locked(u)' PROVE ignore' /\ ~ changing'
    BY DEF LockedAlone
  <2>1. CASE u = t
    BY <2>1, <1>2
  <2>2. CASE u # t
    <3>1. Locked(u)
      BY <2>2, <1>2, CallsOfOthers, LockedOthers
    <3> QED
      BY <3>1, <1>0, <1>2 DEF LockedAlone
  <2> QED
    BY <2>1, <2>2
<1>4. ASSUME NEW t \in Threads, SetSpeedInternal(t)
      PROVE  LockedAlone'
  <2>1. UNCHANGED flagVars /\ at[t] \in Inside /\ (Changer(t)' <=> Changer(t))
        /\ (at'[t] \in Inside \/ at'[t] = "changed" \/ (at'[t] \in Outer /\ ~ Changer(t)))
    BY <1>4, InsideTurn
  <2>2. Locked(t)' => Locked(t)
    BY <2>1 DEF Locked, Inside
  <2> QED
    BY <1>2, <1>4, <2>1, <2>2 DEF GoOn, flagVars, LockedAlone
<1>5. ASSUME NEW t \in Threads, SetSpeed(t) \/ NbcSetSpeed(t) \/ NbcLive(t) \/ NbcAgain(t)
      PROVE  LockedAlone'
  <2>1. ~ Locked(t)' /\ ignore' = ignore /\ (~ ignore \/ changing' = changing)
    BY <1>5, FineTurn DEF flagVars, Returns, Locked, Inside
  <2> QED
    BY <1>2, <1>5, <2>1 DEF GoOn, Ask
<1>6. ASSUME NEW t \in Threads, Changed(t)
      PROVE  LockedAlone'
  <2>1. ~ Locked(t)' /\ ignore' = ignore /\ (changing' = changing \/ ~ changing')
    BY <1>6, ChangedTurn DEF Returns, Locked, Inside
  <2> QED
    BY <1>2, <1>6, <2>1 DEF GoOn
<1>7. ASSUME NEW t \in Threads, NEW wait \in BOOLEAN, LockRun(t, wait)
      PROVE  LockedAlone'
  <2>1. /\ ignore' = TRUE /\ changing' = changing
        /\ \/ changing /\ at'[t] = "wait"
           \/ ~ changing
    BY <1>7, LockRunTurn DEF OneByOne
  <2>2. Locked(t)' => ~ changing
    BY <2>1 DEF Locked, Inside
  <2> QED
    BY <1>2, <1>7, <2>1, <2>2 DEF Ask
<1>8. ASSUME NEW t \in Threads,
           \/ EnterStop(t) \/ LeaveStop(t) \/ UnlockRun(t) \/ LockRunWake(t)
           \/ StopInternal(t) \/ RewireBegin(t) \/ RewirePause(t) \/ RewireEnd(t)
      PROVE  LockedAlone'
  <2>0. (GoOn(t) \/ Ask(t)) /\ changing' = changing /\ t \notin Rewirers
    BY <1>8, OuterTurn DEF GoOn, Ask, OneByOne
  <2>1. CASE at[t] = "unlock" /\ at'[t] = "idle"
    <3>1. ASSUME NEW u \in Threads, Locked(u)' PROVE FALSE
      <4>1. u # t
        BY <2>1, <3>1 DEF Locked, Inside
      <4>2. Locked(u) /\ Locked(t)
        BY <2>0, <2>1, <3>1, <4>1, CallsOfOthers, LockedOthers DEF Locked
      <4> QED
        BY <4>1, <4>2, Exclusive
    <3> QED
      BY <3>1 DEF LockedAlone
  <2>2. CASE ~ (at[t] = "unlock" /\ at'[t] = "idle")
    <3>1. /\ ignore' = ignore
          /\ \/ at[t] = "wait" /\ at'[t] = "wait"
             \/ at[t] = "wait" /\ ~ changing
             \/ Locked(t)
      BY <1>8, <2>0, <2>2, OuterTurn DEF Locked
    <3>2. at[t] = "wait" => ignore
      BY DEF Woken, Shape, Calls, Entitled
    <3>3. Locked(t)' => ignore' /\ ~ changing'
      BY <2>0, <3>1, <3>2 DEF LockedAlone, Locked, Inside
    <3> QED
      BY <1>2, <2>0, <3>1, <3>3
  <2> QED
    BY <2>1, <2>2
<1> QED
  BY <1>1, <1>4, <1>5, <1>6, <1>7, <1>8 DEF SpeedNext, GoOn, Ask, Decode, SpeedWake, allVars

-----------------------------------------------------------------------------
(* The clock, the audio device and the decoders.                             *)

\* A step within set_speed_internal, or out of it.
LEMMA GotoTurn ==
    ASSUME Shape, NEW t \in Threads, at[t] \in Inside, NEW step, Goto(t, step)
    PROVE  /\ step \in Inside => at'[t] = step /\ doing'[t] = doing[t]
           /\ step = "done" => at'[t] \in Outer \cup {"changed"}
<1>1. SpeedTypes /\ Stack(t) /\ Entitled(t, at[t])
  BY DEF Shape, Calls
<1> QED
  BY <1>1, GotoInside, GotoDone

\* Outside of set_speed_internal nothing changes the clock, the audio device
\* or the pause.
LEMMA Outside ==
    ASSUME Shape, NEW t \in Threads, GoOn(t) \/ Ask(t) \/ Decode(t), ~ SetSpeedInternal(t)
    PROVE  /\ UNCHANGED <<clockVars, pause_revoked>>
           /\ \/ UNCHANGED callVars
              \/ at[t] \notin Inside /\ at'[t] \notin Inside \ {"decide"}
<1>1. CASE SetSpeed(t) \/ NbcSetSpeed(t) \/ NbcLive(t) \/ NbcAgain(t)
  BY <1>1, FineTurn DEF Returns, Inside, vars, statusVars
<1>2. CASE Changed(t)
  BY <1>2, ChangedTurn DEF Returns, Inside, vars, statusVars
<1>3. CASE \E wait \in BOOLEAN : LockRun(t, wait)
  BY <1>3, LockRunTurn DEF Inside, vars, statusVars
<1>4. CASE \/ EnterStop(t) \/ LeaveStop(t) \/ UnlockRun(t) \/ LockRunWake(t)
           \/ StopInternal(t) 
  <2>1. UNCHANGED clockVars /\ at[t] \notin Inside /\ at'[t] \notin Inside \ {"decide"}
    BY <1>4, OuterTurn DEF Inside, EnterStop, LeaveStop, UnlockRun, LockRunWake, StopInternal, At
  <2>2. UNCHANGED pause_revoked
    BY <1>4 DEF EnterStop, LeaveStop, UnlockRun, LockRunWake, StopInternal, Acquire, Release, vars, statusVars
  <2> QED
    BY <2>1, <2>2
<1>5. CASE RewireBegin(t) \/ RewirePause(t) \/ RewireEnd(t)
  <2>1. UNCHANGED <<clockVars, pause_revoked>>
    BY <1>5 DEF RewireBegin, RewirePause, RewireEnd, RevokeRewire, IssueRewire, vars, statusVars
  <2>2. at[t] \notin Inside /\ at'[t] \notin Inside \ {"decide"}
    BY <1>5 DEF RewireBegin, RewirePause, RewireEnd, At, Goto, Call, Inside, Shape, SpeedTypes
  <2> QED
    BY <2>1, <2>2
<1>6. CASE SpeedWake(t)
  BY <1>6 DEF SpeedWake, Wake, AcquireWake, RenewWake, RevokeWake, statusVars, speedVars
<1>7. CASE Decode(t)
  <2>1. UNCHANGED statusVars
    BY <1>7 DEF Decode, Acquire, Release, Renew
  <2> QED
    BY <1>7, <2>1 DEF Decode, statusVars, speedVars
<1> QED
  BY <1>1, <1>2, <1>3, <1>4, <1>5, <1>6, <1>7 DEF GoOn, Ask

\* Where the clock and the audio device differ.
AudioBehind ==
    /\ (\A t \in Threads : at[t] \notin {"clock off", "audio", "tell audio", "clock on"}) => audio = clock
    /\ \A t \in Threads : at[t] \in {"audio", "tell audio"} /\ doing[t] = 0 => clock = 0
    /\ \A t \in Threads : at[t] = "clock on" => audio = doing[t]

\* t has let the decoders go and is about to start the clock.
Starting(t) == at[t] \in {"audio", "tell audio", "clock on"} /\ doing[t] # 0

\* The decoders are held only while the clock stands or is about to.
HeldStanding ==
    /\ pause_revoked \in BOOLEAN
    /\ clock # 0 /\ pause_revoked => \E t \in Threads : at[t] = "clock off"
    /\ \A t \in Threads : at[t] = "live" => clock = 0
    /\ \A t \in Threads : Starting(t) => ~ pause_revoked

\* What they say of the one thread that changes the speed.
AudioBehindAt(t) ==
    /\ at[t] \notin {"clock off", "audio", "tell audio", "clock on"} => audio = clock
    /\ at[t] \in {"audio", "tell audio"} /\ doing[t] = 0 => clock = 0
    /\ at[t] = "clock on" => audio = doing[t]

HeldStandingAt(t) ==
    /\ pause_revoked \in BOOLEAN
    /\ clock # 0 /\ pause_revoked => at[t] = "clock off"
    /\ at[t] = "live" => clock = 0
    /\ Starting(t) => ~ pause_revoked

\* What AudioBehind and HeldStanding say is what they say of the one inside.
LEMMA OnlyOne ==
    ASSUME NEW t \in Threads, \A u \in Threads \ {t} : at[u] \notin Inside
    PROVE  (AudioBehind <=> AudioBehindAt(t)) /\ (HeldStanding <=> HeldStandingAt(t))
  BY DEF AudioBehind, AudioBehindAt, HeldStanding, HeldStandingAt, Starting, Inside

\* The same after a step.
LEMMA OnlyOneNext ==
    ASSUME NEW t \in Threads, \A u \in Threads \ {t} : at'[u] \notin Inside
    PROVE  (AudioBehind' <=> AudioBehindAt(t)') /\ (HeldStanding' <=> HeldStandingAt(t)')
  BY DEF AudioBehind, AudioBehindAt, HeldStanding, HeldStandingAt, Starting, Inside

\* The steps of set_speed_internal.
LEMMA InsideStanding ==
    ASSUME Shape, NEW t \in Threads, SetSpeedInternal(t), AudioBehindAt(t), HeldStandingAt(t)
    PROVE  AudioBehindAt(t)' /\ HeldStandingAt(t)'
<1> USE DEF AudioBehindAt, HeldStandingAt, Starting
<1>0. Argument(t) /\ 0 \notin Live /\ at[t] \in Inside /\ Outer \cap Inside = {} /\ "changed" \notin Inside \cup Outer
  BY FlagsOf, Constants, InsideTurn DEF Inside, Outer
<1>a. ASSUME NEW step, Goto(t, step)
      PROVE  /\ step \in Inside => at'[t] = step /\ doing'[t] = doing[t]
             /\ step = "done" => at'[t] \notin Inside
  BY <1>0, <1>a, GotoTurn
<1>1. CASE Decide(t)
  <2>1. UNCHANGED <<clock, audio, pause_revoked>> /\ at[t] = "decide"
    BY <1>1 DEF Decide, clockVars, vars, statusVars, At
  <2>2. CASE clock = 0
    <3>1. Goto(t, FirstStepPaused(doing[t]))
      BY <1>1, <2>2 DEF Decide
    <3>2. at'[t] \notin Inside \/ (at'[t] \in {"live", "unpause"} /\ doing'[t] = doing[t])
      BY <1>a, <3>1 DEF FirstStepPaused, Inside
    <3> QED
      BY <2>1, <2>2, <3>2 DEF Inside
  <2>3. CASE clock # 0
    <3>1. Goto(t, FirstStep(doing[t]))
      BY <1>1, <2>3 DEF Decide
    <3>2. \/ at'[t] \notin Inside 
          \/ at'[t] = "pause" /\ doing'[t] = doing[t]
          \/ at'[t] = "audio" /\ doing'[t] = doing[t] /\ doing[t] # 0
      BY <1>a, <3>1 DEF FirstStep, Inside
    <3> QED
      BY <2>1, <2>3, <3>2 DEF Inside
  <2> QED
    BY <2>2, <2>3
<1>2. CASE SwitchLive(t)
  <2>1. UNCHANGED <<clock, audio>> /\ at[t] = "live" /\ at'[t] \notin Inside
    BY <1>2, <1>a DEF SwitchLive, At, clockVars
  <2>2. pause_revoked' \in BOOLEAN
    BY <1>2 DEF SwitchLive, LetGoOn, Hold, IssuePause, RevokePause, vars, statusVars
  <2> QED
    BY <2>1, <2>2 DEF Inside
<1>3. CASE Unpause(t)
  <2>1. UNCHANGED <<clock, audio>> /\ at[t] = "unpause" /\ at'[t] = "audio" /\ doing'[t] = doing[t] /\ doing[t] # 0
    BY <1>3, <1>a, <1>0 DEF Unpause, At, clockVars, Inside, Argument
  <2>2. pause_revoked' = FALSE
    BY <1>3 DEF Unpause, LetGoOn, IssuePause, vars, statusVars
  <2> QED
    BY <2>1, <2>2
<1>4. CASE PauseDecoders(t)
  <2>1. UNCHANGED <<clock, audio>> /\ at'[t] = "clock off"
    BY <1>4, <1>a DEF PauseDecoders, At, clockVars, Inside
  <2>2. pause_revoked' \in BOOLEAN
    BY <1>4 DEF PauseDecoders, Hold, RevokePause, vars, statusVars
  <2> QED
    BY <2>1, <2>2
<1>5. CASE StopClock(t)
  <2>1. clock' = 0 /\ pause_revoked' = pause_revoked /\ at'[t] = "audio" /\ doing'[t] = 0
    BY <1>5, <1>a, <1>0 DEF StopClock, At, Inside, Argument, vars, statusVars
  <2> QED
    BY <2>1
<1>6. CASE EnterAudio(t)
  <2>1. UNCHANGED <<clock, audio>> /\ at[t] = "audio" /\ at'[t] = "tell audio" /\ doing'[t] = doing[t]
    BY <1>6, <1>a DEF EnterAudio, At, clockVars, Inside
  <2>2. pause_revoked' = pause_revoked
    BY <1>6 DEF EnterAudio, Acquire, statusVars
  <2> QED
    BY <2>1, <2>2
<1>7. CASE TellAudio(t)
  <2>1. clock' = clock /\ audio' = doing[t] /\ at[t] = "tell audio"
        /\ (doing[t] = 0 => at'[t] \notin Inside)
        /\ (doing[t] # 0 => at'[t] = "clock on" /\ doing'[t] = doing[t])
    BY <1>7, <1>a DEF TellAudio, At, Inside
  <2>2. pause_revoked' = pause_revoked
    BY <1>7 DEF TellAudio, Release, statusVars
  <2> QED
    BY <2>1, <2>2 DEF Inside
<1>8. CASE StartClock(t)
  <2>1. clock' = doing[t] /\ audio' = audio /\ pause_revoked' = pause_revoked /\ at[t] = "clock on" /\ at'[t] \notin Inside
        /\ doing[t] # 0
    BY <1>8, <1>a, <1>0 DEF StartClock, At, vars, statusVars, Argument
  <2> QED
    BY <2>1 DEF Inside
<1> QED
  BY <1>1, <1>2, <1>3, <1>4, <1>5, <1>6, <1>7, <1>8 DEF SetSpeedInternal

\* Every step keeps AudioBehind and HeldStanding.
LEMMA NextStanding ==
    ASSUME OneByOne, Shape, LockedAlone, AudioBehind, HeldStanding, [SpeedNext]_allVars
    PROVE  AudioBehind' /\ HeldStanding'
<1>1. CASE UNCHANGED allVars
  BY <1>1 DEF allVars, speedVars, callVars, clockVars, vars, statusVars, AudioBehind, HeldStanding, Starting
<1>2. ASSUME NEW t \in Threads, SetSpeedInternal(t)
      PROVE  AudioBehind' /\ HeldStanding'
  <2>1. at[t] \in Inside
    BY <1>2, InsideTurn
  <2>2. \A u \in Threads \ {t} : at[u] \notin Inside
    BY <2>1, Exclusive
  <2>3. \A u \in Threads \ {t} : at'[u] \notin Inside
    BY <2>2, <1>2, CallsOfOthers DEF Others, GoOn
  <2>4. AudioBehindAt(t) /\ HeldStandingAt(t)
    BY <2>2, OnlyOne
  <2>5. AudioBehindAt(t)' /\ HeldStandingAt(t)'
    BY <2>4, <1>2, InsideStanding
  <2> QED
    BY <2>3, <2>5, OnlyOneNext
<1>3. ASSUME NEW t \in Threads, GoOn(t) \/ Ask(t) \/ Decode(t), ~ SetSpeedInternal(t)
      PROVE  AudioBehind' /\ HeldStanding'
  <2>1. UNCHANGED <<clock, audio, pause_revoked>>
    BY <1>3, Outside DEF clockVars
  <2>2. CASE UNCHANGED callVars
    BY <2>1, <2>2 DEF callVars, AudioBehind, HeldStanding, Starting
  <2>3. CASE at[t] \notin Inside /\ at'[t] \notin Inside \ {"decide"}
    <3>1. \A u \in Threads : \/ at'[u] = at[u] /\ doing'[u] = doing[u]
                             \/ at[u] \notin Inside /\ at'[u] \notin Inside \ {"decide"}
      BY <1>3, <2>3, CallsOfOthers DEF Others
    <3>2. \A u \in Threads : \A step \in Inside \ {"decide"} :
            at'[u] = step <=> at[u] = step
      BY <3>1
    <3>3. \A u \in Threads : at'[u] \in Inside \ {"decide"} => doing'[u] = doing[u]
      BY <3>1
    <3> QED
      BY <2>1, <3>2, <3>3 DEF AudioBehind, HeldStanding, Starting, Inside
  <2> QED
    BY <1>3, <2>2, <2>3, Outside
<1> QED
  BY <1>1, <1>2, <1>3 DEF SpeedNext, GoOn

-----------------------------------------------------------------------------
(* The wishes.                                                               *)

\* Nobody is inside set_speed_internal with a speed to set.
NoneSets == \A t \in Threads : at[t] \in Inside => doing[t] \in Live

\* The last wish is still kept, or being applied, or the speed is as it says;
\* while a stream stops it is the normal speed.
WishKept ==
    /\ wish \in [speed : Wishes \ Live, held : BOOLEAN]
    /\ want_new # None => wish.speed = want_new
    /\ want_new = None =>
        /\ \A t \in Threads : at[t] \in Inside /\ doing[t] \notin Live => wish.speed = doing[t]
        /\ NoneSets => wish.speed = clock
    /\ \A t \in Threads : at[t] = "wait" \/ Locked(t) => wish.speed = Normal

\* What it says where t is the only one that may be inside.
WishKeptAt(t) ==
    /\ want_new # None => wish.speed = want_new
    /\ want_new = None => wish.speed = IF at[t] \in Inside /\ doing[t] \notin Live THEN doing[t] ELSE clock

\* What WishKept says of the one inside.
LEMMA OnlyOneWish ==
    ASSUME WishKept, NEW t \in Threads, \A u \in Threads \ {t} : at[u] \notin Inside
    PROVE  WishKeptAt(t)
  BY DEF WishKept, WishKeptAt, NoneSets

\* WishKept after a step, from what it says of the one inside.
LEMMA OnlyOneWishNext ==
    ASSUME NEW t \in Threads, \A u \in Threads \ {t} : at'[u] \notin Inside, WishKeptAt(t)',
           wish' \in [speed : Wishes \ Live, held : BOOLEAN],
           \A u \in Threads : at'[u] = "wait" \/ Locked(u)' => wish'.speed = Normal
    PROVE  WishKept'
  BY DEF WishKept, WishKeptAt, NoneSets

\* The speed that a wish makes: its own, or that before it when it is a LIVE_PAUSE.
LEMMA WishedIs ==
    ASSUME wish \in [speed : Wishes \ Live, held : BOOLEAN], NEW speed \in Wishes
    PROVE  /\ Wished(speed) \in [speed : Wishes \ Live, held : BOOLEAN]
           /\ Wished(speed).speed = IF speed \in Live THEN wish.speed ELSE speed
<1>1. wish.speed \in Wishes \ Live /\ wish.held \in BOOLEAN
  OBVIOUS
<1>2. CASE speed \in Live /\ wish.speed = 0
  <2>1. Wished(speed) = [wish EXCEPT !.held = (speed = LiveOff)]
    BY <1>2 DEF Wished
  <2> QED
    BY <2>1, <1>2
<1>3. CASE speed \in Live /\ wish.speed # 0
  BY <1>3 DEF Wished
<1>4. CASE speed \notin Live
  <2>1. Wished(speed) = [speed |-> speed, held |-> speed = 0 /\ (wish.speed = 0 => wish.held)]
    BY <1>4 DEF Wished
  <2> QED
    BY <2>1, <1>4
<1> QED
  BY <1>2, <1>3, <1>4

\* What the engine is at when set_speed_internal returns.
LEMMA DoneSets ==
    ASSUME Shape, NEW t \in Threads, SetSpeedInternal(t), AudioBehindAt(t)
    PROVE  /\ doing[t] \in Live => clock' = clock
           /\ at'[t] \notin Inside /\ doing[t] \notin Live => clock' = doing[t]
<1>0. Argument(t) /\ 0 \notin Live /\ at[t] \in Inside /\ Live \subseteq Wishes
  BY FlagsOf, Constants, InsideTurn
<1>a. ASSUME NEW step \in Inside, Goto(t, step)
      PROVE  at'[t] \in Inside
  BY <1>0, <1>a, GotoTurn
<1>1. CASE Decide(t)
  BY <1>1, <1>a DEF Decide, FirstStep, FirstStepPaused, Inside, clockVars
<1>2. CASE SwitchLive(t)
  BY <1>2, <1>0 DEF SwitchLive, Argument, At, clockVars
<1>3. CASE Unpause(t) \/ PauseDecoders(t) \/ EnterAudio(t)
  BY <1>3, <1>a DEF Unpause, PauseDecoders, EnterAudio, Inside, clockVars
<1>4. CASE StopClock(t)
  BY <1>0, <1>4, <1>a DEF StopClock, Inside, Argument, At
<1>5. CASE TellAudio(t)
  BY <1>5, <1>a DEF TellAudio, Inside, AudioBehindAt, At
<1>6. CASE StartClock(t)
  BY <1>0, <1>6 DEF StartClock, Argument, At
<1> QED
  BY <1>1, <1>2, <1>3, <1>4, <1>5, <1>6 DEF SetSpeedInternal

\* Every step keeps WishKept.
LEMMA NextWish ==
    ASSUME OneByOne, Shape, Woken, LockedAlone, AudioBehind, HeldStanding, WishKept, [SpeedNext]_allVars
    PROVE  WishKept'
<1>0. /\ changing \in BOOLEAN /\ ignore \in BOOLEAN /\ None \notin Wishes
      /\ wish \in [speed : Wishes \ Live, held : BOOLEAN]
  BY SpeedAssumption DEF Shape, SpeedTypes, WishKept, Wishes, Live
<1>w. \A t \in Threads : at[t] = "wait" \/ Locked(t) => ignore /\ wish.speed = Normal
  BY DEF Woken, LockedAlone, WishKept, Shape, Calls, Entitled
<1>1. CASE UNCHANGED speedVars
  BY <1>1 DEF speedVars, flagVars, callVars, clockVars, WishKept, NoneSets, Locked, Changer
<1>o. ASSUME NEW t \in Threads, GoOn(t) \/ Ask(t) \/ Decode(t),
             at'[t] = "wait" \/ Locked(t)' => wish'.speed = Normal,
             ignore => wish'.speed \in {wish.speed, Normal}
      PROVE  \A u \in Threads : at'[u] = "wait" \/ Locked(u)' => wish'.speed = Normal
  <2> SUFFICES ASSUME NEW u \in Threads, u # t, at'[u] = "wait" \/ Locked(u)' PROVE wish'.speed = Normal
    BY <1>o
  <2>1. at[u] = "wait" \/ Locked(u)
    BY <1>o, CallsOfOthers, LockedOthers DEF Others
  <2> QED
    BY <2>1, <1>w, <1>o
\* Those that neither were nor come inside.
<1>p. ASSUME NEW t \in Threads, GoOn(t) \/ Ask(t) \/ Decode(t), at[t] \notin Inside, at'[t] \notin Inside,
             UNCHANGED clock, wish' \in [speed : Wishes \ Live, held : BOOLEAN],
             \/ UNCHANGED want_new /\ wish'.speed = wish.speed
             \/ want_new' # None /\ wish'.speed = want_new',
             \A u \in Threads : at'[u] = "wait" \/ Locked(u)' => wish'.speed = Normal
      PROVE  WishKept'
  <2>1. \A u \in Threads : /\ at'[u] \in Inside <=> at[u] \in Inside
                           /\ at[u] \in Inside => doing'[u] = doing[u]
    BY <1>p, CallsOfOthers DEF Others
  <2> QED
    BY <1>p, <2>1 DEF WishKept, NoneSets
\* Those that are or come inside as the only ones.
<1>q. ASSUME NEW t \in Threads, GoOn(t) \/ Ask(t) \/ Decode(t),
             at[t] \in Inside \cup {"changed"} \/ Locked(t) \/ (~ changing /\ ~ ignore) \/ (~ changing /\ t \in Stoppers)
      PROVE  /\ \A u \in Threads \ {t} : at[u] \notin Inside /\ at'[u] \notin Inside
             /\ WishKeptAt(t)
  <2>1. ASSUME NEW u \in Threads \ {t}, at[u] \in Inside PROVE FALSE
    <3>1. CASE at[t] \in Inside \cup {"changed"} \/ Locked(t)
      BY <2>1, <3>1, Exclusive
    <3>2. CASE ~ changing
      <4>1. ~ Changer(u)
        BY <3>2 DEF Shape, OneOwner
      <4>2. Locked(u) /\ u \in Stoppers /\ ignore
        BY <2>1, <4>1, LockedStops DEF Locked, LockedAlone
      <4> QED
        BY <1>q, <3>1, <4>2 DEF OneByOne, OneStopper
    <3> QED
      BY <1>q, <3>1, <3>2
  <2>2. \A u \in Threads \ {t} : at[u] \notin Inside /\ at'[u] \notin Inside
    BY <2>1, <1>q, CallsOfOthers DEF Others
  <2> QED
    BY <2>2, OnlyOneWish
<1>4. ASSUME NEW t \in Threads, SetSpeedInternal(t)
      PROVE  WishKept'
  <2>1. /\ UNCHANGED flagVars /\ wish' = wish /\ at[t] \in Inside
        /\ \/ at'[t] \in Inside /\ doing'[t] = doing[t]
           \/ at'[t] \notin Inside
        /\ Locked(t)' => Locked(t)
        /\ at'[t] # "wait"
    BY <1>4, InsideTurn DEF Locked, Inside, Outer
  <2>2. GoOn(t)
    BY <1>4 DEF GoOn
  <2>3. /\ \A u \in Threads \ {t} : at[u] \notin Inside /\ at'[u] \notin Inside
        /\ WishKeptAt(t)
    BY <1>q, <2>1, <2>2
  <2>4. AudioBehindAt(t)
    BY <2>3, OnlyOne
  <2>5. WishKeptAt(t)'
    BY <1>4, <2>1, <2>3, <2>4, DoneSets DEF WishKeptAt, flagVars
  <2>6. \A u \in Threads : at'[u] = "wait" \/ Locked(u)' => wish'.speed = Normal
    BY <1>o, <1>w, <2>1, <2>2
  <2> QED
    BY <1>0, <2>1, <2>3, <2>5, <2>6, OnlyOneWishNext
<1>5. ASSUME NEW t \in Threads, SetSpeed(t) \/ NbcSetSpeed(t) \/ NbcLive(t) \/ NbcAgain(t)
      PROVE  WishKept'
  <2>0. (GoOn(t) \/ Ask(t)) /\ at[t] \notin Inside /\ at[t] # "changed" /\ UNCHANGED <<clock, ignore>>
    BY <1>5, FineTurn DEF GoOn, Ask, Returns, Inside, clockVars
  <2>1. CASE at'[t] \in Returns /\ UNCHANGED <<flagVars, wish>>
    <3>1. at'[t] \notin Inside /\ at'[t] # "wait" /\ ~ Locked(t)'
      BY <2>1 DEF Returns, Inside, Locked
    <3> QED
      BY <1>0, <1>o, <1>p, <2>0, <2>1, <3>1 DEF flagVars
  <2>2. ASSUME NEW speed \in Wishes, ~ ignore, wish' = Wished(speed), at'[t] \in Returns, Remember(speed)
        PROVE  WishKept'
    <3>1. at'[t] \notin Inside /\ at'[t] # "wait" /\ ~ Locked(t)'
      BY <2>2 DEF Returns, Inside, Locked
    <3>2. /\ wish' \in [speed : Wishes \ Live, held : BOOLEAN]
          /\ wish'.speed = IF speed \in Live THEN wish.speed ELSE speed
      BY <1>0, <2>2, WishedIs
    <3>3. \/ UNCHANGED want_new /\ wish'.speed = wish.speed
          \/ want_new' # None /\ wish'.speed = want_new'
      BY <1>0, <2>2, <3>2 DEF Remember
    <3> QED
      BY <1>o, <1>p, <2>0, <2>2, <3>1, <3>2, <3>3
  <2>3. ASSUME NEW speed \in Wishes, ~ ignore, wish' = Wished(speed), ~ changing, UNCHANGED want_new,
               at'[t] = "decide", doing'[t] = speed, Changer(t)'
        PROVE  WishKept'
    <3>1. "decide" \in Inside /\ at'[t] # "wait" /\ ~ Locked(t)'
      BY <2>3 DEF Inside, Locked
    <3>2. /\ wish' \in [speed : Wishes \ Live, held : BOOLEAN]
          /\ wish'.speed = IF speed \in Live THEN wish.speed ELSE speed
      BY <1>0, <2>3, WishedIs
    <3>3. /\ \A u \in Threads \ {t} : at[u] \notin Inside /\ at'[u] \notin Inside
          /\ WishKeptAt(t)
      BY <1>q, <2>0, <2>3
    <3>4. want_new = None
      BY <2>3 DEF Shape, OneOwner
    <3>5. WishKeptAt(t)'
      BY <2>0, <2>3, <3>1, <3>2, <3>3, <3>4 DEF WishKeptAt
    <3> QED
      BY <1>o, <2>0, <2>3, <3>1, <3>2, <3>3, <3>5, OnlyOneWishNext
  <2> QED
    BY <1>5, <2>1, <2>2, <2>3, FineTurn
<1>6. ASSUME NEW t \in Threads, Changed(t)
      PROVE  WishKept'
  <2>0. GoOn(t) /\ UNCHANGED <<clock, ignore, wish>> /\ at[t] = "changed" /\ "decide" \in Inside /\ "changed" \notin Inside
    BY <1>6, ChangedTurn DEF GoOn, Inside, clockVars
  <2>1. /\ \A u \in Threads \ {t} : at[u] \notin Inside /\ at'[u] \notin Inside
        /\ WishKeptAt(t)
    BY <1>q, <2>0
  <2>2. ~ Locked(t)' /\ at'[t] # "wait"
    BY <1>6, ChangedTurn DEF Returns, Inside, Locked
  <2>3. \A u \in Threads : at'[u] = "wait" \/ Locked(u)' => wish'.speed = Normal
    BY <1>o, <2>0, <2>2
  <2>4. want_live \in Live \cup {None} /\ want_new \in (Wishes \ Live) \cup {None}
    BY DEF Shape, SpeedTypes
  <2>5. WishKeptAt(t)'
    BY <1>6, <2>0, <2>1, <2>4, ChangedTurn DEF WishKeptAt, Returns, Inside
  <2> QED
    BY <1>0, <2>0, <2>1, <2>3, <2>5, OnlyOneWishNext
<1>7. ASSUME NEW t \in Threads, NEW wait \in BOOLEAN, LockRun(t, wait)
      PROVE  WishKept'
  <2>0. /\ Ask(t) /\ at[t] = "idle" /\ "idle" \notin Inside /\ "decide" \in Inside
        /\ UNCHANGED clock /\ wish' = Wished(Normal) /\ t \in Stoppers
    BY <1>7, LockRunTurn DEF Ask, Inside, clockVars
  <2>1. wish' \in [speed : Wishes \ Live, held : BOOLEAN] /\ wish'.speed = Normal
    BY <1>0, <2>0, WishedIs, Constants
  <2>2. CASE changing
    <3>1. want_new' = Normal /\ at'[t] \notin Inside
      BY <1>7, <2>2, LockRunTurn DEF Inside
    <3> QED
      BY <1>0, <1>p, <2>0, <2>1, <3>1, Constants
  <2>3. CASE ~ changing
    <3>1. UNCHANGED want_new /\ at'[t] = "decide" /\ doing'[t] = Normal
      BY <1>7, <2>3, LockRunTurn
    <3>2. /\ \A u \in Threads \ {t} : at[u] \notin Inside /\ at'[u] \notin Inside
          /\ want_new = None
      BY <1>q, <2>0, <2>3 DEF Shape, OneOwner
    <3>3. WishKeptAt(t)'
      BY <2>0, <2>1, <3>1, <3>2, Constants DEF WishKeptAt
    <3> QED
      BY <2>1, <3>2, <3>3, OnlyOneWishNext
  <2> QED
    BY <2>2, <2>3
<1>8. ASSUME NEW t \in Threads,
           \/ EnterStop(t) \/ LeaveStop(t) \/ UnlockRun(t) \/ LockRunWake(t)
           \/ StopInternal(t) \/ RewireBegin(t) \/ RewirePause(t) \/ RewireEnd(t)
      PROVE  WishKept'
  <2>0. (GoOn(t) \/ Ask(t)) /\ UNCHANGED <<clock, changing, want_new>> /\ t \notin Rewirers
    BY <1>8, OuterTurn DEF GoOn, Ask, OneByOne, clockVars
  <2>1. CASE /\ at[t] = "stop" /\ wish' = Wished(Normal)
             /\ at'[t] = "decide" /\ doing'[t] = Normal
    <3>1. wish' \in [speed : Wishes \ Live, held : BOOLEAN] /\ wish'.speed = Normal
      BY <1>0, <2>1, WishedIs, Constants
    <3>2. Locked(t)
      BY <2>1 DEF Locked
    <3>3. /\ \A u \in Threads \ {t} : at[u] \notin Inside /\ at'[u] \notin Inside
          /\ want_new = None
      BY <1>q, <2>0, <3>2 DEF LockedAlone, Shape, OneOwner
    <3>4. "decide" \in Inside
      BY DEF Inside
    <3>5. WishKeptAt(t)'
      BY <2>0, <2>1, <3>1, <3>3, <3>4, Constants DEF WishKeptAt
    <3> QED
      BY <3>1, <3>3, <3>5, OnlyOneWishNext
  <2>2. CASE ~ (/\ at[t] = "stop" /\ wish' = Wished(Normal)
                /\ at'[t] = "decide" /\ doing'[t] = Normal)
    <3>1. /\ wish' = wish /\ at[t] \notin Inside /\ at'[t] \notin Inside
          /\ at'[t] = "wait" \/ Locked(t)' => at[t] = "wait" \/ Locked(t)
      BY <1>8, <2>0, <2>2, OuterTurn DEF Locked, Inside
    <3>2. \A u \in Threads : at'[u] = "wait" \/ Locked(u)' => wish'.speed = Normal
      BY <1>o, <1>w, <2>0, <3>1
    <3> QED
      BY <1>0, <1>p, <2>0, <3>1, <3>2
  <2> QED
    BY <2>1, <2>2
<1> QED
  BY <1>1, <1>4, <1>5, <1>6, <1>7, <1>8 DEF SpeedNext, GoOn, Ask, Decode, SpeedWake, allVars

SpeedInv == Shape /\ Woken /\ LockedAlone /\ AudioBehind /\ HeldStanding /\ WishKept

\* At first the engine runs at the normal speed.
LEMMA InitSpeed == SpeedInit => SpeedInv
<1> SUFFICES ASSUME SpeedInit PROVE SpeedInv
  OBVIOUS
<1>1. \A t \in Threads : at[t] = "idle"
  BY DEF SpeedInit
<1>2. Woken
  BY Constants DEF SpeedInit, Woken
<1>3. LockedAlone /\ AudioBehind
  BY <1>1 DEF SpeedInit, LockedAlone, Locked, Inside, AudioBehind
<1>4. HeldStanding
  BY <1>1 DEF SpeedInit, Init, HeldStanding, Starting
<1>5. WishKept
  BY <1>1, Constants DEF SpeedInit, WishKept, Locked, Inside
<1> QED
  BY <1>2, <1>3, <1>4, <1>5, InitShape DEF SpeedInv

\* Where changes come one by one (one stream stops, none ends by itself, nobody
\* rewires), the device, the decoders and the wishes follow the clock as SpeedInv says.
THEOREM SpeedInvHolds ==
    ASSUME OneByOne
    PROVE  SpeedSpec => []SpeedInv
<1>1. SpeedInv /\ [SpeedNext]_allVars => SpeedInv'
  BY NextShape, NextWoken, NextLocked, NextStanding, NextWish DEF SpeedInv, OneByOne
<1> QED
  BY <1>1, InitSpeed, PTL DEF SpeedSpec

\* Where nobody changes the speed the audio device follows the clock.
THEOREM AudioFollowsHolds ==
    ASSUME OneByOne
    PROVE  SpeedSpec => []AudioFollows
<1>1. SpeedInv => AudioFollows
  BY DEF SpeedInv, AudioBehind, AudioFollows, AtRest, InSetSpeed
<1> QED
  BY <1>1, SpeedInvHolds, PTL

\* From lock_run to unlock_run the engine runs at the normal speed, with its
\* decoders let go, whatever else was about to change the speed.
THEOREM RunLockedHolds ==
    ASSUME OneByOne
    PROVE  SpeedSpec => []RunLocked
<1>1. SpeedInv => RunLocked
  <2> SUFFICES ASSUME SpeedInv, NEW t \in Stoppers, at[t] \in {"enter", "stop", "stopped", "unlock"}
               PROVE  clock = Normal /\ ~ changing /\ ~ pause_revoked
    BY DEF RunLocked
  <2>0. t \in Threads /\ Locked(t) /\ at[t] \notin Inside
    BY Constants DEF Locked, Inside
  <2>1. ~ changing /\ wish.speed = Normal
    BY <2>0 DEF SpeedInv, LockedAlone, WishKept
  <2>2. want_new = None
    BY <2>1 DEF SpeedInv, Shape, OneOwner
  <2>3. \A u \in Threads : at[u] \notin Inside
    BY <2>0, Exclusive DEF SpeedInv
  <2>4. clock = Normal
    BY <2>1, <2>2, <2>3 DEF SpeedInv, WishKept, NoneSets
  <2>5. ~ pause_revoked
    BY <2>3, <2>4, Constants DEF SpeedInv, HeldStanding, Inside
  <2> QED
    BY <2>1, <2>4, <2>5
<1> QED
  BY <1>1, SpeedInvHolds, PTL

-----------------------------------------------------------------------------
(* The speed as wished, where nobody holds decoders of a standing clock.     *)

\* Without LIVE_PAUSE the decoders are held just while the clock stands.
Plainly ==
    /\ want_live = None
    /\ \A t \in Threads : at[t] \in Inside => doing[t] \notin Live
    /\ \A t \in Threads : at[t] = "clock off" => pause_revoked
    /\ clock = 0 /\ ~ pause_revoked => \E t \in Threads : Starting(t)
    /\ wish.held <=> wish.speed = 0

PlainlyAt(t) ==
    /\ at[t] = "clock off" => pause_revoked
    /\ clock = 0 /\ ~ pause_revoked => Starting(t)

\* The steps of set_speed_internal keep PlainlyAt.
LEMMA InsidePlainly ==
    ASSUME Shape, NEW t \in Threads, SetSpeedInternal(t), PlainlyAt(t), AudioBehindAt(t), doing[t] \notin Live
    PROVE  PlainlyAt(t)'
<1> USE DEF PlainlyAt, Starting
<1>0. Argument(t) /\ 0 \notin Live /\ at[t] \in Inside /\ Outer \cap Inside = {} /\ "changed" \notin Inside \cup Outer
  BY FlagsOf, Constants, InsideTurn DEF Inside, Outer
<1>a. ASSUME NEW step, Goto(t, step)
      PROVE  /\ step \in Inside => at'[t] = step /\ doing'[t] = doing[t]
             /\ step = "done" => at'[t] \notin Inside
  BY <1>0, <1>a, GotoTurn
<1>1. CASE Decide(t)
  <2>1. UNCHANGED <<clock, pause_revoked>> /\ at[t] = "decide" /\ at'[t] # "clock off"
    <3>1. UNCHANGED <<clock, pause_revoked>> /\ at[t] = "decide"
      BY <1>1 DEF Decide, clockVars, vars, statusVars, At
    <3>2. \E step \in {"done", "live", "unpause", "pause", "audio"} : Goto(t, step)
      BY <1>1 DEF Decide, FirstStep, FirstStepPaused
    <3>3. at'[t] # "clock off"
      BY <3>2, <1>a DEF Inside
    <3> QED
      BY <3>1, <3>3
  <2> QED
    BY <2>1
<1>2. CASE SwitchLive(t)
  BY <1>2, <1>0 DEF SwitchLive, Argument, At
<1>3. CASE Unpause(t)
  BY <1>3, <1>a, <1>0 DEF Unpause, At, clockVars, Inside, Argument
<1>4. CASE PauseDecoders(t)
  <2>1. pause_revoked'
    BY <1>4 DEF PauseDecoders, Hold, RevokePause, vars, statusVars
  <2> QED
    BY <2>1
<1>5. CASE StopClock(t)
  BY <1>5, <1>a DEF StopClock, At, Inside, vars, statusVars
<1>6. CASE EnterAudio(t)
  BY <1>6, <1>a DEF EnterAudio, At, clockVars, Inside, Acquire, statusVars
<1>7. CASE TellAudio(t)
  <2>1. clock' = clock /\ at[t] = "tell audio" /\ pause_revoked' = pause_revoked
        /\ (doing[t] = 0 => at'[t] \notin Inside)
        /\ (doing[t] # 0 => at'[t] = "clock on" /\ doing'[t] = doing[t])
    BY <1>7, <1>a DEF TellAudio, At, Inside, Release, statusVars
  <2> QED
    BY <2>1 DEF Inside
<1>8. CASE StartClock(t)
  <2>1. clock' = doing[t] /\ at'[t] \notin Inside /\ doing[t] # 0
    BY <1>8, <1>a, <1>0 DEF StartClock, At, Argument
  <2> QED
    BY <2>1 DEF Inside
<1> QED
  BY <1>1, <1>2, <1>3, <1>4, <1>5, <1>6, <1>7, <1>8 DEF SetSpeedInternal

\* A wish that is no LIVE_PAUSE has the decoders held just when the clock stands.
LEMMA WishedHeld ==
    ASSUME wish \in [speed : Wishes \ Live, held : BOOLEAN], wish.held <=> wish.speed = 0,
           NEW speed \in Wishes \ Live
    PROVE  Wished(speed).held <=> Wished(speed).speed = 0
<1> DEFINE held == speed = 0 /\ (wish.speed = 0 => wish.held)
<1>1. Wished(speed) = [speed |-> speed, held |-> held]
  BY DEF Wished
<1> HIDE DEF held
<1>2. Wished(speed).speed = speed /\ Wished(speed).held = held
  BY <1>1
<1>3. held <=> speed = 0
  BY DEF held
<1> QED
  BY <1>2, <1>3

\* Where net_buf_ctrl does not pause, every step keeps Plainly.
LEMMA NextPlainly ==
    ASSUME OneByOne, ~ HolderPauses, SpeedInv, Plainly, [SpeedNext]_allVars
    PROVE  Plainly'
<1>0. /\ Shape /\ LockedAlone /\ wish \in [speed : Wishes \ Live, held : BOOLEAN]
      /\ want_new \in (Wishes \ Live) \cup {None} /\ Normal \in Wishes \ Live
      /\ (wish.held <=> wish.speed = 0)
  BY Constants DEF SpeedInv, WishKept, Shape, SpeedTypes, Plainly
<1>1. CASE UNCHANGED allVars
  BY <1>1 DEF allVars, speedVars, flagVars, callVars, clockVars, vars, statusVars, Plainly, Starting
<1>2. ASSUME NEW t \in Threads, SetSpeedInternal(t)
      PROVE  Plainly'
  <2>1. /\ at[t] \in Inside /\ UNCHANGED <<want_live, wish>>
        /\ at'[t] \in Inside => doing'[t] = doing[t]
    BY <1>0, <1>2, InsideTurn DEF flagVars, Inside, Outer
  <2>2. \A u \in Threads \ {t} : at[u] \notin Inside
    BY <1>0, <2>1, Exclusive
  <2>3. \A u \in Threads \ {t} : at'[u] \notin Inside
    BY <1>0, <2>2, <1>2, CallsOfOthers DEF Others, GoOn
  <2>4. AudioBehindAt(t) /\ PlainlyAt(t) /\ doing[t] \notin Live
    BY <2>1, <2>2, OnlyOne DEF SpeedInv, Plainly, PlainlyAt, Starting, Inside
  <2>5. PlainlyAt(t)'
    BY <1>0, <2>4, <1>2, InsidePlainly
  <2> QED
    BY <1>0, <2>1, <2>3, <2>4, <2>5 DEF Plainly, PlainlyAt, Inside
\* Others come inside with a speed that is no LIVE_PAUSE.
<1>3. ASSUME NEW t \in Threads, GoOn(t) \/ Ask(t) \/ Decode(t), ~ SetSpeedInternal(t),
             want_live' = None, at'[t] \in Inside => doing'[t] \notin Live,
             at[t] \notin Inside,
             \/ wish' = wish 
             \/ \E speed \in Wishes \ Live : wish' = Wished(speed)
      PROVE  Plainly'
  <2>1. UNCHANGED <<clock, pause_revoked>>
    BY <1>0, <1>3, Outside DEF clockVars
  <2>2. wish'.held <=> wish'.speed = 0
    BY <1>0, <1>3, WishedHeld
  <2>3. \A u \in Threads : \/ u # t /\ at'[u] = at[u] /\ doing'[u] = doing[u]
                           \/ u = t /\ at[u] \notin Inside /\ (UNCHANGED callVars \/ at'[u] \notin Inside \ {"decide"})
    BY <1>0, <1>3, CallsOfOthers, Outside DEF Others
  <2>4. \A u \in Threads : \/ at'[u] = at[u] /\ doing'[u] = doing[u]
                           \/ at[u] \notin Inside /\ at'[u] \notin Inside \ {"decide"}
    BY <2>3 DEF callVars
  <2>5. \A u \in Threads : at'[u] \in Inside => doing'[u] \notin Live
    BY <2>3, <1>3 DEF Plainly
  <2>6. \A u \in Threads : /\ at'[u] = "clock off" => at[u] = "clock off"
                           /\ Starting(u) => Starting(u)'
    BY <2>4 DEF Starting, Inside
  <2> QED
    BY <1>3, <2>1, <2>2, <2>5, <2>6 DEF Plainly
<1>4. ASSUME NEW t \in Threads, UNCHANGED speedVars, SpeedWake(t) \/ Decode(t)
      PROVE  Plainly'
  <2>1. ~ SetSpeedInternal(t) \/ at[t] \in Inside
    BY <1>0, InsideTurn
  <2>2. UNCHANGED pause_revoked
    BY <1>4 DEF SpeedWake, Wake, AcquireWake, RenewWake, RevokeWake, Decode, Acquire, Release, Renew, statusVars
  <2> QED
    BY <1>4, <2>2 DEF speedVars, flagVars, callVars, clockVars, Plainly, Starting
<1>5. ASSUME NEW t \in Threads, SetSpeed(t) \/ NbcSetSpeed(t) \/ NbcLive(t) \/ NbcAgain(t)
      PROVE  Plainly'
  <2>0. (GoOn(t) \/ Ask(t)) /\ at[t] \notin Inside /\ ~ SetSpeedInternal(t)
    BY <1>0, <1>5, FineTurn, InsideTurn DEF GoOn, Ask, Returns, Inside
  <2>1. /\ want_live' = None /\ (at'[t] \in Inside => doing'[t] \notin Live)
        /\ wish' = wish \/ \E speed \in Wishes \ Live : wish' = Wished(speed)
    BY <1>0, <1>5, FineTurn DEF Returns, Inside, Remember, Plainly, flagVars
  <2> QED
    BY <1>3, <2>0, <2>1
<1>6. ASSUME NEW t \in Threads, Changed(t)
      PROVE  Plainly'
  <2>0. GoOn(t) /\ at[t] \notin Inside /\ ~ SetSpeedInternal(t)
    BY <1>0, <1>6, ChangedTurn, InsideTurn DEF GoOn, Inside
  <2>1. want_live' = None /\ wish' = wish /\ (at'[t] \in Inside => doing'[t] \notin Live)
    BY <1>0, <1>6, ChangedTurn DEF Returns, Inside, Plainly
  <2> QED
    BY <1>3, <2>0, <2>1
<1>7. ASSUME NEW t \in Threads, NEW wait \in BOOLEAN, LockRun(t, wait)
      PROVE  Plainly'
  <2>1. /\ at[t] = "idle" /\ UNCHANGED want_live /\ wish' = Wished(Normal)
        /\ at'[t] \in {"wait", "stop"} \/ doing'[t] = Normal
    BY <1>0, <1>7, LockRunTurn
  <2>2. Ask(t) /\ at[t] \notin Inside
    BY <1>7, <2>1 DEF Ask, Inside
  <2>3. ~ SetSpeedInternal(t)
    BY <1>0, <2>2, InsideTurn
  <2>4. want_live' = None /\ (at'[t] \in Inside => doing'[t] \notin Live)
    BY <1>0, <2>1 DEF Inside, Plainly
  <2> QED
    BY <1>0, <1>3, <2>1, <2>2, <2>3, <2>4
<1>8. ASSUME NEW t \in Threads,
           \/ EnterStop(t) \/ LeaveStop(t) \/ UnlockRun(t) \/ LockRunWake(t)
           \/ StopInternal(t) \/ RewireBegin(t) \/ RewirePause(t) \/ RewireEnd(t)
      PROVE  Plainly'
  <2>0. (GoOn(t) \/ Ask(t)) /\ want_live' = want_live /\ t \notin Rewirers
    BY <1>0, <1>8, OuterTurn DEF GoOn, Ask, OneByOne
  <2>1. /\ at[t] \notin Inside /\ (at'[t] \in Inside => doing'[t] \notin Live)
        /\ wish' = wish \/ wish' = Wished(Normal)
    BY <1>0, <1>8, <2>0, OuterTurn DEF Inside
  <2>2. ~ SetSpeedInternal(t)
    BY <1>0, <2>1, InsideTurn
  <2> QED
    BY <1>0, <1>3, <2>0, <2>1, <2>2 DEF Plainly
<1> QED
  BY <1>1, <1>2, <1>4, <1>5, <1>6, <1>7, <1>8 DEF SpeedNext, GoOn, Ask, Decode, SpeedWake

\* Where changes come one by one and decoders do not pause, the decoders are
\* held while the clock stands, but for the steps on the way.
THEOREM PlainlyHolds ==
    ASSUME OneByOne, ~ HolderPauses
    PROVE  SpeedSpec => []Plainly
<1>1. SpeedInit => Plainly
  <2> SUFFICES ASSUME SpeedInit PROVE Plainly
    OBVIOUS
  <2>1. clock # 0 /\ want_live = None /\ \A t \in Threads : at[t] = "idle"
    BY Constants DEF SpeedInit
  <2>2. wish = [speed |-> Normal, held |-> FALSE]
    BY DEF SpeedInit
  <2>3. wish.speed # 0
    BY <2>2, Constants
  <2>4. ~ wish.held
    BY <2>2, Zenon
  <2> QED
    BY <2>1, <2>3, <2>4 DEF Plainly, Inside
<1>2. SpeedInv /\ Plainly /\ [SpeedNext]_allVars => Plainly'
  BY NextPlainly
<1> QED
  BY <1>1, <1>2, SpeedInvHolds, PTL DEF SpeedSpec

\* At rest the speed is that of the last wish, and the decoders are held just
\* when the clock stands, however the changes overlapped.
THEOREM LatestWinsHolds ==
    ASSUME OneByOne, ~ HolderPauses
    PROVE  SpeedSpec => []LatestWins
<1>1. SpeedInv /\ Plainly => LatestWins
  <2> SUFFICES ASSUME SpeedInv, Plainly, AtRest PROVE clock = wish.speed /\ pause_revoked = wish.held
    BY DEF LatestWins
  <2>1. ~ changing /\ \A t \in Threads : at[t] \notin Inside
    BY DEF AtRest, InSetSpeed, Inside
  <2>2. want_new = None
    BY <2>1 DEF SpeedInv, Shape, OneOwner
  <2>3. clock = wish.speed
    BY <2>1, <2>2 DEF SpeedInv, WishKept, NoneSets
  <2>4. pause_revoked <=> clock = 0
    BY <2>1 DEF SpeedInv, HeldStanding, Plainly, Starting, Inside
  <2>5. pause_revoked \in BOOLEAN /\ wish.held \in BOOLEAN
    BY DEF SpeedInv, HeldStanding, WishKept
  <2>6. pause_revoked <=> wish.held
    BY <2>3, <2>4 DEF Plainly
  <2> QED
    BY <2>3, <2>5, <2>6
<1> QED
  BY <1>1, SpeedInvHolds, PlainlyHolds, PTL

-----------------------------------------------------------------------------
\* t stops a stream, with an irrevocable ticket.
Stopping(t) == at[t] \in {"stop", "stopped"} \/ back[t] \in {<<"stop">>, <<"stopped">>}

\* The tickets that a thread of the application has asked for.
Held(t) ==
    IF Stopping(t) THEN IF at[t] = "tell audio" THEN 2 ELSE 1
    ELSE IF at[t] = "tell audio" THEN 1 ELSE 0

\* How t uses the ticket at its step: applications only while they change the
\* speed or stop a stream, and never when they revoke.
Use(t) ==
    /\ at[t] # "idle" => t \in Apps
    /\ t \in Apps => /\ low[t] = Held(t) /\ irr_held[t] = (IF pc[t] = "acquire" THEN 0 ELSE low[t])
                     /\ pc[t] \in {"run", "acquire", "revoke"}
                     /\ pc[t] = "acquire" => arg[t] = Irrevocable
    /\ t \notin Apps => /\ irr_held[t] = 0 /\ low[t] <= 1
                        /\ pc[t] = "acquire" => arg[t] = Plain
    /\ pc[t] = "revoke" => at[t] = "clock off"
    /\ Stopping(t) /\ at[t] \in Inside => doing[t] # 0

Uses == \A t \in Threads : Use(t)

\* Changes come one by one, decoders do not pause, and a stop can take the
\* ticket of set_speed_internal on top of its own.
Orderly == OneByOne /\ ~ HolderPauses /\ MaxHold >= 2 /\ Decoders \cap Apps = {}

-----------------------------------------------------------------------------
\* Where in the code t can be stopping.
LEMMA StoppingWhere ==
    ASSUME Shape, NEW t \in Threads
    PROVE  /\ Stopping(t) => at[t] \in Inside \cup {"stop", "stopped"}
           /\ Changer(t) => ~ Stopping(t)
<1>1. Stack(t)
  BY DEF Shape, Calls
<1>2. ASSUME NEW r \in Steps
      PROVE  <<"changed", r>> \notin {<<"stop">>, <<"stopped">>} /\ <<>> \notin {<<"stop">>, <<"stopped">>}
  OBVIOUS
<1>3. ASSUME NEW r \in Returns
      PROVE  r \in Steps /\ <<r>> \notin {<<"stop">>, <<"stopped">>}
  <2>1. r # "stop" /\ r # "stopped" /\ r \in Steps
    BY DEF Returns, Steps
  <2> QED
    BY <2>1
<1>4. "changed" \notin Inside /\ "stop" \notin Inside /\ "stopped" \notin Inside
  BY DEF Inside
<1>5. "changed" \in Steps
  BY DEF Steps
<1>6. CASE at[t] \in Inside
  <2>1. CASE \E r \in Returns : back[t] = <<"changed", r>>
    BY <1>6, <2>1, <1>2, <1>3, <1>4 DEF Stopping
  <2>2. CASE \E r \in Outer : back[t] = <<r>>
    <3>1. PICK r \in Outer : back[t] = <<r>>
      BY <2>2
    <3>2. Len(back[t]) = 1
      BY <3>1
    <3> QED
      BY <1>4, <1>6, <3>2 DEF Changer
  <2> QED
    BY <1>1, <1>4, <1>6, <2>1, <2>2 DEF Stack
<1>7. CASE at[t] = "changed"
  BY <1>1, <1>3, <1>4, <1>7 DEF Stack, Stopping
<1>8. CASE at[t] \notin Inside \cup {"changed"}
  BY <1>1, <1>2, <1>5, <1>8 DEF Stack, Stopping, Changer
<1> QED
  BY <1>6, <1>7, <1>8

\* set_speed_internal does not change whether t is stopping.
LEMMA GotoStopping ==
    ASSUME Shape, NEW t \in Threads, at[t] \in Inside, NEW step \in Inside \cup {"done"}, Goto(t, step)
    PROVE  Stopping(t)' <=> Stopping(t)
<1>1. /\ Stack(t) /\ at \in [Threads -> Steps] /\ back \in [Threads -> Seq(Steps)]
      /\ at[t] \notin {"stop", "stopped", "changed"} /\ "done" \notin Inside
  BY DEF Shape, Calls, SpeedTypes, Inside
<1>2. CASE step \in Inside
  <2>1. at'[t] = step /\ back'[t] = back[t] /\ step \notin {"stop", "stopped"}
    BY <1>1, <1>2 DEF Goto, Inside
  <2> QED
    BY <1>1, <2>1 DEF Stopping
<1>3. CASE step = "done"
  <2>1. at'[t] = Head(back[t]) /\ back'[t] = Tail(back[t])
    BY <1>1, <1>3 DEF Goto
  <2>2. CASE \E r \in Returns : back[t] = <<"changed", r>>
    <3>1. PICK r \in Returns : back[t] = <<"changed", r>>
      BY <2>2
    <3>2. r \in Steps /\ r # "stop" /\ r # "stopped"
      BY DEF Returns, Steps
    <3>3. at'[t] = "changed" /\ back'[t] = <<r>>
      BY <2>1, <3>1, <3>2, Lists
    <3>4. <<r>> \notin {<<"stop">>, <<"stopped">>} /\ <<"changed", r>> \notin {<<"stop">>, <<"stopped">>}
      BY <3>2
    <3> QED
      BY <1>1, <3>1, <3>3, <3>4 DEF Stopping
  <2>3. CASE \E r \in Outer : back[t] = <<r>>
    <3>1. PICK r \in Outer : back[t] = <<r>>
      BY <2>3
    <3>2. r \in Steps
      BY DEF Outer, Steps
    <3>3. at'[t] = r /\ back'[t] = <<>>
      BY <2>1, <3>1, <3>2, Lists
    <3>4. <<>> \notin {<<"stop">>, <<"stopped">>}
      OBVIOUS
    <3>5. <<r>> \in {<<"stop">>, <<"stopped">>} <=> r \in {"stop", "stopped"}
      OBVIOUS
    <3> QED
      BY <1>1, <3>1, <3>3, <3>4, <3>5 DEF Stopping
  <2> QED
    BY <1>1, <2>2, <2>3 DEF Stack
<1> QED
  BY <1>2, <1>3

\* Up to two tickets.
LEMMA HeldIs ==
    ASSUME NEW t \in Threads
    PROVE  /\ Stopping(t) /\ at[t] = "tell audio" => Held(t) = 2
           /\ Stopping(t) /\ at[t] # "tell audio" => Held(t) = 1
           /\ ~ Stopping(t) /\ at[t] = "tell audio" => Held(t) = 1
           /\ ~ Stopping(t) /\ at[t] # "tell audio" => Held(t) = 0
BY DEF Held

-----------------------------------------------------------------------------
(* Each call of the ticket is one that PortTicket expects. *)

\* What is known before a step.
Known == Orderly /\ SpeedInv /\ Plainly /\ SafeInv /\ Uses

\* A thread that is about to act does not wait in the ticket, and nobody has
\* grants saved.
LEMMA KnownOf ==
    ASSUME Known, NEW t \in Threads
    PROVE  /\ Core /\ Shape /\ Use(t) /\ t \notin Rewirers
           /\ nest[t] = 0 /\ saved[t] = 0 /\ low[t] \in Nat /\ irr_held[t] \in Nat /\ irr_held[t] <= low[t]
           /\ (t \in Decoders <=> t \notin Apps) /\ MaxHold \in Nat /\ MaxHold >= 2
<1>1. Core /\ Shape /\ Use(t) /\ Settings /\ MaxHold \in Nat /\ Entry(t) /\ Types
  BY TicketAssumption DEF Known, SafeInv, SpeedInv, Uses, Core, Entries
<1>2. nest[t] = 0 /\ saved[t] = 0
  BY <1>1 DEF Known, Orderly, Settings, Entry
<1> QED
  BY <1>1, <1>2 DEF Known, Orderly, OneByOne, Types, Entry, Threads

\* Who begins a pause, or ends one, is alone in set_speed_internal.
LEMMA PauseUse ==
    ASSUME Known, NEW t \in Threads, at[t] \in Inside, Running(t)
    PROVE  pause_revoked => /\ pauser \in Threads /\ pc[pauser] # "revoke"
                            /\ MayUnpause(t)
<1> SUFFICES ASSUME pause_revoked
             PROVE  pauser \in Threads /\ pc[pauser] # "revoke" /\ MayUnpause(t)
  OBVIOUS
<1>1. pauser \in Threads
  BY DEF Known, SafeInv, Core, Types, Revocations
<1>2. ASSUME pc[pauser] = "revoke" PROVE FALSE
  <2>1. at[pauser] \in Inside
    BY <1>1, <1>2, KnownOf DEF Use, Inside
  <2>2. pauser = t
    BY <1>1, <2>1, Exclusive DEF Known, Orderly, SpeedInv
  <2> QED
    BY <1>2, <2>2 DEF Running
<1>3. t \in Apps /\ nest[t] = 0 /\ nest[pauser] = 0
  BY <1>1, KnownOf DEF Use, Inside
<1> QED
  BY <1>1, <1>2, <1>3 DEF MayUnpause, MayIssue

\* At "pause" no ticket is held.
LEMMA PauserFree ==
    ASSUME Known, NEW t \in Threads, at[t] = "pause", Running(t)
    PROVE  MayPause(t) /\ ~ Found(t) /\ ~ Stopping(t)
<1>1. at[t] \in Inside /\ at[t] # "tell audio"
  BY DEF Inside
<1>2. doing[t] = 0
  BY DEF Known, SpeedInv, Shape, Calls, Argument
<1>3. ~ Stopping(t)
  BY <1>1, <1>2, KnownOf DEF Use
<1>4. low[t] = 0 /\ nest[t] = 0 /\ t \in Apps
  BY <1>1, <1>3, KnownOf, HeldIs DEF Use
<1> QED
  BY <1>3, <1>4 DEF MayPause, Found

-----------------------------------------------------------------------------
(* Every step keeps Use. *)

\* A step that leaves the ticket alone, and what was asked for.
LEMMA StillUse ==
    ASSUME Known, NEW t \in Threads, Running(t), UNCHANGED vars,
           at'[t] # "idle" => t \in Apps,
           Stopping(t)' <=> Stopping(t), "tell audio" \notin {at[t], at'[t]},
           Stopping(t)' /\ at'[t] \in Inside => doing'[t] # 0
    PROVE  Use(t)'
<1>1. low' = low /\ irr_held' = irr_held /\ pc' = pc /\ arg' = arg /\ pc[t] = "run"
  BY DEF vars, entryVars, threadVars, Running
<1>2. Held(t)' = Held(t)
  BY DEF Held
<1> QED
  BY <1>1, <1>2, KnownOf DEF Use

\* The calls of another thread stay as they are.
LEMMA OthersUse ==
    ASSUME Known, NEW t \in Threads, GoOn(t) \/ Ask(t) \/ Decode(t),
           Step(t) \/ Wake(t) \/ UNCHANGED vars, NEW u \in Threads \ {t}
    PROVE  Use(u)'
<1>1. at'[u] = at[u] /\ doing'[u] = doing[u] /\ back'[u] = back[u]
  BY KnownOf, CallsOfOthers DEF Others
<1>2. low'[u] = low[u] /\ irr_held'[u] = irr_held[u] /\ pc'[u] = pc[u] /\ arg'[u] = arg[u]
  BY KnownOf, OthersStay DEF Untouched, vars, entryVars, threadVars
<1>3. Held(u)' = Held(u) /\ (Stopping(u)' <=> Stopping(u))
  BY <1>1 DEF Held, Stopping
<1> QED
  BY <1>1, <1>2, <1>3, KnownOf DEF Use

\* An irrevocable ticket on top of those there are.
LEMMA AcquireUse ==
    ASSUME Known, NEW t \in Threads, t \in Apps, NEW irr \in BOOLEAN, irr, Acquire(t, irr),
           Held(t) \in {0, 1}, Held(t)' = Held(t) + 1,
           Stopping(t)' /\ at'[t] \in Inside => doing'[t] # 0
    PROVE  Step(t) /\ Use(t)'
<1>1. /\ low[t] = Held(t) /\ irr_held[t] = low[t] /\ pc[t] = "run" /\ low[t] \in Nat
      /\ low \in [Threads -> 0 .. MaxHold] /\ irr_held \in [Threads -> 0 .. MaxHold]
      /\ pc \in [Threads -> Waits] /\ arg \in [Threads -> Flags]
  <2>1. pc[t] = "run"
    BY DEF Acquire, Running
  <2> QED
    BY <2>1, KnownOf DEF Use, Core, Types
<1>2. low[t] < MaxHold
  BY <1>1, KnownOf
<1>3. Step(t)
  BY <1>2 DEF Step, MayAcquire
<1>5. low'[t] = low[t] + 1
  BY <1>1 DEF Acquire
<1>6. \/ pc'[t] = "run" /\ irr_held'[t] = irr_held[t] + 1
      \/ pc'[t] = "acquire" /\ arg'[t] = Irrevocable /\ irr_held'[t] = irr_held[t] /\ low[t] = 0
  <2>1. CASE Grant(t, irr) /\ UNCHANGED threadVars
    BY <1>1, <2>1 DEF Grant, threadVars, B2N
  <2>2. CASE ~ Found(t) /\ pc' = [pc EXCEPT ![t] = "acquire"] /\ arg' = [arg EXCEPT ![t] = Irrevocable]
             /\ UNCHANGED irr_held
    BY <1>1, <2>2 DEF Found
  <2> QED
    BY <2>1, <2>2 DEF Acquire
<1>7. irr_held'[t] = IF pc'[t] = "acquire" THEN 0 ELSE low'[t]
  BY <1>1, <1>5, <1>6
<1>8. pc'[t] # "revoke"
  BY <1>6
<1> QED
  BY <1>1, <1>3, <1>5, <1>6, <1>7, <1>8 DEF Use

\* One ticket less.
LEMMA OneLess == 2 - 1 = 1 /\ 1 - 1 = 0
OBVIOUS

\* The last of them goes back.
LEMMA ReleaseUse ==
    ASSUME Known, NEW t \in Threads, t \in Apps, NEW irr \in BOOLEAN, irr, Release(t, irr),
           (Held(t) = 2 /\ Held(t)' = 1) \/ (Held(t) = 1 /\ Held(t)' = 0),
           Stopping(t)' /\ at'[t] \in Inside => doing'[t] # 0
    PROVE  Step(t) /\ Use(t)'
<1>1. /\ low[t] = Held(t) /\ irr_held[t] = low[t] /\ pc[t] = "run" /\ low[t] > 0 /\ saved[t] = 0
      /\ low[t] \in Nat /\ low \in [Threads -> 0 .. MaxHold] /\ irr_held \in [Threads -> 0 .. MaxHold]
  <2>1. pc[t] = "run" /\ low[t] > 0
    BY DEF Release, Running
  <2> QED
    BY <2>1, KnownOf DEF Use, Core, Types
<1>2. Step(t)
  BY <1>1, KnownOf DEF Step, MayRelease
<1>3. low'[t] = low[t] - 1 /\ irr_held'[t] = irr_held[t] - 1 /\ pc'[t] = "run"
  BY <1>1 DEF Release, threadVars, B2N
<1>4. irr_held'[t] = IF pc'[t] = "acquire" THEN 0 ELSE low'[t]
  BY <1>1, <1>3
<1>5. Held(t)' = low'[t]
  BY <1>1, <1>3, OneLess
<1> QED
  BY <1>1, <1>2, <1>3, <1>4, <1>5 DEF Use

\* Nothing more is asked for, nor less.
LEMMA SameHeld ==
    ASSUME NEW t \in Threads, Stopping(t)' <=> Stopping(t), at[t] # "tell audio", at'[t] # "tell audio"
    PROVE  Held(t)' = Held(t)
<1>1. CASE Stopping(t)
  BY <1>1 DEF Held
<1>2. CASE ~ Stopping(t)
  BY <1>2 DEF Held
<1> QED
  BY <1>1, <1>2

\* The steps of set_speed_internal.
LEMMA InsideUse ==
    ASSUME Known, NEW t \in Threads, SetSpeedInternal(t)
    PROVE  (Step(t) \/ UNCHANGED vars) /\ Use(t)'
<1>0. /\ at[t] \in Inside /\ Shape /\ Use(t) /\ t \in Apps /\ doing[t] \notin Live /\ at[t] # "idle"
      /\ "done" \notin Inside
  BY KnownOf, InsideTurn DEF Known, Plainly, Use, Inside
<1>1. Running(t)
  BY DEF SetSpeedInternal, Decide, SwitchLive, Unpause, PauseDecoders, StopClock, EnterAudio, TellAudio, StartClock, At
<1>2. ASSUME NEW step \in Inside \cup {"done"}, Goto(t, step)
      PROVE  /\ Stopping(t)' <=> Stopping(t)
             /\ at'[t] = "tell audio" => step = "tell audio"
             /\ at'[t] \in Inside => doing'[t] = doing[t]
             /\ Stopping(t)' /\ at'[t] \in Inside => doing'[t] # 0
             /\ step \in Inside => at'[t] = step
  <2>1. Stopping(t)' <=> Stopping(t)
    BY <1>0, <1>2, GotoStopping
  <2>2. /\ step \in Inside => at'[t] = step /\ doing'[t] = doing[t]
        /\ step = "done" => at'[t] \in Outer \cup {"changed"}
    BY <1>0, <1>2, GotoTurn
  <2>3. (Outer \cup {"changed"}) \cap Inside = {} /\ "tell audio" \in Inside
    BY DEF Outer, Inside
  <2> QED
    BY <1>0, <1>2, <2>1, <2>2, <2>3 DEF Use
<1>3. ASSUME UNCHANGED vars, at[t] # "tell audio", NEW step \in (Inside \cup {"done"}) \ {"tell audio"}, Goto(t, step)
      PROVE  Use(t)'
  BY <1>0, <1>1, <1>2, <1>3, StillUse
<1>4. CASE Decide(t)
  <2>1. PICK step \in (Inside \cup {"done"}) \ {"tell audio"} : Goto(t, step)
    BY <1>4 DEF Decide, FirstStep, FirstStepPaused, Inside
  <2> QED
    BY <1>3, <1>4, <2>1 DEF Decide, At
<1>5. CASE SwitchLive(t)
  <2>1. doing[t] \in Live
    BY <1>0, <1>5 DEF SwitchLive, At, Shape, Calls, Argument
  <2> QED
    BY <1>0, <2>1
<1>6. CASE Unpause(t)
  <2>1. at[t] = "unpause" /\ LetGoOn(t) /\ Goto(t, "audio") /\ "audio" \in Inside
    BY <1>6 DEF Unpause, At, Inside
  <2>2. CASE UNCHANGED vars
    BY <1>3, <2>1, <2>2
  <2>3. CASE pause_revoked /\ IssuePause(t)
    <3>1. Step(t)
      BY <1>0, <1>1, <2>3, PauseUse DEF Step
    <3>2. UNCHANGED <<low, irr_held, pc, arg>>
      BY <2>3 DEF IssuePause, IssueSection, threadVars
    <3>3. Held(t)' = Held(t)
      <4>0. "unpause" # "tell audio" /\ "audio" # "tell audio"
        OBVIOUS
      <4>1. at'[t] = "audio" /\ (Stopping(t)' <=> Stopping(t))
        BY <1>2, <2>1
      <4>2. at[t] # "tell audio" /\ at'[t] # "tell audio"
        BY <2>1, <4>0, <4>1
      <4> QED
        BY <4>1, <4>2, SameHeld
    <3> QED
      BY <1>0, <1>1, <1>2, <2>1, <3>1, <3>2, <3>3 DEF Use, Running
  <2> QED
    BY <2>1, <2>2, <2>3 DEF LetGoOn
<1>7. CASE PauseDecoders(t)
  <2>1. at[t] = "pause" /\ Hold(t) /\ Goto(t, "clock off") /\ "clock off" \in Inside
    BY <1>7 DEF PauseDecoders, At, Inside
  <2>2. CASE UNCHANGED vars
    BY <1>3, <2>1, <2>2
  <2>3. CASE RevokePause(t)
    <3>1. Step(t)
      BY <1>1, <2>1, <2>3, PauserFree DEF Step
    <3>2. UNCHANGED <<low, irr_held>> 
      BY <2>3 DEF RevokePause, RevokeSection
    <3>3. pc'[t] \in {"run", "revoke"}
      BY <1>1, <2>3, KnownOf DEF RevokePause, RevokeSection, threadVars, Running, Core, Types
    <3>4. Held(t)' = Held(t)
      <4>0. "pause" # "tell audio" /\ "clock off" # "tell audio"
        OBVIOUS
      <4>1. at'[t] = "clock off" /\ (Stopping(t)' <=> Stopping(t))
        BY <1>2, <2>1
      <4>2. at[t] # "tell audio" /\ at'[t] # "tell audio"
        BY <2>1, <4>0, <4>1
      <4> QED
        BY <4>1, <4>2, SameHeld
    <3>5. pc[t] = "run" /\ irr_held[t] = low[t] /\ at'[t] = "clock off"
      BY <1>0, <1>1, <1>2, <2>1 DEF Use, Running
    <3> QED
      BY <1>0, <1>2, <2>1, <3>1, <3>2, <3>3, <3>4, <3>5 DEF Use
  <2> QED
    BY <2>1, <2>2, <2>3 DEF Hold
<1>8. CASE StopClock(t)
  <2>1. at[t] = "clock off" /\ UNCHANGED vars /\ Goto(t, "audio") /\ "audio" \in Inside
    BY <1>8 DEF StopClock, At, Inside
  <2> QED
    BY <1>3, <2>1
<1>9. CASE EnterAudio(t)
  <2>1. at[t] = "audio" /\ Goto(t, "tell audio") /\ "tell audio" \in Inside
    BY <1>9 DEF EnterAudio, At, Inside
  <2>2. PICK irr \in BOOLEAN : irr /\ Acquire(t, irr)
    BY <1>9, Zenon DEF EnterAudio
  <2>3. Held(t) \in {0, 1} /\ Held(t)' = Held(t) + 1
    <3>1. CASE Stopping(t)
      <4>1. Held(t) = 1 /\ Held(t)' = 2
        BY <1>2, <2>1, <3>1 DEF Held
      <4> QED
        BY <4>1
    <3>2. CASE ~ Stopping(t)
      <4>1. Held(t) = 0 /\ Held(t)' = 1
        BY <1>2, <2>1, <3>2 DEF Held
      <4> QED
        BY <4>1
    <3> QED
      BY <3>1, <3>2
  <2> QED
    BY <1>0, <1>2, <2>1, <2>2, <2>3, AcquireUse
<1>10. CASE TellAudio(t)
  <2>1. PICK step \in (Inside \cup {"done"}) \ {"tell audio"} : Goto(t, step)
    BY <1>10 DEF TellAudio, Inside
  <2>2. PICK irr \in BOOLEAN : irr /\ Release(t, irr)
    BY <1>10, Zenon DEF TellAudio
  <2>3. \/ Held(t) = 2 /\ Held(t)' = 1
        \/ Held(t) = 1 /\ Held(t)' = 0
    <3>0. at[t] = "tell audio" /\ at'[t] # "tell audio"
      BY <1>2, <1>10, <2>1 DEF TellAudio, At
    <3>1. CASE Stopping(t)
      BY <1>2, <2>1, <3>0, <3>1 DEF Held
    <3>2. CASE ~ Stopping(t)
      BY <1>2, <2>1, <3>0, <3>2 DEF Held
    <3> QED
      BY <3>1, <3>2
  <2>4. Stopping(t)' /\ at'[t] \in Inside => doing'[t] # 0
    BY <1>2, <2>1
  <2> QED
    BY <1>0, <2>2, <2>3, <2>4, ReleaseUse
<1>11. CASE StartClock(t)
  <2>1. at[t] = "clock on" /\ UNCHANGED vars /\ Goto(t, "done")
    BY <1>11 DEF StartClock, At
  <2> QED
    BY <1>0, <1>3, <2>1 DEF Inside
<1> QED
  BY <1>4, <1>5, <1>6, <1>7, <1>8, <1>9, <1>10, <1>11 DEF SetSpeedInternal

\* Where a call returns to is no place in a stop.
LEMMA PlainStacks ==
    /\ <<>> \notin {<<"stop">>, <<"stopped">>}
    /\ \A r \in Returns \cup {"enter"} :
        /\ r \in Steps /\ r \notin {"stop", "stopped", "tell audio", "changed"}
        /\ <<r>> \notin {<<"stop">>, <<"stopped">>} /\ <<"changed", r>> \notin {<<"stop">>, <<"stopped">>}
<1>1. <<>> \notin {<<"stop">>, <<"stopped">>}
  OBVIOUS
<1>2. ASSUME NEW r \in Returns \cup {"enter"}
      PROVE  /\ r \in Steps /\ r \notin {"stop", "stopped", "tell audio", "changed"}
             /\ <<r>> \notin {<<"stop">>, <<"stopped">>} /\ <<"changed", r>> \notin {<<"stop">>, <<"stopped">>}
  <2>1. r \in Steps /\ r \notin {"stop", "stopped", "tell audio", "changed"}
    BY DEF Returns, Steps
  <2>2. <<r>> \notin {<<"stop">>, <<"stopped">>} /\ <<"changed", r>> \notin {<<"stop">>, <<"stopped">>}
    BY <2>1
  <2> QED
    BY <2>1, <2>2
<1> QED
  BY <1>1, <1>2

\* The state of a thread outside of set_speed_internal, and what a step that
\* moves it leaves.
LEMMA OutsideIs ==
    ASSUME Known, NEW t \in Threads, at[t] \notin Inside
    PROVE  /\ at \in [Threads -> Steps] /\ back \in [Threads -> Seq(Steps)] /\ doing \in [Threads -> Wishes]
           /\ at[t] # "tell audio"
           /\ at[t] = "changed" => ~ Stopping(t) /\ \E r \in Returns : back[t] = <<r>>
           /\ at[t] # "changed" => /\ back[t] = <<>> 
                                   /\ Stopping(t) <=> at[t] \in {"stop", "stopped"}
<1>1. Shape /\ Stack(t) /\ SpeedTypes
  BY KnownOf DEF Shape, Calls
<1>2. "tell audio" \in Inside
  BY DEF Inside
<1>3. CASE at[t] = "changed"
  BY <1>1, <1>2, <1>3, StoppingWhere DEF Stack, SpeedTypes, Changer
<1>4. CASE at[t] # "changed"
  <2>1. back[t] = <<>>
    BY <1>1, <1>4 DEF Stack
  <2> QED
    BY <1>1, <1>2, <1>4, <2>1, PlainStacks DEF Stopping, SpeedTypes
<1> QED
  BY <1>3, <1>4

\* The first section of _x_set_fine_speed.
LEMMA FineUse ==
    ASSUME Known, NEW t \in Threads, SetSpeed(t) \/ NbcSetSpeed(t) \/ NbcLive(t) \/ NbcAgain(t)
    PROVE  UNCHANGED vars /\ Use(t)'
<1>0. /\ at[t] \in Returns /\ UNCHANGED vars /\ Running(t) /\ at[t] \notin Inside \cup {"changed", "stop", "stopped"}
  BY KnownOf, FineTurn DEF SetSpeed, NbcSetSpeed, NbcLive, NbcAgain, At, Returns, Inside
<1>1. t \in Apps
  <2>1. CASE SetSpeed(t)
    BY <2>1 DEF SetSpeed, Setters
  <2>2. CASE NbcSetSpeed(t)
    BY <2>2, SpeedAssumption DEF NbcSetSpeed, Known, Orderly
  <2>3. CASE NbcLive(t) \/ NbcAgain(t)
    BY <2>3, KnownOf DEF NbcLive, NbcAgain, At, Use
  <2> QED
    BY <2>1, <2>2, <2>3
<1>2. PICK then \in Returns : \/ \E speed : SetFineSpeed(t, speed, then)
                              \/ Goto(t, then)
  <2>1. CASE SetSpeed(t)
    BY <2>1 DEF SetSpeed, Returns
  <2>2. CASE NbcSetSpeed(t)
    BY <2>2 DEF NbcSetSpeed, NbcCall, Returns
  <2>3. CASE NbcLive(t)
    BY <2>3 DEF NbcLive, Returns
  <2>4. CASE NbcAgain(t)
    BY <2>4 DEF NbcAgain, NbcCall, Returns
  <2> QED
    BY <2>1, <2>2, <2>3, <2>4
<1>3. /\ back[t] = <<>> /\ at \in [Threads -> Steps] /\ back \in [Threads -> Seq(Steps)] /\ ~ Stopping(t)
      /\ at[t] # "tell audio" /\ then # "done"
  BY <1>0, OutsideIs DEF Returns
<1>4. \/ at'[t] = then /\ back'[t] = <<>>
      \/ at'[t] = "decide" /\ back'[t] = <<"changed", then>>
  <2>1. CASE Goto(t, then)
    BY <1>3, <2>1 DEF Goto
  <2>2. ASSUME NEW speed, SetFineSpeed(t, speed, then)
        PROVE  \/ at'[t] = then /\ back'[t] = <<>>
               \/ at'[t] = "decide" /\ back'[t] = <<"changed", then>>
    BY <1>3, <2>2 DEF SetFineSpeed, Call
  <2> QED
    BY <1>2, <2>1, <2>2
<1>5. at'[t] \notin {"stop", "stopped", "tell audio"} /\ back'[t] \notin {<<"stop">>, <<"stopped">>}
  <2>1. "decide" \notin {"stop", "stopped", "tell audio"}
    OBVIOUS
  <2> QED
    BY <1>4, <2>1, PlainStacks
<1>6. ~ Stopping(t)' /\ at'[t] # "tell audio"
  BY <1>5 DEF Stopping
<1> QED
  BY <1>0, <1>1, <1>3, <1>6, StillUse

\* Its last section.
LEMMA ChangedUse ==
    ASSUME Known, NEW t \in Threads, Changed(t)
    PROVE  UNCHANGED vars /\ Use(t)'
<1>0. at[t] = "changed" /\ UNCHANGED vars /\ Running(t) /\ at[t] \notin Inside /\ at[t] # "idle" 
  BY DEF Changed, At, Inside
<1>1. t \in Apps
  BY <1>0, KnownOf DEF Use
<1>2. PICK r \in Returns : back[t] = <<r>>
  BY <1>0, OutsideIs
<1>3. at \in [Threads -> Steps] /\ back \in [Threads -> Seq(Steps)] /\ ~ Stopping(t) /\ at[t] # "tell audio"
  BY <1>0, OutsideIs
<1>4. r \in Steps
  BY PlainStacks
<1>5. \/ at'[t] = r /\ back'[t] = <<>>
      \/ at'[t] = "decide" /\ back'[t] = <<"changed", r>>
  <2>1. CASE Goto(t, "done")
    BY <1>2, <1>3, <1>4, <2>1, Lists DEF Goto
  <2>2. ASSUME NEW speed, Call(t, speed, <<"changed">> \o back[t])
        PROVE  at'[t] = "decide" /\ back'[t] = <<"changed", r>>
    BY <1>2, <1>3, <1>4, <2>2, Lists DEF Call
  <2> QED
    BY <2>1, <2>2 DEF Changed
<1>6. at'[t] \notin {"stop", "stopped", "tell audio"} /\ back'[t] \notin {<<"stop">>, <<"stopped">>}
  <2>1. "decide" \notin {"stop", "stopped", "tell audio"}
    OBVIOUS
  <2> QED
    BY <1>5, <2>1, PlainStacks
<1>7. ~ Stopping(t)' /\ at'[t] # "tell audio"
  BY <1>6 DEF Stopping
<1> QED
  BY <1>0, <1>1, <1>3, <1>7, StillUse

\* lock_run, before the stop takes its ticket.
LEMMA LockRunUse ==
    ASSUME Known, NEW t \in Threads, NEW wait \in BOOLEAN, LockRun(t, wait)
    PROVE  UNCHANGED vars /\ Use(t)'
<1>0. /\ at[t] = "idle" /\ UNCHANGED vars /\ Running(t) /\ at[t] \notin Inside \cup {"changed", "stop", "stopped"}
      /\ t \in Stoppers
  BY DEF LockRun, At, Inside
<1>1. t \in Apps /\ wait
  BY <1>0, SpeedAssumption DEF LockRun, Known, Orderly, OneByOne
<1>2. back[t] = <<>> /\ at \in [Threads -> Steps] /\ back \in [Threads -> Seq(Steps)] /\ ~ Stopping(t)
      /\ at[t] # "tell audio"
  BY <1>0, OutsideIs
<1>3. \/ at'[t] = "wait" /\ back'[t] = <<>>
      \/ at'[t] = "decide" /\ back'[t] = <<"enter">>
  BY <1>1, <1>2 DEF LockRun, Call
<1>4. at'[t] \notin {"stop", "stopped", "tell audio"} /\ back'[t] \notin {<<"stop">>, <<"stopped">>}
  <2>1. {"decide", "wait"} \cap {"stop", "stopped", "tell audio"} = {}
    OBVIOUS
  <2> QED
    BY <1>3, <2>1, PlainStacks
<1>5. ~ Stopping(t)' /\ at'[t] # "tell audio"
  BY <1>4 DEF Stopping
<1> QED
  BY <1>0, <1>1, <1>2, <1>5, StillUse

\* From lock_run to unlock_run.
LEMMA StopUse ==
    ASSUME Known, NEW t \in Threads,
           \/ EnterStop(t) \/ LeaveStop(t) \/ UnlockRun(t) \/ LockRunWake(t) \/ StopInternal(t)
    PROVE  (Step(t) \/ UNCHANGED vars) /\ Use(t)'
<1>0. /\ at[t] \in {"enter", "stopped", "unlock", "wait", "stop"} /\ Running(t) /\ at[t] # "changed"
      /\ at[t] \notin Inside /\ at[t] # "idle"
  BY DEF EnterStop, LeaveStop, UnlockRun, LockRunWake, StopInternal, At, Inside
<1>1. /\ back[t] = <<>> /\ at \in [Threads -> Steps] /\ back \in [Threads -> Seq(Steps)]
      /\ doing \in [Threads -> Wishes] /\ at[t] # "tell audio"
      /\ Stopping(t) <=> at[t] \in {"stop", "stopped"}
  BY <1>0, OutsideIs
<1>2. t \in Apps
  BY <1>0, KnownOf DEF Use
<1>3. ASSUME NEW step, step # "done", Goto(t, step)
      PROVE  at'[t] = step /\ back'[t] = <<>> /\ (Stopping(t)' <=> step \in {"stop", "stopped"})
  <2>1. at'[t] = step /\ back'[t] = <<>>
    BY <1>1, <1>3 DEF Goto
  <2> QED
    BY <2>1, PlainStacks DEF Stopping
<1>4. CASE EnterStop(t)
  <2>1. at[t] = "enter" /\ Goto(t, "stop") /\ "stop" # "done" /\ "enter" \notin {"stop", "stopped"} /\ "stop" \notin Inside
        /\ "stop" # "tell audio"
    BY <1>4 DEF EnterStop, At, Inside
  <2>2. PICK irr \in BOOLEAN : irr /\ Acquire(t, irr)
    BY <1>4, Zenon DEF EnterStop
  <2>3. ~ Stopping(t) /\ at'[t] = "stop" /\ Stopping(t)'
    BY <1>1, <1>3, <2>1
  <2>4. Held(t) = 0 /\ Held(t)' = 1
    BY <1>1, <2>1, <2>3 DEF Held
  <2>5. Held(t) \in {0, 1} /\ Held(t)' = Held(t) + 1
    <3>1. 1 = 0 + 1
      OBVIOUS
    <3> QED
      BY <2>4, <3>1
  <2>6. Stopping(t)' /\ at'[t] \in Inside => doing'[t] # 0
    BY <2>1, <2>3
  <2> QED
    BY <1>2, <2>2, <2>5, <2>6, AcquireUse
<1>5. CASE LeaveStop(t)
  <2>1. at[t] = "stopped" /\ Goto(t, "unlock") /\ "unlock" # "done" /\ "unlock" \notin {"stop", "stopped", "tell audio"}
        /\ "unlock" \notin Inside
    BY <1>5 DEF LeaveStop, At, Inside
  <2>2. Stopping(t) /\ at'[t] = "unlock" /\ ~ Stopping(t)'
    BY <1>1, <1>3, <2>1
  <2>3. Held(t) = 1 /\ Held(t)' = 0
    BY <1>1, <2>1, <2>2 DEF Held
  <2>4. low[t] = 1
    BY <1>2, <2>3, KnownOf DEF Use
  <2>5. 1 > 0
    OBVIOUS
  <2>6. PICK irr \in BOOLEAN : irr /\ Release(t, irr)
    BY <1>5, <2>4, <2>5, Zenon DEF LeaveStop
  <2> QED
    BY <1>2, <2>2, <2>3, <2>6, ReleaseUse
<1>6. CASE UnlockRun(t)
  <2>1. at[t] = "unlock" /\ UNCHANGED vars /\ Goto(t, "idle") /\ "idle" # "done" /\ "unlock" \notin {"stop", "stopped"}
        /\ "idle" \notin {"stop", "stopped", "tell audio"}
    BY <1>6 DEF UnlockRun, At
  <2>2. ~ Stopping(t) /\ at'[t] = "idle" /\ ~ Stopping(t)'
    BY <1>1, <1>3, <2>1
  <2> QED
    BY <1>0, <1>1, <1>2, <2>1, <2>2, StillUse
<1>7. CASE LockRunWake(t)
  <2>1. at[t] = "wait" /\ UNCHANGED vars /\ (UNCHANGED callVars \/ Goto(t, "enter"))
        /\ "enter" # "done" /\ {"wait", "enter"} \cap {"stop", "stopped", "tell audio"} = {}
    BY <1>7 DEF LockRunWake, At
  <2>2. at'[t] \in {"wait", "enter"} /\ back'[t] = <<>>
    BY <1>1, <1>3, <2>1 DEF callVars
  <2>3. ~ Stopping(t) /\ ~ Stopping(t)'
    BY <1>1, <2>1, <2>2, PlainStacks DEF Stopping
  <2> QED
    BY <1>0, <1>1, <1>2, <2>1, <2>2, <2>3, StillUse
<1>8. CASE StopInternal(t)
  <2>0. at[t] = "stop" /\ UNCHANGED vars /\ Stopping(t)
    BY <1>1, <1>8 DEF StopInternal, At
  <2>1. CASE Goto(t, "stopped")
    <3>1. "stopped" # "done" /\ "stopped" \notin Inside \cup {"tell audio"}
      BY DEF Inside
    <3>2. at'[t] = "stopped" /\ Stopping(t)'
      BY <1>3, <2>1, <3>1
    <3> QED
      BY <1>0, <1>1, <1>2, <2>0, <3>1, <3>2, StillUse
  <2>2. CASE Call(t, Normal, <<"stopped">>)
    <3>1. at'[t] = "decide" /\ back'[t] = <<"stopped">> /\ doing'[t] = Normal /\ "decide" # "tell audio"
      BY <1>1, <2>2 DEF Call
    <3>2. Stopping(t)'
      BY <3>1 DEF Stopping
    <3> QED
      BY <1>0, <1>1, <1>2, <2>0, <3>1, <3>2, Constants, StillUse
  <2> QED
    BY <1>8, <2>1, <2>2 DEF StopInternal
<1> QED
  BY <1>4, <1>5, <1>6, <1>7, <1>8

\* A decoder's own use of its ticket.
LEMMA DecodeUse ==
    ASSUME Known, NEW t \in Threads, Decode(t)
    PROVE  Step(t) /\ Use(t)'
<1>0. /\ at[t] = "idle" /\ t \in Decoders /\ t \notin Apps /\ UNCHANGED speedVars /\ pc[t] = "run"
      /\ irr_held[t] = 0 /\ saved[t] = 0 /\ nest[t] = 0 /\ low[t] \in {0, 1}
      /\ low \in [Threads -> 0 .. MaxHold] /\ irr_held \in [Threads -> 0 .. MaxHold]
      /\ pc \in [Threads -> Waits] /\ arg \in [Threads -> Flags] /\ MaxHold \in Nat /\ MaxHold >= 2
  <2>1. at[t] = "idle" /\ t \in Decoders /\ UNCHANGED speedVars /\ pc[t] = "run"
    BY DEF Decode, At, Running
  <2>2. t \notin Apps
    BY <2>1, KnownOf
  <2>3. irr_held[t] = 0 /\ low[t] <= 1 /\ low[t] \in Nat
    BY <2>2, KnownOf DEF Use
  <2>4. low[t] \in {0, 1}
    BY <2>3
  <2> QED
    BY <2>1, <2>2, <2>3, <2>4, KnownOf DEF Core, Types
<1>1. /\ at'[t] = "idle" /\ "idle" \notin Inside /\ (Stopping(t)' <=> Stopping(t)) /\ ~ Stopping(t)
  BY <1>0, OutsideIs DEF speedVars, callVars, Stopping, Inside
<1>2. ASSUME NEW irr \in BOOLEAN, ~ irr, low[t] = 0, Acquire(t, irr)
      PROVE  Step(t) /\ Use(t)'
  <2>1. Step(t)
    BY <1>0, <1>2 DEF Step, MayAcquire
  <2>2. low'[t] = 1
    BY <1>0, <1>2 DEF Acquire
  <2>3. irr_held'[t] = 0 /\ (pc'[t] = "run" \/ (pc'[t] = "acquire" /\ arg'[t] = Plain))
    BY <1>0, <1>2 DEF Acquire, Grant, threadVars, B2N
  <2> QED
    BY <1>0, <1>1, <2>1, <2>2, <2>3 DEF Use
<1>3. ASSUME NEW irr \in BOOLEAN, ~ irr, Release(t, irr)
      PROVE  Step(t) /\ Use(t)'
  <2>1. Step(t)
    BY <1>0, <1>3 DEF Step, MayRelease, Release
  <2>2. low'[t] = 0
    BY <1>0, <1>3 DEF Release
  <2>3. irr_held'[t] = 0 /\ pc'[t] = "run"
    <3>1. irr_held'[t] = irr_held[t] - B2N(irr) /\ pc'[t] = "run"
      BY <1>0, <1>3, Zenon DEF Release, threadVars
    <3>2. B2N(irr) = 0
      BY <1>3 DEF B2N
    <3>3. 0 - 0 = 0
      OBVIOUS
    <3> QED
      BY <1>0, <3>1, <3>2, <3>3, Zenon
  <2> QED
    BY <1>0, <1>1, <2>1, <2>2, <2>3 DEF Use
<1>4. ASSUME NEW f \in {Plain, Irrevocable, Rewire}, low[t] > 0, Renew(t, f)
      PROVE  Step(t) /\ Use(t)'
  <2>1. Step(t)
    BY <1>0, <1>4 DEF Step, MayRenew
  <2>2. RenewHolder(t, f)
    BY <1>4 DEF Renew, Found
  <2>3. low'[t] = low[t] /\ irr_held'[t] = 0 /\ pc'[t] \in {"run", "renew"}
    BY <1>0, <2>2 DEF RenewHolder, threadVars
  <2> QED
    BY <1>0, <1>1, <2>1, <2>3 DEF Use
<1>5. \/ \E irr \in BOOLEAN : ~ irr /\ low[t] = 0 /\ Acquire(t, irr)
      \/ \E irr \in BOOLEAN : ~ irr /\ Release(t, irr)
      \/ \E f \in {Plain, Irrevocable, Rewire} : low[t] > 0 /\ Renew(t, f)
  BY Zenon DEF Decode
<1> QED
  BY <1>2, <1>3, <1>4, <1>5

\* A thread that waited in the ticket goes on, or sleeps again.
LEMMA WakeUse ==
    ASSUME Known, NEW t \in Threads, SpeedWake(t)
    PROVE  Wake(t) /\ Use(t)'
<1>0. /\ UNCHANGED callVars /\ Use(t) /\ Wake(t) /\ Entry(t) /\ "run" # "acquire"
      /\ pc \in [Threads -> Waits] /\ arg \in [Threads -> Flags] /\ irr_held \in [Threads -> 0 .. MaxHold]
  BY KnownOf DEF SpeedWake, speedVars, Core, Types, Entries
<1>1. at'[t] = at[t] /\ Held(t)' = Held(t) /\ (Stopping(t)' <=> Stopping(t)) /\ doing'[t] = doing[t] /\ low' = low
  BY <1>0 DEF callVars, Stopping, Held, Wake, AcquireWake, RenewWake, RevokeWake, entryVars
<1>2. CASE AcquireWake(t)
  <2>0. pc[t] = "acquire" /\ low[t] = 1 /\ irr_held[t] = 0
    BY <1>0, <1>2 DEF AcquireWake, Entry
  <2>1. CASE UNCHANGED <<grantVars, irr_held, threadVars>>
    BY <1>0, <1>1, <2>1 DEF Use, threadVars
  <2>2. CASE t \in Apps /\ pc' = [pc EXCEPT ![t] = "run"]
    <3>1. arg[t] = Irrevocable
      BY <1>0, <2>0, <2>2 DEF Use
    <3>2. irr_held'[t] = 1 /\ pc'[t] = "run"
      BY <1>0, <1>2, <2>0, <2>2, <3>1 DEF AcquireWake, Grant, B2N, threadVars
    <3> QED
      BY <1>0, <1>1, <2>0, <2>2, <3>2 DEF Use
  <2>3. CASE t \notin Apps /\ pc' = [pc EXCEPT ![t] = "run"]
    <3>1. arg[t] = Plain
      BY <1>0, <2>0, <2>3 DEF Use
    <3>2. irr_held'[t] = 0 /\ pc'[t] = "run"
      BY <1>0, <1>2, <2>0, <2>3, <3>1 DEF AcquireWake, Grant, B2N, threadVars, Plain, Irrevocable
    <3> QED
      BY <1>0, <1>1, <2>0, <2>3, <3>2 DEF Use
  <2> QED
    BY <1>2, <2>1, <2>2, <2>3 DEF AcquireWake
<1>3. CASE RenewWake(t) \/ RevokeWake(t)
  <2>1. irr_held' = irr_held /\ pc[t] # "acquire" 
        /\ \/ pc'[t] = pc[t] /\ arg'[t] = arg[t]
           \/ pc'[t] = "run"
    BY <1>0, <1>3 DEF RenewWake, RevokeWake, entryVars, threadVars
  <2> QED
    BY <1>0, <1>1, <2>1 DEF Use
<1> QED
  BY <1>0, <1>2, <1>3 DEF Wake

\* A step of speed control is a step of the ticket or leaves it alone, and
\* goes on using it as expected.
LEMMA NextUse ==
    ASSUME Known, [SpeedNext]_allVars
    PROVE  [Next]_vars /\ Uses'
<1>1. CASE UNCHANGED allVars
  <2>1. UNCHANGED vars /\ UNCHANGED <<low, irr_held, pc, arg>> /\ UNCHANGED <<at, doing, back>>
    BY <1>1 DEF allVars, vars, entryVars, threadVars, speedVars, callVars
  <2>2. ASSUME NEW u \in Threads PROVE Use(u)'
    BY <2>1, KnownOf DEF Use, Held, Stopping
  <2> QED
    BY <2>1, <2>2 DEF Uses
<1>2. ASSUME NEW t \in Threads, GoOn(t) \/ Ask(t) \/ Decode(t),
             Step(t) \/ Wake(t) \/ UNCHANGED vars, Use(t)'
      PROVE  [Next]_vars /\ Uses'
  <2>1. [Next]_vars
    BY <1>2 DEF Next
  <2>2. ASSUME NEW u \in Threads PROVE Use(u)'
    BY <1>2, OthersUse
  <2> QED
    BY <2>1, <2>2 DEF Uses
<1> SUFFICES ASSUME SpeedNext PROVE [Next]_vars /\ Uses'
  BY <1>1
<1>3. PICK t \in Threads : GoOn(t) \/ Ask(t) \/ Decode(t)
  BY DEF SpeedNext
<1>4. t \notin Rewirers /\ at[t] \notin {"rewire", "rewired"}
  BY KnownOf DEF Shape, Calls, Entitled
<1>5. ~ RewireBegin(t) /\ ~ RewirePause(t) /\ ~ RewireEnd(t)
  BY <1>4 DEF RewireBegin, RewirePause, RewireEnd, At
<1>6. (Step(t) \/ Wake(t) \/ UNCHANGED vars) /\ Use(t)'
  <2>1. CASE SetSpeedInternal(t)
    BY <2>1, InsideUse
  <2>2. CASE SetSpeed(t) \/ NbcSetSpeed(t) \/ NbcLive(t) \/ NbcAgain(t)
    BY <2>2, FineUse
  <2>3. CASE Changed(t)
    BY <2>3, ChangedUse
  <2>4. CASE \E wait \in BOOLEAN : LockRun(t, wait)
    BY <2>4, LockRunUse
  <2>5. CASE EnterStop(t) \/ LeaveStop(t) \/ UnlockRun(t) \/ LockRunWake(t) \/ StopInternal(t)
    BY <2>5, StopUse
  <2>6. CASE SpeedWake(t)
    BY <2>6, WakeUse
  <2>7. CASE Decode(t)
    BY <2>7, DecodeUse
  <2> QED
    BY <1>3, <1>5, <2>1, <2>2, <2>3, <2>4, <2>5, <2>6, <2>7 DEF GoOn, Ask
<1> QED
  BY <1>1, <1>2, <1>3, <1>6

\* Nobody has a ticket at first.
LEMMA InitUse == SpeedInit => Init /\ Uses
<1> SUFFICES ASSUME SpeedInit PROVE Init /\ Uses
  OBVIOUS
<1>1. Init
  BY DEF SpeedInit
<1>2. ASSUME NEW t \in Threads PROVE Use(t)
  <2>1. at[t] = "idle" /\ back[t] = <<>> /\ pc[t] = "run" /\ low[t] = 0 /\ irr_held[t] = 0
    BY <1>1 DEF SpeedInit, Init
  <2>2. ~ Stopping(t)
    BY <2>1, PlainStacks DEF Stopping
  <2>3. Held(t) = 0
    BY <2>1, <2>2 DEF Held
  <2> QED
    BY <2>1, <2>2, <2>3 DEF Use
<1> QED
  BY <1>1, <1>2 DEF Uses

\* At every step what is known stays known.
THEOREM KnownHolds ==
    ASSUME Orderly
    PROVE  SpeedSpec => []Known
<1>1. SpeedInit => SafeInv /\ Uses
  BY InitUse, InitSafe
<1>2. SpeedInv /\ Plainly /\ SafeInv /\ Uses /\ [SpeedNext]_allVars => SafeInv' /\ Uses'
  <2> SUFFICES ASSUME SpeedInv, Plainly, SafeInv, Uses, [SpeedNext]_allVars
               PROVE  SafeInv' /\ Uses'
    OBVIOUS
  <2>1. [Next]_vars /\ Uses'
    BY NextUse DEF Known
  <2>2. SafeInv'
    BY <2>1, NextSafe DEF Orderly
  <2> QED
    BY <2>1, <2>2
<1>3. SpeedInv /\ Plainly /\ SafeInv /\ Uses => Known
  BY DEF Known
<1>4. SpeedSpec => []SpeedInv
  BY SpeedInvHolds DEF Orderly
<1>5. SpeedSpec => []Plainly
  BY PlainlyHolds DEF Orderly
<1> QED
  BY <1>1, <1>2, <1>3, <1>4, <1>5, PTL DEF SpeedSpec

\* Speed control implements the use of the ticket: whoever changes the speed,
\* pauses or stops calls acquire, release, revoke and issue only where
\* PortTicket lets its callers do so, in pairs and by the thread that may.
THEOREM TicketUsedWell ==
    ASSUME Orderly
    PROVE  SpeedSpec => Spec
<1>1. SpeedInit => Init
  BY InitUse
<1>2. Known /\ [SpeedNext]_allVars => [Next]_vars
  BY NextUse
<1> QED
  BY <1>1, <1>2, KnownHolds, PTL DEF SpeedSpec, Spec

\* Whoever waits in revoke has a holder to wait for that can still give its
\* ticket back, so that no pause waits for itself.
THEOREM RevokerHasHolderHolds ==
    ASSUME Orderly
    PROVE  SpeedSpec => []RevokerHasHolder
<1>1. Known => RevokerHasHolder
  <2> SUFFICES ASSUME Known, NEW t \in asleep_revoked
               PROVE  \/ \E u \in Threads : u # t /\ low[u] > 0 /\ pc[u] \notin {"acquire", "renew"}
                      \/ rewirers > 0 /\ plain_renewers > 0
                      \/ atomic_revokers > 0
    BY DEF RevokerHasHolder
  <2>1. Core /\ RevokeWaits(tickets_granted, rewirers) /\ t \in Threads /\ pc[t] = "revoke"
    BY DEF Known, SafeInv, RevokedAsleep, Core, Sleepers, Types
  <2>2. CASE tickets_granted > 0
    <3>1. PICK u \in Threads : Granted(u) # 0
      <4> SUFFICES ASSUME \A u \in Threads : Granted(u) = 0 PROVE FALSE
        OBVIOUS
      <4>1. \A u \in Threads : Grants[u] = 0
        BY DEF Grants
      <4>2. Grants \in [Threads -> Int] /\ IsFiniteSet(Threads)
        BY <2>1, GrantsNat, TicketAssumption DEF Core
      <4>3. SumFunction(Grants) = 0
        BY <4>1, <4>2, SumOfZero
      <4> QED
        BY <2>1, <2>2, <4>3 DEF Core, Counts
    <3>2. low[u] # 0 /\ low[u] \in Nat /\ pc[u] \notin {"acquire", "renew"}
      BY <3>1, KnownOf DEF Granted
    <3>3. u # t
      <4>1. at[t] = "clock off" /\ t \in Apps
        BY <2>1, KnownOf DEF Use
      <4>2. doing[t] = 0 /\ at[t] \in Inside /\ at[t] # "tell audio"
        BY <2>1, <4>1, KnownOf DEF Shape, Calls, Argument, Inside
      <4>3. ~ Stopping(t)
        BY <2>1, <4>2, KnownOf DEF Use
      <4>4. low[t] = 0
        BY <2>1, <4>1, <4>2, <4>3, KnownOf, HeldIs DEF Use
      <4> QED
        BY <3>2, <4>4
    <3> QED
      BY <3>2, <3>3
  <2>3. CASE ~ (tickets_granted > 0)
    BY <2>1, <2>3 DEF RevokeWaits
  <2> QED
    BY <2>2, <2>3
<1> QED
  BY <1>1, KnownHolds, PTL
=============================================================================
