-------------------------------- MODULE MCPool --------------------------------
(***************************************************************************)
(* BufferPool with capacity, largest request, growth and reserve as the     *)
(* code's integer divisions give them, in three parts of one run: with one  *)
(* thread that waits; with several, for requests of one element; and        *)
(* without soft start, with longer growth.                                  *)
(***************************************************************************)
EXTENDS BufferPool

CONSTANT Waiters   \* the threads that may wait in the parts with larger chunks

VARIABLE part

Small == INSTANCE BufferPool WITH AllocLimit <- 1, GrowLimit <- 0

Plain == INSTANCE BufferPool WITH SoftStart <- 0, GrowLimit <- AllocLimit

\* Bound.
OnlyWaiters == \A t \in Threads \ Waiters : ~ Waiting(t)'

MCInit == part \in {"full", "small", "plain"} /\ Init

MCNext ==
    /\ \/ part = "full" /\ Next /\ OnlyWaiters
       \/ part = "small" /\ Small!Next
       \/ part = "plain" /\ Plain!Next /\ OnlyWaiters
    /\ UNCHANGED part

MCSpec == MCInit /\ [][MCNext]_<<part, vars>> /\ Fairness

-----------------------------------------------------------------------------
\* BufferPool's Served, with Modest as each part's reserve gives it: all that
\* wait in a pool without soft start are served.
PoolServes ==
    Quiet /\ <>[](part = "plain" \/ Modest) => <>[](\A t \in Threads : ~ Waiting(t))
=============================================================================
