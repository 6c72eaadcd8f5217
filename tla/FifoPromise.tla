----------------------------- MODULE FifoPromise -----------------------------
(***************************************************************************)
(* What a fifo_buffer_t promises to the demuxer and to the decoders that    *)
(* get from it, in terms of the data alone.  The data of one buffer element *)
(* or one control buffer is an item <<stamp, is it control>>; stamps tell   *)
(* in which order the items were put.  FifoQueue implements this with       *)
(* chunks of pool memory that are queued, merged and given back.            *)
(***************************************************************************)
EXTENDS Naturals, Sequences

CONSTANT Getters      \* the threads that get from the fifo

VARIABLES items,      \* what is in the fifo, in order
          hand,       \* hand[g]: what g got last and still uses
          sent        \* stamps given out so far

promiseVars == <<items, hand, sent>>

IsControl(i) == i[2]

Fresh(k, ctrl) == [i \in 1 .. k |-> <<sent + i, ctrl>>]

\* A buffer of k items goes to the end, at once and in order.
PromisedPut ==
    \E k \in 1 .. 3, ctrl \in BOOLEAN :
        /\ sent' = sent + k
        /\ items' = items \o Fresh(k, ctrl)
        /\ UNCHANGED hand

\* Control buffers of the video output and of input plugins overtake.
PromisedInsert ==
    /\ sent' = sent + 1
    /\ items' = Fresh(1, TRUE) \o items
    /\ UNCHANGED hand

\* A getter receives a part from the front.
PromisedGet(g) ==
    /\ sent' = sent
    /\ hand[g] = <<>>
    /\ \E k \in 1 .. Len(items) :
        /\ hand' = [hand EXCEPT ![g] = SubSeq(items, 1, k)]
        /\ items' = SubSeq(items, k + 1, Len(items))

\* The getter is done with the buffer; nobody else disturbs its contents.
PromisedRelease(g) ==
    /\ sent' = sent
    /\ hand[g] # <<>>
    /\ hand' = [hand EXCEPT ![g] = <<>>]
    /\ UNCHANGED items

\* clear drops the data and keeps the control buffers, in their order.
PromisedClear ==
    /\ items' = SelectSeq(items, IsControl)
    /\ UNCHANGED <<hand, sent>>

PromiseInit ==
    /\ items = <<>>
    /\ hand = [g \in Getters |-> <<>>]
    /\ sent = 0

PromiseNext ==
    \/ PromisedPut
    \/ PromisedInsert
    \/ \E g \in Getters : PromisedGet(g) \/ PromisedRelease(g)
    \/ PromisedClear

PromiseSpec == PromiseInit /\ [][PromiseNext]_promiseVars
=============================================================================
