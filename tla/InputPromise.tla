----------------------------- MODULE InputPromise -----------------------------
(***************************************************************************)
(* What input_plugin.h promises of a plugin, and so of the cache in front   *)
(* of it: a position in a sequence of bytes, reads that return the bytes    *)
(* from there on, and seeks.  A byte is its place in the input.             *)
(***************************************************************************)
EXTENDS Integers, Sequences, SequencesExt

CONSTANTS Length,   \* bytes of the input
          MaxRead   \* the largest read

VARIABLES at,       \* the position
          asked,    \* the last call, as <<name, number>>
          answer    \* what it returned: bytes, or a position as the only
                    \* element of a sequence, or Failed

Failed == <<-1>>

Bytes(from, n) == [i \in 1 .. n |-> from + i - 1]

Init == at = 0 /\ asked = <<"open", 0>> /\ answer = <<>>

\* "read nlen bytes, return number of bytes read"; less only at the end.
Read(n) ==
    /\ asked' = <<"read", n>>
    /\ at' = IF at + n <= Length THEN at + n ELSE Length
    /\ answer' = Bytes(at, at' - at)

\* "read one block": it may have less.
ReadBlock(n) ==
    /\ asked' = <<"block", n>>
    /\ \E k \in 0 .. n :
        /\ at + k <= Length
        /\ at' = at + k
        /\ answer' = Bytes(at, k)

\* "seek position, return new position": the one asked for, from the start or
\* from where the position is.
Seek(whence, offset) ==
    LET position == IF whence = "cur" THEN at + offset ELSE offset IN
    /\ position \in 0 .. Length
    /\ asked' = <<whence, offset>>
    /\ at' = position
    /\ answer' = <<position>>

\* From the end, and in time, to a place the plugin knows.
SeekElsewhere(position) ==
    /\ asked' = <<"elsewhere", 0>>
    /\ at' = position
    /\ answer' = <<position>>

\* A read or seek that fails may have consumed input.
Fail ==
    /\ asked'[1] \notin {"open", "tell"}
    /\ at' \in at .. Length
    /\ answer' = Failed

Tell == asked' = <<"tell", 0>> /\ answer' = <<at>> /\ UNCHANGED at

Next ==
    \/ \E n \in 1 .. MaxRead : Read(n) \/ ReadBlock(n)
    \/ \E offset \in -MaxRead .. Length : Seek("set", offset) \/ Seek("cur", offset)
    \/ \E position \in 0 .. Length : SeekElsewhere(position)
    \/ Fail
    \/ Tell
=============================================================================
