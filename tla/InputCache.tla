------------------------------ MODULE InputCache ------------------------------
(***************************************************************************)
(* The input cache (input_cache.c): a window of buf_len bytes read ahead    *)
(* from the main input plugin, of which buf_pos are used up.  The thread    *)
(* that demuxes is its only user.  The main plugin is any that keeps        *)
(* InputPromise: it may deliver what it is asked for in any pieces, end,    *)
(* and fail.  Left out: times in milliseconds, capabilities, clones.        *)
(***************************************************************************)
EXTENDS Integers, Sequences, SequencesExt, FiniteSetsExt

CONSTANTS Length,    \* bytes of the input
          BufSize,   \* buf_size
          MaxRead    \* bound: the largest read; offsets are as large

VARIABLES
    main,      \* the position of the main plugin
    buf,       \* the window
    buf_pos,
    asked,     \* history: the last call, as <<name, number>>
    answer     \* history: what it returned

vars == <<main, buf, buf_pos, asked, answer>>

buf_len == Len(buf)

Rest == buf_len - buf_pos

Window(from, n) == SubSeq(buf, from + 1, from + n)

\* Bytes the main plugin delivers from its position on.
Input(n) == [i \in 1 .. n |-> main + i - 1]

Least(a, b) == IF a < b THEN a ELSE b

Failed == <<-1>>

Init ==
    /\ main = 0
    /\ buf = <<>> /\ buf_pos = 0
    /\ asked = <<"open", 0>> /\ answer = <<>>

-----------------------------------------------------------------------------
\* All bytes are in the window.
ReadInside(n) ==
    /\ n <= Rest
    /\ answer' = Window(buf_pos, n)
    /\ buf_pos' = buf_pos + n
    /\ UNCHANGED <<main, buf>>

\* What is to be read behind the window.
Missing(n) == n - Rest

\* "readahead bytes": pieces until there is enough, at most a window full.
ReadAhead(n) ==
    LET todo == Missing(n) IN
    /\ n > Rest /\ todo < BufSize
    /\ \E got \in 0 .. Least(BufSize, Length - main) :
        /\ got >= todo \/ main + got = Length
        /\ answer' = Window(buf_pos, Rest) \o SubSeq(Input(got), 1, Least(todo, got))
        /\ buf' = Input(got)
        /\ buf_pos' = Least(todo, got)
        /\ main' = main + got

\* An error of the main plugin is returned, whatever was copied before.
ReadAheadFails(n) ==
    LET todo == Missing(n) IN
    /\ n > Rest /\ todo < BufSize
    /\ \E got \in 0 .. Least(todo - 1, Length - main) :
        /\ buf' = Input(got)
        /\ main' = main + got
    /\ buf_pos' = 0
    /\ answer' = Failed

\* "direct read" of what the window cannot hold.
ReadDirect(n) ==
    LET got == Least(Missing(n), Length - main) IN
    /\ n > Rest /\ Missing(n) >= BufSize
    /\ answer' = Window(buf_pos, Rest) \o Input(got)
    /\ buf' = <<>> /\ buf_pos' = 0
    /\ main' = main + got

ReadDirectFails(n) ==
    /\ n > Rest /\ Missing(n) >= BufSize
    /\ \E got \in 0 .. Least(Missing(n) - 1, Length - main) : main' = main + got
    /\ buf' = <<>> /\ buf_pos' = 0
    /\ answer' = Failed

\* cache_plugin_read
Read(n) == \/ ReadInside(n)
           \/ ReadAhead(n) \/ ReadAheadFails(n)
           \/ ReadDirect(n) \/ ReadDirectFails(n)

\* cache_plugin_read_block: "the demuxer mixes read and read_block".
ReadBlock(n) ==
    /\ asked' = <<"block", n>>
    /\ \/ Rest > 0 /\ Read(n)
       \/ /\ Rest <= 0
          /\ \E got \in 0 .. Least(n, Length - main) :
                answer' = Input(got) /\ main' = main + got
          /\ UNCHANGED <<buf, buf_pos>>

-----------------------------------------------------------------------------
\* seek of the main plugin to a position, which may be outside of the input.
\* The window is given up before anybody looks at the outcome.
MainSeek(position) ==
    /\ \/ position \in 0 .. Length /\ main' = position /\ answer' = <<position>>
       \/ main' = main /\ answer' = Failed
    /\ buf' = <<>> /\ buf_pos' = 0

\* The position of the cache: that of the main plugin, less what is left.
Position == IF Rest <= main THEN main - Rest ELSE 0

\* Negative control: the main plugin is ahead by what the window still has.
SkippedBy_Main(offset) == main + offset

\* A relative seek of the main plugin: "offset - (buf_len - buf_pos)".
SkippedBy(offset) == main + offset - Rest

\* The place in the window that is sought, and whether it is there.
Seek(newPos, position) ==
    IF buf_len > 0 /\ newPos >= 0 /\ newPos < buf_len
    THEN /\ buf_pos' = newPos
         /\ answer' = <<Position + newPos - buf_pos>>
         /\ UNCHANGED <<main, buf>>
    ELSE MainSeek(position)

SeekSet(offset) ==
    asked' = <<"set", offset>> /\ Seek(buf_pos + offset - Position, offset)

SeekCur(offset) ==
    asked' = <<"cur", offset>> /\ Seek(buf_pos + offset, SkippedBy(offset))

\* "invalid origin - main input should know better": SEEK_END; and
\* cache_plugin_seek_time.
SeekElsewhere(position) == asked' = <<"elsewhere", 0>> /\ MainSeek(position)

\* cache_plugin_get_current_pos
Tell ==
    /\ asked' = <<"tell", 0>> /\ answer' = <<Position>>
    /\ UNCHANGED <<main, buf, buf_pos>>

Offsets == -MaxRead .. MaxRead

Next ==
    \/ \E n \in 1 .. MaxRead : (asked' = <<"read", n>> /\ Read(n)) \/ ReadBlock(n)
    \/ \E offset \in 0 .. Length + 1 : SeekSet(offset)
    \/ \E offset \in Offsets : SeekCur(offset)
    \/ \E position \in 0 .. Length : SeekElsewhere(position)
    \/ Tell

Spec == Init /\ [][Next]_vars

-----------------------------------------------------------------------------
\* ReadBlock passes a window that is used up, and leaves it there: then it is
\* not what comes before the position of the main plugin.
Stale == buf # [i \in 1 .. buf_len |-> main - buf_len + i - 1]

Promise == INSTANCE InputPromise WITH at <- main - Rest

\* "read nlen bytes", "seek position, return new position" (input_plugin.h):
\* the bytes of the cache are those of its plugin, in order, and its position
\* is where the next byte comes from, however reads, blocks and seeks mix.
InputKept == Promise!Init /\ [][Promise!Next]_<<main - Rest, asked, answer>>

=============================================================================
