------------------------------- MODULE PostUse -------------------------------
(***************************************************************************)
(* Use counts of post plugin ports, and the deferred dispose (post.c).  A   *)
(* port is used by the stream or the port that is wired to it, and by every *)
(* frame it has an alias of.  Whoever drops the last use of a plugin that   *)
(* was disposed meanwhile disposes of it, which drops uses further down.    *)
(* Sections under usage_lock are single actions.  Decoders stand still      *)
(* while an application rewires, but may then be inside get_frame.          *)
(* Left out: open and close of a port, since it is used by its wire all the *)
(* time in between, and ports of the outputs, which are not counted.        *)
(***************************************************************************)
EXTENDS Integers, Sequences, FiniteSets, FiniteSetsExt

CONSTANTS Plugins,     \* a plugin is the set of its input ports
          Streams,     \* their decoder threads
          App, Renderer, \* the application, and the thread that shows frames
          Output,      \* the port of an output driver
          MaxAliases   \* bound: aliases of a port

Ports == UNION Plugins
Threads == Streams \cup {App, Renderer}
PluginOf(p) == CHOOSE plugin \in Plugins : p \in plugin

VARIABLES
    usage,     \* usage_count of a port
    below,     \* original_port of a port
    top,       \* the video_out of a stream
    aliases,   \* aliases of a port
    inside,    \* ports whose get_frame a decoder is inside, the lowest first
    returning, \* decoders that have the frame of the output
    pending,   \* plugins with dispose_pending
    disposed,  \* plugins the application has disposed of
    freed,     \* ports that were freed
    rewiring,  \* has the application revoked the ticket?
    old,       \* the port it rewires from, or Output
    stack      \* the dispose calls of a thread, the innermost first

useVars == <<usage, aliases>>
wireVars == <<below, top, rewiring, old>>
frameVars == <<inside, returning>>
vars == <<useVars, wireVars, frameVars, pending, disposed, freed, stack>>

Init ==
    /\ usage = [p \in Ports |-> 0] /\ aliases = [p \in Ports |-> 0]
    /\ below = [p \in Ports |-> Output] /\ top = [s \in Streams |-> Output]
    /\ rewiring = FALSE /\ old = Output
    /\ inside = [s \in Streams |-> <<>>] /\ returning = {}
    /\ pending = {} /\ disposed = {} /\ freed = {}
    /\ stack = [t \in Threads |-> <<>>]

\* Negative control: the new port gets no use of its own.
Used_Not(p) == usage' = usage

\* post_video_port_ref
Used(p) == usage' = [q \in Ports |-> IF q = p THEN usage[q] + 1 ELSE usage[q]]

Call(plugin) == [plugin |-> plugin, freeing |-> FALSE, left |-> plugin]

\* post_video_port_unref and _x_post_dec_usage, after which t goes on with
\* its calls: the last use of a plugin that is disposed disposes of it.
Unused(t, p, calls) ==
    /\ usage' = [q \in Ports |-> IF q = p THEN usage[q] - 1 ELSE usage[q]]
    /\ stack' = [stack EXCEPT ![t] =
                   IF p # Output /\ usage[p] = 1 /\ PluginOf(p) \in pending
                   THEN <<Call(PluginOf(p))>> \o calls ELSE calls]

Idle(t) == stack[t] = <<>>

-----------------------------------------------------------------------------
(* Decoders and the render thread *)

\* The ports a call at port p goes through, the lowest first.
Chain[p \in Ports \cup {Output}] ==
    IF p = Output THEN <<>> ELSE Append(Chain[below[p]], p)

Through(s) == {Chain[top[s]][i] : i \in DOMAIN Chain[top[s]]}

\* post_video_get_frame down to the output: every port on the way is used "to
\* protect it from possible port rewiring inside get_frame ()".
GetFrame(s) ==
    /\ Idle(s) /\ ~rewiring /\ inside[s] = <<>> /\ top[s] # Output
    /\ \A p \in Through(s) : aliases[p] < MaxAliases
    /\ inside' = [inside EXCEPT ![s] = Chain[top[s]]]
    /\ aliases' = [p \in Ports |-> aliases[p] + IF p \in Through(s) THEN 1 ELSE 0]
    /\ usage' = [p \in Ports |-> usage[p] + IF p \in Through(s) THEN 1 ELSE 0]
    /\ UNCHANGED <<wireVars, returning, pending, disposed, freed, stack>>

\* The output's get_frame returns; no rewiring is possible from now on.
GotFrame(s) ==
    /\ inside[s] # <<>> /\ s \notin returning /\ ~rewiring
    /\ returning' = returning \cup {s}
    /\ UNCHANGED <<useVars, wireVars, inside, pending, disposed, freed, stack>>

Leave(s) ==
    /\ inside' = [inside EXCEPT ![s] = Tail(@)]
    /\ returning' = IF Len(inside[s]) = 1 THEN returning \ {s} ELSE returning

\* The frame is intercepted: its alias stays.
Intercept(s) ==
    /\ Idle(s) /\ s \in returning
    /\ Leave(s)
    /\ UNCHANGED <<useVars, wireVars, pending, disposed, freed, stack>>

\* An alias is given back.
Restore(t, p) ==
    /\ aliases' = [aliases EXCEPT ![p] = @ - 1]
    /\ Unused(t, p, <<>>)

\* post_free_unused_video_alias
FreeUnused(s) ==
    /\ Idle(s) /\ s \in returning
    /\ Restore(s, Head(inside[s]))
    /\ Leave(s)
    /\ UNCHANGED <<wireVars, pending, disposed, freed>>

\* Aliases of frames, which are not those of decoders inside get_frame.
Shown(p) == aliases[p] - Quantify(Streams, LAMBDA s : \E i \in DOMAIN inside[s] : inside[s][i] = p)

\* post_frame_free of the last reference, by a decoder or the render thread.
FreeFrame(t, p) ==
    /\ Idle(t) /\ t # App
    /\ t # Renderer => inside[t] = <<>> /\ ~rewiring
    /\ Shown(p) > 0
    /\ Restore(t, p)
    /\ UNCHANGED <<wireVars, frameVars, pending, disposed, freed>>

-----------------------------------------------------------------------------
(* The application *)

\* The application rewires to what it has not disposed of.
Live == {p \in Ports : PluginOf(p) \notin disposed} \cup {Output}

\* The ticket is revoked: decoders wait outside, or in the output's get_frame.
Still == ~rewiring /\ returning = {} /\ \A s \in Streams : Idle(s)

\* stream_rewire_video: the new port is used before the old one is left.
RewireStream(s, new) ==
    /\ Idle(App) /\ Still
    /\ new \in Live \ {top[s]}
    /\ Used(new)
    /\ top' = [top EXCEPT ![s] = new]
    /\ rewiring' = TRUE /\ old' = top[s]
    /\ UNCHANGED <<below, aliases, frameVars, pending, disposed, freed, stack>>

\* post_video_rewire, without loops.  original_port is written after the old
\* port is left, but nobody reads it in between.
RewirePort(p, new) ==
    /\ Idle(App) /\ Still
    /\ p \in Live /\ new \in Live \ {below[p]}
    /\ p \notin {Chain[new][i] : i \in DOMAIN Chain[new]}
    /\ Used(new)
    /\ below' = [below EXCEPT ![p] = new]
    /\ rewiring' = TRUE /\ old' = below[p]
    /\ UNCHANGED <<top, aliases, frameVars, pending, disposed, freed, stack>>

\* The old port is left, and the ticket issued after that.
LeaveOld ==
    /\ Idle(App) /\ old # Output
    /\ Unused(App, old, <<>>)
    /\ old' = Output
    /\ UNCHANGED <<below, top, rewiring, aliases, frameVars, pending, disposed, freed>>

Issue ==
    /\ Idle(App) /\ rewiring /\ old = Output
    /\ rewiring' = FALSE
    /\ UNCHANGED <<useVars, below, top, old, frameVars, pending, disposed, freed, stack>>

\* xine_post_dispose
Dispose(plugin) ==
    /\ Idle(App) /\ ~rewiring /\ plugin \notin disposed
    /\ disposed' = disposed \cup {plugin}
    /\ stack' = [stack EXCEPT ![App] = <<Call(plugin)>>]
    /\ UNCHANGED <<useVars, wireVars, frameVars, pending, freed>>

-----------------------------------------------------------------------------
(* _x_post_dispose *)

Remember(plugin) == pending \cup {plugin}

InUse(plugin) == MapThenSumSet(LAMBDA p : usage[p], plugin)

\* "acquire all usage locks, and check counters".
CheckUse(t) ==
    /\ ~Idle(t) /\ ~Head(stack[t]).freeing
    /\ LET plugin == Head(stack[t]).plugin IN
        /\ pending' = Remember(plugin)
        /\ stack' = [stack EXCEPT ![t] =
                       IF InUse(plugin) > 0 THEN Tail(@)
                       ELSE <<[Head(@) EXCEPT !.freeing = TRUE]>> \o Tail(@)]
    /\ UNCHANGED <<useVars, wireVars, frameVars, disposed, freed>>

\* An input port is freed, and does not use the port below it any more.
FreePort(t, p) ==
    /\ ~Idle(t) /\ Head(stack[t]).freeing /\ p \in Head(stack[t]).left
    /\ freed' = freed \cup {p}
    /\ below' = [below EXCEPT ![p] = Output]
    /\ Unused(t, below[p], <<[Head(stack[t]) EXCEPT !.left = @ \ {p}]>> \o Tail(stack[t]))
    /\ UNCHANGED <<aliases, top, rewiring, old, frameVars, pending, disposed>>

DisposeEnds(t) ==
    /\ ~Idle(t) /\ Head(stack[t]).left = {}
    /\ stack' = [stack EXCEPT ![t] = Tail(@)]
    /\ UNCHANGED <<useVars, wireVars, frameVars, pending, disposed, freed>>

-----------------------------------------------------------------------------
Next ==
    \/ \E s \in Streams : GetFrame(s) \/ GotFrame(s) \/ Intercept(s) \/ FreeUnused(s)
    \/ \E t \in Threads, p \in Ports : FreeFrame(t, p)
    \/ \E s \in Streams, new \in Ports \cup {Output} : RewireStream(s, new)
    \/ \E p \in Ports, new \in Ports \cup {Output} : RewirePort(p, new)
    \/ LeaveOld \/ Issue
    \/ \E plugin \in Plugins : Dispose(plugin)
    \/ \E t \in Threads : CheckUse(t) \/ DisposeEnds(t)
    \/ \E t \in Threads, p \in Ports : FreePort(t, p)

Spec == Init /\ [][Next]_vars

-----------------------------------------------------------------------------
B2N(b) == IF b THEN 1 ELSE 0

\* "usage counter: how many objects are floating around that need this port to
\* exist": wires from streams and ports above, aliases, and the wire that is
\* being taken away.
Needed(p) ==
    Quantify(Streams, LAMBDA s : top[s] = p) + Quantify(Ports, LAMBDA q : below[q] = p)
        + aliases[p] + B2N(old = p)

Unneeded(plugin) == \A p \in plugin : Needed(p) = 0

\* The calls of _x_post_dispose for a plugin that are under way.
Calls(plugin) ==
    {c \in Threads \X (1 .. 1 + Cardinality(Plugins)) :
        c[2] \in DOMAIN stack[c[1]] /\ stack[c[1]][c[2]].plugin = plugin}

Freeing(plugin) ==
    \/ plugin \cap freed # {}
    \/ \E c \in Calls(plugin) : stack[c[1]][c[2]].freeing

\* "This prevents nasty writes after free with live filter chain editors": a
\* plugin that is freed is needed no more, and nobody else disposes of it.
NoUseAfterFree ==
    \A plugin \in Plugins : Freeing(plugin) =>
        /\ Unneeded(plugin)
        /\ Cardinality(Calls(plugin)) <= 1
        /\ \A c \in Calls(plugin) : stack[c[1]][c[2]].freeing

\* "post plugins can delay their disposal if they are still in use": when the
\* last use goes, somebody disposes of the plugin, in whichever order uses and
\* the dispose of a plugin and of those above it end.
NotForgotten ==
    \A plugin \in disposed :
        Unneeded(plugin) => plugin \subseteq freed \/ Calls(plugin) # {}

\* A plugin that is disposed of is freed when it is not needed any more: not
\* before that, not twice, and not later (post.c).
FreedWithLastUse == NoUseAfterFree /\ NotForgotten
=============================================================================
