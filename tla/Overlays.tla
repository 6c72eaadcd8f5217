------------------------------- MODULE Overlays -------------------------------
(***************************************************************************)
(* The overlay manager (video_overlay.c): a fixed table of events, linked   *)
(* in the order of their vpts from slot 0, objects with handles, and the    *)
(* handles that are showing.  There are three mutexes: events_mutex covers  *)
(* add_event and all of video_overlay_event (by the render thread or who    *)
(* flushes), which takes objects_mutex and showing_mutex inside for each    *)
(* step it makes; free_handle takes the three one after the other.  Each    *)
(* action is a section under the mutexes it has.                            *)
(* Owners are the OSD (osd.c), which frees its handle by an event, and      *)
(* subtitle decoders (spu_dec), which call free_handle.  Their events all   *)
(* carry a picture.  Left out: what a picture is, showing_changed, and the  *)
(* order and the limit (MAX_SHOWING) of the handles that are showing.       *)
(***************************************************************************)
EXTENDS Integers, FiniteSets, FiniteSetsExt

CONSTANTS Osds, Decoders,  \* the owners of handles
          NumSlots,        \* MAX_EVENTS - 1: slot 0 points to the first event
          NumObjects,      \* MAX_OBJECTS
          MaxVpts          \* bound: the times of events, and of frames; 0 is
                           \* "now" for an event, and "everything" for a frame

Owners == Osds \cup Decoders
Slots == 1 .. NumSlots
Objects == 0 .. NumObjects - 1

VARIABLES
    event,      \* event[s]: type, vpts, handle, and whether it has a picture
    next,       \* next[s]: next_event, 0 at the end
    held,       \* objects whose handle is not -1
    pictures,   \* objects with an overlay
    showing,
    own,        \* the handle an owner has, or -1
    pc,         \* the step of an owner
    limit,      \* the vpts up to which events are processed; -1: nobody does
    step        \* the step inside the event that is processed

ownerVars == <<own, pc>>
queueVars == <<event, next>>
objectVars == <<held, pictures, showing>>
vars == <<queueVars, objectVars, ownerVars, limit, step>>

Null == [type |-> "null", vpts |-> 0, handle |-> -1, image |-> FALSE]

Init ==
    /\ event = [s \in Slots |-> Null]
    /\ next = [s \in 0 .. NumSlots |-> 0]
    /\ held = {} /\ pictures = {} /\ showing = {}
    /\ own = [u \in Owners |-> -1]
    /\ pc = [u \in Owners |-> "idle"]
    /\ limit = -1 /\ step = "first"

-----------------------------------------------------------------------------
\* The list from slot 0 on; 0 behind its end.
Walk ==
    LET nth[i \in 0 .. NumSlots + 1] == IF i = 0 THEN 0
                                        ELSE IF i > 1 /\ nth[i - 1] = 0 THEN 0
                                        ELSE next[nth[i - 1]]
    IN  nth

Queued == {Walk[i] : i \in 1 .. NumSlots} \ {0}

FreeSlots == {s \in Slots : event[s].type = "null"}

\* The slot before the new event, by its place in the list: behind the first
\* ones that are not later.
Before(vpts) ==
    Min({i \in 0 .. NumSlots : Walk[i + 1] = 0 \/ event[Walk[i + 1]].vpts > vpts})

\* video_overlay_add_event under events_mutex.  Without a free slot the event
\* is lost, which no caller looks at.
Add(type, vpts, h) ==
    /\ limit = -1
    /\ IF FreeSlots = {}
       THEN UNCHANGED queueVars
       ELSE LET new == Min(FreeSlots)
                last == Walk[Before(vpts)]
            IN  /\ next' = [next EXCEPT ![last] = new, ![new] = next[last]]
                /\ event' = [event EXCEPT ![new] = [type |-> type, vpts |-> vpts,
                                                    handle |-> h, image |-> TRUE]]

\* Negative control: a slot that is taken out is not marked as free.
Freed_Typed(gone) ==
    [s \in Slots |-> IF s \in gone THEN [event[s] EXCEPT !.image = FALSE] ELSE event[s]]

\* Slots taken out of the list; what else is left in them is never read.
Freed(gone) == [s \in Slots |-> IF s \in gone THEN Null ELSE event[s]]

\* The list without some slots.
Unlinked(gone) ==
    LET place(s) == IF s = 0 THEN 0 ELSE CHOOSE i \in 1 .. NumSlots : Walk[i] = s
    IN  [s \in 0 .. NumSlots |->
            IF s \in gone \/ s \notin Queued \cup {0} THEN 0
            ELSE Walk[Min({i \in place(s) + 1 .. NumSlots + 1 : Walk[i] \notin gone})]]

Remove(gone) == event' = Freed(gone) /\ next' = Unlinked(gone)

EventsOf(h) == {s \in Queued : event[s].handle = h}

-----------------------------------------------------------------------------
\* video_overlay_event: who processes events has events_mutex up to Finish.
Start(vpts) ==
    /\ limit = -1
    /\ limit' = vpts
    /\ UNCHANGED <<queueVars, objectVars, ownerVars, step>>

First == next[0]

Due == First # 0 /\ (limit > event[First].vpts \/ limit = 0)

Finish ==
    /\ limit # -1 /\ step = "first" /\ ~Due
    /\ limit' = -1
    /\ UNCHANGED <<queueVars, objectVars, ownerVars, step>>

\* The event that is processed is at this step.
At(type, at) == limit # -1 /\ step = at /\ Due /\ event[First].type = type

Handle == event[First].handle

\* remove_showing_handle
ShowHide ==
    /\ At("show", "first")
    /\ showing' = showing \ {Handle}
    /\ step' = "hidden"
    /\ UNCHANGED <<queueVars, held, pictures, ownerVars, limit>>

\* internal_video_overlay_free_handle
ShowClear ==
    /\ At("show", "hidden")
    /\ held' = held \ {Handle} /\ pictures' = pictures \ {Handle}
    /\ step' = "cleared"
    /\ UNCHANGED <<queueVars, showing, ownerVars, limit>>

\* The object gets handle and picture, under events_mutex alone.
ShowTake ==
    /\ At("show", "cleared")
    /\ held' = held \cup {Handle} /\ pictures' = pictures \cup {Handle}
    /\ event' = [event EXCEPT ![First].image = FALSE]
    /\ step' = "taken"
    /\ UNCHANGED <<next, showing, ownerVars, limit>>

\* add_showing_handle
ShowDone ==
    /\ At("show", "taken")
    /\ showing' = showing \cup {Handle}
    /\ Remove({First})
    /\ step' = "first"
    /\ UNCHANGED <<held, pictures, ownerVars, limit>>

HideNow ==
    /\ At("hide", "first")
    /\ showing' = showing \ {Handle}
    /\ Remove({First})
    /\ UNCHANGED <<held, pictures, ownerVars, limit, step>>

ButtonNow ==
    /\ At("button", "first")
    /\ IF Handle \in pictures
       THEN held' = held \cup {Handle} /\ showing' = showing \cup {Handle}
       ELSE UNCHANGED <<held, showing>>
    /\ Remove({First})
    /\ UNCHANGED <<pictures, ownerVars, limit, step>>

\* "this avoid removing this_event from the queue": its own handle is -1 then.
FreeBegin ==
    /\ At("free", "first")
    /\ showing' = showing \ {Handle}
    /\ Remove(EventsOf(Handle) \ {First})
    /\ step' = "freeing"
    /\ UNCHANGED <<held, pictures, ownerVars, limit>>

FreeEnd ==
    /\ At("free", "freeing")
    /\ held' = held \ {Handle} /\ pictures' = pictures \ {Handle}
    /\ Remove({First})
    /\ step' = "first"
    /\ UNCHANGED <<showing, ownerVars, limit>>

Process == \/ ShowHide \/ ShowClear \/ ShowTake \/ ShowDone
           \/ HideNow \/ ButtonNow \/ FreeBegin \/ FreeEnd

-----------------------------------------------------------------------------
\* The first object without handle.
GetHandle(u) ==
    /\ pc[u] = "idle" /\ own[u] = -1
    /\ Objects \ held # {}
    /\ own' = [own EXCEPT ![u] = Min(Objects \ held)]
    /\ held' = held \cup {own'[u]}
    /\ UNCHANGED <<queueVars, pictures, showing, pc, limit, step>>

\* osd_show, osd_hide, and the events of subtitle decoders.
Send(u, type, vpts) ==
    /\ pc[u] = "idle" /\ own[u] # -1
    /\ Add(type, vpts, own[u])
    /\ UNCHANGED <<objectVars, ownerVars, limit, step>>

\* osd_free_object hides the object now ...
OsdClose(u) ==
    /\ pc[u] = "idle" /\ own[u] # -1
    /\ Add("hide", 0, own[u])
    /\ pc' = [pc EXCEPT ![u] = "closing"]
    /\ UNCHANGED <<objectVars, own, limit, step>>

\* ... and then sends OVERLAY_EVENT_FREE_HANDLE: "handle will be freed".
OsdFree(u) ==
    /\ pc[u] = "closing"
    /\ Add("free", 0, own[u])
    /\ own' = [own EXCEPT ![u] = -1]
    /\ pc' = [pc EXCEPT ![u] = "idle"]
    /\ UNCHANGED <<objectVars, limit, step>>

\* video_overlay_free_handle, as spudec_reset and spudec_dispose call it.
FreeShowing(u) ==
    /\ pc[u] = "idle" /\ own[u] # -1
    /\ showing' = showing \ {own[u]}
    /\ pc' = [pc EXCEPT ![u] = "not_showing"]
    /\ UNCHANGED <<queueVars, held, pictures, own, limit, step>>

FreeEvents(u) ==
    /\ pc[u] = "not_showing" /\ limit = -1
    /\ Remove(EventsOf(own[u]))
    /\ pc' = [pc EXCEPT ![u] = "no_events"]
    /\ UNCHANGED <<objectVars, own, limit, step>>

FreeObject(u) ==
    /\ pc[u] = "no_events"
    /\ held' = held \ {own[u]} /\ pictures' = pictures \ {own[u]}
    /\ own' = [own EXCEPT ![u] = -1]
    /\ pc' = [pc EXCEPT ![u] = "idle"]
    /\ UNCHANGED <<queueVars, showing, limit, step>>

Next ==
    \/ \E vpts \in 0 .. MaxVpts : Start(vpts)
    \/ Finish
    \/ Process
    \/ \E u \in Owners :
        \/ GetHandle(u)
        \/ \E vpts \in 0 .. MaxVpts, type \in {"show", "hide"} : Send(u, type, vpts)
    \/ \E u \in Osds : OsdClose(u) \/ OsdFree(u)
    \/ \E u \in Decoders :
        \/ Send(u, "button", 0)
        \/ FreeShowing(u) \/ FreeEvents(u) \/ FreeObject(u)

Spec == Init /\ [][Next]_vars

-----------------------------------------------------------------------------
TypeOK ==
    /\ event \in [Slots -> [type : {"null", "show", "hide", "button", "free"},
                            vpts : 0 .. MaxVpts, handle : Objects \cup {-1},
                            image : BOOLEAN]]
    /\ next \in [0 .. NumSlots -> 0 .. NumSlots]
    /\ held \subseteq Objects /\ pictures \subseteq Objects /\ showing \subseteq Objects
    /\ own \in [Owners -> Objects \cup {-1}]
    /\ pc \in [Owners -> {"idle", "closing", "not_showing", "no_events"}]
    /\ limit \in -1 .. MaxVpts
    /\ step \in {"first", "hidden", "cleared", "taken", "freeing"}

\* "add an event to the events queue, sort the queue based on vpts": whoever
\* adds, removes and processes, the list from slot 0 ends, holds every slot
\* that is in use and no other, is in order, and a slot comes back without
\* the picture it had ("event->object.overlay was not freed!").
EventsKept ==
    /\ TypeOK
    /\ Walk[NumSlots + 1] = 0
    /\ Queued = Slots \ FreeSlots
    /\ \A i \in 1 .. NumSlots - 1 :
        Walk[i + 1] # 0 => event[Walk[i]].vpts <= event[Walk[i + 1]].vpts
    /\ \A s \in FreeSlots : ~event[s].image

\* free_handle "must take care of removing the object from showing and events
\* lists": what the output is asked to blend is an object in use.
FreedIsGone == showing \subseteq held

\* get_handle does not give a handle to two owners.
OneOwner ==
    \A u, v \in Owners : u # v /\ own[u] = own[v] => own[u] = -1
=============================================================================
