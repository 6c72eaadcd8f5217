# Models of the xine engine

TLA+ modules, TLC configurations and TLAPS proofs for the playback engine of xine-lib
1.2 (`src/xine-engine`). The engine is a set of threads that hand each other buffers and
wait for each other with counters and conditions; that is the part a test hardly
reaches, and that is what is modelled.

Line numbers are those of the sources in this repository; file names without a directory
are in `src/xine-engine`.

## 1. How the system works

    input plugin -> demuxer thread(s) -> video fifo -> video decoder -> frames  -> render loop
                         |            -> audio fifo -> audio decoder -> buffers -> audio loop
                         |                                   |
                   application (open, play, seek, stop)   metronom + clock
                         |                                   |
                   speed control ------ port ticket ------ decoders, post plugins

* One **demuxer thread** per side stream reads chunks and puts data buffers into two
  **fifos**, each with its own **pool** of buffer elements.
* One **decoder thread** per fifo takes them. **Control buffers** (START, HEADERS_DONE,
  NEWPTS, END, ...) travel with the data; some are always sent to both fifos, as a pair,
  and counted by the decoders. That is how a demuxer learns that its data is gone.
* Decoders hold a **port ticket** while they use output ports. Whoever wants to pause
  the engine or to rewire ports revokes the tickets and waits until all are back.
* The **clock** has one speed. Applications, input plugins, `net_buf_ctrl` and
  `xine_stop` change it, from their own threads.
* Decoded frames and audio buffers are stamped by **metronom** and go to the **output
  loops**, which show them, free them, and answer flushes.

## 2. Inventory

For each component: the state it keeps, its operations, who it meets, what is hard, and
what makes it correct. "Modelled" names the module; `PROJECT.json` lists the same
components with their status.

### Buffer pool and fifo (`buffer.c`) - PoolSet, PoolList, BufferPool, FifoQueue
*State.* An array of elements; a free list in address order, whose runs carry their
length; the number of free elements; who waits and for how much; a reserve withheld
during soft start. A queue with its size in buffers and in elements, and its waiters.
*Operations.* alloc, size_alloc, realloc, try_alloc, free, soft start set and reset;
put, insert, get, tget, clear.
*Meets.* The demuxer allocates and puts, decoders get and free, seek clears.
`net_buf_ctrl` and the broadcaster hang on callbacks.
*Hard.* Two mutexes; a signal that goes to one waiter only; waiters who need different
amounts on one condition; merging of neighbours; clear that works in several locked
steps; the last element that must stay for `try_alloc`.
*Correct when* elements are free or in exactly one chunk, counts agree with sets, data
comes out once and in order, and nobody sleeps on what is there.

### Port ticket (`xine.c` 230-690, `include/xine/tickets.h`) - PortTicket
*State.* Granted, irrevocable and pending counts; the holder table, whose entry is a
count plus 0x80000 for each revocation the holder has under way itself; atomic revoker;
port rewiring rwlock.
*Operations.* acquire, release, renew, revoke, issue, rewiring lock and unlock.
*Meets.* All decoders and post threads hold; set speed and rewiring revoke.
*Hard.* Holders that revoke; irrevocable holders that must not wait; two kinds of
waiters; atomic sections.
*Correct when* the counts agree with the holders, an atomic revoker is alone, and
pausing never freezes the engine.

### Speed control (`xine.c` 690-830, 3080-3180) - SpeedControl
*State.* The clock's and the audio device's speed, pause revocation, the flags CHANGING,
IGNORE_CHANGE, WANT_LIVE, WANT_NEW and the remembered wishes.
*Operations.* set_speed_internal (7 steps), _x_set_fine_speed, xine_set_speed, lock_run
and unlock_run around stop, live pause around rewiring, nbc_set_speed.
*Hard.* Several threads change one speed without holding a lock; a thread may pause
while it holds its ticket.
*Correct when* one thread changes at a time, the last wish wins, audio agrees with the
clock, a running clock means running decoders, and stop runs at normal speed.

### Demuxer threads, control buffers, decoder loops, life cycle - DecoderSync
(`demux.c`, `video_decoder.c`, `audio_decoder.c`, `xine.c` 735-800, 2040-2520)
*State.* thread_running and thread_created of each side stream, its lock and
`action_pending` hint; header and finished counters; number of demuxers running; stream
status, `finished_naturally`, gapless switch, emergency brake.
*Operations.* demux_loop, flush_engine, control_headers_done, control_end, control_nop,
start_thread, stop_thread; decoder loops; open, play, seek, stop.
*Hard.* Barriers made of counted control pairs through bounded fifos, with several
senders; the same thread stopped, restarted, ended and joined by different callers; an
emergency exit from a stuck wait.
*Correct when* a flush or the end of a stream is not declared before the decoders are
through, pairs arrive in one order, the stream ends once, after the last side, and no
counted waiter is forgotten.

### Network buffer control (`net_buf_ctrl.c`) - only nbc_set_speed, in SpeedControl
*State.* Fill levels of both fifos in buffers and in time, dvb speed mode, a delay
thread. *Operations.* put and get callbacks, event listener, delay set, unpause, stop
and clean. *Hard.* The callbacks run in decoders with their ticket held; the delay
thread times out while others unlock to join it (`net_buf_ctrl.c`:203): a put that finds
the stopped thread not cleaned up yet would join it a second time. Every get cleans up,
which leaves hardly any room for that.
*Correct when* playback that was paused for buffering resumes.

### Clock and metronom (`metronom.c`) - Discontinuity
*State.* Virtual pts of both sides, offsets; counts of discontinuities met and handled,
the parameters of the last one, who waits, which sides are there.
*Operations.* handle_video and handle_audio_discontinuity, got_*, set_option.
*Meets.* Both decoder threads, on START and NEWPTS buffers.
*Hard.* Each side waits for the other's discontinuity; one side may go ahead alone.
*Correct when* each discontinuity takes effect once and in order, no decoder passes one
that has not taken effect, and no one waits for ever.

### Video output (`video_out.c`) - VideoFrames
*State.* Free, display and ready lists; a lock counter for each frame; `frames_extref`;
flush counters; one stream reference per frame.
*Operations.* get_frame, draw, free, dispose of streams, flush, discard, still frames,
grab, render loop, paused loop.
*Hard.* Queued frames have two references (render and still backup); the renderer owns
a private list while a flush waits; a count tells flushers what is not in the queue.
*Correct when* a frame is on one list or referenced by exactly those who know of it, and
a flush ends, with the frames it waited for gone.

### Audio output (`audio_out.c`) - AudioLoop
*State.* Free and out fifos, discard count, the driver with its interruption count, the
wake-up time of the loop.
*Operations.* get and put buffer, ao_loop, flush, discard, open and close, set_property.
*Hard.* Flush against the buffer in the loop's hand; threads that want the driver while
the loop writes; late wake-up times.
*Correct when* flush, close and pause return, and a running engine plays what is there.

### Events (`events.c`) - EventQueue
*State.* Queues per stream with listener thread, reusable events, flush count, reference
count, time of the last event handled.
*Operations.* send, get, wait, free, create listener, dispose, flush.
*Hard.* Flush from a listener; two flushers; senders that took the time before the lock;
dispose with a callback running.
*Correct when* flush returns after the events it counted are handled, and a queue is
freed by its last user.

### Overlays, OSD, subtitles (`video_overlay.c`, `osd.c`, `spu.c`) - Overlays
*State.* A fixed table of event slots linked in vpts order, objects with handles, the
list of handles shown.
*Operations.* get_handle, free_handle, add_event, video_overlay_event; OSD show, hide and
free.
*Hard.* Three mutexes taken one after the other by some and inside each other by others;
the table at its limit.
*Correct when* the events are linked in order and none is lost, and a handle that was
freed is gone from everywhere.

### Post ports (`post.c`) - PostUse
*State.* A use count for each input port, `dispose_pending`, the port below each port.
*Operations.* ref and unref, get_frame, free of a frame, rewiring of streams and of post
plugins, dispose.
*Meets.* Decoders and the render thread, which give frames back; applications, which
rewire under the ticket.
*Hard.* Dispose is deferred to the last unref, which drops its lock first, and drops
uses further down; ports are rewired while a decoder is inside get_frame.
*Correct when* the counts are those of wires and frames, nothing is freed in use or
twice, and a plugin that was disposed of goes with its last use.

### Configuration (`configfile.c`) - not modelled
*State.* Sorted entries with lists of callbacks under a recursive lock. *Hard.* A
callback that registers or unregisters.

### Plugin catalog (`load_plugins.c`, `builtins.c`) - not modelled
*State.* Nodes with reference counts. Mostly files and dlopen.

### Input cache (`input_cache.c`) - InputCache
*State.* A window of the input that was read ahead, and a position in it.
*Operations.* read, read_block, seek, seek_time, get_current_pos.
*Hard.* The main plugin's position is behind the window; which operations throw the
window away.
*Correct when* reads and seeks answer as those of the plugin below would.

### The rest - not modelled
`input_rip.c` (a file), `broadcaster.c` (sockets), `info_helper.c`, `io_helper.c`, `refcounter.c`, `scratch.c`,
`lrb.c` (small locked containers), `alphablend.c`, `resample.c`, `vo_scale.c`,
`buffer_types.c` (numeric and tables), `xine_interface.c` (a switch over parameters),
`xine-utils`, all plugins (`input`, `demuxers`, `audio_dec`, `video_dec`, `spu_dec`,
`combined`, `libreal`, `libw32dll`, `post`, `audio_out`, `video_out`, `dxr3`, `vdr`) and
`contrib`, `lib`.

## 3. Modules

    PoolSet  <--refines--  PoolList            FifoPromise <--refines-- FifoQueue
       ^                                                                   |
       +--EXTENDS-- BufferPool <-- BufferPoolProofs      PoolSet <--EXTENDS+

    PortTicket <-EXTENDS- SpeedControl    InputPromise <--refines-- InputCache
                               ^
                     SpeedControlProofs   Discontinuity

    DecoderSync <-- DecoderSyncProofs <-- PairProofs
                                          AudioLoop    VideoFrames    EventQueue
                                          Overlays     PostUse

    MCDemuxing = DecoderSync + FifoQueue + PoolList + InputCache
    MCShared   = PortTicket + VideoFrames + PostUse + Discontinuity
    MCRequests = SpeedControl + EventQueue + Overlays
    MCWaits    = Discontinuity + AudioLoop + VideoFrames
    MCSpeed    = SpeedControl + PortTicket
    MCPool     = BufferPool with three choices of reserve and limits

An MC module with a plus checks several components in one run. They share no state, so
each behaviour picks one component (`part`) at the start and the others stand still:
it is a sum of the models, not a product. DemuxingProofs, SharedProofs and RequestsProofs
extend MCDemuxing, MCShared and MCRequests: what they prove of a component is proved for
all values of that module's constants, the `.cfg` only gives them small ones. SumLemmas is
extended by all proofs that need sums, but for the pool's. Discontinuity is in two runs:
its safety in MCShared, the end of its waits, with fairness, in MCWaits.

### PoolSet - what a pool promises
Elements are `1 .. Capacity`; `free` is a set, `nbufs[h]` the length of the chunk that
is out at `h`, `num_free` the counter of the code. `Take` gives a contiguous piece at
the start of a free run, not longer than asked: the first run that is long enough, or
the first of the longest when none is. `GrowBy` is realloc, which grows a chunk in
place, `GiveBack` is free. How the code finds the run is left open here.

### PoolList - the linked list that implements it
`TakeFirst` (alloc), `TakeSized` (the first-fit or longest walk of size_alloc),
`GrowInPlace` (realloc), `Insert` (free, with the merges on both sides) change `top`,
`next` and `cnt` exactly where the code writes `next` and `nbufs`; fields the code does
not write keep old values. `HeadsFrom` walks the list as the code's loops do. The
refinement maps `free` to the elements the walk meets.

### BufferPool - one pool and its threads
Each action is one section under `buffer_pool_mutex`: `Alloc`, `SizeAlloc`, `Realloc`,
`TryAlloc`, `Free`, `FbcSet`, `FbcReset`. A thread that finds too little registers
(`Sleep`) as counted or as large and is `asleep`; a signal takes one sleeper, any one,
out of `asleep`; `Wake` is what it does when it has the mutex again, which may be to
sleep once more. So a stolen wake-up is a behaviour of the model. Wake-ups that nobody
caused (which POSIX allows) are left out. `SoftStart` is what `xine_fbc_set` and
`fbc_reset` withhold: 3/4 of the capacity, or nothing for pools of fewer than 100
elements. `Modest` says that every waiter's request fits beside it, which at 3/4 means a
quarter of the capacity: size_alloc admits chunks of a quarter and waits for 2 more, so
its very largest requests are not modest. `NoStranded` and `Served` are claimed of modest
waiters; without that condition both fail (section 7). MCPool gives the constants the
values of the code's divisions and adds two more choices of them, `Small` and `Plain`;
`PoolServes` is `Served` with the reserve of the part at work.

### FifoPromise, FifoQueue - the queue
FifoPromise has only the data: a sequence of stamped items, what each getter holds, and
put, insert, get, release, clear. Clear drops data and keeps control items in order.
FifoQueue has chunks in pool memory: `Put` with and without merge into the last chunk,
`PutControl`, `Insert`, `Get`, `Release`, and clear in steps (`ClearStart` takes the
queue out, `ClearKeep` and `ClearFree` look at one chunk each while the pool is open to
the demuxer, `ClearEnd` puts the control buffers back). The refinement reads the items
out of the memory.

### PortTicket - holders and revokers
One action per section under the ticket's lock. The entry of a thread in
`holder_threads` is split into `low` (count) and `nest` (the multiple of 0x80000).
`RevokeSection` with the saved self grants, the wait on `revoked`, `IssueSection`,
acquire and renew with their waits on `issued`, and the rewiring rwlock are separate, so
any interleaving of sections happens. `MayRelease`, `MayRenew`, `MayRewire`, `MayPause`,
`MayIssue` say how the callers use the ticket; they are read from the callers, not from
the ticket.

### SpeedControl - on top of PortTicket
Each thread is `at` a step of `set_speed_internal` (decide, live, unpause, pause, clock
off, audio, clock on) or of the functions that call it; `back` is its call stack. Steps
that touch the ticket are actions of PortTicket. Setters are applications or plugins;
stoppers run `lock_run`, stop, `unlock_run`; rewirers rewire; feeders and decoders run
`nbc_set_speed`. `wish` is a history variable: what the wishes, in the order of their
arrival, amount to.

### DecoderSync - demuxers, decoders, application
Threads are at a step (`pc`) of the functions above, a call stack `back` returns from
sends and flushes. Both fifos are sequences of items [kind, by] with a bounded pool
(`Pool` elements, so that an allocation may block while locks are held). Decoder threads
have a `hand`, count HEADERS_DONE and END, wake by the code's rules (`PairComplete`),
and wait at the barrier of a flush. `left` is how many chunks the demuxer plugin has
before it reports the end; a seek sets it anew. Two history variables say when the counts
lose their meaning: `braked`, somebody took the emergency exit, and `mixed`, a pair of a
kind was counted for while another one of the kind was still under way.

### Discontinuity - both decoders at a discontinuity
`Meet` is metronom_handle_video or _audio_discontinuity up to the wait or the return:
`Handled` (the other side did it), `Alone` (a DISC_ABSOLUTE that may take effect at
once, and leaves a bounce), `Together` (waits for the other side, or takes effect for
both). A waiting side is in `asleep` until it is told; `Wake` finds that its number was
handled or sleeps again. `BounceEnds` is the side whose frames or samples use up the
grace time. `applied` is a history variable: the discontinuities in the order in which
they took effect.

### AudioLoop - decoder, output loop, flushers, speed setters
Both fifos are numbers of buffers. `OutFifoGet` is ao_out_fifo_get with all its ways out
(flush answered, discard, wake-up now, pause, a buffer); the loop then looks at the
buffer (`Look`, `Timing`, `Fill`, `Write`) and lets others in between (`TestIntr`).
`driver.mutex` has a holder, and its contenders queue with `intr_num`: `AskDriver`,
`DriverGot`, `DriverDo`. Flush is `FlushDriver` then `FlushLoop`, a caller that waits
for the fifo is at "empty".

### VideoFrames - the frames of one port
`lock[f]` is the lock counter; `free`, `queue`, `ready` are the lists. `GetFrame`,
`Draw`, `RerefAppend`, `FreeFrame` are the decoder's. The render thread goes through
`rpc`: `GetAll` empties the display queue into its own list and, when somebody flushes,
`NextFlush`, `NextTell`, `NextRefill` drop all but the last frame, tell, and take more;
`Poll`, `TooOld`, `Due`, `Show`, `Grab`, `Duplicate`, `Relax`, `Sleep` show the frames;
`Pause`, `PauseWait`, `PauseTell` are the paused loop. A client does `DiscardOn`,
`DiscardOff`, `Flush`, `Wake`. Each of these holds one lock at most.

### EventQueue - senders, listeners, pollers, flushers
Every action is a section under `event.lock` or the lock of a queue. `TakeTime` comes
before `Send`, so events may arrive out of order of their times. `Take`, `CallBack`,
`Return` are the listener, `Poll` and `Free` an application; `Remove`, `Quit`, `Clean`
dispose. `FlushBegin`, `Walk`, `StartOver`, `FlushWake`, `FlushTimeout`, `FlushEnd` are
_x_flush_events_queues, whose `Count` is the events up to its time. `due` is a history
variable: the events that were in a queue when the flush began.

### Overlays - the overlay manager and its owners
`next` is the linked list in the table of events. `Add`, `Freed`, `Unlinked` are what
add_event and the cleaning of a handle's events do to it. `Start`, then one action for
each section that a SHOW, HIDE, MENU_BUTTON or FREE_HANDLE event takes inside
(`ShowHide`, `ShowClear`, `ShowTake`, `ShowDone`, `HideNow`, `ButtonNow`, `FreeBegin`,
`FreeEnd`), then `Finish`. Owners have a handle: an OSD frees it with an event
(`OsdFree`), a subtitle decoder by free_handle in three sections (`FreeShowing`,
`FreeEvents`, `FreeObject`).

### PostUse - wires, frames and a deferred dispose
A plugin is the set of its ports. `GetFrame` uses every port from the stream's `top`
down, `GotFrame` is the output's return, and then each port on the way back keeps its
alias (`Intercept`) or gives it up (`FreeUnused`); `FreeFrame` is the last reference of a
frame. `RewireStream` and `RewirePort` use the new port, `LeaveOld` leaves the old one,
`Issue` lets the decoders go on. `Dispose` is the application's call; `CheckUse`,
`FreePort` and `DisposeEnds` are _x_post_dispose by whoever runs it, and `stack` holds
the calls of a thread, since freeing a port may drop the last use of the plugin below.

### InputPromise, InputCache - a position, and a window in front of it
InputPromise says how an input plugin answers: a byte is its place in the input. In
InputCache `buf` is the window, `main` the plugin's position; `ReadInside`, `ReadAhead`,
`ReadDirect` and their failures, `ReadBlock`, `SeekSet`, `SeekCur`, `SeekElsewhere` (by
time), `Tell`. The refinement maps the position to `main - Rest`.

## 4. Runs

`tlc -workers 2 -config X.cfg M`; times are for two cores.

| run | instance | distinct states, time | shows |
|---|---|---|---|
| buffer_pool | 9 elements, chunks to 2, growth to 1, reserve 6, 1 thread that waits; the same with chunks of 1, 2 threads; without reserve, growth to 2, 1 thread that waits | 290,216, 163 s | partition and counts, registration of waiters, last element for try_alloc only; no modest waiter is stranded by the conditional signal, and all are served in the end, with soft start set, reset and ended at any time |
| demuxing | 2 demuxers, 2 decoders, the application; a fifo of 5 elements, 3 items, 2 getters; a free list of 7 elements, chunks to 4; an input of 6 bytes, window 3, reads to 5 | 808,178, 140 s | flush and end barriers, order of pairs, one end, restart, no cyclic wait; order and content of the data, sizes, no sleep on data; the list implements PoolSet; the input cache keeps its promise with a fresh window |
| shared_objects | ticket with 2 decoders and 2 applications; 3 frames, 1 client; 2 post plugins with a port each, 2 streams, 2 aliases of a port; 4 discontinuities | 611,748, 85 s | ticket counts, atomic sections, no lost wake-up; frame references, a flush leaves nothing behind; a post plugin is freed once, with its last use; parameters take effect once and in order, before anybody passes |
| waiting_threads | 4 discontinuities; 2 audio buffers, a setter and a flusher; 2 frames, 2 clients | 117,937, 106 s | no one waits for ever at a discontinuity, in a flush of audio or video, or for the audio driver |
| speed_control | 1 decoder, 2 setters, 1 setter that stops; the bare ticket with a decoder that pauses and an application that pauses and rewires | 6,548, 35 s | last wish wins, audio follows, stop runs at normal speed, everybody returns; no freeze |
| requests | decoder and feeder under net_buf_ctrl, an application that sets speeds, rewires and stops; 2 event queues, 1 sender, 2 flushers, 2 events; 2 event slots, 2 objects, an OSD and a subtitle decoder | 1,462,140, 115 s | one changer at a time, the waiter in lock_run has somebody to wait for; events handled before a flush ends, exact references; no overlay event lost |
| speed_nbc_freeze, speed_two_stops, speed_rewire_pause, audio_pause_stall, overlay_freed, input_stale_window | 1 to 3 threads | seconds | disagreements, section 7 |

### Bounds, and why they are enough
* *Pool.* `Capacity`, `AllocLimit`, `GrowLimit` and `SoftStart` have the code's integers:
  9, 9 >> 2 = 2, 9 >> 3 = 1 and (9 * 3) >> 2 = 6. Only the rule that pools of fewer than
  100 elements have no reserve is dropped, since 100 are out of TLC's reach. Nine is the
  least capacity where a fresh soft start leaves enough for a size_alloc: 3 elements, so
  alloc (2) and size_alloc of 1 (3) are modest and size_alloc of 2 (4) is not. Part `full`
  has these values and one waiting thread (`Waiters`), the other takes without waiting.
  Part `small` has requests of 1 and two threads that wait, for 2 or 3, so that one
  announces its need and the other, small or large, is counted. Part `plain` has no reserve
  and growth to 2, so that chunks of different lengths grow. All merge cases (none, left,
  right, both), a request longer than the longest run and the last element occur. Checked
  once, too large for a run with liveness: two waiting threads at 9, 2, 1 and 6 keep
  `NoStranded` (837,554 states with the symmetry of threads). The proofs have no bound.
* *Fifo.* Three items make a merge, a chunk that is grown and partly filled, a control
  buffer between data, and a clear over all of them; two getters make a stolen wake-up.
  Stamps are the only unbounded counter.
* *Ticket.* `MaxHold` 2 tickets per thread (the second one is the case with irrevocable
  plus plain). Two decoders and two applications make two revokers with two holders.
  `MaxGranted` and `MaxNest` in SpeedControl stop counting where a holder whose entry is
  not healed would count for ever (section 7).
* *Speed.* Speeds 0, 1 (normal) and 2.
* *DecoderSync.* Two elements in each pool (the sender of a control buffer may find the
  pool empty; at least one of the two fifos has a decoder), one chunk from a seek to the
  end, two requests of the application to play, stop or open, or jumps of an input
  plugin that flushes by itself (`Jumpers`). Views leave out counters' absolute values
  and local variables that are dead. The proofs have no bound. The invariant they rest on
  was checked first, without views, with one side stream, 3 elements and 3 requests, not
  `Punctual` (205,975 states), and with two side streams of which one flushes by itself,
  2 elements and 2 requests (2,641,837 states).
* *Discontinuity.* `MaxDisc` 4: a shortcut, the end of its bounce, and both orders of
  arrival after it. All choices of sides that are there. The proofs have no bound.
* *AudioLoop.* Two buffers: one in the loop's hand while one is queued or being filled.
  One caller sets the speed or closes, one flushes or discards, so that both may contend
  for the driver with the loop.
* *VideoFrames.* Three frames (one displayed, one kept as still frame or filler, one on
  the way) for the safety properties; two, with two clients of which client 1 discards,
  for liveness. `MaxRefs` 1: the frames a decoder holds when it gets one more. Time is
  left to chance: a frame is early, due or too old, whatever the clock.
* *EventQueue.* A queue with a listener and one with or without (`listened`), one queue
  is disposed, both flushers may be callbacks of a listener, `MaxSent` 2 events may merge
  or pass each other in time; `Reusable` 1, so that the second event is allocated.
* *Overlays.* Two slots and two objects: the table gets full and a handle is given
  again. Vpts 0 (now) and 1.
* *InputCache.* A window of 3 in an input of 6: reads inside, across, beyond the window
  and beyond the end; offsets up to 5 in both directions.
* *PostUse.* Two plugins: one wired above the other, or both below the streams, disposed
  of in either order. Two streams share a port or have one each. Two aliases: two
  decoders inside one port, or one inside while a frame is shown.

### Deadlock
It is looked for in `buffer_pool`, in `speed_control` and the DecoderSync part of
`demuxing`, where it is the claim that there is no cyclic wait between allocation,
`demux.pair`, `counter.lock` and `demux.lock`; `Rest` is the one state in which the
system may stop. The other parts of `demuxing` may stutter: `MaxSent` ends the fifo, and
the pool of the list may be full with nobody to free. It is switched off in
`shared_objects`, `requests` and `waiting_threads`, where bounds (`MaxSent`, `MaxDisc`) end a part
or the last plugin is gone, and in the runs about an engine that stops, which is reported as a disagreement.

### Fairness
Threads are scheduled, and a mutex is not withheld for ever; beyond that:
* `BufferPool!Fairness`, weak for `GoOn`: as long as a chunk is out or a thread was
  signalled, some chunk comes back (decoders go on) or some such thread runs. `Served`
  holds under `Quiet`: no further allocation begins, `try_alloc`, which takes without
  waiting, pauses, and soft start is not set again; each of these may starve a waiter for
  ever. It also needs `<>[]Modest`: a waiter that can never be served sleeps for ever and
  can use up the one signal of a free that another waiter needed.
* `PortTicket!Fairness`: strong for waking, since another section may take the lock in
  between; strong for returning the last ticket, since decoder loops release in tget
  whenever `ticket_revoked` is set; weak for the rewiring read lock; those who revoke
  come to issue, as every caller does. `NoFreeze` holds under `Quiet`: no endless new
  revocations and no endless new irrevocable tickets, which a pending revocation lets
  pass.
* `SpeedControl!SpeedFairness`: steps of a call go on, woken threads run, decoders
  yield. `SpeedReturns` under `Patient`: requests stop coming.
* `Discontinuity!Fairness`: both decoders come to every discontinuity, since they are
  sent in pairs and decoders go on; a side that was told runs.
* `AudioLoop!Fairness`: the loop takes its next step, a caller in a call goes on, and a
  decoder that filled a buffer puts it. `FlushReturns` and `DriverServed` hold under
  `Calm`: requests to the port stop some time; with endless ones a contender for the
  driver, or a flush whose fifo is filled again, may wait for ever.
* `VideoFrames!Fairness`: the render thread takes its next step, a client that was told
  runs. Decoders need not go on, and discarding need not end.

MCWaits and MCSpeed state these for their parts.

## 5. Proofs

`tlapm BufferPoolProofs.tla`, for every capacity, limit, reserve and finite set of
threads that satisfies `PoolAssumption` and `WaitAssumption`:

* `Invariance` : `Spec => []IInv`, with `PoolInv` (types, `Partition`, `CountExact`) and
  `WaitInv` (types, `NeedKnown`, `WaitersCounted`).
* `PartitionHolds`, `CountHolds`, `NeverAborts` : elements are free or in one chunk, the
  counter is exact, freeing a chunk never exceeds the capacity (the assertion in the
  code).
* `WaitersHold`, `TypeCorrect` : counts of waiters, and the soft start reserve does not
  go below zero.
* `EmergencyHolds` : only try_alloc takes the last element (action property).
* `PoolImplemented` : BufferPool implements PoolSet; every step is a step of the pool or
  leaves it alone.
* `NoStrandedHolds` : if every element is free and all who wait are `Modest`, nobody is
  left asleep unsignalled. There is no condition on the constants: it holds at the code's
  ratios, for pools with soft start and without.

`tlapm SpeedControlProofs.tla` has three parts. The first is on PortTicket, for every
finite set of decoders and applications and every `MaxHold` (`TicketAssumption`):

* `CoreHolds` : `Spec => []Core`, and from it `CountsExactHolds` : `tickets_granted`,
  `irrevocable_tickets` and `plain_renewers` are what the table of holders adds up to.
* `NoLostWakeupHolds` : nobody sleeps in acquire, renew or revoke with nothing left to
  wait for.
* `AtomicExclusiveHolds` : an atomic section is alone. This and the one before assume
  `~(HolderPauses /\ Rewiring)`: that no decoder pauses with its ticket held in an engine
  whose ports are rewired. Without it they are false (section 7).

The second is on SpeedControl, for every set of callers and speeds (`SpeedAssumption`
and the above):

* `OneChangerHolds` : never two changes at once under SPEED_FLAG_CHANGING, whatever
  setters, stoppers, rewirers and feeders there are.
* `LockRunWokenHolds` assumes `OneStopper`; `speed_two_stops` is what happens without.
* `AudioFollowsHolds`, `RunLockedHolds` assume `OneByOne`: one stopper, no rewiring, no
  gapless close. TLC finds both violated with two stoppers, and AudioFollows with a
  gapless close; in the small instance of `speed_rewire_pause` they hold, so that
  `Rewirers = {}` may be more than they need.
* `LatestWinsHolds` assumes `OneByOne` and that no decoder pauses (`~HolderPauses`); TLC
  finds it violated with two stoppers, with a rewirer and with net_buf_ctrl.

The third joins the two, for the same, under `Orderly`: `OneByOne`,
`~HolderPauses`, decoders are no applications, and a thread may hold two tickets (a
stop holds one, `set_speed_internal` takes another one).

* `TicketUsedWell` : `SpeedSpec => Spec`, that SpeedControl is an implementation of
  PortTicket. PortTicket lets its callers do only what `MayRelease`, `MayPause`, ... say;
  here it is shown of the callers, so the results on the ticket hold of the engine.
* `RevokerHasHolderHolds` : who waits in revoke has a holder that can still give up its
  ticket, or an atomic section to wait for. `speed_nbc_freeze` violates it with
  `HolderPauses`.

`tlapm DecoderSyncProofs.tla`, for any number of side streams, pool elements, chunks,
requests and jumping input plugins that satisfies `SyncAssumption`, `Punctual` or not,
under the module's `AppInTime` (section 6):

* `SyncInvariant` : `Spec => []SyncInv`, the inductive invariant below.
* `SyncedHolds` : when `_x_demux_control_headers_done` returns, to a flush, a seek, a stop
  or an open, both decoders have passed all that its caller sent, and all data of the
  demuxers the caller holds back.
* `FinishedIsPlayedHolds` : when demux_loop declares the stream finished, both decoders
  have passed all of that demuxer's data and its END.
* `WaitersToldHolds` : nobody sleeps on counts that are reached, though a decoder does not
  wake anybody on an incomplete pair.
* `RunInvariant` : `Spec => []RunInv`, who counts as a running demuxer.
* `PlayHasDemuxerHolds` : when xine_play has returned, a side stream has a demuxer thread
  that will end the stream some time, whatever the other demuxers do meanwhile.
* `LastSideEndsHolds`, which assumes `Punctual`: a demuxer that goes on from its loop to
  end the stream is the last one running. Without `Punctual` it is false (section 7).

The first three leave out what the code does not deliver: waits after an emergency exit
(`braked`), and those after a second pair of the same kind was sent while one was under
way (`mixed`), which section 7 shows to end early.

`tlapm PairProofs.tla`, for the same:

* `PairsInOrderHolds` : when nobody is half way through a pair, the control buffers that
  both decoders have still to pass are the same, up to where the slower one is. From
  `PairInvariant`, on top of `SyncInvariant` and `RunInvariant`.

`tlapm DemuxingProofs.tla`, on MCDemuxing. FifoQueue and InputCache are for every capacity
and allocation limit, any finite sets of getters and putters, and any length of the input,
window and requests (`QueueAssumption`, `CacheAssumption`):

* `NoSleepOnDataHolds` : while the fifo has a buffer, a getter that waits has been woken,
  from `WakenedInvariant`.
* `AccountedHolds` : a buffer is in one place, and `fifo_size` and `fifo_data_size` are
  exact, from `ChunkedInvariant`.
* `FreshInputKeptHolds` : every operation of the cache is one of InputPromise's as long as
  the window lies before the plugin's position; the refinement, step by step, of all but
  the window that read_block leaves. From `WindowInvariant`.

`tlapm SharedProofs.tla`, on MCShared: on VideoFrames for any number of frames
(`VideoAssumption`), on Discontinuity for every number of discontinuities and whichever
sides are there (`SidesAssumption`), on PostUse for any finite sets of plugins, ports and
streams (`PostAssumption`):

* `FramesNeverLost` : the lock counter of a frame is what the lists, the decoder, the
  render thread and the backups hold of it, and it is free exactly when that is nothing.
* `FlushLeavesNothing` : when the caller of a flush is told to go on, nothing that was
  queued before is still to be shown.
* `AppliedInOrderHolds` : the parameters of discontinuity 1, 2, 3, ... take effect once
  each and in this order.
* `EffectFirstHolds` : no decoder goes on behind a discontinuity that has not taken
  effect.
* `PluginsFreed`, which assumes `OneInput`: every plugin has one input port, as all have
  but the mixing ones. A plugin that is disposed of is freed with its last use, not
  before, not twice and not later. Without `OneInput` it is false (section 7).

`tlapm RequestsProofs.tla`, on EventQueue and Overlays in MCRequests, for any sets of
queues, senders, times, slots, handles and owners (`EventAssumption`,
`OverlayAssumption`):

* `ReferencesExact` : the reference count of an event queue is what is taken for it by its
  registration, its events and the flushes that wait for it, so it is freed by the last.
* `FlushWaitsForAll` : when _x_flush_events_queues returns without a timeout and has met
  no other flush, all events from before it are handled.
* `OverlayEventsKept` : the list of overlay events ends, links exactly the slots in use,
  in the order of their times, and a slot comes back without its picture.

*Why the invariant is what it is.* `CountExact` is not inductive alone: a free adds
`nbufs[h]` elements, and the count stays exact only if none of them was free
(Partition), and if chunks do not overlap, since else the next one would be counted
twice. `WaitersCounted` relates `num_waiters` and `large_wait` to the roles of sleeping
threads; it needs `NeedKnown`, that a thread waits for 2 elements or for what size_alloc
may be asked for, because which role a thread has depends on what it needs. `NoStranded`
follows by a separate argument: with all elements home at least `Capacity - SoftStart`
are available, so a modest thread that is awake does not go to sleep, and the free that
brings the last chunk home signals, as one waiter's need, counted or announced, is met.
With "needs no more than is available now" in place of `Modest` it would not be
invariant: `xine_fbc_set` makes more available and signals nobody.

In Discontinuity neither property is inductive: a side that waits returns when it is
told, and that its number has taken effect by then must be known before. `Behind` says
so: a side that waits is one ahead of `handled` as long as the other side has not come,
and when it is video it has left its parameters in `last`, which audio then applies;
once the other side has come, the number has taken effect. `WaitersPresent` (who waits
has a partner) is what `Behind` needs. `DiscInv` is the types, these two, and the two
properties.

In PortTicket, `CountsExact` is a statement on sums, and each section changes one or two
summands. It is not inductive alone: issue restores the grants a holder saved in revoke,
which adds up only if the entry still says how many (`Entry`: the saved grants are part
of the entry, and only of one that has revocations nested), and if there is no more than
the writer's and the pauser's revocation (`Revocations`, `Revoker`). `SafeInv` adds who
may sleep and what every thread in an atomic section has waited for.

In SpeedControl the properties speak of states without a change under way, and the
invariant has to say how far a change is at each step: `Shape` (the stack of a thread
says where it was called from, and only one thread has "changed" on it exactly when the
flag is set), `Woken` (the ignore bit belongs to the one stopper), and `SpeedInv`, which
relates the clock, audio and the revocation to the step of the one thread that changes
them. `Plainly` follows `wish` through the two remembered wishes. `Known`
joins these with `SafeInv` and with `Uses`: which thread holds how many
tickets at which step.

In DecoderSync a waiter only compares counters. That its own buffers are gone by then is
known from the order in each fifo and from who may send: `SyncInv` is `Types`, `Shape`
(which stack a thread has at which step), `Own` (who holds `counter.lock`, `demux.pair`
and each `demux.lock`, the locks a seek or a stop of the application holds included) and
`Syncs`. The core of `Syncs` is `Round`, once for HEADERS_DONE and once for END, each over
both fifos, with the buffer in the decoder's hand as place 0 of its fifo: one pair at most
is announced or queued, by one sender; a fifo's count plus 1 while the pair is still in it
is the same for all fifos; and for whoever waits, either its buffer is behind all it waits
for and the count is one short of its target (`Marked`), or all that is gone and the
target is reached (`Clean`). A flush by another thread may take data out from between, so
a step is shown to leave a fifo thinner (`Thins`), and that all parts of `Round` survive
this is proved once (`RoundThins`). `Round` is claimed for a kind as long as the kind is
not `mixed` and nobody `braked`; `Types`, `Shape` and `Own` are claimed always. `Asleep`
says where sleepers are and `Dummies` that a fifo without a decoder stays empty.

`RunInv` stands on `SyncInv` (locks and stacks). `RunsCounted` says of whom
`demuxers_running` is the number: of the demuxers from their start to the end of their
loop (`Phase`). `PlayHasDemuxer` then needs to be known along a whole seek: `SeekServed`
says that the seek that was accepted left something to send, and that the application,
at each side stream it comes past, starts its demuxer or has kept one that waits for it.

`PairInv` is about two fifos relative to each other, which `Round` does not follow. A pair
is put in two steps, and in between the other fifo is one buffer behind; that nothing else
is put meanwhile is `demux.pair`, and that no wait comes in between needs `Reservations`
(who is about to put a pair has its buffers) and `Rooms` (and the pools can hold them).
`PendingCounted` says who has raised `action_pending`, which keeps demuxers out. The order
is `Aligned`: one fifo's control buffers are the end of the other's. Since a decoder takes
from the front, and a flush leaves every control buffer in its place, that survives.

In FifoQueue `NoSleepOnData` fails to be inductive because a put signals one getter only:
`Wakened` counts. As long as one getter sleeps, those woken and not back yet are at least
as many as the buffers in the queue and in a clear under way. `Chunked` adds where chunks
are: `Slices` (chunks are apart from each other and from what is free), `Placed` (each is
in one place, and once), `Controls` (control buffers are single elements out of the
demuxer's hands, so nobody merges into one), `Sized` (the sums). A clear takes the whole
queue out and puts some of it back while the demuxer goes on, which is why `clearing` is a
place of its own. `WindowKnown` says of the cache that the window is no longer than what
the plugin has delivered, and the place in it is in it; what the bytes are is the
hypothesis `~Stale` of the property itself.

`FreedWithLastUse` compares who needs a port with how far its dispose is, and the code
knows neither: it has a counter, a flag and the stacks of its threads. `PoInv` ties them.
`UsesCounted`: the counter is the number of wires, aliases and of the wire being taken
away. `Stage`: a plugin that was disposed of is looked at by one call, or is pending with
its counter above 0 and nobody looks at it, or is being freed, or gone; the step that
takes the counter of a pending plugin to 0 is the one that adds a call. `OneCall`: no two
calls are for one plugin, on whichever stacks. `Entry`: what a call has found. Uses may be
taken anywhere down a chain of ports, and such a port must not be at 0 then
(`ThroughUsed`): every port on the way is wired to by the one above it, and the way ends
as the ports have ranks (`NoLoops`), which a rewiring can raise again (`StillRanked`).
`AliasesHeld`: a port has an alias for every decoder that is inside its get_frame.

In VideoFrames a lock counter is a sum over lists, hands and backups: `VoInv` says of the
lists that no frame is twice in one or in two of them but for those the render thread
refers to on purpose, and of the threads which frame each has at which step. In EventQueue
`EvInv` says who refers to a queue at which step (registration, events that wait, the
event in a callback, a flush), and of a flush that every event in `due` is pending in a
queue the flush has counted or will still walk to. In Overlays the list is in a table, so
`OvInv` says that there is an order of the slots in use along which `next` runs: each step
of `add_event` and of a handle's cleaning is then an insertion into that order or a
removal from it. The loop that looks for the place walks along it.

*Layout.* In BufferPoolProofs lemmas on intervals and cardinalities (`RemoveInterval`,
`AddInterval`), on chunks (`ChunkOut`, `ChunkGrown`), on each pool step (`TakeStep`,
`GrowStep`, `GiveBackStep`), on sleep and wake (`SleepStep`, `WakeStep`), one lemma for
each operation, and `Inductive` with one case per action. SumLemmas has what the ticket,
the fifo, the frames and the queues need to know of `SumFunction`: that a sum changes as
one summand does (`SumUpdate`), is 0 if all summands are, not less than any of them, does
not depend on the order or the names of the summands; and least and greatest elements of
sets. The fold is defined by a recursive function, and an induction over sets cannot be
cited; each lemma is proved by a smallest counterexample instead. In the proofs on ticket
and speed there is a lemma for each section or step and each part of the invariant it
disturbs. DecoderSyncProofs goes from the data to the steps: `Without` (what a flush leaves is an ordered part of the queue),
one fifo (`PutFifo`, `ThinFifo`, `SeenFifo`), one round over all fifos (`RoundBegins`,
`RoundPut`, `RoundThins`, `RoundSeen`, `RoundTells`), then for every action a lemma `...Typed`
(types, stacks and locks) and a lemma `...Settles` (rounds and sleepers). The proofs of
`RunInv` follow in the same form, on top of these, and those of `PairInv` in PairProofs.
Each module takes ten minutes at most to check from nothing. DemuxingProofs,
SharedProofs and RequestsProofs start with lemmas on sequences (members, sums, what a
removal leaves), then have one lemma for each action of the component (the other
components stand still).

*Only model-checked.* Liveness (`PoolServes`, `Reunited`, `FlushReturns`, `DriverServed`,
`VideoFlushReturns`, `SpeedReturns`, `TicketReturns`: the prover does not handle
fairness and ENABLED), and that nobody deadlocks. The list refinement `ImplementsPool`:
`HeadsFrom` is recursive, and what a recursion computes for every input is out of reach of
induction there. `KeepsPromise`, which maps the fifo to its items with `SelectSeq` and
`FlattenSeq`, recursive as well. `RunMeansRun` and the other disagreements of section 7.
AudioLoop, of which the runs check liveness only. Of PostUse with plugins of several
ports nothing is claimed: `FreedWithLastUse` does not hold there (section 7).

## 6. Assumptions in the models

* *DecoderSync.* `AppInTime`: after `play_internal` lets the demuxers go it sets the
  status before they have waited out their 300 ms at the end of a stream, and before the
  5 s of the emergency exit. `Punctual`: a thread that was created counts itself before
  another one ends. What happens after an emergency exit is not claimed (`braked`) and
  not followed (`Unbraked`). What waits promise once two pairs of a kind have been under
  way at a time is not claimed either (`mixed`), but followed. Nothing is paused meanwhile (`lock_run` and the ticket are
  SpeedControl's). Finish delay by pending images, NEWPTS and START buffers and the low
  16 bits of `action_pending` are left out, and so are flushes from threads outside the
  stream (`vdr/input_vdr.c`:293, 832).
* *SpeedControl.* Steps of one call are atomic where the code holds a lock; the clock's
  own reaction to a speed is instantaneous. `None`, which stands for a wish that is not
  set (the flags WANT_LIVE and WANT_NEW), is none of the speeds.
* *DecoderSync, minor.* The wait before the finish message is always entered, while the
  code skips it when the 300 ms are over already (`demux.c`:485-488). play raises
  `action_pending` of all sides in one step, the code one side after the other
  (`xine.c`:2291-2298).
* *BufferPool.* `xine_fbc_set` and `fbc_reset` are steps of their own; that they take the
  fifo's mutex and not the pool's is left out, and so are the callbacks of net_buf_ctrl and of
  input_vdr.
* *FifoQueue.* An allocation that would wait just does not happen; waiting is
  BufferPool's.
* *PortTicket.* The table of holders always has room. Applications do not hold tickets
  while they rewire.
* *Discontinuity.* Which sides are there does not change while the stream plays. Only
  the counts, the waits and whose parameters take effect are followed, not the times.
* *AudioLoop.* One stream is open all the time. Left out: ao_open and ao_close, the
  single step, speeds without sound, a device that is unplugged, front ends that grab,
  and the exit of the loop. When the gap filler is told to stop and nobody wants the
  driver, the loop goes round with its buffer (`audio_out.c`:1944-1951); this is no step of
  its own.
* *VideoFrames.* vo_open does not happen while somebody flushes (section 7). Free frames
  are alike, so the decoder takes the least. First frames, the filler and the still frame
  survive a flush, as the code wants it. `frames_extref`, which only a statistic
  reads, overlays, cropping, grab requests and the end of the loop are
  left out.
* *EventQueue.* Statistics events, which wait 50 ms and may be merged, are not sent while
  a flush runs: it is called only when a stream is opened or played (`xine.c`:1812,
  1827). Otherwise a merge could raise the time of a pending event above the flush's.
  malloc does not fail.
* *Overlays.* Events that owners send all carry a picture; the limit of handles shown,
  reset and dispose, and the event object that an OSD shares are left out. The render
  thread stores the picture of a SHOW in the object (`video_overlay.c`:376-386) in one step
  with taking the event.
* *PostUse.* The application rewires to nothing it has disposed of, and makes no loops.
  Left out: open and close of a port, since the port is used by its wire all the time
  in between, with the uses that count there (`post.c`:491-498); audio buffers; the
  running ticket of a plugin. A rewired port is written before the old one is given up, the
  code does it after (499-501). Ports of output drivers
  are not counted by the code either.
* *InputCache.* One thread uses it. The main plugin keeps InputPromise; a call of it that
  fails may have consumed input.

## 7. Disagreements found

With a run of their own:
* **speed_nbc_freeze** (`RevokerHasHolder`). net_buf_ctrl pauses from a decoder with its
  ticket held and its grants saved. If another thread sets the speed first, nobody
  restores them, the decoder goes on with a marked entry, and its next renew adds the
  saved grants once more. `tickets_granted` never gets to 0 and the next pause waits for
  ever. The comment at `xine.c`:3113 says this freeze is avoided.
* **speed_two_stops** (`LockRunWoken`). The ignore bit is one for the whole engine. When
  one stream's unlock_run clears it while another stream waits in lock_run, the end of
  the change is not signalled to the waiter.
* **speed_rewire_pause** (`RunMeansRun`). Rewiring ends its live pause outside the
  section that serialises changes, and may revoke the tickets between another thread's
  issue and its clock update. The clock runs, all decoders are held, and setting the
  same speed again does nothing.

* **audio_pause_stall** (`PlaysOn`). When the audio loop sees a pause it sets
  `use_wake_time = 2` (`audio_out.c`:1888), which only the wait itself resets (924). If
  the speed is set back before the next wait, that one is left through `wake_now`, the 2
  survives, and the loop later waits for an event with buffers to play, in a running
  engine. Comment at the field: "wake_now: immediate response requested".
* **overlay_freed** (`FreedIsGone`). free_handle takes the handle from the showing list,
  then its events, then the object (`video_overlay.c`:191-193). A SHOW event that the
  render thread is working on adds it to the list again in between (388). The handle
  stays on the list without a picture, and overlay_blend is called with NULL (675), which
  drivers use unchecked (`video_out_xv.c`:699).
* **input_stale_window** (`InputKept`). When the window is used up, read_block reads from
  the main plugin and keeps the window (`input_cache.c`:209-212), which then no longer
  lies before the plugin's position. A seek back that hits it is answered from the old
  bytes.
  `FreshInputKept` in `demuxing` shows that the promise is kept as long as the window is
  the one before the plugin's position.

Seen with other constants, without a run:
* A decoder that pauses with its ticket held while an application rewires is not
  excluded from the atomic section (`AtomicExclusive`, `xine.c`:518-528 against
  `tickets.h`:99-100). A revoke by the holder itself lowers `tickets_granted` to 0 and
  does not broadcast `revoked`.
* Two decoders under net_buf_ctrl alone break `CountsExact`; each unhealed entry adds
  0x80000 again, and the sum of 4096 overflows an int.
* With net_buf_ctrl the last wish need not win (`xine.c`:3156), and with a gapless close
  audio and clock may differ (lock_run with 0, `xine.c`:792).
* Without `Punctual`, two demuxers may both be last and end the stream twice
  (`demux.c`:355, 509).
* After an emergency exit (`demux.c`:241-246) the pair stays queued, later targets are
  unequal, and "avoid useless wakes on an incomplete pair" (`video_decoder.c`:362)
  leaves a waiter to its 1 s timeout. A status of PLAY without a demuxer is possible.
* The target of a wait, `counter + 1`, ignores a pair that is queued already, and the
  wait then ends with that one, a pair too early. With two side streams of which one has
  an input plugin that flushes by itself (`Jumpers = {2}`, `MaxRequests = 3`) `Synced` without
  `mixed` is violated (`demux.c`:203-213): two flushes meet, and one returns with old data
  still queued ("we flush too early (before the old data has left decoders)").
* The same for END: xine_stop of a stream that has been stopped sends a pair of END and
  waits for nobody (`xine.c`:735-754). When it is still queued while the last demuxer
  computes `finisheds + 1` (`demux.c`:517-523), the stream is declared finished before
  its own END was seen: `FinishedIsPlayed` without `mixed` is violated with one side
  stream, `Pool = 3` and `MaxRequests = 4`.
* `flush_engine` allocates with `demux.pair` held (`demux.c`:87), against the comment at
  `demux.c`:197. No cyclic wait was found in the instance.
* `start_thread` returns with `demux.lock` held when pthread_create fails
  (`demux.c`:601).
* PostUse with `Plugins = {{1, 2}}` and one stream violates `NoUseAfterFree`. An unref
  that takes a port's count to 0 unlocks and then calls dispose (`post.c`:226-231). With
  two input ports (as in mosaico) the last uses of both may end at the same time: both
  threads see `dispose_pending` and both dispose of the plugin, one after it was freed.
  `dispose_pending` is said to be set without harm, "because it is always checked with
  usage lock held" (`post.c`:1059-1060), but there is one such lock for each port.
* Overlays: `OneOwner` is violated. A SHOW event frees the object of its handle and then
  stores the handle in it again; get_handle in between gives it to a second owner
  (`video_overlay.c`:376-378).
* `xine.c`:2304-2305 calls `xine_fbc_set` for the audio fifo twice, although it reports
  the modes "a" and "v".
* BufferPool without `Modest`: at the code's ratios `NoStranded` and `Served` are both
  violated. size_alloc cuts a request at a quarter of the capacity (`buffer.c`:300-301) and
  waits for 2 more (221), a soft start withholds 3/4 until elements are freed (103, 127).
  `FbcSet(TRUE)` and a `SizeAlloc` of the limit leave the thread asleep with nothing out
  (9 elements: 3 available, 4 needed; the default 700: 175 and 177). A small waiter may
  then be left asleep with it, when the next free signals the large one. Ending soft start
  (`xine_fbc_set` with 0) makes all elements available and wakes neither.
  In the engine: a demuxer waits for such a chunk in the audio fifo; xine_play clears the
  fifo of a seekable stream while the demuxer holds `demux.lock` (`xine.c`:2336, 2342).
  Clear frees the data, which wakes the demuxer, and withholds 3/4 anew (`buffer.c`:715)
  before it has the mutex: `Free`, `FbcReset`, `Wake`. It sleeps again, with every element
  free. Two more freed elements would do, but nothing is queued any more, and xine_play,
  which would send control buffers, waits for `demux.lock`. `buffer.h`:666-667 promises
  "get a buffer large enough for given byte size. result may still be smaller". It takes
  an audio chunk of a quarter of the fifo (350 kB by default).

Met while reading, not in a model:
* Overlays: with a full table add_event fails, and the FREE_HANDLE event of an OSD is
  lost, so its handle is never freed ("handle will be freed", `osd.c`:1856).
  osd_free_object fills the event that the OSD shares before it takes `osd_mutex`
  (`osd.c`:1844).
* Events: a second flusher skips a queue that is being flushed and returns early;
  cond_signal wakes one of two waiters; after a timeout the queue's flush count stays
  above 0; a listener whose own callback disposes of its queue would wait for itself. In
  EventQueue `complete` says whether a flush met one of the first two.
* Video: vo_open sets `discard_frames` to 0 while a flush may wait for the paused loop to
  see it. DISCARD on a grab-only port takes `display_queue.mutex` twice
  (`video_out.c`:911, 2797-2801).
* Audio: the gap filler locks `driver.mutex` without looking at the speed again
  (`audio_out.c`:2037-2042), against the comment at 2576-2577. ao_free_fifo_get does not
  test again after it renewed its ticket. A flush with an empty queue leaves the buffer
  in the loop's hand.

## 8. Plan and what is not modelled

What would come next:
1. **DelayThread** (`net_buf_ctrl.c`): delay thread against set, stop and clean, on top
   of SpeedControl.
2. DecoderSync: tickets and pause, a second flusher, recovery after the emergency exit,
   dispose, threads that cannot be created; liveness of all calls; the run without
   `Punctual`; runs for the two waits that end a pair too early (section 7).
3. VideoFrames with vo_open and vo_close; AudioLoop with ao_open and ao_close.

**Not modelled.** Of the repository's 540,000 lines of code, nearly all are plugins
(codecs, container parsers, device and network drivers, filters), bundled libraries and
their tables, headers of other projects, and colour and sample conversion. They hold no
protocol between threads; what they compute is a function of data far larger than an
instance could hold, and the engine sees them through a few calls, which the modules
leave open. What the modules follow is a few thousand lines in a dozen files of
`src/xine-engine`, so the share of all lines that is mapped stays small.
* Configuration: one recursive lock, named in the hazards.
* Plugin catalog: files and dlopen, reference counts under one lock.
* Input ripper, broadcaster, info and I/O helpers, front end interface: one lock or one
  thread each.
* Inside the components that are modelled in part: what section 6 leaves out.
