# A TLA+ model of the UWAN testbed

This directory models and verifies the node software of the underwater network
testbed: the DOTS MAC protocol in `src/Mac_layer`, the application in
`src/App_layer`, and the shared memory between them and between nodes.  TLC
checks the models on small instances, TLAPS proves the main results for every
value of the constants.

`PROJECT.json` lists runs, properties, hazards, theorems and, under `map`, the
source lines behind every definition.

## 1. The system

A node runs two processes, built without optimisation (`makefile`): the
application and the MAC layer.  They exchange packets through two shared-memory
cells; two MAC processes exchange frames through cells that stand for the
acoustic channel.

```
 App_layer.c ──(App→Mac cell)──▶ Mac_layer.c main loop ◀──(phy cell)── neighbour
      ▲                               │  ▲                                 ▲
      └──────(Mac→App cell)───────────┘  │ SIGALRM every 100 ms            │
                                  timer_man.c: timing wheel ── handlers ───┘
                                          send_frm, wait_cfrm_fdbk, back_off
```

| Component | State | Operations | Called by |
|---|---|---|---|
| Packet queues, `pktq_man.c` | a doubly linked list per next hop, `update_stat`, a state vector per packet | `add_pkt`, `del_pkt`, `del_node_manager` | main, handlers |
| DOTS handlers, `axidma_DOTS.c` | the state vectors, `tx_sleep_stat` | `mac_DOTS`, `proc_cfrm`, `send_frm`, `wait_cfrm_fdbk`, `back_off` | main; the last three as timers |
| Polling loop, `Mac_layer.c` | position in the loop, the frame read, `rx_sleep_stat` | set-up, scan of the queues, poll of the channel, poll of the application, teardown | – |
| Timing wheel, `timer_man.c` (both processes) | `cnt`, a singly linked list per slot | `add_timer`, `sig_alm_handler`, `proc_timer`, `del_timer_manager` | main, handlers, SIGALRM |
| Delay map, `dly_map_man.c` | a delay and a list of collision nodes per pair of nodes | `dly_harsh`, `add_coll_node`, `ck_coll_map`, `del_coll_node`, `del_dly_map` | `mac_DOTS`, `send_frm` |
| Time stamps, `util.c` | – | `get_cur_tmv_stmp`, `get_cfrm_tmv_stmp`, `swap_addr` | all |
| Channel, `shm_man.c` (both) | status byte, data, semaphore | `initialize_sem`, `semaphore_p`, `semaphore_v`, `shm_operation` | main and handlers of both processes |
| Application, `App_layer.c` | `exit_stat`, `sleep_stat`, `end_rx_data`, `tx_pkt_num` | `tx_data_pkt`, `rx_data_pkt`, `node_sleep`, exit | timers, main |

A packet goes RTS → CTS → DATA → ACK.  main sends the RTS (or a timer does,
when the delay map puts it off); a received CTS sets the timer that sends the
data; `wait_cfrm_fdbk`, 27.5 s after an RTS or the data, looks whether the
answer has come, and backs the packet off if it has not; `back_off` hands it to
main again; main gives it up after `MAX_RETX_NUM` tries.

What makes it hard:

* A timer carries only a destination.  The handler **searches for a packet by
  its state vector**, so with several packets to one neighbour timers and
  packets need not belong together.
* SIGALRM runs all handlers on top of main, which uses the same lists and
  counters without blocking the signal.
* Frames are lost, late or repeated; a CTS or ACK nobody waits for makes main
  leave its loop.
* A handler that returns -1 ends the processing of its slot.
* Time stamps are 16 bits wide, in tenths of a second, and wrap.
* main busy-waits on flags only a handler resets.

What makes each part correct:

* queues and handlers: no packet is forgotten, sent too often, or deleted
  unacknowledged while it has tries left; every handshake is watched by exactly
  one timer;
* loop: it never waits for a timer that is not set;
* wheel: every timer runs once, in its slot, in order;
* delay map: an RTS does not hit a neighbour that is receiving, and is written
  in the end;
* channel: a message is read once and whole; nobody waits for a semaphore for
  ever;
* application: no packet overwrites another, every callback runs once per
  period, the application ends and finds the answer of the MAC process;
* exit: no handler runs on freed state, and a process that was in its loop releases
  everything;
* two nodes: what is taken for acknowledged was delivered, and no answer comes
  when nobody waits for it.

## 2. The modules

| Module | Content |
|---|---|
| `PacketState` | the state vector of a packet: the conditions of the searches, the assignments of the handlers |
| `RetxService` | abstract: what the queues promise about a packet |
| `DotsMac` | queues, handlers and loop of one node, in an arbitrary network |
| `DotsMacProofs` | the inductive invariant of `DotsMac` and what follows from it; `DotsMac` implements `RetxService` |
| `DotsLink`, `MCDotsLink` | two nodes with the times of the code and a lossy channel; its values for TLC |
| `DotsLinkProofs` | the waits are long enough: every answer and every timer finds its packet while the time stamps do not wrap |
| `PktList` | abstract: a queue from which any element may leave |
| `PktQueue` | one packet queue with its pointers and its counter, an assignment of main per step |
| `PktOrder` | that queue as a sequence: `PktQueue` implements `PktList` |
| `PktQueueProofs` | the list, its counter, and what handlers between the assignments leave of them |
| `TimerService` | abstract: what a timer promises |
| `TimerWheel` | the wheel with its pointers, and the alarm inside `add_timer` |
| `TimerWheelProofs` | the lists of the slots, the timers that run, and the refinement of `TimerService` |
| `CollisionCheck` | the arithmetic of the delay map: `dly_harsh`, `ck_collision` |
| `DelayMap`, `MCDelayMap` | the delay and collision maps over time, with the frames that fill them and the RTSs checked against them; values for TLC |
| `DelayMapProofs` | bounds of the arithmetic, types of the map, non-interference |
| `CollList` | the lists of collision nodes with their pointers, an assignment of main per step, walked by main and by a handler |
| `CollOrder`, `MCCollList` | those lists as sequences: each implements `PktList`; symmetry for TLC |
| `CollListProofs` | the lists, what handlers between the assignments leave of them, and that a walk meets every node |
| `ShmRegister` | abstract: a one-place register |
| `ShmChannel`, `MCShmChannel` | one cell of shared memory with its semaphore, step by step; values for TLC |
| `ShmChannelProofs` | exclusion, and the register |
| `AppMac` | the application process and the MAC process at the other end of its two cells |
| `AppMacProofs` | the safety properties of `AppMac`, for any file and periods |
| `MacLifetime` | set-up, exit and teardown of the MAC process, with alarms |

How they fit together: each module takes one thing apart and leaves the others
whole.  `DotsMac` has every order of frames and timers, and no time; `DotsLink`
has the same handlers with time and a receiver.  Both use `PacketState`, so they
agree on what a handler looks for and assigns.  That the queue is a list in the
order of `add_pkt`, which both assume, is `PktOrder!ListSpec`; that a timer runs
once in its slot, in the order of the calls, is `TimerWheel!ServiceSpec`; that
the check of an RTS meets every collision node is `CollList!WalkComplete`; that a
cell is read and written as a whole is `ShmChannel!RegisterSpec`.  Each of these
has its conditions, and section 4 says what happens outside of them.

A definition named `Op_Suffix` is `Op` with a plausible bug (a dropped guard, a
forgotten assignment, an off-by-one).  `PROJECT.json` (`mutants`) names for
every property the variant under which its run fails, so that no property is
one the code cannot break.

**Faults in the same run.**  Some properties hold only until something goes
wrong.  `TimerWheel`, `PktQueue` and `CollList` record it in history variables,
`interrupted` (a handler came inside a call of main) and `failed` (a handler
returned -1).  Their properties say what holds until then, and a few what holds
even afterwards.  `PktQueue`, `CollList` and `MacLifetime` stop at the first use
of freed memory (`fault`), where the C program is undefined.

### DotsMac

The variables are those of the code: `update_stat`, the vectors (`stat`), the
two sleep flags, main's `i` and `pkt_temp`, and `pc` for its position.  A queue
is a set: packets are numbered in the order of `add_pkt`, and since packets are
only appended and deleted, list order is number order.  `pkt_temp` is the last
packet the walk has passed, so that the next one is the first with a larger
number; the code reads `next` before or, in the case of a deletion by a
handler, after the packet is freed, and both give that packet.

Pending timers are counted by handler, type and destination: two timers with
the same three values are the same.  There is one action for each handler
(`RetryRTS`, `SendReply`, `SendData`, `WaitCTS`, `WaitACK`, `BackOff`, `VSleep`)
and for each step of the loop.  A handler that fails keeps its timer, as
`proc_timer` does.

What is abstracted, and in which direction:

* **Time.**  A pending timer may fire at any moment.  Every schedule of the
  wheel is a behaviour of the model, and many more; safety carries over.
* **The network.**  Any frame of any neighbour may arrive at any poll, or none.
* **The delay map.**  `ck_coll_map` may find a collision or not.
* **Payload.**  Packets differ by number and destination only.
* **Atomicity.**  A handler runs between two steps of main.  A step of main is
  one packet of the walk, one poll, one frame.  Handlers inside such a step are
  in `PktQueue`, `CollList`, `TimerWheel` and `ShmChannel`.
* **Exit.**  The way out of the loop is the location `"exited"`; `MacLifetime`
  goes on from there.
* Not modelled: failing `calloc`, unknown frame types, packets whose next hop is
  the node itself (the application refuses them, `App_layer.c:102`).
  `shm_operation` ends without a return value on success; in an unoptimised
  build the value is 1, which the callers take as success.

### DotsLink

Node A has packets for node B, B answers; each polls the cell the other writes.
A slot of 100 ms passes when neither main has anything left to do and no timer
is due; inside a slot main and timers go in any order, the timers of one node in
the order in which they were set.  A queue is a set of packet numbers, as in
`DotsMac`.  Time stamps and intervals have the widths and formulas of the code,
and the collision check is that of `CollisionCheck`: a collision node carries the
time at which its frame was heard, which is its place in the list; the first that
collides puts the RTS off, and the expired ones passed until then (`Ahead`) are
deleted.  A frame of A to B or back may be written over by a third node (`Lose`,
at most `MaxLosses` times).  `delivered` and `acked` record what B has passed on and what
A has deleted because of an ACK; frames carry a packet number that the code's
frames do not have, and which only `delivered` uses.

### PktQueue

`prior`, `next`, `front`, `rear` and `update_stat` are those of the code, each
assignment of `add_pkt`, of main's walk and of main's `del_pkt` is a step, and
`update_stat++`/`--` is a read and a write.  A handler (`DelAcked`,
`StartBackOff`, `EndBackOff`) runs as a whole, on top of any of these steps: the
signal is blocked while it runs.  `heap` says which packets are allocated; a
step through a pointer to anything else is a `fault`.  `free` does not reuse
memory in the model, which makes every use of freed memory visible.

A search of a handler walks the queue from `front` along `next` up to the first
packet in the state it looks for.  The model says where it ends up without
walking: a packet is `Listed` if every set that has `front`, and with a packet the
next one, has it; a search `Reaches` it if moreover only packets in other states
lie before it.  `PktOrder` walks the queue and reads off the sequence.

### TimerWheel

`front`, `rear`, `next` are the pointers, `heap` the allocated nodes.  main's
`add_timer` is five steps, with the alarm possible between them; `proc_timer` is a
step per timer, in which the handler may add timers (`HandlerAdds`, not
interrupted: the signal is blocked) and may fail (`HandlerFails`).  `agenda` is a
history variable, the timers asked for with the slots left until they are due;
it only serves the properties.  A NULL pointer that is dereferenced ends the
process (`alarm = "crashed"`).  `MayInterrupt` and `MayFail` bound a behaviour to
one of the two faults.  A node is in a list if every set that has the front, and
with a node the next one, has it.

### DelayMap and CollList

Time is explicit, in tenths of a second.  A frame heard updates the delays and
appends a collision node; an RTS is checked against all nodes in the order of
`ck_coll_map`, nodes that have expired are deleted on the way, and the first
collision decides by how much the RTS is put off.  `TimeStamp` and `U16` keep
the widths of the code.  Nodes do not move (one topology for a behaviour), and
a frame carries the delay between its sender and its receiver.  The delay stored for the
sender is the difference of two time stamps in 8 bits (`Measured`), which is not the
delay when the stamps wrap in between, as neither 65535 nor 100000 is a multiple of
256.  `get_cur_tmv_stmp` is read once for a check.  `heard` keeps the frames heard after
their nodes are gone: the property of interest is about times, not about the map.

`DelayMap` lets the walk go on behind a deleted node with the successor it had.
`CollList` justifies that: it has the pointers, the read of `next` behind `free`,
and a second walk in a handler on top of main's.  What `ck_collision` finds is
open there.

`add_coll_node` and `del_coll_node` of main are cut where SIGALRM may come in.
`AddNode` allocates and tests `front`; `SetFront` and `SetRearToFront`, or `SetPrior`,
`LinkRear` and `SetRear`, are the assignments of lines 71 to 80.  `TestCase` is a
test of `del_coll_node`, `DelFirst` and `DelSecond` are the two assignments of each of its
four cases (lines 290/291, 301/302, 312/313, 324/325), `FreeNode` is the `free`.
Between any two of them the handler may start a walk, and main stands still until it is
over (`At`), so that the handler's own `del_coll_node` is one step (`Unlink`), which does
in all four cases what the assignments do.  The same operator serves `del_dly_map`:
behind `free_ptr` a timer that sends uses freed buffers and closed logs anyway
(`MacLifetime`), so that no walk starts there.

### ShmChannel

One cell: `sem` and the kernel's `undo` value per process, `status`, `data` word by
word, and for every process its main program and, for `HandlerWriter`, a signal
handler on top of it, both with the same buffer.  An actor waits in
`semaphore_p`, is blocked, may be interrupted by a signal (which ends the
process), copies, sets `status` and leaves.  `Crashes` lets processes be killed
anywhere; `LateStart` lets one start, and set the semaphore to 1, while another
is at work.  The cells between the layers have one writer and no writing
handler; the cells of the channel have a writing handler.

### AppMac and MacLifetime

`AppMac` has the application's main, its three callbacks with their timers, the
two cells, and the loop of the MAC process as the application sees it: it polls,
is busy with a frame for `CFRM_PROC_TIME` or that and `DATA_PKT_PROC_TIME`, reads
the cell, answers `end` with `emac`, or leaves its loop because of an unexpected
answer.  The times are those of the code, and code takes no time.

`MacLifetime` acquires and releases the resources of the MAC process in the order
of the code: four cells and four buffers, log files, delay map, queues, wheel and
alarm.  `ini_shm` may fail at each of its four calls (`SetupFails`), with the `goto
free_ptr` over variables never set.  `ini_DOTS` may fail at each step whose result it tests
(`IniFails`): main then returns -1 at once, with all it has acquired and the alarm, if
it is set, still running to the end of the process.  The initialisers of this
commit return 0 on every path, so that this failure takes a change to one of them; main's
handling of it is code all the same.  An alarm between any two steps runs any of the pending
timers; `Uses` says what a handler touches.

## 3. The runs

`cfg` files have the names of the runs.

| Run | Question | Instance |
|---|---|---|
| `mac` | do vectors, counters and timers agree for every order of frames and timers; is `RetxService` implemented; does every packet leave? | 2 neighbours, 2 packets, 2 frames, 2 tries |
| `link` | with the times of the code: late answers, intervals, failing handlers, lost frames, wraps | 2 nodes; 1 to 3 packets at 93 sets of times; 2 losses |
| `pktq` | do `add_pkt`, `del_pkt`, walk and counter agree; what do handlers in between break? | 3 packets |
| `wheel` | is `TimerService` implemented; what do failing handlers and interruptions leave of it? | 3 slots, 3 timers |
| `delay` | back-off within the wheel, non-interference, is an RTS written? | 3 nodes, 3 topologies, 2 frames, 2 RTSs |
| `coll` | do `add_coll_node`, `del_coll_node` and two overlapping walks agree; what do handlers in between break? | 2 lists, 4 nodes |
| `shm` | exclusion, whole messages, and the end of every operation, with kills | 1 writer with a handler, 1 reader, 2 messages, 2 words |
| `app` | timers, overwritten packets, the answer `emac`, the end of the application | file of 2 lines, `TX_PKT_NUM` = 3 |
| `mac_exit` | is the order of the releases safe; is everything released once the loop was entered? | all resources of the code |
| `wheel_leftover` | *violated*: is a slot processed completely? | as `wheel` |
| `wheel_lost` | *violated*: is a timer that was added in the wheel? | as `wheel` |
| `delay_wrap` | *violated*: non-interference at the wrap of the time stamps | as `delay`, `StartTime = 65200` |

**The bounds.**

* `mac`: interference between packets happens between two packets of one queue,
  and the destinations of the two packets are free, so one queue holds both or
  each has one.  `MAX_RETX_NUM = 2` is the value of the code.  Two frames let a
  CTS and an ACK arrive, one of them repeat, or two collide (`DropFrames`).  The
  theorems of section 5 cover the other sizes for safety.
* `link`: the times, intervals and number of tries are those of the code; of the
  40 back-offs `rand` may give three are taken.  Three packets 50 s apart (the
  period of the application); two packets with ten distances from 0 to 50 s, so
  that the second starts in every phase of the first; one packet whose start is
  moved in steps of 1 s over 40 s before the wrap of the 16 bits and before that
  of the seconds.  Two losses in any place.
* `pktq`, `coll`: three elements give every relative position in a list: front,
  middle, rear, and one before and one after the element deleted.  The fourth node of
  `coll` is one behind the neighbour the handler deletes while main relinks it: the
  list *a*, *p*, *b*, *c* of section 4.  Nodes are told apart only by the order of
  their allocation, so they are symmetric.
* `wheel`: three timers make a list of three; with three slots timers lie behind,
  ahead of and in the current one, and every interval up to a turn less one.
* `delay`: the topologies take neighbours close by, and neighbours at nearly
  `MAX_PROP_DELAY` on either side, where guard windows of different frames
  overlap; time moves in steps of 90, about as long as the windows, and by the
  exact back-off of an RTS that waits.  Frames are heard for `HearTime` = 180,
  longer than the time between two frames of a handshake (`MAX_PROP_DELAY` = 150);
  `MaxTime` = 900 lets the longest handshake heard then (at most 3 * 150 + 165 with
  its guard time) and the back-offs it causes come to an end.
* `shm`: two words make a torn message possible, two messages of different size
  a rest of the longer one.  One writer, because a cell has one besides its
  reader; its handler makes it two actors.
* `app`: two lines make one packet follow another; with `TX_PKT_NUM` = 3 the end
  of the file is met twice.  The periods are those of the code.

**Deadlock** is checked in `mac` and `wheel_leftover`.  Elsewhere the system stops
by itself or at a bound: the programs end (`app`, `pktq`, `coll`, `mac_exit`), are
killed (`shm`), or crash (`wheel`, `wheel_lost`); `link` ends when all packets are
through, and in `delay` time is bounded.

**Fairness.**

* `DotsMac`: main is a loop without blocking calls (weak fairness of `Main`); the
  alarm comes every 100 ms and a timer whose slot has come is run (weak fairness
  of every handler, for every destination).  For an RTS that is put off weak
  fairness is required of *writing* it: the collision nodes that put it off
  expire, which is what `RTSWritten` of `delay` shows, away from the wrap.
* `TimerWheel`: the alarm comes whatever main does (strong fairness: it waits for
  a handler that runs), handlers and `add_timer` end.  A handler may add timers,
  but only finitely many nodes are available.
* `DelayMap`: time advances, and a timer that is due runs.
* `ShmChannel`: every actor goes on (strong fairness): alarms are 100 ms apart, so
  main runs between two of them, and the kernel wakes the sleepers of a semaphore
  in turn.  Killing, starting and interrupting are not fair: they need not happen.
* `AppMac`: the clock ticks, the callbacks due are run, both main programs run.

**What the runs show.**  The searches by state vector are sound: packets may be
exchanged between timers, but `TimersExact` says that in each phase there are as
many timers as packets, so none is left over on either side.  `UpdateStatExact`
is the reason why no packet is stranded.  `PacketLeaves` does not exclude the end
of the process by an answer nobody waits for; `NeverExits` does, for two nodes
with the times of the code: 27.5 s are enough for an answer, also when a frame is
lost or the time stamps wrap (`DotsLinkProofs` shows it for any number of packets and
losses before a wrap).  `HandlerFinds` and `IntervalFits` are stated away
from the wrap: the answer to a frame that was under way at the wrap is sent late,
by up to 3.5 s, which the waits allow for, but DATA may then find its packet
already backed off, and its timer stays a turn longer.  Packets the application
sends in its period are all acknowledged if one frame is lost, and none
overwrites another (`link`, `app`): the MAC process is never busy with one frame
for as long as a period.

## 4. Where code and comments disagree, and what else was observed

Three disagreements have runs of their own:

* `wheel_leftover`: `timer_man.c:114` says that all timers of a slot are
  processed.  A failing handler leaves the rest for a turn of the wheel, 50 s.
  `WheelOK` and `RunsDueTimers` show that this is all: no timer is lost or run
  twice.
* `wheel_lost`: an alarm inside `add_timer` between the test of `front` and its
  assignment loses the timer a handler has added to that slot.
* `delay_wrap`: within a minute before the time stamps wrap the time of the
  expected ACK wraps first, the collision node is deleted at once, and the RTS
  goes out into the neighbour's reception.  The opposite also occurs: theorem
  `NeverExpires` states that a node whose ACK is due at the largest 16-bit value
  stays for ever.

The properties of the other modules are stated around what follows.  Each can be
seen with TLC by checking the formula given as an invariant of a module that
EXTENDS the one named, with the constants of its run and `Spec`:

| Module, formula | What happens |
|---|---|
| `PktQueue`, `fault = "none"` | `wait_cfrm_fdbk` deletes the last packet between `add_pkt`'s test of `front` and its use of `rear` (`pktq_man.c:91`), or the packet main's walk is at (`Mac_layer.c:230`): freed memory is used. |
| `PktQueue`, `fault = "none" /\ pc = "idle" => update_stat = Cardinality(Unsent)` | `update_stat++` of `back_off` falls between the load and the store of main's `update_stat--` (`Mac_layer.c:229`) and is lost; main may never look at the released packet. |
| `CollList`, `~ fault` | The handler's walk deletes the collision node main's walk is at (`dly_map_man.c:274`), or one main is relinking or linking, as in the next row. |
| `CollList`, `fault \/ L`, where `L` is `ListOK` without `~ interrupted` | The shortest trace: the handler deletes the new node between lines 79 and 80 of `add_coll_node`, and `rear` is set to freed memory, which the next `add_coll_node` writes to.  Another one: in the list *a*, *p*, *b*, *c* main deletes *p*.  The alarm comes after line 324 (`a.next = b`), and the handler's walk deletes *b*: `p.next = c`, `c.prior = p`.  Main goes on with line 325, `c.prior = a`, while `a.next` still points to the freed *b*.  No node is lost yet (`NoneLost`), as `next` of *b* still is *c*; the next walk reads it. |
| `ShmChannel`, `\A p \in Process : ~ WaitsForItself(p)` | A handler sends a frame while main of the same process is inside `shm_operation` on the same cell: it waits for the program it interrupted. |
| `ShmChannel`, `\A a \in Actor : pc[a] # "failed"` | The alarm interrupts a `semop` that sleeps (EINTR, `shm_man.c:59`); `semaphore_p` fails and the process ends. |
| `ShmChannel`, `~ Replaced` | A handler fills `g_phy_tx_buf` between main's filling and its copying of it (`axidma_DOTS.c:316`); a reader gets words of two frames. |
| `ShmChannel` with `LateStart = TRUE`, `MutualExclusion` | A process that starts sets the semaphore to 1 while another one is in its critical section (`shm_man.c:149`). |
| `AppMac`, `pc # "failed"` | The MAC process has left its loop because of an unexpected answer, and the application finds no `emac` ("We should never arrive here", `App_layer.c:304`). |
| `MacLifetime`, `Started => fault = "none"` | A timer that is due while main releases its resources uses the cells, the buffers, the delay map or the log; `StoppedInTime` names what is safe. |
| `MacLifetime`, `~ Started => fault = "none"` | After a failing `ini_shm` `free_ptr` frees buffers whose pointers were never set, and closes files and lists that were never opened.  It ends with `return 0` (`Mac_layer.c:380`), where line 63 promises -1. |
| `MacLifetime`, `pc = "ended" => \A r \in Resource : ~ Live(r)` | After a failing `ini_DOTS` main returns -1 (`Mac_layer.c:191-195`) with the cells attached, the buffers allocated and the log open.  `AllReleased` is therefore stated for a process that was in its loop. |
| `DotsLink`, `acked \subseteq ToSet(delivered)` | Frames do not name their packet.  One lost RTS shifts the first packet into the handshake of the second; both CTSs are checked, the first packet is sent twice (`axidma_DOTS.c:442`), the two ACKs delete both, and the second was never delivered. |
| `DotsLink`, `Len(delivered) = Cardinality(ToSet(delivered))` | A lost ACK makes A repeat the packet, and B passes it on twice: there are no sequence numbers. |

## 5. The proofs

All proofs are checked by `tlapm` to the last leaf.  They assume only the named
assumptions on the constants, which the runs evaluate, and what a theorem states
in its `ASSUME`.

**DotsMacProofs** (`NodesAssumption`, `RetxAssumption`, `BoundsAssumption`).
`Invariance` proves the inductive invariant `IInv`:

* The counts (`UpdateStatExact`, `CtsTimersExact`, `AckTimersExact`,
  `BackOffTimersExact`) are equations between a counter and the cardinality of
  a set of packets.  None is inductive alone: that `BackOff` finds a packet whose
  move from one set to another matches its counters needs the vector of that
  packet to be consistent, `StateVectorOK`.
* A step changes the vector of at most one packet.  `OneElement` and
  `PacketStep` turn that into what happens to the cardinalities;
  `VectorStep`, `RemovalStep` and the lemmas on the six assignments
  (`StartSendingVector`, ...) say what the packet contributes before and after;
  `CountsKept` closes the equations.  One lemma per action follows.
* `RetxBound` needs only itself and the guard of `StartPacket`.  `SleepHasTimer`
  needs the position of main, `LoopOK`.

From `IInv` follow `TypeCorrect`, `UpdateStatCorrect`, `TimersCorrect`,
`VectorsConsistent`, `RetxBounded`, `SleepCorrect` and `HandlersFindPacket` (a
positive counter makes its set non-empty).

`ImplementsService` uses `IInv` and the mapping from vectors
to phases.  A step changes the phase of at most one packet (`OneStep`), so it is
a step of the service or a stutter.  The consistency of the vectors is needed
where a search finds a packet: `WaitACK` deletes only an acknowledged one, and
no back-off hits one that was acknowledged.

**DotsLinkProofs** (`WaitsAssumption`, `TriesAssumption`, `ArrivalsAssumption`,
`CollisionCheck!TimesAssumption`).  Two invariants, for any number of packets, any
times at which they come, any number of frames lost and any times of the code that
satisfy `WaitsAssumption`: B answers within `MAX_PROP_DELAY`, a wait is longer than
the way of an answer, and over before the data is due.

`TInv` holds always: types, the order of the bits of a vector, and `AcksFollow`, that
an ACK anywhere on its way (a timer, a cell, a frame read, a bit, a deleted packet)
goes back to a delivery.  `TypeCorrect` and `OnlyPacketDelivered` follow.

`IInv` holds while the time stamps have not wrapped, `NoWrap`; as time does not go
back, that is a condition on a state and not on its past.  That an answer finds its
packet is not inductive: it depends on the wait being still set, that on the age of
the frame, and the searches may give the packet of one wait to another.

* `Timely`: no timer is overdue, main sleeps exactly while a timer will wake it, and a
  frame is at most so old at each place of main (`Young`).  B may be busy with data
  when a frame comes (`Slack`), A never is.
* `Balance`: in each phase as many timers as packets.
* `Matched` is about frames and waits, which packets do not identify.  For *every set
  of times*, no more frames sent at these times have an answer on its way (in a cell,
  being read, in a timer of B) than waits were set at these times.  As this is said of
  every set, single times and all of them at once are instances; no frame has to be
  paired with a wait.
* `Answered`: a packet whose CTS is not checked has a wait besides those of the answers
  still to come, and a DATA timer that is not due before that wait.  When DATA is
  due, every wait of its time or before is over, and the packet has been checked.

Only one element enters or leaves a count at a step, so each action has a lemma on the
counts it moves (`Flying`, `CountA`) and one on the phases.  `LoopGoesOn`
(`NeverExits`), `IntervalsFit` (`ValuesFit`), `HandlersSucceed` (`HandlerFinds`) and
`NoPacketStays` (`NoneStays`, the first part of `AllLeave`) follow.

**DelayMapProofs** (`NetworkAssumption`, `TimesAssumption`, `LocalAssumption`,
`TopologyAssumption`, `WheelAssumption`, `BoundsAssumption`).  `HashInRange` and
`HashInjective`: `dly_harsh` is a perfect hash of the pairs of different nodes,
for every network size.  `BackOffWithinWheel` bounds `ck_collision` for all
arguments, wrapped or not; with it `DelayMapInvariance` gives `DelayMapTyped` and
`BackOffFits`.

`NeighboringNonInterference` is what DOTS promises: an RTS that is written, and
the data after it, do not arrive at a neighbour while it receives an answer to a
frame that was heard.  `NonInterference` says nothing of the collision nodes;
`NInv` adds `DelaysKnown` (the map has the delays of the frames heard, by
`HashInjective`) and `KeptOrOver`: a frame heard has its node, or no RTS written
from now on can collide with what it announces.  The node of
a CTS is deleted once an RTS would arrive after the ACK here (`lcl_ACK`, with the
guard), while what it protects is the data at the neighbour (`adj_DATA`), which is
computed from another delay; that the deletion is never too early needs that no
delay exceeds `MAX_PROP_DELAY + CFRM_GUARD_TIME`.  The theorem assumes that, and that no time
stamp or sum of one with the times of a handshake wraps over the time considered
(`NoWrap`).  Both hold in `delay`; `delay_wrap` shows that the second is needed.

**TimerWheelProofs** (`WheelAssumption`, `IntervalAssumption`, `NodeAssumption`).  `WheelInvariance`
proves an invariant in two parts.  *Sound* holds wherever the signal interrupts
`add_timer` and whichever handler fails: a pointer one follows leads to an
allocated node whose timer has not run, no two lead to the same one, and
`proc_timer` is at the front of its slot or behind it.  From it follows
`HandlersRunAskedTimers`.  *Ordered* holds until `add_timer` is interrupted: a slot
has the timers due in it in the order in which they were asked for, less the one
that is being linked.  "The next in the list" is there the next in `agenda` with
the same slot, so that steps compare positions in a sequence and no list is
walked.  `WheelIsSound` turns positions into the least closed set of `List`;
`HandlersRunDueTimers` and `WheelImplementsService` follow: setting, tick and
firing of `TimerService`, every other step a stutter.

**CollListProofs** (`NullAssumption`, `SizeAssumption`).  `ListInvariance` proves
`LInv` for any number of nodes and lists, and the handler between any two
assignments of main.  It has three parts, of which the first and the last are those
of `PktQueueProofs` below, with freed nodes that stay in the way of a walk:

* `Sturdy` holds as long as no freed memory was used.  Every list holds its nodes
  (`Reached`), `prior` leads to the node before, through freed nodes if need be (`PriorOK`,
  `Leads`), no two nodes share a neighbour (`NextOK`), none is before the front
  (`FrontOK`) or behind the rear (`RearOK`).  `AddOK` and `DelOK` say what the two
  functions have still to do at each place; `MiddleOK` is the node between two
  neighbours, one of which the handler deletes.
* `Walking`, for each actor: what a walk has not checked is ahead of it (`Covers`): a set
  with the node ahead, closed under `next`, has every node of the list that is not
  checked.  A node that is unlinked changes such a set by itself and freed nodes only,
  which is why a walk survives that the other actor deletes nodes elsewhere.  `Passes`:
  the handler does not get to a node main has just unlinked, and free it again.
* `Whole` holds until the handler comes inside a call of main: the lists are doubly
  linked (`Doubly`), less what is left to do at each place (`ItsOK`), and both walks go
  on to nodes of a list.  Hence no freed memory is used.

One lemma per action follows, for each part it can disturb.  `MapIsSound` and
`WalksComplete` follow from `LInv`: the double linking from `Whole`, that no node is lost
and that walks are complete from the other two, also after an interruption.

**PktQueueProofs** (`PktAssumption`, `NullAssumption`, `RetxAssumption`).  `QInv` has
three parts, for any number of packets and any places of the handlers:

* `Sturdy` holds as long as no freed memory was used, whatever comes in between:
  between two assignments of main `wait_cfrm_fdbk` may delete the neighbour whose
  pointer main has read, the front, or the rear.  `prior` may then point to freed
  packets and `next` lead through them (`Leads`), but the queue still holds all
  its packets (`Reached`), no two share a neighbour (`PriorOK`, `NextOK`) and `rear`,
  if it is allocated, is the last (`RearOK`).  `AddOK` and `DelOK` say what
  `add_pkt` and the four cases of `del_pkt` have still to do at each place; the
  hardest is a packet between its two neighbours, unlinked from one (`MiddleOK`),
  one of which, or the packet before or behind, is deleted now.
* `Whole` holds until a handler comes inside main's steps: the doubly linked list,
  with what is missing of it at each place, and that main goes on to allocated
  packets.  Hence no freed memory is used.
* `Counted`: `update_stat` is the number of unsent packets plus what the place main
  is at still owes; after a lost update it is lower, never higher.

`PacketsStayInQueue` follows from the first, `QueueIsSound` from the first two,
`UpdateStatCounts` from the last.

**ShmChannelProofs** (`ProcessAssumption`, `MsgAssumption`, `FaultAssumption`, and
no late start).  `Exclusion`: `MutualExclusion` is not inductive, as it says
nothing of the semaphore.  `SInv` adds `SemExact` (the semaphore is 0 exactly
while an actor is inside, and `undo` is 1 exactly for its process, so a kill or
an exit gives back what was taken) and that only processes that run are in a
call.  `TypeCorrect` adds the types of the cell, `TInv`.  `ImplementsCell` proves
`RegisterSpec` without writing handlers and kills, for any number of writers,
messages and words: `RInv` says which prefix of the message has been copied at
each place of an operation.  With handlers or kills, its exceptions, the
refinement is model-checked.

**AppMacProofs** (`TimeAssumption`, `PktAssumption`, `NoneAssumption`).  The
invariant says how long a message has been in the cell, measured by the timers
of the application: a packet for `TxPeriod` less what `tx_data_pkt` has left, the
request to end for `ExitWait` less what `v_sleep` has left.  `InTime` bounds that
by the time a MAC process needs to come back to its poll (`Busy`), which
`TimeAssumption` makes less than both.  `NothingOverwritten`, `AnswerCorrect` and
`NothingInUseAtEnd` follow for every file and every `TX_PKT_NUM`; `LastReadOK`
does the same for the last call of `rx_data_pkt`, which must not take the answer.

**Only model-checked:** liveness (`PacketLeaves`, `BusyWaitEnds`, `TimerRuns`,
`RTSWritten`, `OperationEnds`, `AppEnds`, `AllLeave`), as fairness and ENABLED are
beyond the prover; `ListSpec` of `PktOrder` and `CollOrder`, whose sequences are
read off by recursion along the pointers; `RegisterSpec` with writing handlers or
kills; of `DotsLink`, `NoOverwrite` and the second part of `AllLeave`, which rest on the
values of the times (the period of the application, one frame lost), and what it says
across a wrap of the time stamps; `MacLifetime`, which has no parameters: its run is
the whole system.

## 6. Not modelled

* Time that goes on for ever in `DelayMap`: after a wrap of the time stamps an RTS
  may be put off by a node that never expires (`NeverExpires`).
* Failing `calloc`, failing set-up of the application, log files, and calls of the
  C library that are not safe in a signal handler.
* A bound on the number of collision nodes: a node that never sends keeps one for
  every frame it hears.
* More than two nodes with time, and several hops: the code has one hop.
* `DOTS_Analysis` (plots), the FPGA modem and the AXI-DMA driver (not in the
  repository).

Worth adding next: cyclic time in `DelayMap`, and in the proofs about `DotsLink`, whose
counts go back from a timer to the time stamp of its frame; the order of
`PktOrder!ListSpec` as a relation, to prove it without recursion.
