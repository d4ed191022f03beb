# Verification of the Saitek FIP driver

TLA+ models, TLC checks and TLAPS proofs for `deckr-driver-saitek-rust`, the
program that connects Saitek Pro Flight Instrument Panels to a Deckr controller.
Paths such as `manager.rs` are relative to `src/src/` of this tree.

## The system

A process runs one *manager session* at a time against a NATS server. A session
has a device supervisor, an event loop and the core's own tasks; each panel has
a worker thread that owns its USB handle. Two kinds of channels join them: a
bounded command queue per worker, guarded by a mutex, and unbounded report and
event channels.

    core --authorised commands, resets--> command handler --queue--> worker --USB--> panel
    core <--set_device, remove_device, input-- event loop <--events-- supervisor <--reports-- worker
                                                               supervisor --stop (queue)--> worker

| component | state | operations | what makes it correct |
| --- | --- | --- | --- |
| command channel (`manager.rs` 188–382) | queue, sender count, `stopping`, `receiver_alive` | clone and drop a sender, `send` (output, reset, stop), `try_recv`, drop the receiver | bounded; the newest state of a control always wins; reset and stop go first and are never lost; nothing follows a stop |
| USB worker (1190–1400) | position, `previous_mask`, the panel | open, probe, darken, announce, drain up to four commands, check the watchdog, read HID, reset and return | outputs of a lost claim do not stay on the panel; only USB faults end it; a stop always ends it, dark; buttons are never starved |
| frame watchdog (60–114) | `last_frame`, `notice_shown` | `observe`, `check` | the notice is shown when, and only when, the stream is silent and the screen was not blanked on purpose |
| supervisor (856–1188) | `launched_workers`, `active_workers`, `workers`, next id | enumerate, reap, reconcile, four kinds of report, stop and join | one thread per panel, none forgotten, all joined; the manager's view follows the workers |
| event loop and command handler (384–448, 734–773) | `command_map`, the event in hand | register and unregister routes, call the core, check and send a command | routes and core agree with the workers; input only in session |
| session (556–732) | cancellation, backoff, the stages of a session | connect, start, run, clean up, retry | a signal is terminal; everything started is joined; the retry is cancellable |
| USB backend (`backend.rs`) | claimed and detached interfaces | pick endpoints, claim, roll back, release; transfers under one deadline | the endpoints used are on interfaces held; no kernel driver or claim is left behind; no transfer without a timeout |
| protocol, HID, descriptors (`protocol.rs`, `descriptor.rs`, parts of `manager.rs`) | `previous_mask`, `has_hid_input`; in the panel: contacts, report, lamps, screen, unread replies | packets and replies, masks to events to input messages, messages to outputs to packets | the controller's view stays in step; what is announced is served; lamps and screen are what was ordered; no late reply counts as consent |
| images (`image.rs`) | – | decode, scale, flip, draw the notice | every byte in its place; the notice inside the frame |
| command line (`cli.rs`, `main.rs`, `lib.rs`) | – | arguments, logging | – |
| core runtime (dependency) | claims, devices | authorises, routes, resets after a claim ends | external: only the calls between it and this code are modelled |

What is hard to test here is the order of steps of different parties: a claim
that ends between a check and the USB write it guards; a reset overtaking
outputs and being overtaken by a stop; an enumeration that is old when it is
used; a report of a thread whose successor is already launched; a panic that
sends no report; a shutdown that meets threads at any point of their lives; a
reply or a HID report that is read after its time, by a later worker even.
`PROJECT.json` lists these hazards line by line with the properties that
cover them.

## The modules

**`CommandMailbox`** is what the command channel promises: for each control at
most one waiting output, in front of them at most one order (reset or stop), and
an output may be given up only when the other commands alone fill the channel.

**`CommandQueue`** is the channel itself. Each method runs under the mutex and is
one action: `Clone`, `DropSender`, `SendStop`, `SendReset`, `SendOutput`,
`TryRecv`, `DropReceiver`. The `VecDeque` is a set of commands stamped with the
number of their send: `push_front` happens only on a queue that was just cleared,
so the order of the queue is always the order of the stamps, `pop_front` is
`First` and the positions `enqueue_bounded_command` searches for are least stamps.
`EnqueueBounded` is `retain`, the eviction loop (its body runs at most once, for
the queue never exceeds the capacity) and `push_back`. The history variables
`sent`, `taken` and `evicted` record what happened to each accepted command. A
send that the code refuses (receiver gone) or drops (stopping) changes nothing
and is no action. The condition variable is waited on in test code only.

**`DeviceWorker`** is one worker thread above the mailbox, with its panel, the
display watchdog, the command handler that feeds it and the claim behind the
commands. `pc` follows `device_worker`: open, probe, dark (`clear_leds`),
announce, then the loop drain – apply – convert – write – check – hid, or reset
and gone. Steps are split wherever another party can act in between: the
handler's last `authorize` and its `send` (`HandleCommand`, `SendCommand`), the
worker's first and second check of authority (`ApplyOutput`, `Convert`), and the
USB write itself (`Write`), before which a claim may still end. A broken part of
the panel makes its operations fail; a write that fails may have arrived, and
`clear_leds` may have got part of the way. Time is counted in ticks, saturating at
`Timeout`. `late`, `silent`, `blanked` and `seen` are history.

**`Supervisor`** is `Supervisor::run` and everything it calls, with each thread
reduced to what the supervisor can see of it: *starting* (not opened), *opened*,
*serving* (Connected sent), *reported* (final report sent, thread still alive),
*finished*, *panicked*. Reports travel through `worker_rx`, events through
`manager_tx`, both unbounded and ordered as in the code. `Enumerate` takes the
snapshot and `Reconcile` – reaping, then `reconcile_usb_presence`, in that order
and in one step as nothing in them awaits – uses it later, when panels may have
come and gone. Where the code iterates over a hash map the order of the events
is chosen freely. A handle opened before its panel left stays dead.

**`Manager`** adds `worker_event_loop`, `command_map` and the core's device set.
Updating the table and calling the core are two steps, with anything in between.

**`DeviceRegistry`** is what the core and the command handler are promised of all this, with
panels, threads and supervisor left out: a device has one session at a time, of one worker.
`Open` gives its commands a route and calls `set_device`, `Deliver` hands over input of the
session's worker, `Close` takes the route away and calls `remove_device`; the core answers one call
before the next. `Manager` implements it: `command_map` is the route, the core's devices are its
own, and `CallUnderWay` is the step of `worker_event_loop` as the core sees it.

**`Session`** is the manager's life: `run_until`, `retry_sessions` and
`run_connected_session` are one task, so a step goes from one await to the next
(`at`), and the signal comes between two steps. `Begin` and `Backoff` are the loop
of `retry_sessions`, `Connect`, `SetUp` and `Start` the start of a session, each with
the cancelled branch of its biased `select!`; `UndoStop` and `UndoJoin` the way back
from a start that failed; `Serve…` the four branches of the select that waits for
any part to end; `StopRuntime` and `JoinSupervisor` the two arms of `tokio::join!`;
`JoinTasks` and `Close` the rest. The supervisor, the event loop and the core's
tasks are tasks that run, end and are joined; what the supervisor does between
being asked and ending is `Manager`'s part. Errors are named after what failed, so
that it can be said which of several is returned. A session's locals are reset when
its error has been logged; after a return they stay as they were.

**`FipProtocol`** holds the pure parts: control packets with their words and bytes,
the replies `backend.rs` validates, HID masks and their translation to events
(`ButtonOf`, the knob controls), the controls and capabilities of `descriptor.rs`, the
input messages, and `hardware_output_from_body`. A 16-bit mask is the set of its bits. JSON
values are named by what the code distinguishes in them: booleans, strings that are
an image in base64, strings that are other base64, and the rest.

**`PanelSession`** runs these operators over the lives of successive workers of one
panel, and has the panel beside them, modelled from `README.md` and the tests as
external: its contacts and knobs, the one report it holds (a newer one overwrites it),
lamps, screen, and the queue of replies nobody has read. A reply waits in the panel until
it is read, so one that came after its command's deadline is found by the next command,
of the next worker perhaps. A packet may be refused by an error in its reply. Actions are
the steps of a session that touch panel or controller: `Connect` and `ConnectFails` (probe, dark,
announce), `ReadReport` and `ShortReport`, the commands with each of their outcomes,
`ResetDevice`, `ShowNotice`, `StopOrFail` with `ResetPanel` or `ResetFails`, which leaves up
to two replies unread, a lamp's and the clear's. The
controller's view (`down`, `angle`) is the sum of the messages it was sent; `read` and
`turned` are what the contacts did. When a worker runs and which command comes next is
`DeviceWorker`'s and `CommandQueue`'s business: here any order is possible. There, in turn,
a panel that answers is taken to comply: refusals are here only.

**`UsbHandle`** is one panel's USB handle: `find_fip_endpoints`, `UsbBackend::open` with
`claim_interface` and `rollback_interfaces`, `transceive` with `write_all`, `read_reply`
and `remaining_timeout`, and `drop`. Each libusb call is a step that may fail. A configuration is
a sequence of interface descriptors of any classes and endpoints; of several that would do
the last wins, as in the code. Time is counted in ticks finer than libusb's milliseconds,
as the truncation of the remaining time is the point.

**`Frame`** is the arithmetic of `image.rs`: the loops that flip and reorder an image
into a frame, and the rows and columns the notice's glyphs are drawn at. It has no state;
its theorems are about every image at the real size, where enumeration would be useless.

`Session`, `UsbHandle` and `PanelSession` stand alone: what they assume of the others is stated
where they do. `MC…` modules give the constants values; each `.cfg` is one run.
**`CommandQueueProofs`**, **`DeviceWorkerProofs`**, **`SessionProofs`**, **`ManagerProofs`**,
**`RoutingProofs`**, **`UsbHandleProofs`** and **`PanelSessionProofs`** hold the proofs.

## What the runs check

| run | instance | what it shows |
| --- | --- | --- |
| `command_queue` | two senders, two lamps and the screen, capacity 2, five sends | `OnlyOutputsEvicted`, `NothingStaleWaits`, `NothingLost`; `InOrder`; `StopArrives` (liveness); `ImplementsMailbox` |
| `worker_claims` | two claims in turn, revocations, resets, a stop, failures | `LostClaimIsCleared`, `OneLateOutput`, `StopLeavesDark` |
| `worker_display` | frames, bad frames, clears, wrong controls, lamps, time | `SilenceIsShown`, `NoticeMeansSilence`, `OnlyFaultsEndTheWorker` |
| `worker_stream` | endless outputs, presses, failures | `StopEnds`, `InputArrives` (liveness) |
| `manager_moves` | one panel with two addresses, faults, panics, shutdown, fair | `OneThreadPerPath`, `NoOrphan`, `AllJoined`, `RoutesFollowWorkers`, `DeadRouteIsKnown`; `ImplementsRegistry`; `ShutdownEnds`, `EventuallyServed` (liveness) |
| `manager_pair` | two panels | `RoutesFollowWorkers` across panels |
| `manager_log` | one panel | a violation, see below |
| `session` | two core tasks, delays up to 10 s, failures and the signal anywhere | `NothingOutlives`, `OnlySignalEnds`, `FailureIsReported`, `SignalIsTerminal`; `SignalEnds`, `BrokenSessionEnds` (liveness) |
| `session_remote` | the same | a violation, see below |
| `usb_handle` | seven configurations of interfaces, drivers bound or not, failures anywhere, a 3 ms deadline in half milliseconds, up to four transfers | `Restored`, `EndpointsClaimed`, `DeadlineHolds`; `CommandEnds` (liveness) |
| `panel_session` | three workers in turn, five contacts, three moves, commands, resets or notices, two unread replies, any packet refused | `ControllerInStep`, `DescriptorIsKept`, `LampsAsOrdered`, `FrameIsShown` |
| `panel_refused` | one worker | a violation, see below |

Bounds. Capacity 2 with three controls makes the full queue, the choice of a
victim and the raster preference happen after three sends; five sends leave room
for a coalescing, a reset and a stop around them. The proofs remove the bounds on
the queue altogether. Two claims suffice for one claim's output to meet the
next claim's session; two ticks of timeout separate "fresh", "ageing" and
"silent". For the supervisor three or four worker ids let a path be served, lost,
served again and lost again while reports of the first worker are still under
way; the fault bound counts plugs, unplugs, failures and panics, and the fault
counter is what makes "once the panels stop coming and going" expressible.
`Session` needs no bound: the delay saturates after five sessions, and two core
tasks let one end while another still runs. A deadline of three milliseconds leaves
time for two late transfers and a rest of half a millisecond before the third. Its
configurations are the panel as sold, all on one interface, input missing, the bulk
endpoints apart or half a pair behind a whole one, interfaces twice, and none that
can be used: with the last two, order matters. In `PanelSession` three events reach a report that is
overwritten, a knob turned across a reconnection and a frame after a refused clear;
three workers let the reply the first one missed meet the third; the contacts
are a button, both contacts of one knob, one of the other and a bit nobody uses.
`MaxSends`, `MaxClaims`, `MaxWorkers`, `MaxFaults`, `MaxInputs`, `MaxCalls`, `MaxLate`,
`MaxEvents`, `MaxSessions` and `MaxStale` are bounds of the models and appear in guards;
nothing in the code corresponds to them.
Deadlock is not checked where the program does end: a finished worker, a
supervisor that returned, an exhausted bound.

Fairness. A worker thread keeps running and every USB operation ends by its
five-second deadline (`transceive`), hence weak fairness of `WorkerStep` and of
each `ThreadStep`. The supervisor's outer `select!` is not biased, it picks among
its ready branches at random: a branch that is ready again and again is taken,
hence strong fairness of `HandleWorkerReport`, while `Enumerate`, `Reconcile`,
`ObserveShutdown` and the stop-and-join need only weak fairness. The event loop
is a task of the runtime, weakly fair. The manager's task is weakly fair too, but not
in what it waits for from the network: an answer to `connect`, set-up or start may
never come, there only the signal is sure. `hardware_runtime.stop()` returns ("bounds
remote cleanup") and ends the core's tasks; the supervisor ends once it is asked,
which `ShutdownEnds` shows; an aborted task ends. A transfer that was given a timeout
returns; one given none need not. Nothing is assumed of panels, senders,
claims, faults or the shutdown signal.

Assumptions. Two panels present at the same time have different identities
(`ManagerAssumption`: paths of one identity are `Exclusive`, as the addresses of one panel are). An
address is not given to another panel within a session. The core calls the reset
handler after a claim ends. Panics are caught by `join`, that is, in builds that
unwind; the release profile aborts instead.

One observation on the way. A worker can run one reply behind: if the panel answers a
probe after its deadline, the next worker's probe is answered by that, and from then on
each command reads the reply to the command before. Nothing resynchronises the two:
lamp commands do not notice, the first frame fails its check and the worker with it.
What must not happen is that an old reply passes for consent to a frame. It does not
(`FrameIsShown`), because between the replies to frames of two workers there are those to
a probe and eight lamp commands, as long as no more than nine replies wait.

### Three disagreements

README.md:40 says "A remote cleanup failure is reported on exit and never starts
another session." It never starts one (`SignalIsTerminal`) and some error is always
returned (`FailureIsReported`), but not always this one: the results are joined with
`Result::and`, which keeps the first. If the session had already failed, or the
USB cleanup fails too, the remote cleanup's error is dropped unlogged. The run
`session_remote` finds it (`RemoteFailureIsNamed`): a start fails, the signal comes
while it is being undone, `stop()` fails, and the manager returns the start's error.

README.md:51 says "Worker failures retain the underlying USB error in the log."
At shutdown `stop_all_workers` joins the threads but reads no report any more: a
worker that fails, or whose final reset fails, sends a `Failed` report nobody
logs. The run `manager_log` finds it (`NoFailureUnread`).

image.rs:36 says of the notice "never leave an old radar image looking live". `clear_image`
(backend.rs:208) hands back the panel's reply and nobody looks at it: a clear
the panel refuses counts as done and disarms the watchdog. The frame stays, and no
notice will come. The run `panel_refused` finds it (`ImageIsWatched`).

## What is proved

`CommandQueueProofs`, for every set of controls, outputs and senders and every
capacity from two on:

| theorem | states |
| --- | --- |
| `TypeCorrect` | `Spec => []TypeOK` |
| `QueueIsBounded` | `Spec => []Bounded` |
| `NeverStale` | `Spec => []NothingStaleWaits` |
| `NeverLost` | `Spec => []NothingLost` |
| `OrdersSurvive` | `Spec => []OnlyOutputsEvicted` |
| `StopStaysLast` | `Spec => []StopIsLast` |
| `ReceivedInOrder` | `Spec => InOrder` |
| `NoEviction` | `Spec => []RoomForAllControls`, for finitely many controls |
| `QueueImplementsMailbox` | `Spec => ImplementsMailbox` |

The argument rests on one inductive invariant, `IInv`. The safety properties are
not inductive alone: that the command being sent always finds a place needs that
at most one order waits, which follows from `NothingStaleWaits` and the
uniqueness of stamps (`Stamps`); that a stop stays alone needs that no stop was
sent before `stopping` (`StopKnown`); the order of receipt needs that all that
waits was sent after all that was received (`Placement`). `FirstIsLeast` gives the
`CHOOSE` of `First` its meaning, `RoomIsMade` and `EnqueueKeepsRoom` say what
`enqueue_bounded_command` does to any queue it is called with. The refinement
maps each slot to the output waiting for its control; `BacklogCounts` shows by
counting that a queue that evicts is full of other controls' commands.
The assumptions are those of `CommandQueue`: outputs address controls, the
constant of order commands is no control, the capacity is at least two.

`NoEviction` has no run of its own: it is about capacities larger than the number of
controls, as the real one of 32 is, and its proof covers them all.

`DeviceWorkerProofs`, for every set of controls, outputs, claims, buttons and fragile parts,
every timeout and batch:

| theorem | states |
| --- | --- |
| `LostClaimsCleared` | `WSpec => []LostClaimIsCleared` |
| `LateOnce` | `WSpec => []OneLateOutput` |
| `LeavesDark` | `WSpec => StopLeavesDark` |
| `FaultsOnly` | `WSpec => OnlyFaultsEndTheWorker` |
| `NoticeOnlyInSilence` | `WSpec => []NoticeMeansSilence` |
| `SilenceShows` | `WSpec => SilenceIsShown` |
| `TypeCorrect` | `WSpec => []WTypeOK` |

`StageInv` says what is known of the thread wherever it stands: a stop that was accepted is
still in front of the queue or has been taken, and only a worker that failed or was reset
is gone. `StopLeavesDark` is about that last step: every part that works by then is dark,
lamps left lit are what the worker reports, and a screen left lit belongs to a worker that
reports a failure, the lamps' perhaps, for `reset_device` hands on one error and the lamps'
comes first (`ResetFailure`).
`ClearInv` adds to `LostClaimIsCleared` the one thing it lacks: a command at the USB whose
claim ended has a reset behind it (`pc = "write" => Authorized(got) \/ Clearing`), for it
will put content on the panel that is stale at once. `LateInv` says that after
one late output nothing unauthorised is at the USB; it needs that every command comes with a claim
that can be granted, an assumption of `DeviceWorker`. `WatchInv` ties
the watchdog's clock to the silence there really was, and being armed to the screen not
having been blanked. As the worker stands on `CommandMailbox`, which
`QueueImplementsMailbox` shows the queue to implement, these theorems do not depend on the
order in which the queue gives out waiting outputs.

`SessionProofs`, for every set of core tasks and every cap of the delay:

| theorem | states |
| --- | --- |
| `TypeCorrect` | `Spec => []TypeOK` |
| `SessionsLeaveNothing` | `Spec => []NothingOutlives` |
| `ReturnsForTheSignal` | `Spec => []OnlySignalEnds` |
| `CleanupFailuresSurface` | `Spec => []FailureIsReported` |
| `TerminalSignal` | `Spec => SignalIsTerminal` |

Its invariant says what each stage holds: no task outside the stages that run or
undo a session (`Emptied`), the runtime and the connection only between their
making and their end (`Held`), no good end without the signal (`Excused`), and every
failed cleanup in the result once it is made up (`Accounted`). None of the properties
is inductive without them: that the manager returns for the signal only depends on
what was put into `result` many steps before.

`ManagerProofs`, for every finite set of paths with at least one, every number of
workers and faults, and every relation of panels that share a port:

| theorem | states |
| --- | --- |
| `NeverTwoThreads` | `Spec => []OneThreadPerPath` |
| `NoneForgotten` | `Spec => []NoOrphan` |
| `AllEnded` | `Spec => []AllJoined` |

The supervisor never looks at its threads but to reap them, so what it may conclude
from its tables must be in the invariant: worker ids are given out in order
(`Numbered`), so a launch never reuses one; a running thread is owned, and owned
threads are of different paths (`Owned`), which `Reconcile` keeps because it spares
a path while a thread that has not been reaped is left there; `launched` and `active`
hold workers of their path and never both one (`Tables`); a report names its worker's
path, and `Disconnected` and `Failed` come only from threads past their work
(`Truthful`), so that forgetting their worker orphans nobody. `ThreadMoves` is the
step of a thread, whichever it is; `Listed` says that the ids `Reconcile` gives out go
to each unserved path once.

`RoutingProofs` adds the events to the manager, the event loop and the core, for every set
of paths and identities that meets `ManagerAssumption`:

| theorem | states |
| --- | --- |
| `ManagerTypes` | `Spec => []TypeOK` |
| `RoutesFollow` | `Spec => []RoutesFollowWorkers` |
| `DeadRoutes` | `Spec => []DeadRouteIsKnown` |
| `NoInputOutside` | `Spec => []InputInSession` |
| `ManagerImplementsRegistry` | `Spec => ImplementsRegistry` |

Between what the supervisor has decided and what the table says lie the events nobody has
worked off, any number of them. The invariant `RInv` therefore speaks of the route of a
device after each prefix of them (`RouteIn`, given by the last of them that moves it). It
says that every event continues the session the ones before it leave (`Legal`): Connected
where there is none, the rest from the worker it belongs to; that all of them together
lead to the workers that are active (`Agree`); and that the core's devices are those of
the table, up to the call in hand (`Attentive`). For dead routes, `Followed` says that
whoever a route leads to, now or after an event on its way, is still active or has its
Disconnected behind it, and `Watched` that a worker in the supervisor's tables works, has
its final report on the way or is a panicked thread yet to be joined. All of it needs that
panels which are present, in the snapshot or have a worker are different panels
(`Separate`), which `Exclusive` gives; without it one panel's end would close the other's
session. None of these is inductive alone. `RouteStart`, `RouteMoves`, `RouteStays` and
`RouteOfTail` are what appending and working off do to a route: with them nothing has to
be shown by induction over the events. What a reconciliation does, with all its
Disconnecteds in any order, is `ReconcileDoes` and `ReconcileTells`. The refinement
follows from `Legal` at the first event: what the event loop receives is what the registry
may do next.

`UsbHandleProofs`, for every set of interfaces, every configuration, timeout and tick:

| theorem | states |
| --- | --- |
| `Restores` | `Spec => []Restored` |
| `ClaimsEndpoints` | `Spec => []EndpointsClaimed` |
| `KeepsDeadline` | `Spec => []DeadlineHolds` |
| `TypeCorrect` | `Spec => []TypeOK` |

`HandleInv` says, stage by stage, what is claimed and detached (`Claimed`, `Detached`), that
the kernel agrees (`Held`), which drivers are missing and why (`Missing`), and when the handle may say
it has input (`Input`). `Restored` alone is not inductive: between a detach and its claim, and
all through a drop, drivers are missing that only the books explain. `AttemptFails` is the
way back that a failed detach, claim and restore have in common; `Found` is what
enumeration owes the rest. The deadline needs only that whole milliseconds never exceed
the time they are taken from (`WholeMillis`). That the last of several interfaces exists
(`Greatest`) comes from the library's well-foundedness of the natural numbers.

`PanelSessionProofs`, for every set of command messages and every bound:

| theorem | states |
| --- | --- |
| `PacketRoundTrip` | eleven words become 44 bytes from which the same words are read |
| `LampsInOrder` | `Spec => []LampsAsOrdered` |
| `FrameShown` | `Spec => []FrameIsShown`, if `MaxStale <= 9` |
| `InStep` | `Spec => []ControllerInStep` |
| `DescriptorKept` | `Spec => []DescriptorIsKept` |
| `TypeCorrect` | `Spec => []TypeOK` |

Commands end in bytes here, so `PacketRoundTrip` comes first: it lets every later step
speak of the words the panel reads. `LampInv` adds to `LampsAsOrdered` only that lamps
are ordered under names the device has. `FrameInv` says which replies may be
in the panel: once a worker serves, none to a frame (`NoFrameReply`), for its
probe and `clear_leds` have read past those an earlier worker left, which is
where the nine come from. `ViewInv` joins `HandTyped` (the report
waiting says where the contacts stood), `DeviceKept` (the device announced fits
`has_hid_input()`) and `StepKept` (`previous_mask` is the mask of the report last read), without
which the view could be one report off.

`Frame`, for every image:

| theorem | states |
| --- | --- |
| `EveryByteWritten` | no byte of a frame keeps the zero it is allocated with |
| `PixelsArrive` | row `y`, column `x`, channel `c` of the image is in row `239 - y`, the same column, channel `2 - c` of the frame |
| `NoticeInRow` | both lines of the notice stay within their rows, and apart |

Proved, and checked by no run: `QueueIsBounded`, `StopStaysLast`, `NoEviction`,
`NoInputOutside` (which the refinement implies), the types of the channel, the manager
and `PanelSession` (`TypeCorrect`, `ManagerTypes`), and the theorems about packets and
frames.

Only model-checked: liveness (`StopArrives`, `StopEnds`, `InputArrives`,
`ShutdownEnds`, `EventuallyServed`, `SignalEnds`, `BrokenSessionEnds`, `CommandEnds`),
which rests on fairness and `ENABLED` and is out of the prover's reach. Every safety
property of the passing runs, and both refinements, are theorems.

## Not modelled, and the plan

Left out for good: decoding and resizing (a library's), the shapes of the notice's
letters, argument parsing, logging, the filter by vendor and product, build
scripts, and what only tests call (test pattern, little-endian masks, waiting on the
queue).

Left for later, in this order:

1. The handler's answers (Handled, Stale, Unsupported) with the routing table. They
   change no state of this program.
2. Two panels of one identity at the same time, which the routing table cannot
   tell apart (excluded by `ManagerAssumption` now, a hazard in `PROJECT.json`).
