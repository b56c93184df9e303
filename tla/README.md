# Verification of the Goodix 55x4 fingerprint stack

This directory holds TLA+ models of the fingerprint stack of the repository: the
Goodix TLS drivers added to libfprint (`libfprint/libfprint/drivers/goodixtls`)
and the parts of libfprint they run in. TLC checks the models on small
instances; TLAPS proves the central invariants for every value of the
constants. All paths below are relative to `src/libfprint/libfprint/` unless
they start with `src/`.

## 1. Inventory

Everything runs in one GLib main loop; concurrency means callbacks that the main
loop dispatches in an order nobody controls (USB completions, timers, idle
sources, cancellables) plus two threads, the extraction of minutiae and the
accept thread of the TLS server.

| Component | State | Operations | Hard behaviour | Correct when | Status |
|---|---|---|---|---|---|
| Goodix command channel (`drivers/goodixtls/goodix.c`) | the one outstanding command (`ack`, `reply`, `timeout`, `cmd`, `callback`), the read loop (`inited`, `cancellable`), reassembly buffer | the `goodix_send_*` functions, `goodix_read_tls`, `goodix_receive_*`, `goodix_dev_init/deinit`, `goodix_start_read_loop` | late, lost and missing answers matched by a single byte; a timer; callbacks that send the next command; close with a command outstanding | no callback is lost or called twice, answers and timers end their own command | `GoodixCmd`, `GoodixCommands`, `CommandSlot` (partly: the commands the 55x4 sends) |
| Goodix 55x4 driver (`drivers/goodixtls/goodix55x4.c`) | warm session, cached background, scan and activation SSMs, `deactivating` | `dev_init`, `dev_activate`, `dev_change_state`, `dev_deactivate`, `dev_deinit` | drain of a scan racing a cancellation and the finger; TLS handshake; reuse of a warm session | someone always completes the action, no command meets a taken slot, a warm session is a connected one | `Goodix55x4` |
| Image device (`fpi-image-device.c`, `fp-image-device.c`) | `state`, `active`, `finger_present`, `enroll_stage`, `minutiae_scan_active`, `action_error` | the driver API (`fpi_image_device_*`), `fp_image_device_start_capture_action`, `_cancel_action`, the extraction callback | extraction thread racing finger reports, errors and cancellation; error kept until deactivation and extraction both end | follows its table of states, completes each action once with the right result, leaves nothing behind | `ImageDevice`, `DeviceTask` |
| Device base class (`fp-device.c`, `fpi-device.c`) | `current_action`, its task and cancellable, idle sources for cancellation and return, `critical_section` and what it queues, suspend/resume task, removal, temperature | open, close, the actions, `fpi_device_*_complete`, `_critical_enter/leave`, `_suspend/_resume`, `_remove`, `_update_temp` | cancellation, flush and results delivered in idle callbacks of three priorities; suspend against a running action; removal at any time; handlers that run when a task completes | nothing queued is forgotten, the driver is not disturbed in a critical section, a suspend ends and only at rest, a removal is signalled once, each task has one callback, which is given the result or the reason it has none | `FpDevice`, `DeviceTask`, `DeviceResult` |
| TLS server (`drivers/goodixtls/goodixtls.c`, TLS section of `goodix.c`) | socketpair, SSL context, accept thread and its result; what the driver knows of the session | `goodix_tls_server_init`, `_wait`, `_deinit`, client send/recv; `tls_handshake_run`; reading and decrypting an image | join of a thread that waits for bytes the main loop forwards; the thread outlives a failed handshake; the two meet only in the sockets | the thread is joined before what it uses is freed, a join never waits for the sensor, the driver is told what the thread found, an image is that of its request | `GoodixTls` |
| Packs (`goodix_receive_pack` and `_data` in `goodix.c`, `goodix_proto.c`) | the reassembly buffer `data`, `length` | encode and decode packs, collect the reads of the bulk endpoint, skip padding, dispatch complete packs | reads end anywhere; a read fails and its bytes are lost; the callback of a pack closes the device | every pack arrives as it was sent, in order and once; the buffer does not overflow; no pack stays behind | `GoodixPack`, `PackStream` (partly: not the protocol message inside a pack) |
| SSM (`fpi-ssm.c`) | `cur_state`, `completed`, `error`, delayed transition, parent | next, jump, delayed versions, sub-SSM, completion and failure, cleanup states | delayed transition against whatever moves the machine first; errors of a child, of the machine and of its cleanup | cleanup states are never skipped, the first error wins, a parent is there when its child completes, no timer moves a machine that went on | `FpiSsm` |
| USB transfers (`fpi-usb-transfer.c`) | reference count, submitted flag, cancellable | submit, cancel, short transfers | completion against cancellation | one callback per submit | not modelled |
| Context (`fp-context.c`) | list of devices, pending probes, idle sources that remove a device | enumerate, `async_device_init_done_cb`, `usb_device_removed_cb`, `device_removed_cb`, `remove_device_idle_cb` | a device is unplugged while it is probed, open, busy or suspended | a removed device leaves the list once, when it is closed | `FpContext` (partly: one device, from its probe on) |
| Images, prints, NBIS, sigfm | data | extraction, matching, (de)serialisation | numeric | out of reach of a model checker | not modelled |
| `goodix511.c`, other vendor drivers, virtual drivers | as above | as above | as above | same structure as the 55x4, or upstream code | not modelled |
| PSK repair tool (`src/tools/goodix-psk-autofix`) | the exchange in progress, attempts, the answers still in the pipe | check, write, verify; `exchange`, `send_cmd` | late answers of exchanges that were given up, refused or half executed writes, a key that cannot be read | never writes over a good key; success means the sensor holds the key | `PskAutofix` |
| Tests, packaging, documentation | none | none | none | read as statements about the code | not modelled |

Interactions. The application calls FpDevice; FpDevice calls the image device
(`open`, `close`, `start_capture_action`, `cancel_action`); the image device calls
the virtual functions of the driver (`img_open`, `activate`, `change_state`,
`deactivate`, `img_close`) and the driver answers with `fpi_image_device_*_complete`
and with reports of fingers, images and errors. The driver runs its activation
and scan sequences as SSMs, each stage of which sends one command through the
channel and advances in the command's callback. The channel reads packs from
the sensor in a loop of bulk transfers. During the activation the main loop
forwards the messages of the TLS handshake between the channel and the accept
thread, through a socket pair. The context
probes a device, listens to its signal "removed" and to its property `open`, and
takes it from its list; the base class knows nothing of the context. The PSK tool
is a program of its own that talks to the sensor before the driver does. The list
of hazards, each at its line, is in `PROJECT.json`.

## 2. Modules

```
PackStream       what the reading of packs promises
     ^ refinement (KeepsPacks)
GoodixPack       reads, reassembly, dispatch      MCGoodixPack, GoodixPack_proofs

CommandSlot      what the channel promises          GoodixCommands  command table
     ^ refinement (KeepsSlot)                            |
GoodixCmd  --------------------------------------------- +
  MCGoodixCmd           a small instance
  GoodixCmd_proofs      invariants of the channel, that it implements CommandSlot,
                        and that a command succeeds on its own answer

DeviceTask       what the base class promises the application of its tasks
     |                  implemented by ImageDevice (KeepsTask)
     ^ extends
DeviceResult     and what the callback of a task is given
                        implemented by FpDevice (KeepsTask)

ImageDevice      the image device and its FpDevice task, over any driver
     ^             ImageDevice_proofs   its invariants and action properties
     | refinement (KeepsContract)
Goodix55x4       the same with the real driver in place of any driver
                   Goodix55x4_proofs    its invariants, and the refinement

FpDevice         the base class in full, over any driver
     ^ extends, and implements it (theorem ContextImplementsDevice)
FpContext        one device in the context: probe, removal, the list
                   FpContext_proofs     the proofs about both

GoodixTls        the TLS server, its thread, its sockets, the main loop
                   GoodixTls_proofs

FpiSsm           the sequential state machines of the drivers
  MCFpiSsm              three machines with and without cleanup states
  FpiSsm_proofs

PskAutofix       the repair tool and a sensor         PskAutofix_proofs
```

A layer takes the one below at the level of what that one promises: the packs of
`GoodixCmd` arrive whole, which is `PackStream`; the commands of `Goodix55x4` end
once, which is `CommandSlot`; the task of `ImageDevice` is the part of `FpDevice`
that its driver can see, without critical sections, suspend and removal, which no
image driver uses or handles itself. That part has one meaning in both modules:
`DeviceTask`, which ends with the result on its way to the callback. Each of them
implements it, `FpDevice` as a part of `DeviceResult`, which says what the callback
makes of that result.

### GoodixCmd

One action per main-loop callback or client call. `ack`, `reply`, `timeout`,
`cmd`, `callback` are the fields of the private structure; `calls` is a history
(request, outcome, and the pack that ended it) that replaces the identity of the
callbacks; `fired` is the callback that is running. While it runs, or while
`goodix_send_nop` is between its two calls, the main loop dispatches nothing.
`goodix_receive_done` resets the state before it calls the callback, and the
callback may send the next command: `CallbackIssues`, `CallbackReadsTls`. A send
that is refused or whose transfer fails calls the callback inside the send.

The sensor is external: it ACKs the commands it received in order or ignores
them, and sends the replies it owes in any order and at any time, also after the
command timed out, was cancelled or was dropped by a close. Packs are lost too.
A pack carries the command byte, as in the code, and a `tag`, which the host
never looks at; `AnswerIsOwn` does.

`CommandSlot` is the abstract specification: a slot, the running callback and
the calls that have ended. `KeepsSlot` is the refinement.

### ImageDevice

`state`, `active`, `finger_present`, `minutiae_scan_active`, `enroll_stage` and
`action_error` are the fields of `FpImageDevicePrivate`; `action`, `cancelled`,
`cancel_idle`, `returned` and `reported` those of the FpDevice task. The image
device and its driver call each other synchronously, and every such call is the
last thing the caller does. `call` names a call that was made and has not run
yet, and the main loop does nothing until it has, so every call of
`fp_image_device_change_state` is a step (`ChangesState`), also one to the state the
device is in, and its table can be compared with the steps (`StateMachine`). One
change is not in the table: after a failed activation the device is still
ACTIVATING, and the next action changes it to ACTIVATING (`Reactivates`).

The driver is any driver that keeps its contract (`DriverNext`): it answers each
call once, at once or later; reports fingers, images, retries and errors while
it is active. The contract has two clauses that the code does not enforce. In
an enrollment a driver (1) does not report the finger lifted before the image
it was touched for, and (2) does not report a session error while the minutiae
of an earlier image are extracted. Without either, the transition table is
violated. The 55x4 driver keeps (1); it may break (2), which the run
`Goodix55x4_failed_enroll` shows.

### Goodix55x4

Extends `ImageDevice` and replaces the driver: the library's actions are
`LibraryNext`, the driver's are here. The command channel is taken at the level
of `CommandSlot`: `pending` says whose callback the outstanding command will
call, `act` and `scan` the SSM stage that waits for it. `TlsStarts`, `AcceptEnds`
and `Established` are `goodix_tls`, the accept thread, and the join in
`on_tls_successfully_established`. `Drain` and `SwitchToIdle` are the two
branches of `dev_deactivate`.

The last stages of the scan and the deactivation wait for a finger, which may
never be lifted: FDT commands have no timer.

### GoodixTls

The stages of the handshake (`stage`), the thread that runs `SSL_accept`
(`thread`, and `accepted`, the messages it has taken), and what lies in the two
ends of the socket pair. `Forward` is the main loop when it writes a message of
the sensor into the socket, whatever that message is; `Proxy` is the main loop
when it blocks until the server has answered or for SO_RCVTIMEO, and sends the
answer on; `Joined` and `ShutdownEnds` are its two `pthread_join`s. Then images
are asked for, written into the socket and decrypted; a cancelled scan stops
waiting for its image and keeps the session.

External are OpenSSL (it takes the client's messages in their order, answers
two of them, and anything else with an alert; a record counts those before it),
the sockets, and the sensor. A flight of the server is one write and one read,
as the messages are much smaller than the 4 KiB buffer. The commands are those
of `CommandSlot`, so `Forward` and `ImageComes` are their callbacks; the sensor answers
them in order. `GoodixCmd` is where answers meet the wrong command.

The history `sent` and `got` is the image that was asked for last and the one
that was returned; `skipped` says that a record of the session did not reach
the server.

### FpiSsm

One record of fields per machine. `Enter` is `__ssm_call_handler`, `Complete`
`fpi_ssm_mark_completed` with its way through the cleanup states, `Go` a jump (one
further is next_state), `Fail` `fpi_ssm_mark_failed`. A transition calls the handler
of the new state, which may make the next transition, and so on: those below on
the stack only return. So a step is one call, `phase` names the innermost machine,
and the machines that completed (`finishing`) are freed when the stack unwinds.
A delayed transition is `timeout`, in the main loop; `Timeout` does not ask whether
the machine still waits, as the code does not.

The handlers, callbacks and answers are those of any driver that (1) calls a
machine from its handler, or in the main loop while it waits for an answer or a
timer (`Acts`), not while a machine it started runs; (2) jumps after a failure to
no state before the cleanup; (3) starts each machine once. The code asserts the
first in part (`BUG_ON`, which only logs); without the second, the branch of
`fpi_ssm_mark_failed` that ignores a failure would be reached and the machine would
hang. `entered` and `bypassed` are histories: the cleanup states whose handler was
called, and those a jump of the driver went over.

### FpDevice

The application's calls, the driver's answers, the idle sources and timers of one
device. A task is `action`; the driver completes it (`Complete`), and an idle
source returns it (`ReturnInIdle`), runs the callback and then the handlers of
notify::completed, in any order (`notifying`). The callback is `given` the `Outcome`:
the removal of the device instead of anything but a successful open, the
`cancellation_reason` of the library (it is too hot, it is to suspend) instead of an
error, or the result of the driver. GTask puts G_IO_ERROR_CANCELLED in its place if
the application cancelled the task itself (`fpi-device.c:1021`); this is GLib's, and
`given` is what the base class passes to it. The handlers are those that end a suspend
(`ShortCompleted`, `SuspendCompleted`) and the one that signals a removal
(`SignalRemoved`). Meanwhile `waiting` holds the handlers connected to the task
that is still running. The flush of a critical section has a higher priority
than the return of a task, which has a higher one than its cancellation: so
`ReturnInIdle` and the other sources ask for `~flush`, and a cancellation that
is ready may come after the return of its task if `Complete` does not remove it.

The driver is any driver that (1) completes a task outside of its critical
sections and enters none after that, (2) completes it once, and (3) accepts a
suspend only if the task it runs goes on. The first two are `DriverCompletes`; the
code asks for neither. `fpi_device_*_complete` look at `current_action` alone, and so
does `Complete`: a second completion before the first has returned would attach a
second source in `fpi_device_return_task_in_idle` (1073) and overwrite the pointer to
the first. Of image drivers (2) need not be assumed: it is `CompletesOnce` and
`KeepsTask` of `ImageDevice`. `class` is the kind of driver: with or without the virtual
functions cancel and suspend, with or without the temperature model. The
temperature is known by the thresholds it is between; an update finds it
anywhere it may have drifted to since the last one, a timer beyond its threshold.
A request that is refused changes nothing and has no action, but for the one of
a device that is too hot, which updates the temperature.

### FpContext

Extends `FpDevice` with the life of the device in the context. The signals of the
device run inside its steps, and so does what the context does in them
(`Reaction`): an open device that is removed is watched, a closed one is taken
from the list by an idle source. `usb_device_removed_cb` sees only listed devices,
so a device that is unplugged during its probe is listed afterwards. `ContextSpec`
implements `DeviceSpec` (`ContextImplementsDevice`), so what is proved of the base
class holds in it.

### GoodixPack

The stream of cells the sensor sends, the host's position in it and the part
of it that is in the buffer. Flags, length and checksum of a pack are one cell
each, as is a byte of the payload; the real header has a length of two bytes, and
what the properties depend on is that it can be cut anywhere. `Receive` is the
completion of a bulk read, `SkipPadding`, `Dispatch`, `CallbackReturns` and
`ReadAgain` the loop over the buffer, `Close` the end of a session, also from the
callback of a pack. `PackStream` is the abstract specification: until a byte is
lost, the packs arrive as they were sent.

After a loss (a failed read, a close in the middle of a pack) the host reads
headers where there are none, and only a close resynchronises it, as neither
`goodix_reset_state` nor a timeout clears the buffer. The checksum of the header
could tell, but the driver ignores it. `PackStream` therefore promises nothing
after a loss.

`SizeAssumption` holds of the real sizes: what is kept when a read begins is
less than a pack, 4 + 65535 bytes, a read is at most 0x10000, and the buffer takes
0x40000. The branch of `goodix_receive_pack` for a buffer that is too large is thus
never reached; `GoodixCmd` does not rely on that and has it as `ReceiveOversized`.

### PskAutofix

`main` of the tool as a task (check, write, verify), with `exchange` as `Send`,
`Response` and `Abort`. A sensor executes the commands in order and answers in
order; it may refuse, answer in part, late or not at all, and a write leaves any
key behind. The host takes an answer by its command byte alone, so the answer to
an exchange that was given up may be taken for that of the next. Assumed:
nothing is in the pipe when the tool starts, and a command whose send failed was
not received. A device that is not found ends the tool with success before the
model starts.

## 3. Runs

Passing runs:

| Run | Instance | Shows |
|---|---|---|
| `GoodixCmd` | three calls among commands of every kind (with and without reply and timer, two of one byte, NOP, the handshake and its read_tls), two packs on the wire, two sessions; 746,687 states | `NoLostCallback`: a call that has not ended is the one whose callback will be called, although read_tls takes the slot unasked. `TimerOfPending`: the armed timer belongs to the outstanding command. `AnswerIsOwn`: a command succeeds only on its own answer, except on a late one of an earlier command with the same byte that ended without it, or of a handshake that was given up. `KeepsSlot`: refinement of `CommandSlot`. `TimedCommandsEnd` under fairness |
| `GoodixPack` | three packs of two lengths, one of them beginning and ending like padding, padding, reads of up to four cells, one failed read, closes anywhere; 1,943,969 states | `KeepsPacks`: refinement of `PackStream`. `NeverTooLarge`: the buffer takes any read. `PacksArrive`: no complete pack waits in the buffer for ever |
| `ImageDevice` | all four actions, three stages, every failure of the driver; 670 states | `NothingLeft`: a completed action leaves no active device, finger, extraction, error or cancellation. `OneImageAtATime`. `ReportedFirst`: the result of a match is reported before the action completes. `EnrollsAllStages`. `StateMachine`: every call of `fp_image_device_change_state` makes a change of its table, but for the one from ACTIVATING to ACTIVATING after a failed activation. `CancelledEnds`: a cancelled action does not succeed. `KeepsTask`: refinement of `DeviceTask` |
| `Goodix55x4` | verify, capture, enroll of three stages; open, close, activation, TLS, scan and idle may fail (scans of an enrollment excepted); 889 states | `SomeoneCompletes`: an action in progress always waits for a callback that exists. `NeverBusy`: the slot is free when a virtual function sends, and the driver is at rest when the action completes. `InStep`: scan stages and image device state agree. `SessionLives`: a warm session is connected, the background is its own, no second TLS server. `KeepsContract`: the driver is one of those `ImageDevice` speaks about, so its properties carry over. `CancelledScanEnds`: a cancellation that reaches a scan ends the action, whatever the finger and the sensor do |
| `FpContext` | drivers with nothing, with suspend, with cancel and temperature, with cancel and suspend; verify, enroll, delete, open, close; critical sections of depth two; 26,338 states | `AssertionsHold`: those of the code. `NothingForgotten`: what is queued will be flushed, a cancellation or suspend that was asked for is always on its way. `DriverUndisturbed`: no call into a critical section, one cancel per task. `SuspendedAtRest`, `TemperatureWatched`, `RemovedWhenClosed`. `KeepsTask`: refinement of `DeviceResult`: one callback for each task, which is given what the driver returned, the first reason the library had to cancel this task and no other, or the removal. `SuspendEnds`: every suspend and resume ends |
| `PskAutofix` | three attempts, exchanges that look at four answers; 11,606 states | `WritesOther`: a community key is never written over. `SuccessStands`: success means the sensor holds the key and no write is on its way, if at most one exchange was given up. With two it is violated (the read-back takes the answers of an earlier one), so the bound is sharp |
| `FpiSsm` | an outer machine of four states, two of them cleanup, one of two states with one of cleanup, one without cleanup; nested in any way or one after the other; 239,345 states | `ParentsWait`: a machine that started another one is there when that one completes. `TimersAreAwaited`: a timer is only set for a machine that waits. `CleanupIsDone`: no cleanup state is skipped but by a jump of the driver. `FirstErrorIsKept`: the first error is the result, also across machines |
| `GoodixTls` | two images, any messages of the sensor, any failure; 3,204 states | `ThreadIsJoined`: the thread is gone before the server is freed and before the session is used. `JoinsAreShort`: a join does not wait for the sensor. `VerdictIsTheServers`: a session the driver believes in is one `SSL_accept` completed, with empty sockets. `ImageIsTheSensors`: an image is that of its request. `HandshakeEnds` under fairness |

The type invariants (`TypeOK`, `DriverTypeOK`, ...), `OneReader`, `CompletesOnce` and
`FailedCleansUp` are in no run: they are theorems for all constants (section 4).

Runs that find a disagreement between the code and a statement in the
repository; each is one entry of "findings" in `PROJECT.json`:

| Run | Statement | What TLC shows |
|---|---|---|
| `Goodix55x4_failed_enroll` | "Internal state machine issue: transition ... should not happen!" (`fpi-image-device.c:138`) | a scan that fails while the minutiae of the image before are extracted: the deactivated device is sent to `AWAIT_FINGER_ON` |
| `Goodix55x4_lost_cancel` | drivers must handle cancellation of anything that captures | a cancellation during the activation is dropped; the scan then waits for a finger without a timer |
| `FpContext_clear_storage` | "cannot happen as we make sure these tasks complete before suspend" (`fpi-device.c:1679`) | `fp_device_clear_storage` does not look at `is_suspended`; the resume finds the task it started and reaches the assertion |
| `GoodixTls_retained` | "Stop finger detection, while retaining TLS for the next verify attempt." (`drivers/goodixtls/goodix55x4.c:989`) | a scan cancelled while its image is on the way: nobody waits for the record any more, the server misses it, and the next image of the retained session cannot be decrypted |

Disagreements met on the way that no run states, because they are harmless or
because nothing precise enough to be violated is promised: a failed activation
leaves the image device in `ACTIVATING` (`fpi-image-device.c:675`), from which
the next action makes the transition to `ACTIVATING` that line 138 says should
not happen (`StateMachine` names it as its one exception, and fails without it);
the last stage of an enrollment whose extraction ends before the finger is
lifted deactivates a device "while it is not idle" (line 78), and the driver
drains the scan; request_tls_connection is sent without a timer
(`drivers/goodixtls/goodix.c:1203`), so that a stalled sensor holds the
activation for ever, while line 210 of `goodixtls.c` bounds the thread that
waits with it; the doc of `fpi_ssm_start` (`fpi-ssm.c:262`) speaks of restarting
a completed machine, which its completion frees (line 369); a device removed
while suspended can be neither resumed nor closed (`fp-device.c:1058` against
the comment at 502-513), so it stays in the list; a device unplugged during its
probe is listed afterwards; the virtual function suspend may be called for a
task that was completed and has not returned, which a driver asserts it is not
(`drivers/synaptics/synaptics.c:1447`); "removed" may be signalled when the next
task, started from the callback of the last, is already running;
`goodix_decode_protocol` compares a checksum that was not cut to a byte, and
takes a length of 0 for an incomplete message, neither of which anything depends
on; a suspend that waits for a short task ends without setting `is_suspended`.

### Bounds

`MaxCalls`, `MaxWire` and `MaxOpens` bound `GoodixCmd`. Three calls are enough for
a command, one that overtakes it and one that is ended by a late answer, and for
a handshake and its first reads. Two packs on the wire are an ACK and an answer
of different commands. Two opens let a late answer cross a close.

`ImageDevice` and `Goodix55x4` have finite state without bounds. Three stages are
the least with a first, a middle and a last one.

`MaxCritical` bounds the depth of critical sections; two is the least in which
leaving one does not flush. `FpContext` has no other bound. Its operations are a
long one that is matched, one that is not, and a short one; the classes are the
combinations in which the code branches differently.

`GoodixPack` scales the numbers down: lengths up to 3, reads up to 4 cells, a
buffer of 9, the least that `SizeAssumption` allows, so that the property
`NeverTooLarge` is tight. Three packs let a read cover the end of one, a whole
one and the beginning of the next.

`PskAutofix` runs the real number of attempts. `MaxResponses` is 16 in the code; a
sensor that behaves leaves at most 6 answers to look at, so that 16 is never
reached, and 4 in the run makes the limit be.

`FpiSsm` nests three machines, the least with a parent that is a child itself. The
outer one has two states before and two in the cleanup, so that a jump or a
completion can leave one of each; the others complete through one cleanup state
and through none.

`GoodixTls` has finite state without bounds: a session reads at most one image at
a time, and two images tell one of an earlier request from the one asked for.

Deadlock is not checked where a behaviour really ends: the client of `GoodixCmd` and
the sensor of `GoodixPack` when their calls and packs are used up, a device
that was removed and is closed, or that is removed while it is suspended
(`FpContext`), and `FpiSsm` when all its machines are freed. The other runs check it.

### Fairness

`GoodixCmd`: a callback that runs returns or sends, `goodix_send_nop` finishes
its second call, and an armed timer fires. These are what GLib guarantees to a
main loop that runs. Nothing is assumed of the sensor or the client.

`GoodixPack`: a read for which there is data completes, and the loop over the
buffer, which is straight code, goes on.

`Goodix55x4`: a synchronous call runs; idle sources are dispatched; the
extraction and accept threads end; a command with a timer ends. The FDT commands
and request_tls_connection have no timer and get no fairness, nor does the
finger. The accept thread has fairness because its socket has a receive timeout
(`goodixtls.c:210`).

`GoodixTls`: the thread runs, and its reads end as its socket has a receive timeout;
so do those of the main loop; the commands have timers, but for
request_tls_connection, whose stage is left out. Nothing is assumed of what the
sensor sends.

`FpContext`: the main loop dispatches every source that is ready again and again
(SF, as sources of a higher priority may come in between). The driver leaves its
critical sections, and is outside of them in the main loop now and then: one that
enters the next at once keeps everything queued, as
`src/libfprint/tests/test-fpi-device.c:2789` shows. It answers suspend and resume,
and ends the tasks it must end: short ones, and long ones it was told of the
cancellation of.

## 4. Proofs

### The command channel

`GoodixCmd_proofs` proves, for every set of requests and all bounds,
`Spec => []TypeOK` (`TypeCorrect`), `Spec => []NoLostCallback` (`CallbacksKept`),
`Spec => []TimerOfPending` (`TimersMatch`), `Spec => []OneReader` (`OneReadLoop`) and
the refinement `Spec => KeepsSlot` (`ImplementsSlot`), and `Spec => []AnswerIsOwn`
(`AnswersMatch`).

These theorems assume `RequestsAssumption` (the client issues commands of the table, and
read_tls only from the handshake) and `BoundsAssumption`, which TLC evaluates in
the run `GoodixCmd`.

`OneReader` is inductive; `NoLostCallback` and `TimerOfPending` are not. `CallbackReadsTls` takes the slot without
looking at it, so it would overwrite the callback and timer of an outstanding
command. It runs in the callback of a call that succeeded, and the inductive
invariant `IInv` says of that (`RefusedOnly`): while the callback of a call that
was not refused is running, the slot is free. A refused call's callback does run
while the slot is taken, which is why the exception is there; a refused call is
in no handshake. The rest of `IInv` states the two properties over the position
`callback` (`SlotHolds`, `TimerArmed`) and the types. A second invariant,
`ClosedOK`, says that a closed device has no command and no running callback; it
is what makes the next open's `goodix_reset_state` lose nothing. The proof has
one lemma per function of the channel (`AddCallTyped`, `EndCallTyped`,
`ReceiveDoneHost`, `SendProtocolOK`, ...), which say what it does to the invariant
wherever it is called from, and one step per action of `Next`.

The refinement rests on the same invariant: the calls are numbered in the order
they were made, and all but the one in the slot have ended (`SlotView`). Then each
action is an `Issue`, `Refuse`, `Finish`, `Return`, `Open` or `Close` of the slot, or a
stutter.

`AnswerIsOwn` is about packs that are still on their way when their command has
ended, so its invariant (`AnswerInv`) follows them through the sensor and the wire.
`Budget` counts: what the sensor has not ACKed, what it owes, what is on the wire
and can end the call, and what ended a call are together one pack per call, and
four for a handshake. A call that ended with its own pack has none left, so that
a pack that ends another call had missed its own (`LateOK`). One case escapes the
count, the ACK of a command with a reply, which can end the command of the same
byte without one; there it is the order of the wire that helps (`AckFirst`). For
the handshake the budget says that a message that ends another command is missing
from the three (`HandshakeBudget`). The budget goes up in one step only, when the
answer to request_tls_connection is forwarded, and this happens once per
handshake (`FreshOK`).

### The image device

`ImageDevice_proofs` proves, for every set of capture actions, every number of
stages and every set of faults of the driver: `TypeCorrect`, `NothingIsLeft`,
`OneImage`, `ResultsAreReported`, `EnrollmentsAreWhole` (invariants), and
`FollowsTheTable`, `ReturnsOneResult`, `CancellationsEnd` (action properties).
`FollowsTheTable` is about every call of `fp_image_device_change_state`, those that
leave the state as it is included, and names the one that is not in the table.
They assume `ActionsAssumption` and `NrStagesAssumption`.

None of these is inductive: `state` alone does not say whether an extraction is
running, a finger is reported or a call is on its way. `IInv` says for every state
which of these may be: an extraction runs only in four of the seven states
(`ExtractionRuns`), an enrollment that deactivates while it extracts was
cancelled (`EnrollOK`), a verification that has reported has no extraction left
(`ReportOK`). There is one lemma per function of the image device. Those about
the functions a driver calls do not mention the driver, and the driver's own
proofs use them again.

`ImageDeviceKeepsTask` is the refinement of `DeviceTask`: a report, an error or the
end of a deactivation ends a task once, and `cancelled` and `cancel_idle` are the
cancellation of the task and what the driver is told of it.

### The 55x4 driver

`Goodix55x4_proofs` proves `KeepsContract` (`ImplementsImageDevice`) and all the
invariants the runs check (`SomeoneAlwaysCompletes`, `SlotIsFree`, `ScanInStep`,
`SessionsLive`, `DriverTypeCorrect`), for every number of stages and every set of faults, under
one hypothesis: `NoLateFailure`, no enrollment together with scans that fail.
It cannot be dropped: `Goodix55x4_failed_enroll` is what happens without it.

`DriverInv` says for each state of the image device what the driver is doing
(`StatesOK`), to whom the outstanding command belongs (`SlotOK`), when a sequence
may run (`SequencesOK`) and what a warm session implies (`SessionOK`). Each step
is proved to be a step of the contract and to preserve both invariants (`Kept`).
`ContractProperties` draws the conclusion: what `ImageDevice_proofs` says of any
driver, `KeepsTask` included, holds of this one.

### The device base class and the context

`FpContext_proofs` proves of `FpDevice`, for every set of operations and kinds of drivers and for
critical sections of any depth, all the invariants of the run,
`DriverUndisturbed` and the refinement of `DeviceResult` (`DeviceKeepsTask`), under
one hypothesis, `NoClearStorage`: that operation is what `FpContext_clear_storage` is
about, and `AssertionsHold` is false with it. The duties of the driver named in
section 2 are part of `DeviceSpec`; that a task is completed once is one of them and
not a result.

`IInv` says of each thing that is asked for that it is in one place: a
cancellation in its idle source, in the queue or with the driver (`CancelOK`); a
suspend or resume in the queue, with the driver or with a handler, and which of
these decides `is_suspended` (`PowerOK`); the signal of a removal (`RemovalOK`). A
device without a task has none of them, nor a reason to cancel it, and something is
`given` exactly while a callback runs (`TaskOK`). What makes this inductive is
the priority of the flush: when a task returns, nothing is queued any more.
The library may find its reason after the task was completed, and the reason of
a completed task is still told instead of its error; that it is not told of the
next one is what the refinement needs from `TaskOK`.

Its second part shows that every step of the context is a step of the device or
none (`ContextImplementsDevice`), so that all of this holds of a device in a context
(`ContextProperties`), and adds `ContextInv` to prove
`RemovedWhenClosed`. Its core is that a device is not opened once it is removed.

### The reading of packs

`GoodixPack_proofs` proves, for every set of payloads, any lengths and sizes that
satisfy `SizeAssumption`, and any padding, that the types hold, that the buffer is
never too small (`ReadsFit`) and that the packs arrive (`PacksKept`, the refinement
of `PackStream`). The invariant is framing: as long as nothing is lost, each pack
is in the stream where the history `starts` says, only padding lies between, and
the position of the host is in the padding before the first pack that was not
dispatched. The lemma about the loop is that a header found outside of padding
is then the header of that pack.

### The repair tool

`PskAutofix_proofs` proves, for any number of attempts and any limit on the answers
looked at, the type invariant with its bounds, `WritesOther` and `SuccessStands`.
For `WritesOther` (`Untouched`): until the tool has decided to write, no write is
with the sensor, and every hash in an answer is that of the key it held at first.
For `SuccessStands` (`Tracked`): as long as at most one exchange was given up, one
read and one write at most are on their way, the reads before the writes. The
late answer of the exchange that was given up is then passed over before the
reply of the exchange that follows, so that the read-back finds only its own.

### The state machines

`FpiSsm_proofs` proves, for any set of machines, nested to any depth, with any numbers
of states and cleanup states (`StatesAssumption`, what `fpi_ssm_new_full` asks for):
`SsmTypeCorrect`, `NestingIsSafe`, `NoStaleTimer`, `CleanupNeverSkipped`,
`FailureLeadsToCleanup` and `FirstErrorWins`.

`CleanupIsDone` speaks of machines that completed; `SsmInv` has what it says of those
on the way (`CleanupSoFar`: all cleanup states up to the current one were entered
or bypassed). `FailedCleansUp` needs that a timer that was set before a failure is
gone (`TimersCleanUp`), and that in turn `TimersAreAwaited`. `NestingIsSafe` needs
`OneCall`, that the stack has one innermost machine: only that one makes calls, so a
parent with a child is never moved by anything but that child.

### The TLS server

`GoodixTls_proofs` proves, for any images, `TlsTypeCorrect`, `ThreadAlwaysJoined`,
`JoinsNeverWait`, `VerdictIsTrue` and `ImageIsFresh`. Two of these meet in the
handshake and are not inductive: that the thread has decided when the main loop
joins it, and that the sockets are empty after a success. Both follow from a
count (`InTurn`): as long as the thread accepts, or has accepted everything, the
messages it took and those that lie in its socket are together the ones that
were forwarded. The main loop leaves the last stage only with an answer of the server,
and as long as the thread accepts there is none but the first: so it has decided.
After the handshake, `SessionGood` follows the socket through the
images.

### Only model-checked

The liveness properties `TimedCommandsEnd`, `PacksArrive`, `CancelledScanEnds`,
`SuspendEnds` and `HandshakeEnds` (liveness under fairness is beyond the prover); and the violations.

## 5. Not modelled

- Data: pixels, thresholds, bytes of payloads, firmware and PSK contents; NBIS,
  sigfm, prints and their serialisation.
- The protocol message inside a pack (`goodix_decode_protocol`): one more header,
  which never spans two packs.
- `goodix511.c` and the commands only it sends: the same channel and structure.
- The sleep sequence of `goodix55x4.c`, which is not reached.
- What OpenSSL computes; sockets that are full (the messages are a few hundred
  bytes, the images one record).
- USB transfers, also as callbacks of an SSM: a read delivers or fails, a write
  succeeds or not.
- Of the context: the search for a driver, virtual devices, a context that is
  finalized during probes.
- Other vendor drivers and the test doubles.

## 6. What is left

In this order:

1. The TLS steps of `Goodix55x4` (`TlsStarts`, `AcceptEnds`, `Established`) as a
   refinement by `GoodixTls`, and its sequences as machines of `FpiSsm`.
2. `goodix511.c` as a second driver over `ImageDevice`.
3. `FpContext` with several devices, and a context that is finalized during
   probes.
4. The protocol message inside a pack, and the sending side of packs.
