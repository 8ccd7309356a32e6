# A verification project for wdotool

wdotool sends input to a Wayland session and asks it about its windows. Its difficulty is not in
any one function: it is in what other actors do between two of its steps. KWin runs a script for a
caller that has given up; a compositor retitles windows and unplugs outputs while a worker reads
its mirror of them; an EIS server swaps the keyboard under a call; device tasks race over shared
atomics; a pump blocks on a channel that nobody drains; processes overlap on one token file. The
modules here model those parts, TLC checks them on small instances, and TLAPS proves the results
that matter most for instances of any size.

Paths are relative to the repository; `core` stands for `wdotool-core/src`.

## 1. Inventory

| Part | State it keeps | Operations | Module |
|---|---|---|---|
| KDE window bridge, `core/backend/kde.rs` | request ids, five maps of waiting senders, the bus name, temporary scripts | list, active, geometry, pointer, activate, close; the D-Bus reports | `KdeBridge` |
| Promise of the window calls, `core/backend/mod.rs` | none | the `Backend` trait | `WindowService` |
| wlr worker, windows, `core/backend/wlr_protocols.rs` | the mirror of toplevels, pending state, the command queue | ListWindows, ActiveWindow, ActivateWindow, CloseWindow, Shutdown; the protocol events | `WlrToplevels` |
| wlr worker, keyboard, same file | `mods_depressed`, the installed keymap | Key, TypeText | `WlrKeyboard` |
| wlr worker, pointers and outputs, same file | outputs by id, a pointer per output name | list outputs, move, move to an output, button, scroll; the registry | `WlrPointer` |
| uinput keyboard, `core/backend/uinput.rs` | a kernel device | key, type | `UinputDevice` |
| Key commands, `wdotool/src/lib.rs`, `core/keysym.rs` | none | `run_key`, `clear_modifiers`: a chord becomes calls | `Keyboard` |
| libei devices, `core/backend/libei.rs` | three device slots, the keymap, the readiness signal | the EIS events; key, type, pointer, scroll | `LibeiDevices` |
| Session start and token cache, same file, `core/portal_token.rs` | `portal.token`, temporary files, the portal's grants | load, save, start with and without a token | `PortalToken` |
| Detector and constructors, `core/backend/detector.rs`, `try_new` of each backend | `libei_just_failed`, threads left running | the priority list, the build loop | `BackendBuild` |
| Recorder session, `core/recorder/mod.rs`, `portal.rs`, `simulated.rs`, `evdev.rs` | the bounded channel, the receiver, the stop signal, the tasks | start, events, stop, drop; the pumps | `RecorderSession` |
| Event mapping, `core/recorder/mapping.rs` | the shared mask and throttle clock, an accumulator per device; the state of the portal's pump | `evdev_to_rec`, `eis_to_rec` | `EvdevCapture`, `PortalCapture` |
| record and replay, `wdotool/src/record.rs`, `replay.rs` | none | a consumer of the recorder; a loop of backend calls | `RecorderSession`, `Replay` |
| GNOME backend, `core/backend/gnome.rs` | a D-Bus connection | one call per operation | its start in `BackendBuild` |
| Capability report, diagnostics, mock backend, test harness, packaging | none that an operation changes | | not modelled: pure reporting, test doubles, distribution |

How they meet. The command layer turns a command into calls of the `Backend` trait, on the backend
that the detector built. The wlr backend passes each as a message with a oneshot for the reply to
one worker thread. The KDE backend draws an id, parks a oneshot under it and waits for a D-Bus
call from a script that runs inside KWin. Key and pointer calls of KDE and GNOME go to libei,
whose session start reads and writes the token cache and whose dispatcher thread fills the slots
that the calls read under a lock. The recorder is separate: pumps map what the user does to events
and push them into one bounded channel, which the session, or a stream taken from it, drains;
replay turns a trace back into calls.

The hard behaviour, and what makes each part correct:

* **KDE bridge.** Calls overlap, a script may be started by another call, run late, throw or never
  report, ids start again at 1 in each process and the bus name passes on. Correct means: a caller
  hears its own answer or none, every call returns, and each request is executed at most once.
* **wlr windows.** The mirror is a copy of a changing desktop, built from events that arrive in
  pieces. Correct means: a reply is a state the desktop was in during the call, an action reaches
  the window the caller meant, and dropping the backend ends the thread.
* **wlr outputs.** The registry announces outputs and their manager in any order, outputs come and
  go, and a move reads the mirror without waiting. Correct means: each output is described once, a
  list is of the desktop during the call, the cursor lands where it was sent.
* **Keyboards.** On wlroots a client reads a key by the mask and keymap it was told of, never by
  the keys that are down; on uinput by the keys, later. Correct means: the mask follows the keys,
  the client reads the keysym that was asked for, a command leaves nothing held that it was not
  asked to hold, and a process that exits takes nothing with it.
* **libei devices.** The server offers, resumes, pauses and removes devices while calls take the
  lock twice or more. Correct means: slots follow the server, what is typed is what was asked for,
  nothing stays down, and a backend said to be ready has a device.
* **Backend choice.** A constructor may ask the user, sleep, time out and leave a thread behind.
  Correct means: libei is not tried again in vain, the first backend that starts is chosen, build
  returns.
* **Recorder.** Three ways to end (signal, abort, closed channel) race with a pump that may be
  blocked. Correct means: order, no gaps, stop returns all there is, nothing outlives the session.
* **Recording and replay.** Tasks run in parallel and lag behind the user; motion is throttled and
  truncated. Correct means: a replay repeats the presses, with the chords that were struck, motion
  is conserved, and clicks land where they were.
* **Token cache.** Processes overlap and die, and the portal takes a token once. Correct means:
  the file is whole, only a new token replaces it, and what it holds is accepted.

## 2. Modules

Each `MC*` module instantiates its namesake for TLC (sets of kinds, layouts, symmetry); each
`*Proofs` module holds its theorems. Mutated forms of a definition stand directly before it and
are named after it; they are what each property is tried against and no specification uses them.

### WindowService, KdeBridge, KdeBridgeProofs

`WindowService` is the promise of the window calls: a request is executed at most once, a call
that returns reports what its own execution saw, a failed call may still be executed later.

`KdeBridge` has one task per call and follows the code step by step, because other tasks run
between the steps: `Begin` draws the id (`next_request_id`), `Register` inserts the sender into
the map of its answer type, `LoadScript` and `StartScripts` are the two D-Bus calls of
`run_kwin_script`, `Receive` and `TimeOut` are the two arms of the timeout. `StartScripts` starts
every script that is loaded, as `start()` of KWin does. KWin is `RunScript` and `ScriptDies`;
`Report` is the D-Bus method that removes a waiter by id. `TryNew` and `Exit` are the ends of a
process: it takes the bus name if that is free, and its messages die with it.

### WlrToplevels, WlrToplevelsProofs

`Ask`, `Cancel` and `DropBackend` are the async side; `Recv`, `Dispatch`, `AnswerRead` and `Act`
the worker; `Serve`, `OpenWindow`, `CloseWindow`, `Focus`, `Retitle` the compositor, which batches
its events and numbers handles per connection, reusing the number of a destroyed one; `Lose`
breaks the socket and `Renew` replaces the process. `OnToplevel` to `OnClosed` are the five event
handlers. The history `during` records for each call the desktops there have been since it was
asked.

### WlrPointer, WlrPointerProofs

`OnOutput`, `OnManager`, `OnInfo` and `OnLogical` are the registry and output handlers, run by
`Read` whenever the worker waits in a roundtrip. `Fixup`, `CreateObjects` and `Ready` are the
three roundtrips of the worker's start. `List`, `Move`, `Input`, `MoveToOutput` and `NoSuchOutput`
are the commands, each with the roundtrip before its reply; `Listing` is the answer of
`list_outputs`. A move takes with it the modes the worker knew when it was sent (`ModesKnown`), a
history that no action reads. The compositor is `Handle`, `Plug`, `Unplug` and `Modeset`. A
coordinate stands for both axes, and the burst of events about one object is one event.

### Keyboard, WlrKeyboard, UinputDevice, Keyboards, KeyboardsProofs

`Keyboard` has the two ends that the backends share. A command becomes a list of calls (`Calls`,
of `run_key`; `ClearCommand`), and behind the backend a client reads each key (`Reading`,
`Symbol`). `Exit` ends a process between two commands. In `WlrKeyboard` a call becomes requests
(`KeyPress`, `KeyRelease`, `Transient`) and a sync, `ApplyRequest` is the compositor, and `Refuse`
drops the rest of a command's calls, as `?` does in `run_key`. In `UinputDevice` a call writes a
frame of key events and is over; `ReadEvent` is the compositor, later. `Keyboards` composes them,
with the backend chosen in `Init`, so that one run asks the same of both.

### LibeiDevices, LibeiDevicesProofs

`HandleEvent` is one turn of the dispatcher's loop, with `OnAdded`, `OnResumed`, `OnRemoved` and
`OnOther`; `TimeOut` is the end of `try_new`'s wait. A call is split at its locks: `BeginKey`
resolves the keycode, `FindShift` asks for the Shift key, `EmitKey` sends the frame; the
characters of a text go one by one; `Point` is the pointer calls. The EIS server is `Offer`,
`Resume`, `Withdraw`, `HangUp` and `ReadFrame`, which also reads the keys as the focused client
does.

### BackendBuild, BackendBuildProofs

`TryNext` is the loop of `build`, `Fail` with `IsLibeiFailure` is `libei_just_failed`. The steps
of `LibeiBackend::try_new` are `OpenSilently`, `Ask`, `Consent`, `OpenFails`, with `Save` for the
token, which may be absent or fail to be saved while the session goes on, then `Connected`,
`Ready`, `SignalLost`, `TimeOut`, against the dispatcher thread (`Handshake`, `DeviceReady`,
`StreamEnds`), which a timeout leaves running. KDE and GNOME go through the same steps first and
start their bridge on top.

### RecorderSession, RecorderProofs

`Start` chooses a source. Per device `Handshake`, `Read`, `Send`, `SeeStop`, `SourceEnds`,
`Cancel` are the pump; `CoordBreak` is the coordinator of the evdev tasks; `TakeEvents`, `Poll`,
`PollEnd`, `DropStream` the stream; `Stop`, `Drain`, `DrainEnd`, `Reap` the steps of `stop()`;
`Drop` the drop of the session. A pump in "sending" holds an event the channel has no room for.

### Recording, EvdevCapture, PortalCapture, Replay, Recordings, RecorderProofs

`Recording` has the user (`Strikes`, `Turns`, with the histories `made`, of the presses, and
`struck`, of the devices whose keys were struck), the form of an event and the trace. `Ways` of a
wheel are those of `RecEvent`, in which down is positive; `Turn` gives the kernel's two reports of
a click, in which up is. `EvdevCapture` has one task per device: `Take` stamps the raw event in
hand, and `evdev_to_rec` is split where another task can interleave: `ModLoad` and `ModStore` for
the mask, `Accumulate` and `Flush` for the throttle's clock. `PortalCapture` has the EIS server's
one stream (`KeyMoves`, `Glide`, `Aim`, `Wheel`, `Finger`) and the pump, where `eis_to_rec` runs
an event at a time (`MapPress` to `MapScroll`); positions and smooth scrolling are in half pixels,
so that truncation shows. `Replay` is the loop of `replay.rs`, through a backend that does what it
says. `Recordings` composes them: a recording by one of the two, then its replay.

### PortalToken, PortalTokenProofs

`Load`, `Restore`, `Consent` are the algorithm of `open_context`; `Create`, `Write`, `Rename` the
steps of `save_to` at which a process can die or another can run; `Crash` and `Revoke` the world.
A file is identified with the token written to it. The portal's rule, that a token works once and
a session started with it brings another, is the one on which the comment in `open_context`
relies.

## 3. Runs

Every run takes under three minutes with two workers. Deadlock is not checked: a process that has
made its calls has nothing left to do, so each model may properly stop.

| Run | Shows | Bounds, and why they suffice |
|---|---|---|
| `KdeSession` | in one process: answers are right, a window said to be absent is, calls return, and the bridge refines `WindowService` | 2 calls, 2 windows, one of them unreadable: two calls are what it takes to start each other's script and to time out before a late report |
| `KdeProcesses` | across processes: nobody loses a sender, and an answer is the call's own or an orphan's | 2 processes, 3 calls: one orphan and two live calls on the same id or the same map |
| `WlrReads` | replies are of the present, the worker exits | 2 windows, 2 handle numbers, 2 changes, 2 calls: a close, a reopening under the same number, a new process |
| `WlrActions` | verdicts are honest, actions reach the window meant, success is made good, calls return | 3 windows, one yet to open, 2 handle numbers, 2 changes, 2 calls with cancellation and a broken connection: a number passes from a window that closed to one that opens while a request for it waits |
| `OutputMoves` | outputs are described once, lists are of the present, moves land | 2 outputs, 2 modes, 2 scales, 2 changes, 2 commands: a pointer made by one command is used by the next after a change |
| `KeyboardCommands` | the mask, the keysym read, what is left down, the exit | 3 commands over chords of up to 2 modifiers of Shift and two Control keys, a second-level symbol, a foreign character, an unknown name, on either backend, a compositor that is a request behind: hold, strike, release |
| `LibeiSession` | slots, what is typed, what stays down, readiness | 3 devices (keyboard with pointer, keyboard of another layout, tablet), 4 server events, 2 callers with 2 calls: the swap of a keyboard in the middle of a call |
| `BackendBuild` | the build loop | every environment, every forced backend, every outcome; 3 libei sessions, one more than a build can open |
| `RecorderStream` | order, completeness, and the end of stream, pumps and stop | 2 devices, capacity 2, 3 events each: more events than room, for every backend |
| `Recordings` | a replay repeats the presses although tasks race for the mask, and in their chords if one keyboard was used; motion is conserved, clicks land | a keyboard with a modifier and a letter, another with a modifier, a mouse with a wheel, 4 things done, interval 1, 2 ticks, threshold 2 pixels: press a chord and let go, or a modifier on each keyboard and a key, or two motions and a click, with the tasks behind |
| `TokenStarts` | the token file | 2 calls under way, 4 starts, 3 tokens, 2 process ids: overlap, death with a leftover file, and reuse of its process id |

One run shows a disagreement between the code and its documentation, and finds its property
violated:

| Run | What happens |
|---|---|
| `KdeMisdelivered` | A process times out; the next one takes the bus name and starts its ids at 1; the late report of the old script succeeds the new call of the same id (`kde.rs:194`; 334-337 promise the script's own result). |

### What the passing properties exempt

Some properties are conditioned, and each condition names an event, never an outcome. Where the
condition hides a known defect it is this:

* `FreshRead` exempts retitled windows: a Title event without a State event makes Done copy
  `activated = false`, so the focused window is no longer active after it changes its title
  (`wlr_protocols.rs:1445`; 491-492 promise the latest state). It exempts lost connections too:
  493 and 502 discard the error of the roundtrip and answer from the old mirror.
* `ActsOnWanted` and `VerdictHonest` exempt successive processes. An id is an object number of one
  connection (586-593), though CHANGELOG.md:59 has users pass the ids of `search` to a later
  command. In one connection too a number is reused once its handle is destroyed: a caller who
  kept the id of a window that is gone reaches the window that has it now, and both properties
  exempt what follows when a number that somebody was told is used again. `VerdictHonest` exempts
  lost connections, as `FreshRead` does.
* `NotFoundMeansAbsent` exempts windows without a readable frame: kde.rs:302-310 means to answer
  Ok(None) for them, and the script cannot tell them from absent ones.
* `InputCaptured` is of a consumer that streams. `wdotool record` never drains the channel before
  Ctrl-C; once it is full the pumps block and input after that is not recorded (`record.rs:1-2`
  promises capture until Ctrl-C).
* `StopReturnsAll` exempts evdev: its tasks are aborted with an event in hand (evdev.rs:107-122),
  although mod.rs:204 says stop returns everything captured so far.
* `MaskTracksKeys` and `KeysymRead` exempt the Shift of a second-level symbol on wlroots, which is
  pressed with no modifiers request, so that the client reads the first level
  (`wlr_protocols.rs:664`; 387-396 explain why a request is needed). `MaskTracksKeys` exempts a
  modifier that two keys have, as the left and the right Control: the release of one clears the
  bit (`&= !bit`, 679) while the other is down (`Twofold`). `KeysymRead` exempts also what follows
  a failed restore of the keymap (781), of which nothing tells the caller.
* `NothingLeft` exempts refused keys: `run_key` returns at once and leaves the modifiers down.
* `ExitLosesNothing` is of wlroots. The uinput backend waits for nobody: a process that exits
  takes its device with it, and what the compositor had not read is lost (`uinput.rs:471`).
* `MoveLands` exempts outputs that were ever pulled out (the mirror never forgets one, and the
  pointer cached under its name is bound to the output that is gone, 826-893), outputs with a
  scale (the extent sent is the raw mode), and outputs whose mode was another than the worker had
  read of them when the command came (`StoodStill`). A plain move takes its extent from any output
  that has a mode in the mirror, so it is held to land only if there was one output (`OnlyOutput`)
  and the worker had a mode of no other (`OnlyKnown`). The second condition is not met once
  another output was plugged in and out again: its entry stays (`wlr_protocols.rs:265-270`), and a
  move on the only output left may be made in the extent of the one that is gone and land
  elsewhere, although README.md:164 promises real pixels of the primary output and 270 that a
  single monitor is fine. `OutputsFresh` exempts pulled-out outputs, and asks of width and scale
  separately, since a change of both may be read in part.
* `TypedAsAsked` and `NothingStuck` exempt a keyboard that comes or goes during a call or under a
  held key: `key` resolves the code under one lock and emits it under another
  (`libei.rs:583-598`), so a code of the old layout may be struck on the new keyboard, and a key
  held on the old one is never released. They exempt a keyboard without a keymap that can be used,
  which is given the codes of the previous one, and a purposely held Shift, which a second-level
  symbol releases. When the newest keyboard is removed the older one is not put back;
  `SlotsFollowServer` says so.
* `ReadyMeansUsable` asks that every device fits a slot and that no two fit the same: a device
  that fits none, or is no longer in its slot, makes the backend ready when it resumes as long as
  any slot is filled (456-461).
* `BuildReturns` exempts a dialog or a handshake that is never answered. `OneFailedStart` allows a
  second dialog, and no third, in one build: where the portal does not accept its own tokens, and
  where a session opened whose token was not saved, since libei.rs:354-357 only logs that and goes
  on; the bridge may then fail, and bare libei asks again.
* `ReplayRepeats` is about presses. It asks for the chord of each key of a portal recording, and
  of an evdev recording on a desk where one keyboard has all the keys and each modifier a bit of
  its own (`OneKeyboard`); elsewhere only for the keys. `ChordsRepeated` asks for the chords on
  any desk, as long as the keys of one keyboard were struck. Neither asks for chords struck over
  several, which evdev records wrong: the load and store of the mask (mapping.rs:188-194)
  interleave and one of two modifiers is lost, or stays for good, though mapping.rs:150-152
  promises a mask that is "consistent regardless of which device sees the modifier press /
  release"; and with a left and a right Control the release of one forgets the other.
* No property speaks of the wheel. A click is recorded by evdev with the kernel's sign, up being
  positive, and twice, as 1 and as 120 (mapping.rs:228-234), though types.rs:42 says that positive
  `dy` scrolls down and `uinput.rs:431-433` flips the sign for it: a replay scrolls the other way.
  Smooth scrolling loses its fractions event by event (121-125). The model has all of this, and no
  promise that it keeps.
* `MotionConserved` is of the throttle. With two mice its clock can move back, which loses no
  motion.
* `ClicksLand` is of portal recordings with motion of one kind: absolute and relative motion keep
  separate accounts, and a mixture drifts. It is not of evdev recordings: a click is recorded
  while earlier motion waits in the accumulator, which types.rs:69-72 says a non-motion event
  flushes.
* `TokenStarts` has one session start per process at a time. With three in one process the
  temporary name is shared and `FileWhole` fails.

Other disagreements met while reading, not carried by a run: no recorder emits the `Gap` its types
describe, so a replay runs without pauses (`replay.rs:2-3` and README.md:125 promise the original
timing); the portal records a modifier key's own press as a chord `keyNN`, which no backend knows,
so the replay of such a trace stops there (types.rs:21 says modifiers are coalesced into the
chord); buttons and scrolling are advertised for an absolute pointer alone and then refused, and a
pointer without buttons answers a click with success (`libei.rs:571`); `key ctrl+<foreign
character>` swaps the keymap with ctrl held, contrary to CHANGELOG.md:86; aliases of a key name
are understood in a chord's modifiers only (keysym.rs:30-45, README.md:93).

## 4. Fairness

* `KdeBridge`: weak fairness of each call's own steps. tokio polls a task that can proceed, zbus
  answers or fails a method call, and the timeout covers a script that never reports. Nothing is
  assumed of KWin's scripts.
* `WlrToplevels`: weak fairness of the worker's steps (it is a thread of its own) and of the
  compositor serving requests in order. None of callers, who may give up, or of the desktop.
* `RecorderSession`: weak fairness of each task's next step; strong fairness of `Send` and
  `SeeStop`: tokio's channel hands permits to blocked senders in the order they came, so one of
  two pumps is not passed over forever, and the `select!` of a pump picks at random among the arms
  that are ready, so it does not pass over the stop signal forever. A consumer that streams takes
  the stream and polls it. Nothing is assumed of the user, of the end of a session, or of the EIS
  handshake (properties exempt a session still in it).
* `BackendBuild`: weak fairness of the caller's steps: the runtime polls it, the timer fires, and
  the buses and the compositor answer or fail. Nothing is assumed of the user, the portal or the
  EIS server.
* `LibeiDevices`, `WlrPointer`, `Keyboards`, `Recordings`, `PortalToken`, `WindowService`: none;
  their properties are all of safety.

## 5. Proofs

All theorems are checked by TLAPS to the last leaf.

**KdeBridgeProofs.** For any processes, calls and windows: `TypeCorrect`;
`WaitingCallsKeepTheirSender` (`SenderHeld`); `AnswersFit` (`AnswerFitsRequest`, a part of the
invariant on which no run is spent); `AnswersOwnOrOrphaned` (`AnswerOwnOrOrphaned`). None of the
properties is inductive alone. The invariant adds that ids drawn in one process are distinct and
below `nextId`, that a parked sender is under its own call's process, map and id, and that a
report on the bus carries the map and id of the call that asked for it and travels to that call's
process unless it has ended. So the sender `Report` removes is that call's, or that of a call of
the same id in a later process. Under `OneProcess` the orphan is ruled out: `SuccessIsOwn`
(`SuccessIsOwnResult`), `NotFoundIsAbsent` (`NotFoundMeansAbsent`, because no window opens under
an id that was used) and `BridgeImplementsService` (`ImplementsWindowService`), where the mapping
of a call's place to its phase takes each step to a step of the service or to a stutter.

**WlrToplevelsProofs.** For any windows, handle numbers, callers and changes: `NumbersAgree`, its
inductive invariant; `OnlyTheWindowMeant` (`ActsOnWanted`); `VerdictsAreHonest` (`VerdictHonest`);
`ReadsAreFresh` (`FreshRead`). A number passes from a window that closed to one that opens, so the
invariant is about who may still speak of it: of each number there is at most one announcement on
the wire, the mirror and that announcement have the compositor's window, Closed is the last event
of a number, the request to destroy it comes after Closed was read, and only when it has been
handled is the number free. A told number then stands for the window it was told for or for none,
and so does a request on its way. The theorem about verdicts adds that a told id is in the mirror
as long as its window is open, that a closed window the mirror still has is yet to be reported
closed, that there is one roundtrip at a time, and that a call which has only ever seen its window
gone has that report ahead of its callback: when the roundtrip returns the id is gone from the
mirror too. It supposes one connection that is not lost and no told number used again, as the
property does. The theorem about reads is about the mirrors there will be: each event still on the
wire turns one into the next (`Turns`), the last is the desktop as it is (`Final`), and of those
from the callback of the roundtrip on, each shows a desktop the call has been there for (`Told`).
Every sender of events therefore has to keep the mirrors in between honest too, which is why it
matters that the focus is taken off one window before another gets it and that no flag is applied
before its done. The invariant says that there is such a row of mirrors, not what a fold over the
wire computes, so no induction over the wire is needed.

**WlrPointerProofs.** For any number of outputs, modes, scales, commands and changes:
`EachOutputHasItsObject` (`AttachedOnce`), `MovesLand` (`MoveLands`) and `ListsAreFresh`
(`OutputsFresh`). Two places attach an output, the registry handler and the fix-up after the first
roundtrip, and the invariant says that between them they leave none out and take none twice: the
requests for an object on their way and the objects that exist are exactly the outputs marked as
attached, each once; the ids still to be announced are new; until the manager is bound nothing is
attached, the first roundtrip is not over, and the announcement of the manager is ahead of the
callback that ends it; afterwards all that is known is attached. The fix-up asks for the
unattached outputs in the order of a set, of which the proof uses that `SetToSeq` lists each
member once. For the second theorem a further invariant (`MInv`) relates the two ends of the line:
a name the worker has read, or is sent, with an id is that output's, or was pulled out (`Known`,
`Told`); the pointer cached for an output is confined to it, or the request that makes it so is on
its way (`Confined`); there is one roundtrip at a time, which ends after all the input that was
sent (`Turn`); and of a move that succeeds either the one motion is on its way, after the request
that makes its pointer, or nothing that moves the cursor is and the cursor is where it was asked
to be (`Landing`). It is assumed that no connector has the name by which the model tells the
pointer that is not of an output (`"default"`), which in the code is a field of its own.

A move that ends was made in an extent; that it is the one of the output the cursor is on, the
theorem gets from its conditions: the worker knew one mode (`OnlyKnown`), or looked it up under
the name of an output never pulled out, and that mode is the output's all through the call.

`OutputsFresh` takes an invariant of its own (`FInv`), about what the mirror will be once the wire
is read. The worker hears of an output in two streams: name, mode and scale from the output's
object, the logical size from its extended one. An output the worker knows is bound or asked for
in both (`Bound`, `Linked`), and events are on their way of such objects alone (`Heard`). Each
stream settles (`Settles`): what the worker holds is how the output is, or an event about it, or a
request that brings one, is still under way, and the last event under way says how it is
(`Current`). An output that has no objects yet has no logical size (`Partial`), and one never
pulled out is announced before the first roundtrip ends, so a list of outputs knows it
(`Registered`, `Asking`). The heart of it is `InTime`, about the outputs that were known when the
list was asked for: once the events ahead of the end of its roundtrip (`Before`) and the answers
to the requests ahead of its sync (`Sooner`) are read, what the mirror holds of each is as it was
at some moment of the call. When the roundtrip ends nothing is ahead of it any more.

**KeyboardsProofs.** For any layout, chords and commands, on either backend: `NothingIsLost`
(`ExitLosesNothing`, which is about wlroots), `MaskIsThatOfTheKeys` (`MaskTracksKeys`),
`EveryKeyIsRead` (`KeysymRead`) and `CommandsCleanUp` (`NothingLeft`). For the first, what is on
its way to the compositor belongs to the call in progress and ends in that call's one sync. The
others hold when nothing is on its way, which no step preserves by itself. So the invariant
(`Reckoned`) is about the state there will be: the requests on the line take the compositor
(`Run`), reading every key right, to a state whose mask is that of its keys and which is what the
calls still to be made start from (`Ends`): each chord's modifiers are held when its key is struck
(`Due`), and every modifier that is down is one that a later call releases (`Passing`). A
backend's call appends to the line and takes a call from the list, and the lemmas on its shape (a
press with its modifiers request, Shift around a second-level symbol, a keymap and its restoring)
say which state it ends in; the compositor's step only shortens the run. The assumptions on the
layout are that each keysym stands on one level of one key, that a modifier's key has no other
symbol, and that a character of a transient keymap is not a modifier's code: on layouts where Meta
is the second level of Alt the model does not say what is read.

**LibeiDevicesProofs.** For any devices, layouts, callers and bounds: `SlotsFollow`
(`SlotsFollowServer`), `ReadyHasDevice` (`ReadyMeansUsable`), `KeysComeUp` (`NothingStuck`) and
`TypingIsRead` (`TypedAsAsked`). Between the server and the slots lies the wire, so the invariant
describes it: of each device it says first that it was added and last that it was removed,
additions come in the order of the offers, and a slot holds the newest device of its kind among
those whose addition has been handled, unless its removal has been handled too. A device about to
resume therefore has the slots no newer one took. For the third theorem the invariant (`Settled`)
follows the frames from the lock to the server: whatever code is down on a device, or is pressed
by a frame still to be read, is one of a key or a button held on purpose, or a later frame to the
same device releases it. A device that is not resumed ignores frames but has nothing down, so it
does not matter which of them it ignores. A key to be emitted was looked up in the present keymap
(`KeysKnown`) as long as no slot changed hands. For the last the invariant (`CInv`) tells the
story of each call that nobody interfered with (`Story`): what a client has read of it, the frames
in line, each numbered by the symbol it says (`InLine`), and what the call has yet to emit
(`Owed`) make up what the call is asked to say. A frame of a key sent while no Shift is held on
purpose is read with no Shift down but its own (`FramesKnown`). The symbols are numbered instead
of counted over the wire, and a set of numbers that is not empty has a least one (`Least`): that
takes the place of an induction.

It is assumed that a keymap has Shift on the first level, that every symbol stands on the first or
the second level of a key and none shares its place (`KeymapsAssumption`), that buttons go to the
pointer, which is what `mouse_button` does, and that they are not named like keys
(`RequestsAssumption`).

**BackendBuildProofs.** For every environment, every outcome of the constructors and any number of
sessions: `LibeiFailsOnce` (`OneFailedStart`) and `BuildsFirstThatStarts` (`FirstThatStarts`). The
argument rests on the shape of the lists of `priority` (`ListShape`): a kind stands in a list
once, and what builds on libei stands first. The invariant says that what is left of the list is
its end, that a start of libei has failed exactly when `failed` is set, that there were no more
dialogs than kinds taken from it, and, as long as the portal accepts its tokens and none was lost,
one at most, which is still open, has brought a token or was the end of libei, and that every kind
taken from the list and given up was tried in vain.

**PortalTokenProofs.** For any calls, processes and tokens, the calls under way being of different
processes (`~SharePid`): `FileIsWhole` (`FileWhole`), `OldFileIsKept` (`OldFileKept`),
`CachedTokenUsable` (`TokenUsable`) and `OnlyTheFirstAsks` (`PromptsOnce`). The first rest on
ownership: a call that has created its temporary name is the only one to touch it, since the name
ends in its process id and a leftover of a dead process is refused by create_new. The third adds
that a token yet to be saved is known to its saver alone and accepted by the portal, and that
while the file holds a used token some call is about to replace it. The last adds that, while
nothing outside fails, calls follow each other, and once the dialog was shown the file or the call
under way has the token it brought.

**RecorderProofs.** Of `RecorderSession`, for any devices, capacity and consumer: `TypeCorrect`,
`Ordered` (`InOrder`), `NothingIsSkipped` (`NothingSkipped`) and `StopIsComplete`
(`StopReturnsAll`). The invariant ties the consumer's events and the channel, taken together, to
what each pump has read: nothing in them is newer than that (`Bound`), they are in order, and
nothing read is missing but the event in a pump's hand. For the last theorem it adds that while
the session has the receiver no pump is aborted, and that the channel counts as drained only when
every sender is gone.

Of `Recordings`, for any desk, bounds and lag of the tasks: `RecordingsAreRepeated`
(`ReplayRepeats`), `NoMotionLost` (`MotionConserved`) and `ClicksLandNear` (`ClicksLand`).
`RecordingsAreRepeated` supposes nothing of the desk: what a record must agree in is part of the
property. All three are about what a whole sequence comes to: the presses that a trace tells of a
device, the sum of its motions, the place its clicks are made at. Induction over data being out of
reach, the invariants compute nothing. They say that there is a way (`Way`): a row of values, one
more than the sequence has elements, of which each element allows the next from the last. A
sequence that grows by one adds a stride at the end (`WayGoesOn`), one that loses its head drops
the first (`WayBegins`). Only the last step of `NoMotionLost`, that the way of a sum ends in what
the recursive definition of `Total` says (`WayIsTotal`), takes the least element of a set of
naturals.

`RecordInv` (`RecordingsSound`) lays such ways end to end. For the presses of a device: the trace
has told the first k of its list (`Told`), what has not been mapped will tell the rest (`Caused`
for the raw events of an evdev task, the one in hand included; `Unread` for the wire), and where
the two meet is a mask. On a desk with one keyboard it is the one after all that was mapped and
leads from there to the modifiers held now, the mask that a task has loaded and not yet stored is
still the shared one, and the record agrees with the list in its chord (`Level`, `Agree`); with
several it is any mask, and the record agrees in its key alone. In a replay what is left of the
trace tells what was not yet done (`Doing`). For motion: what was recorded, what is in the
accumulator and what is to come make up the motion (`MotionOf`), so that a flush only moves it
from one to the other.

For the clicks two ways run side by side on each axis: that of the trace, which counts where a
replay will be, its motions and its clicks (`Seen`), and that of the wire, from where the user's
hand was when the pump last read to where it is (`Pointed`). They meet in `Close`: after relative
motion the two differ by the accumulator and by half a pixel for each motion recorded, after a
place by less than the threshold. So each click is near that of the user already when it is
recorded (`ClickIsNear`), and a replay, which goes the way of the trace from its own start, makes
it there (`Landing`).

What a proof needs of the types of a module's variables is part of its invariant and proved with
it; no run is spent on types. Only model-checked is all liveness (`CallsReturn`, `ActionLands`,
`WorkerExits`, `InputCaptured`, `PumpsEnd`, `StopReturns`, `BuildReturns`), which the prover does
not reach under fairness. So is `ChordsRepeated`, whose condition is about what was struck; for a
desk with one keyboard it is part of `RecordingsAreRepeated`. Every other property of a passing
run is a theorem.

## 6. Not modelled

* D-Bus calls of kde.rs that never return: each gets a reply or an error.
* A power loss between write and rename, and the search for the state directory.
* The errors of the wlr worker for a compositor without a seat, a toplevel manager or a pointer
  manager, and builds without one of the features.
* The window calls of the GNOME backend, one D-Bus call each, and the pointer calls of uinput,
  writes without state: the mapping of their axis to pixels is the compositor's.
* The positions of outputs, which `list_outputs` only reports.
* The tables of key names and of keysyms, the JSON of a trace, the sleeps of `Gap` events.
* Window search filters, output formats, `prime`, `diag`, the capability report, packaging.

## 7. Plan

Done, in this order: the KDE bridge and its service, the recorder session, the wlr windows and
keyboard, the evdev mapping, the token cache, with proofs for the bridge, the recorder and the
cache; then libei's devices and the choice of a backend with their proofs, the wlr outputs, uinput
next to the wlr keyboard, and recording composed with replay; then the proofs about the keyboards,
the wlr windows and the wlr outputs, about what libei's clients read and what a list of outputs
says, and at last about recordings and their replay.

Next: the pointer calls of uinput and the GNOME backend's window calls, should they come to keep
state; the order in which a replay interleaves the devices of a portal recording, which the one
wire keeps and `ReplayRepeats`, a statement on each device, does not say.
