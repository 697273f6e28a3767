# stylus-popup in TLA+

A verification development for stylus-popup, a Wayland status pill for the Xiaomi
Pad 5's pen. The program is small, but almost nothing in it happens in one piece:
four single-shot timers, a chain of asynchronous D-Bus calls, Qt's event queue, two
threads, and an animation that may be interrupted at any frame. The modules here
model that control; what is drawn, worded, parsed and installed is left out.

## 1. The system

| Component | State | Operations | Talks to |
| --- | --- | --- | --- |
| Gesture detector, `stylusgestures.cpp` | down, two "already fired" flags, press time, time of the click held back | `feed`, `tick`, `deadlineMs`, `configure` | called by the button thread |
| Button thread, `stylusbuttons.cpp` `StylusButtonMonitor` | list of watched nodes with two detectors each, `m_running`, a wake-up fd | `run` (poll, drain, scan, flush), `stop` | kernel (nodes, events, inotify); emits gestures |
| Button mapper, `StylusButtonMapper` | configuration | `onGestureTriggered` | starts commands |
| Pairing, `bluezmanager.cpp` | pending address, adapter path, discovering flag, discovery timer; calls in flight are kept by D-Bus only | `ensurePaired`, `cancel`, four reply slots, `onInterfacesAdded`, `onDiscoveryTimeout` | bluetoothd over D-Bus; three signals |
| Popup state machine, `popupwidget.cpp` 276-447 | pen state, `m_btPaired`, `m_gaveUp`, mode, dismiss / connect / error timers | `showState`, `onConnectAttemptStarted`, `onBtPaired`, `onBtConnectionFailed`, three timeouts | emits `connectTimedOut`; drives the choreography |
| Choreography, `popupwidget.cpp` 451-657, `spring.h` | content on screen and to come, swap / reveal / collapse flags, springs, frame timer | `setMode`, `startFrames`, `onFrame`, `finishHide`, `renderFrame` | layer surface |
| Layer surface, `waylandlayersurface.cpp` | configured, width, shared-memory pool, attached buffer, queue timer | `init`, `updateImage`, `commitFrame`, `hide`, configure, closed | compositor |
| Driver thread, `stylusmonitor.cpp` | descriptor, `m_running` | `run`, `stop` | `/dev/idtp9418`; emits `stateChanged` |
| Wiring, `main.cpp` | `pairingRequested` | `onStateChanged` | all of the above |
| Theme, `colortheme.cpp`, `popupwidget.cpp` 204-222 and 868-881 | the colours; the watches on the palette file and its directory | `loadFromQt6ct`, `onThemeFileChanged` | whoever writes the palette; repaints the popup |
| Configuration, `appconfig.cpp` | the loaded values, the file | `load`, `writeDefaultConfig` | read once at start by everything above |
| Texts, painting, packaging | - | - | read or drawn, never decide |

How they interact. The driver thread posts every report to the GUI thread, where
`onStateChanged` shows it to the popup and, once per *stage* (from one "attaching"
report or detachment to the next), asks `BluezManager` for the pen. `BluezManager`'s
signals come back to the popup through the event queue; the popup's connect timeout
cancels the attempt with a *direct* call. So cancelling overtakes signals that are
already posted. The popup's mode drives the choreography, frame by frame, and the
frames end in the surface. The button thread shares nothing with the GUI thread but
queued gestures.

What is hard, and what makes each part correct:

- *Gestures.* Four things can decide a press (deadline, release, second press,
  repeat), in any order relative to when the thread gets to run. One press, one
  gesture (what auto-repeat adds is pinned down); the poll deadline must be exact.
- *Button thread.* `stop()` against `poll()`, nodes that die and reappear under their
  old path, auto-repeat that keeps `poll()` from timing out. No lost wake-up, no
  gesture put off, no pen left unwatched.
- *Pairing.* Replies carry no tag of the attempt they belong to; attempts are
  cancelled at any point and many paths end one silently. Attempts end, one at a
  time, announced before they are decided; timer and discovery do not outlive them.
- *Popup.* Four handlers stop timers and each must leave the right one. A pill always
  leaves, its wait is never postponed, giving up is final until a fresh seat.
- *Wiring.* One request per stage, no attempt behind a popup that gave up.
- *Choreography and surface.* A transition interrupted halfway must neither finish
  the old one nor stop halfway; no stale pixels, no buffer beyond the pool.
- *Driver thread.* `stop()` closes the descriptor a blocked `read()` waits on, from
  another thread. Closed once, by one of them, and under that number only the device.
- *Theme.* The file is replaced, rewritten and removed while it is being read. The
  watch survives, and what is written last is what is painted.
- *Configuration.* The file is hand-edited, and its first write may have ended early.
  Every start gets values the rest can work with.

Every hazard, with its line and the properties aimed at it, is in `PROJECT.json`.

## 2. Modules

| Module | What it is |
| --- | --- |
| `GestureLogic` | the detector as a pure function of its fields |
| `GestureDetector` | the detector with one button's events, flushes and time |
| `Gestures` | abstract: the five-phase automaton of presses and their verdicts |
| `ButtonMonitor` | the thread, with the kernel, the clock and `stop()` around it; uses `GestureLogic` |
| `Bluez`, `MCBluez` | `BluezManager` with its calls in flight; the bound on them for TLC |
| `PairingAttempts` | abstract: what the signals promise their listener |
| `Popup` | the popup's state machine and its three timers |
| `PillStages` | abstract: what the popup promises of one pen's stage and its pill |
| `StylusPopup` | `main.cpp`: `Popup` and `Bluez` composed over the event queue, with the driver |
| `LayerSurface` | the surface as a pure, set-valued function of its fields (allocations may fail) |
| `Island` | the choreography, ending in `LayerSurface` |
| `DriverMonitor` | the driver thread and `stop()`, over the process's descriptor table |
| `ThemeWatcher` | the palette's loading and watches, with its writers |
| `AppConfig` | what each start makes of the config file |
| `GestureDetectorProofs`, `PopupProofs`, `BluezProofs`, `StylusPopupProofs`, `IslandProofs`, `DriverMonitorProofs`, `ButtonMonitorProofs`, `SettingsProofs` | the theorems (`SettingsProofs`: of `ThemeWatcher` and `AppConfig`) |

Each handler is one action, with every call it makes that changes state; private
helpers are operators with the names they have in the code (`present`, `armConnectTimer`,
`endWaiting`, `finish`, `stopDiscovery`, ...). `PROJECT.json` maps each definition to
its lines. Definitions marked *Mutant* are broken variants of the definition that
follows them; nothing refers to them, they exist to show that the properties notice.

How the state corresponds to the code:

- **Time.** A timer is the number of ticks it has left: `Off` when stopped, 0 when due
  but not dispatched, and then any other handler may still run first. The detector
  keeps the *age* of each time, capped at the threshold it is compared with, because
  the code only compares `now - time` with thresholds.
- **Calls in flight** (`own`, `stale` in `Bluez`) are counted by kind. The code has no
  such variables: they record what D-Bus still owes the program, and from which
  attempt. Only the properties and the delivery order read the difference; a reply
  handler sees neither, exactly like the code.
- **`session`** is BlueZ's side of discovery: `"on"` is one it granted to the pending
  attempt, `"orphan"` one it granted to an attempt that had ended by then, whether the
  manager drops the reply or takes it for the next attempt's.
- **`ran`** in `GestureDetector` counts, for the last press, every gesture any call
  returned, those of repeats included. `repeat` is the option, which is read at start
  and never changes.
- **The queue** in `StylusPopup` holds the signals posted to the popup. Driver reports
  and D-Bus replies are not queued there: they depend on nothing posted before them, so
  handling them at any moment covers every moment they could have been posted. A reply
  to a call made after `attemptStarted` was posted waits for that signal.
- **Springs** in `Island` hold the frames left until they rest. A retargeted spring may
  be any distance from its new target. The shape counts as arrived one frame early,
  since the thresholds in `onFrame` are below 1.
- **Pool and buffer** in `LayerSurface` are a width and a rectangle. The pool is always
  full height. Whatever `init()` was told, the compositor may have configured another
  width before the pool is created.
- **Descriptors** in `DriverMonitor` are numbers in a table that says what each is open
  on. A blocked `read()` holds the file, not the number, as in the kernel; a read that
  was interrupted looks the number up again. Each atomic access is a step of its own.
- **A palette** in `ThemeWatcher` is one value. While somebody writes it the file is
  `"torn"`, and the colours read from it then are `"mixed"`. The handler's look at each
  candidate and its reading of the chosen one are separate steps, since the writers run
  beside it; `QFileSystemWatcher`'s reports wait until it is back in the event loop.
- **An overrun** in `ButtonMonitor` replaces what is unread by `SYN_DROPPED` and the new
  event, as evdev does, or by the marker alone.
- **A config file** in `AppConfig` gives each duration key a number or nothing readable
  and each other key a text or nothing.
- **Threads.** A turn of the button loop is five steps (check, poll, drain, scan, flush)
  and everything else may happen between them. The GUI thread runs one handler at a
  time, so there a handler is atomic.

## 3. Runs

Passing runs:

| Run | Asks | Properties |
| --- | --- | --- |
| `detector` | one button under every order of events, flushes and delays, with auto-repeat mapped and without | `OneGesturePerPress`, `DeadlineExact`, `EveryPressDecided`, and that it implements `Gestures` |
| `buttons` | the thread against kernel, clock and `stop()`, with overruns and with auto-repeat mapped | `NoLostWake`, `SleepsUntilDue`, `DownIsHeld`, `PenIsWatched`, `PressIsDecided`, and its types |
| `popup` | the popup under every order of calls to its slots | `ShownHasDeadline`, `DeadlineOnlyWhileWaiting`, `ErrorHoldIsTheErrors`, `DeadlineNotPostponed`, `ChatterNeverResurrects`, `WaitEnds`, and that it implements `PillStages` |
| `bluez` | attempts requested and cancelled at any time, stale replies | `NoStuckAttempt`, `TimerIsTheAttempts`, `DiscoveryIsStopped`, `AttemptEnds`, and that the signals implement `PairingAttempts` |
| `program` | two pens seated, reported and detached while attempts run | `OneRequestPerStage`, `NoAttemptBehindGivenUp`, `VerdictsAnnounced`, `EverySeatWaits`, `EveryPillLeaves` |
| `island` | mode changes at any frame, failing allocations, a compositor that reconfigures or closes | `ShownIsComing`, `TransitionsAreDriven`, `ContentIsTheModes`, `HiddenIsBlank`, `BufferInPool`, `ModeIsPainted` |
| `driver` | `run()` against `stop()`, called at any time and again, while other files come and go | `ClosesOnlyItsOwn`, `ReadsItsOwn`, `NothingLeaks`, `ReportsAreRead`, `StopIsNoticed` |
| `theme` | the palette written in any way at any step of the handler | `WatchSurvivesReplace`, `ThemeCatchesUp` |

Where a type invariant is not run it is proved (section 4).

Runs in which the code disagrees with what the repository says of it (each checks one
property, quotes the sentence in `PROJECT.json` "findings", and is expected to fail):

| Run | What it shows |
| --- | --- |
| `popup_wait` | an unpaired pen whose pill enters its expanded form through `present()` is taken down by the dismiss timer after 4 s, not by the connect wait |
| `bluez_stale` | a reply to a cancelled attempt's call is taken for the next attempt's and ends it |
| `lost_request` | a second pen seated while the first one's attempt is pending uses up its one request without being asked for |
| `stale_paired` | a pen seated while the first one's attempt is pending is shown as paired by the first one's verdict |

The code disagrees with the repository's text in more places, which have no run of their
own. There the property is stated so that it allows what the code does in exactly that
case, and nothing else:

- *Singles of an undecided hold.* With `repeat=true` a hold that is undecided runs
  `single` for each repeat and may fire `long`, or another `single`, afterwards.
  `stylusgestures.h:35-37` says that one press produces at most one gesture and that
  auto-repeat re-runs what the hold already resolved to; `appconfig.cpp:105-107` says the
  same. `OneGesturePerPress` counts these singles. It demands exactly one gesture per press
  without auto-repeat; with it, that an undecided press has run nothing but singles, that
  a double click runs once and alone, and that a decided press has run something.
- *The age of a click.* A press read after the click window but before the flush is still
  a double click: `press()` does not look at the click's age, and the loop drains before it
  flushes (`Press` in `GestureLogic`). `stylusgestures.h:30-31` speaks of a second press
  inside the window.
- *A seat within a wait.* A fresh seat while the previous connect wait is still running
  keeps that deadline, even one that is due (`popupwidget.cpp:330`, `armConnectTimer`).
  `popupconfig.h:18-19` gives the next attach a fresh window. `EverySeatWaits` demands the
  whole time, or what a running wait has left.
- *A discovery nobody stops.* If `StartDiscovery` is granted after its attempt was
  cancelled, the reply is dropped, or taken for an attempt that may end before it has an
  adapter path to send the stop to (`bluezmanager.cpp:164`, `:211`). `bluezmanager.h:19`
  says that `cancel()` stops discovery. `DiscoveryIsStopped` is about the discoveries
  granted to the attempt that is pending: the flag, or its absence, is no excuse there,
  only a pending attempt that can still stop it, or the stop on its way.
- *A `hide()` that does not hide.* `hide()` returns before it stops the queue timer when
  the compositor closed the surface, and also when the pool could not be grown
  (`waylandlayersurface.cpp:259`, `:373`); the comment at `:187-188` says the timer is
  stopped in `hide()`. `HiddenIsBlank` allows the timer in these two cases only. After a
  lost pool nothing can be sent to the compositor any more, so a pill that was up stays
  frozen on the screen; `ModeIsPainted` excepts it (`Sent` in `Island`), and a frame for
  which no buffer could be created.

### Bounds, and why they are enough

- `detector`: 10 ms ticks, the shipped 300 ms and 500 ms, auto-repeat mapped in some
  behaviours and not in the others. The count of a gesture stops at 2 (`Many`): no
  property tells two from more. The proofs cover the other thresholds.
- `popup`, `popup_wait`: 100 ms ticks, the shipped 4 s, 1.4 s and 15 s. No other bound.
- `bluez`: at most 4 unanswered calls and a discovery timer of 2 ticks. An attempt owns
  one call at a time (two when the device is announced again), so four leave room for
  the calls of three ended attempts beside it; the safety proofs have no bound. Two pens:
  the manager compares addresses only with the pending one. `bluez_stale` needs 3 calls.
- `program`, `lost_request`, `stale_paired`: two pens, `MaxSeats` = 2, `MaxReports` = 3 other reports. A
  stage is opened by one seat, so two seats are what it takes for an attempt, a timer or
  a signal of one stage to meet the next; three reports let the pen be reported in both
  stages and leave. The timers keep the order of the shipped ones (error hold < dismiss <
  connect = discovery), which is what decides who fires first.
- `island`: two widths and two rows (a hidden surface has one), springs of at most two
  frames: one in which the shape has "arrived" and is still moving, one before.
- `buttons`: one path, which is where a node's history matters (another path is another
  copy of the same state); a buffer of two unread events, enough for a release and a press
  in one drain, and small enough to overrun; click window 1, long press 2, re-scan 3 ticks, so that the re-scan
  interval is longer than either deadline, as in the code.
- `driver`: two descriptor numbers, one for the device and one that it is not, or two
  that others hold so that it cannot be opened. The proofs cover any set.
- `theme`: two palettes, an old one and a new one; the two candidates that are not
  watched are one.

Deadlock is checked in every run.

### Fairness

The clock ticks and a due timer is dispatched (Qt's event loop; no handler blocks or
runs for ever). D-Bus answers every call, since libdbus itself answers with an error
after its timeout. Posted signals are delivered. The button thread is scheduled. The
frame timer fires while it runs. The driver thread is scheduled, and so is a caller that
is inside `stop()`. The theme's handler is called for what the watcher reports. Nothing
is assumed of the driver, the user, the kernel, the compositor, the writers of the
palette, or of whether `stop()` is called. `PressIsDecided` stops promising once the
button is used again, but auto-repeat alone does not release it. `StopIsNoticed` is
conditional on a driver that keeps reporting, because `close()` does not end a read that
is blocked: with a silent driver the destructor's `wait()` hangs.

## 4. Proofs

Each proof module closes an inductive invariant `IInv` under one step per action.

- `GestureDetectorProofs` (every threshold, auto-repeat mapped or not): types,
  `OneGesturePerPress`, `DeadlineExact`, and the implementation of `Gestures`.
  `OneGesturePerPress` alone is not inductive: a press that arrives while the detector
  already holds one, or a click pending under a held button, would count twice.
  `ClickNotHeld` excludes both: a button the detector takes to be down is physically
  down and holds no click back. `DoubleIsDoubles` (a hold that is not a double click's has
  run none) keeps repeats from adding a `long` to a double click.
- `PopupProofs` (every dismiss time, error hold and connect timeout, including 0, which
  waits for ever): types, `ShownHasDeadline`, `DeadlineOnlyWhileWaiting`,
  `ErrorHoldIsTheErrors`, `HiddenIsQuiet` (which says that a hidden popup has no timer
  running), and the two action properties
  `DeadlineNotPostponed` and `ChatterNeverResurrects`. The invariants are inductive only
  together: for instance that "an attempt is starting" leaves a paired pill with a
  deadline rests on the connect timer being off while paired and on the error timer
  being off outside the error, so that the running one is the dismiss timer. A fifth
  conjunct, `GivenUpIsDown`, is needed because a report after giving up stops the dismiss
  timer. `ErrorNeedsAPill` discharges what `Island` assumes of its caller, so every
  sequence of modes the state machine produces is one `Island` was checked with.
  `StagesRefinement` is the implementation of `PillStages`; the mapping needs
  `OnlyOfThePen`: no pairing and no pill of a pen that is away, and no pill of a paired
  pen that was given up on. A lemma per kind of step (`GiveUpStage`, `PillStage`) says
  which abstract step it is.
- `BluezProofs` (every set of pens, discovery timeout and number of calls in flight):
  types, `NoStuckAttempt`, `TimerIsTheAttempts`, `DiscoveryIsStopped`, and that the
  signals implement `PairingAttempts`. Every handler, for an own reply or a stale one
  that is taken for it, is shown to do one of three things: end the attempt, send its
  next call, or start waiting for the device; each of the three is shown to keep the
  invariant. `DiscoveryIsStopped` needs `AsksOnAdapter` beside it: an attempt that waits
  for its `StartDiscovery` has the adapter path the stop will be sent to. The theorems are about `Bluez!Spec`, of which the run's `MCSpec` is a
  bounded instance.
- `StylusPopupProofs` (every set of pens, every timer, any number of seats, reports and
  calls in flight): `Components` shows every step of the program to be a step of `Popup`
  (or none) and a step of `Bluez`, so the invariants of the two carry over (two are
  restated for the program), and so do the two refinements: `ProgramStages` and
  `ProgramAttempts` say that the composition still implements `PillStages` and
  `PairingAttempts`, at once. The wiring adds types, `OneRequestPerStage`,
  `VerdictsAnnounced`, `NoAttemptBehindGivenUp` and `EverySeatWaits`.
  `NoAttemptBehindGivenUp` is not inductive: a popup gives up on hearing `failed`, and
  what the queue holds behind that verdict decides. `InOrder` says it: between two
  verdicts, and after the last one while an attempt is pending, there is a `started`; it
  is kept because the manager's signals follow `PairingAttempts`. `Untouched` covers the
  pen that was docked before the program started: a first report that is already
  `complete` attaches it without a seat, and must not find a popup that gave up.
- `IslandProofs` (any number of frames per spring, any height and widths): types,
  `ShownIsComing`, `TransitionsAreDriven`, `ContentIsTheModes`, `HiddenIsBlank` and
  `BufferInPool`. `HiddenIsBlank` needs `Unmapped` (a surface without a pool holds no
  pixels), since `hide()` does not get to wipe one whose pool was lost. A collapse that ended while a swap was pending would stop the frames the
  swap needs; `LeavingIsAll` excludes it: what collapses is hidden and has nothing else to
  do. The surface has a lemma per call (`PainterKeeps`, `CommitKeeps`, `HideKeeps`,
  `DispatchKeeps`). `BufferInPool` has a premise of its own, `Comparable`: `hide()`
  attaches one row of the current width without growing the pool, so a row of any width
  must fit into the pool of any other. The pool has 104 rows, so it takes a display 104
  times as wide as an earlier one to break it.
- `DriverMonitorProofs` (any set of descriptor numbers): types, `ClosesOnlyItsOwn`,
  `ReadsItsOwn` and `NothingLeaks`. The right to close is one token: it is in `m_fd`, with
  `run()` before it published or after it took the descriptor back, with `stop()`, or
  spent. The invariant says that there is one holder at a time and that the number it
  holds is the device's.
- `ButtonMonitorProofs` (any set of paths, any buffer size, thresholds and re-scan
  interval, auto-repeat mapped or not): types, `NoLostWake`, `DownIsHeld` and
  `SleepsUntilDue`. `DownIsHeld` needs to know what is unread: `QueuedPressIsHeld` (a
  press in a queue that nothing behind it releases belongs to a button that is held) and
  `QueueIsOpens` (only open nodes have a queue). What a drain makes of a queue of any
  length is `DrainedKeeps`, by induction over its events; the induction is stated about
  sets of naturals (`InductionOnNaturals`, from the well-foundedness of `<`), which
  spares it an operator as a parameter. `NoLostWake` rests on `FlagFirst`: `stop()`
  clears the flag before it writes the wake-up. That `SleepsUntilDue` is kept takes the
  exactness of the minimum in `nextTimeoutMs` (`MinIsLeast`) and of aging (`OlderKeeps`).
- `SettingsProofs`, of the theme (any set of palettes): types and
  `WatchSurvivesReplace`. Inductive is: whenever the watch does not match the file, a
  report is on its way or the handler is about to re-arm. Of the configuration (any
  numbers and texts in the file): `Usable`, which is what the other modules assume of
  their constants, and `UntouchedLoadsShipped`. There is no run: a file may hold any
  integer. `AsShipped` (an untouched file holds shipped values or nothing) is the
  strengthening.

The assumptions are those the modules state about their constants: thresholds and timers
are positive (`appconfig.cpp` clamps, `popupwidget.h` fixes them; `ConfigIsUsable` is the
proof), the connect timeout is a natural number, no pen has the empty address.

Only model-checked: everything under fairness (`EveryPressDecided`, `WaitEnds`,
`AttemptEnds`, `EveryPillLeaves`, `ModeIsPainted`, `PenIsWatched`,
`PressIsDecided`, `ReportsAreRead`, `StopIsNoticed`, `ThemeCatchesUp`), which the proof
system does not handle. Every safety invariant, action property and refinement that a
passing run checks is a theorem.

## 5. Not modelled

- Painting, texts, packaging: no decision depends on them.
- `StylusButtonMapper`: a lookup and a detached process.
- Which input nodes match, and whether `EVIOCGRAB` succeeded: neither changes what the
  thread does next. A second button per node is a second, independent detector.
- How `QSettings` splits a line of the config or of the palette, and which file is the
  config: parsing and environment.
- What a report of the driver says beyond attached, phase and whether it has an address:
  battery values are drawn.
- The oscillation of springs: floating point.
- The early return of `updateImage` on an unchanged image: `renderFrame` paints every
  frame afresh, so it is not taken.
- `poll()` interrupted by a signal goes round the loop and changes nothing.

## 6. Plan

Done: the core (`GestureDetector`, `Popup`, `Bluez` with their abstract specifications
and proofs), the composition `StylusPopup` and its proofs, `ButtonMonitor` with lost
events, `Island` over `LayerSurface`, `DriverMonitor`, `ThemeWatcher` and `AppConfig`, all
with their proofs.

Next, in this order:

1. The two ends of the composition: that the modes `Popup` goes through are requests
   `Island` accepts is proved (`ErrorNeedsAPill`); that a report of `DriverMonitor` is one
   of the steps `StylusPopup` takes is read off the code.
2. The input nodes' discovery (`matches`, `EVIOCGRAB`) and several buttons per node, should
   a decision of the thread come to depend on them.
