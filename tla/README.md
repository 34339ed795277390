# TLA+ specifications of the JCD543 / MCT Trigger 6 driver

This directory models the parts of the repository whose correctness depends on
the order of events: the probe of the kernel driver, the stream and power state
of a display head, the row-by-row transfer of its frames, and the host
controller that inserts and removes the driver. TLC checks the models on small
instances; TLAPS proves nearly every safety property for every value of the
constants.

Paths and line numbers below refer to the repository; `PROJECT.json` maps every
definition to the lines it stands for.

## 1. The system

| Component | State it keeps | Operations |
|---|---|---|
| **Head stream and power state** (`kernel/trigger6_drv.c`, `trigger6_refresh.h`) | per head: `tx_back`/`tx_front`/`tx_pending`, the damage reference `last_sent_frame`, `scanout_active`, `keepalive_due`, `head->faulted`; per device: `io_faulted`, `io_lock` | atomic enable, disable and plane update; `t6_frame_work`; the keepalive timer; the NV12 deferral |
| **USB disconnect, suspend, resume** (`trigger6_drv.c`, `trigger6_quiesce.h`) | DRM's `unplugged`, the workqueue, the buffers | `t6_usb_disconnect`, `t6_usb_suspend`, `t6_usb_resume`, `t6_cancel_head_activity`, the private final monitor-off |
| USB probe and unwinding (`trigger6_drv.c`, `trigger6_match.h`) | the one-attempt latch of a module load, what was built so far | match, claim, initialise, register, unwind |
| Query-only mode (`trigger6_drv.c`, `trigger6_query.h`) | none that outlives a probe | bounded IN requests |
| Row damage and adapter memory (`trigger6_drv.c`) | the dirty range list, command ring and frame slots | find ranges, send them, rotate the slots |
| Pixel conversion and JPEG codec (`trigger6_codec.c`) | the bit buffer of one encoding | RGB to NV12, DCT, Huffman coding |
| Userspace JPEG device, DRM connector, metrics and parameters (`trigger6_drv.c`, `trigger6_connector.c`) | frame mailbox; latched connection; counters | `write`; `detect`, mode list; sysfs text |
| **Host controller** (`control/controller.py`) | the ledger `state.json`, the flock, `sleep-inhibit` | `watch`, `start`, `stop`, `pause`, `resume`, `clear-circuit`; `approve`, `status` |
| **Sleep hook and service** (`packaging/`) | none | `pause` before and `resume` after a sleep, each under `timeout 3s`; the service runs `watch` |
| Setup helper (`control/setup.py`) | installed files | `prepare`, `uninstall` |
| Tools, packaging (`tools/`, `packaging/`) | none | manual diagnostics, package metadata |

How they interact. DRM calls the head's atomic callbacks from a commit thread.
Those stage a frame under `tx_lock`, and the workqueue sends it under `io_lock`.
A timer and a delayed work queue the same work again. The USB core calls
disconnect and suspend from its own thread, which must stop all of these while
they run. The controller is a different world: it sees the driver through
sysfs and `/proc`, acts on it with `tee unbind`, `rmmod` and `insmod`, and its
only memory is the ledger. The sleep hook and the service share it through a
lock that nobody waits for.

What is hard here: five kinds of asynchronous activity cancelled one after the
other while each can start another; DRM sections, `io_lock` and cancellations
that wait for each other; state read before a wait and used after it; partial
transfers; a controller killed between two ledger writes; a command that timed
out in user space and still runs in the kernel; a hook that announces a sleep
without a lock while a tick is half way through. The list, at its lines, is
`hazards` in `PROJECT.json`.

What makes each component correct:

- *head stream*: the newest frame is shown in the end, the damage reference is
  what the adapter shows, a blanked monitor gets no frame, an idle screen is
  refreshed;
- *disconnect and suspend*: nothing outlives what it uses, the final
  monitor-off is last and sent only over a sound transport, nothing waits for
  ever, a suspended head is silent;
- *probe*: one active attempt per load, exact unwinding at each failure, a
  registered device that is complete, requests that stay within the mode;
- *row damage*: the ranges cover every difference and nothing else, the
  reference is what the adapter shows, slots do not overlap;
- *codec*: the bit stream decodes to what was encoded;
- *controller*: attempts are consumed before anything is done, budgets hold,
  interrupted or failed work is not repeated by itself, only the recorded
  intent is acted on, a paused machine sleeps without the module;
- *setup*: an uninstall that failed half way can be run again.

## 2. Modules

| Module | What it is |
|---|---|
| `T6Screen` | the abstract specification: what the frame stream of a head promises |
| `T6Policy` | the abstract specification: what the host controller promises |
| `T6Head` | one head, from DRM commit to USB bulk transfer, with the USB callbacks; implements `T6Screen` |
| `T6Damage` | one transfer, row by row and write by write; implements `T6Screen` |
| `T6Probe` | insertion, `t6_usb_probe` with all its failures, query-only mode, disconnect, removal |
| `T6Controller` | ledger, policy, tick, commands, sleep hook, and the kernel side of their commands; implements `T6Policy` |
| `MCT6Head`, `MCT6Damage`, `MCT6Probe`, `MCT6Controller` | their instances for TLC |
| `T6ScreenProofs` | a consequence of `T6Screen`: a screen never goes back in time |
| `T6HeadProofs` | type correctness of the head, the final monitor-off, no deadlock |
| `T6DrainProofs` | cancellation, release, blanking, suspend, the staged frame |
| `T6StreamProofs` | what the screen shows, the refresh chain, the refinement of `T6Screen`, order of the frames |
| `T6DamageProofs` | exact damage, the reference, the slots, the refinement of `T6Screen`, order of the frames |
| `T6ProbeProofs` | the latch, unwinding, the hand-over to `T6Head`, the request policy |
| `T6ControllerProofs` | type correctness, the ledger, the budget and the pace of the attempts, what an insertion needs, the refinement of `T6Policy` |
| `T6SleepProofs` | what the sleep hook leaves behind |

How they fit together. `T6Probe` ends where `T6Head` starts: its invariant
`RegisteredIsReady` says that a registered device is in the state `T6Head!Init`
describes, with the parameters `T6Head` assumes. `T6Head` takes the transfer of
a frame for one step that succeeds or tears; `T6Damage` opens that step. Both
implement the same `T6Screen`, which is what lets the second stand for the step
of the first. `T6Controller` meets the driver in one fact only, that a bound
driver's suspend callback latches the transport fault (a part of `Sleeps`).

### T6Screen

A mailbox and a screen: a frame is staged, taken, and then shown, put back or
found on the screen already. A frame that is put back never replaces a newer
one; the screen shows a whole frame that was taken, except while one travels;
frames get lost only over a link that is down, and a screen forgets only while
it is dark. There is no lock, work, timer or buffer in it. Its next-state
relation is `Stage`, the compositor's, or `Driver`.

In `T6Head` the staged frame is `tx_back` while `tx_pending` is set, the taken
one is what the worker carries (`Carried`), and the link is down when the device
is faulted, or unplugged with the worker outside its DRM section. In `T6Damage`
the screen is the adapter's memory, torn from the first write to the last.

### T6Policy

An insertion needs a mandate. It is granted for a generation other than that of
the last insertion, while the head is wanted and the circuit closed, against one
attempt of the boot's budget; it allows one insertion; while it lasts nobody
changes the intent or the circuit. The last generation is forgiven once nobody
wants the head, or by a reset, which also gives the attempts back and opens the
circuit. There is no process, file, lock or kernel command in it.

In `T6Controller` the mandate is the target of a start from the write that
consumes its attempt (`TickCommits`) to its end; a start that failed gives it
back before its cleanup begins.

### T6Head

Five agents have a program counter each: `c` (the DRM commit thread), `w`
(`t6_frame_work`), `k` (`t6_keepalive_timeout`), `d` (`t6_frame_defer_work`)
and `u` (the USB core). A step reaches from one point another agent can observe
to the next. A section under `tx_lock` is one step; a section under `io_lock`
is several, since the timer, suspend and unplug do not take it.

| Code | Actions |
|---|---|
| atomic check (`t6_crtc_atomic_check`, `t6_plane_atomic_check`) | `CommitOn`, `CommitFlip`, `CommitOff`, `CommitModeset` |
| `t6_crtc_atomic_disable` | `Disable*`, `CommitLock` |
| `t6_crtc_atomic_enable` | `Enable*`, `CommitLock` |
| `t6_plane_atomic_update` | `Plane*` |
| `t6_frame_work` | `Work*` |
| `t6_keepalive_timeout` | `TimerFires`, `TimerCheck`, `TimerRearm`, `TimerDue`, `TimerQueue` |
| `t6_frame_defer_work` | `DeferFires`, `DeferRuns` |
| `t6_usb_disconnect`, `t6_cancel_head_activity`, `t6_final_off_disconnect`, `t6_free_head_buffers` | `Disconnect*`, `Cancel*`, `DestroyQueue`, `FinalOff*`, `Shutdown`, `FreeBuffers` |
| `t6_usb_suspend`, `t6_usb_resume` | `SuspendBegins`, `Cancel*`, `Resume` |

Decisions a reader should know:

- `cancel_work_sync`, `cancel_delayed_work_sync` and `timer_delete_sync` are
  one step, guarded by the target being idle: a cancellation in progress keeps
  its object from being queued again, so nothing can be seen in between.
- A commit may leave an active CRTC with or without a framebuffer, as atomic
  check allows; `plane_fb` says which, and without one `PlaneCheck` returns as
  the code does. This matters because disable cancels `tx_work` and does not
  clear `tx_pending`: a flip that stages a frame, a disable, and an enable
  without a framebuffer leave the frame in `tx_pending` with nothing queued,
  until the next update of the plane stages another over it. The model has that
  state (it is reachable in `raw` and `nv12`). `PendingFrameIsScheduled`,
  `NewestFrameIsShown` and `StagedFrameIsTaken` therefore speak of a CRTC that
  has a framebuffer: then the stranded frame is gone, because the commit that
  brought the framebuffer replaced it. No document promises more, and a screen
  that scans out no framebuffer has nothing newer to show; so it is a limit of
  the properties and not a finding. (That DRM gives an update to the plane of a
  CRTC it switches on, `drm_atomic_add_affected_planes` in its modeset check, is
  what makes a framebuffer and an update come together.)
- A monitor request is two steps, the look at `io_faulted` in `t6_ctrl_out` and
  the request itself: suspend takes no lock and may latch the fault between
  them. The private monitor-off of disconnect is one, since nothing runs beside
  it.
- `drm_dev_unplug` is two steps: it sets the flag, then waits for those inside
  `drm_dev_enter`.
- Only one head is ever connected (`output_mask` is 1 or 2), so the turn taking
  between heads has no choice to make, and is left out. `connected` and the
  mode of the device never change after probe.
- In the profile the probe accepts, preparing a frame cannot fail,
  `boot_keepalive_work` is never armed, and no JPEG blob is cached, so the
  keepalive callback of an NV12 head does nothing.
- The clock is two facts: the refresh deadline of the last frame has passed;
  the pacing gate of an NV12 head is open. The second look at the gate, under
  `io_lock`, cannot differ with one head: only this worker sends, and time opens
  the gate but never closes it.
- The monitor is on at `Init`, because `t6_chip_init` switched it on during
  probe, before the first commit.
- The decision about damage is taken where the worker compares; nothing can
  change its operands before the transfer, so it is the same one.
- A transfer that fails may leave the adapter's memory torn (`Torn`). The
  memory survives a monitor-off here; in `T6Damage` it may be lost.

### T6Damage

One head of either transport, its worker alone. What the other agents do to it
is reduced to what can happen between two writes: a failed or short write, a
suspend.

| Code | Actions |
|---|---|
| `t6_compute_frame_damage` | `ComputeDamage`, `ScanRow`, `ScanOverflows`, `ScanEnds` |
| `t6_send_frame_raw`, full, partial, and with no damage for the refresh | `Begin`, `Refresh`, `SendRow`, `SendFlip` |
| `t6_send_prepared_nv12`, slot rotation | `SendSlot` |
| `t6_bulk_write` | `Fail`, and the refusal in `Drop` |
| the worker's look at the damage, and its update of the reference | `Drop`, `Acknowledge` |
| `t6_init_head_addressing`, `t6_reset_head_stream_state` | `SlotCount`, `SlotBase`, `FrameSize`, `FirstSlotIndex` |
| enable, disable, suspend, staging | `Enable`, `Disable`, `Suspend`, `Stage` |

Decisions a reader should know:

- A row is one value, and a chunk of a bulk write is a row. Comparison
  (`memcmp`) and transfer both go by rows, so nothing finer can be told apart.
- Each row compared is a step. Nothing runs in between; it is written so because
  the invariant of the loop is then an invariant of the specification.
- The adapter keeps its memory while its monitor is on and may lose it while it
  is off (`MemoryIsLost`), at any moment. The driver must not rely on either.
- Addresses are in MB, for the 58 MB of RAM that the probe insists on.
- `Disable` waits for the worker. The NV12 deferral that survives it
  (section 5) belongs to `T6Head`.
- An NV12 frame is compared too, and skipped when nothing differs, but always
  sent whole.

### T6Probe

The USB core serialises probe and disconnect of an interface, so there is one
`pc`; the cable may be pulled at any moment, and every request may fail.

| Code | Actions |
|---|---|
| module insertion and removal, enumeration | `Insert`, `Remove`, `Attach`, `Detach` |
| the checks of `t6_usb_probe`, `t6_profile_matches`, the latch | `ProbeRefuses`, `ProbeDescriptorOnly`, `ProbeBegins` |
| `t6_ctrl_in`, `t6_ctrl_out`, `t6_query_in_allowed` | `Request`, `Policy`, `QueryInAllowed` |
| `t6_probe_head`, `t6_head_defaults` | `QueryRam`, `HeadDefaults`, `QueryStatus`, `QueryEdid`, `HeadsDone` |
| `t6_query_head0_timings`, `t6_timing_query_entries` | `QueryCount`, `QueryTable`, `Remaining`, `Entries` |
| allocations, `t6_chip_init`, DRM objects, `drm_dev_register` | `AllocQueue`, `AllocBuffers`, `InitChip`, `BuildDrm`, `Register` |
| labels `err_buffers` and `err_put` | `UnwindActivity`, `UnwindReferences` |
| `t6_usb_disconnect` | `Disconnect` (in one step; `T6Head` has it in detail) |

Decisions a reader should know:

- All parameters are 0444: chosen at insertion, constant until removal. The
  three inherited options are one, since probe treats them alike.
- The arithmetic of the count is unsigned, modulo `U32`. TLC has no 2^32 and is
  given 2^20; the theorems hold for every modulus above 1024.
- `wire` remembers the last request that reached the wire, which is what the
  request properties speak of; `attempts` and `refusal` are history as well.
- A request that fails may have been obeyed: a `MONITOR_CTRL` that failed leaves
  the monitor on or as it was.
- The DRM objects are one step that may fail. They are managed by the device
  (`drmm`, `devm`) and freed with it.

### T6Controller

Three kinds of process run the code: the service and the command `start`
(both repeat `tick`), the commands `stop` and `clear-circuit`, and the sleep
hook. The flock is the variable `lock`; whoever holds it owns `pc`, `task`,
`target` and `seen`, which stand for the position in the code and its locals.
`kop` is the command line tool the holder waits for, `ghosts` those it gave up
on. A tool does its work in the kernel at any time after it was started
(`KernelRuns`), even when nobody waits for it any more.

| Code | Actions |
|---|---|
| `decide` | `Rules`, `Decides` (no action: pure) |
| `tick` | `TickSnapshotFails`, `TickDecides`, `TickCommits`, then the two below, `Fails` and `StopSucceeds` |
| `Host.stop_module` | `StopSnapshot`, `StopChecks`, `StopRefuses`, `Submit`, `StopCommandEnds` |
| `Host.start_module` | `StartVerifies`, `StartRechecks`, `StartRefuses`, `Submit`, `StartCommandEnds` |
| `operate` | `CommandStop`, `CommandClearCircuit`, `CommandPause`, `CommandResume`, `ProcessStarts` |
| kills and time limits | `Dies`, `PauseFails`, `ResumeFails`, `ClearCircuitDies`, `ProcessEnds`, `GivesUp` |
| hook and machine | `PauseMarks`, `Sleeps`, `Wakes` |

Decisions a reader should know:

- Timestamps are ages that stop growing at the largest bound they are compared
  with.
- A snapshot is one step, and the several reads in front of each command are
  one check. A device whose enumeration is pending counts as absent. Taint and
  unreadable files are a nondeterministic `error` of each snapshot, and any
  check of the two procedures may refuse.
- `insmod` is seen in two steps. The kernel refuses the file, or the module
  exists (`coming`: its parameters and its driver link can be read) and its init
  function returns later; one that fails leaves no module. Its eight seconds are
  exceeded in the init function; with `"stall"` in `Commands` also before, and
  the tool then loads the module when nobody waits for it any more.
- `rmmod` is refused, or the module is `going` until its exit function has
  unbound the device. `settle_module_references` passes only a live one: the
  kernel reports -1 references for one that is going.
- A generation never returns: the udev epoch and the device number are in it.
  `Plug` picks one that nobody remembers.
- The ledger exists when the hook runs (its test of `state.json` passes). A
  reboot is the initial state.
- `Sleeps` waits for tasks stuck in the kernel, as the freezer does.
- The budgets and the delays are constants with the names of the code; `HOUR` is
  its literal 3600.

## 3. Runs

All runs finish within five minutes with two workers.

| Run | Question | Instance |
|---|---|---|
| `raw` | is the RAW stream right through commits, timers, faults, detach, suspend and disconnect, and do no agents wait for each other in a circle? | head 0, idle refresh and final off, 2 frames |
| `nv12` | do pacing, requeues and deferrals lose, strand or reorder frames, is a staged frame really taken, however often the gate sends it back, and does every commit end? | head 1, 2 frames, no USB callback |
| `raw_live` | is an idle screen really refreshed; does a disconnect end, which waits for the commit under way too? | head 0, 1 frame, disconnect |
| `nv12_drain`, `final_off` | violations, section 5 | 1 frame |
| `probe` | can anything start a second attempt, survive its unwinding, leave its mode, or reach a registered device that is not ready? | every combination of parameters, 2 RAM sizes, 9 counts |
| `damage` | are the ranges exact, is the reference what the adapter shows, is a slot on the screen ever written? | 5 rows, 2 contents, a list of 2 ranges, both transports |
| `ctl_policy` | budgets, pace, consumed attempts, no automatic loop, over kills and restarts: is the promise of `T6Policy` kept? | 2 generations, service, `start`, `clear-circuit`, kills, loads that stall |
| `ctl_sleep` | is a paused machine quiescent, a failed pause inhibited, intent obeyed? | 3 generations, service, `stop`, sleep hook, laptop that gets ready or not |
| `ctl_live` | is the lock released, and a stable device decided on? | 2 generations, service, `stop`, laptop that gets ready or not |
| `ctl_repeat`, `ctl_reentry` | violations, section 5 | 4 generations |

Bounds. A head keeps at most four frames apart (staged, front, reference,
shown). The properties compare two of them, and frames are interchangeable, so
two contents suffice. Nothing else in `T6Head` is bounded: its state is finite,
and commits, timers and transfers repeat without limit.
`UsbCallbacks` chooses which callbacks may come; a device leaves the bus only
where a disconnect may follow. `nv12` has none, though its requests and
transfers still fail at will: under callbacks and
fairness its graph is too large for TLC, its teardown is the subject of
`nv12_drain`, and the theorems about it hold for any callbacks.

In five rows there can be none, one, two or three runs of dirty rows, and a list
of two ranges can be full with or without a run that ends on the last row; those
are the cases of `t6_compute_frame_damage`, and `ExactDamage` covers the 32
ranges and 1080 rows of the code. The counts of `probe` are the boundaries of a
page (15, 16, 17), of the one table that was measured (35, 36, 37) and of the
integer (0, 1, the largest); any RAM size other than 58 stands for all that are
refused.

The controller runs with the smallest values that keep its limits apart: 1 for
the debounce and for rapid loss, 2 for the cooldown, 3 for the hour, budgets of
1 where they are not the question. In `ctl_policy` the hour is 5, with 2
attempts an hour and 3 a boot: two attempts a cooldown apart still leave room in
the hour for a third, which only the hourly budget refuses, and a third one
later is refused a fourth only by the boot's. Three generations are what
`candidate`, `managed_generation` and the device can hold at once; two, each
plugged again once nothing remembers it, are enough where attempts are counted.
`Commands` chooses what may happen. `sleep` and `clear` are never together: a
`clear-circuit` between the two steps of pause removes the marker pause has
just written, and the machine then sleeps with `paused` and without
`sleep-inhibit`. It is a window of milliseconds, in which a user has to type.
`stop` is left out of `ctl_policy`: a stop that succeeds clears a marker left
behind, which is a user's decision and not an automatic one. `panel` is left
out of it for its size: the laptop stays ready there, while a check that refuses
may still end any start.

Two things are left out of `ctl_sleep`. `crash`: a service killed while its
`insmod` is still in user space leaves it to insert the module after a pause
that found none, because pause does not look at the marker of the interrupted
tick (the cause of `ctl_reentry`). `stall`, for the same reason: an `insmod`
given up after eight seconds before the kernel has its file inserts the module
after the pause. So `SleepsQuiesced` holds under two assumptions, and fails
without either.

Symmetry of frames and generations is used in runs without liveness only.
`nv12` switches deadlock checking off: a faulted head that is switched off
rests until a disconnect, which this instance leaves out.

### Fairness

`T6Head`: time passes; timers and delayed works expire; a scheduled work or
thread runs; a USB request ends by its timeout. An agent is at one place of its
code, so one fairness condition covers all its steps. Waits for a mutex, for a
callback and for DRM sections are strongly fair, because kernel mutexes hand
over to their first waiter and a cancellation in progress keeps its object
from being queued again. Nothing obliges DRM to commit, or the USB core to call
back. `IdleScreenIsRefreshed` allows for staged frames: a compositor that stages
undamaged frames faster than the worker pops them does starve the refresh.

`T6Controller`: time passes; a process takes its next step; `insmod` gets as
far as the init function, since its loader reads a local file; a tick that
tries once a second meets a free lock in the end, if the lock is free again and
again (strong fairness of `TickDecides`). Nothing obliges the kernel to finish
a probe, an unbind or a removal, nor a user to do anything.

## 4. Proofs

Every theorem holds for all values of the constants that satisfy the named
assumptions of the module. Those of `T6Head` say what the probe accepts: idle
refresh and final off belong to the RAW head, and the two markers are not
frames. Those of `T6Damage` say that there is a row, a content and room for a
range, and that the markers are not contents. Those of `T6Probe` say that
parameters are parameters and that answers are integers of their width. Those of
`T6Controller` say that delays and budgets are natural numbers, that the
cooldown is no shorter than the rapid loss and no longer than an hour (120
seconds, against 60 and 3600 in the code), and that `None` is not a generation.

### T6Head (`T6HeadProofs`, `T6DrainProofs`, `T6StreamProofs`)

| Theorem | States | Argument |
|---|---|---|
| `Typing` | `TypeOK` | inductive as it stands; it contains that `io_lock` names exactly the agent in its critical section |
| `NoDeadlock` | `NoCircularWait` | an order of the agents: callbacks wait for nobody, the worker only for `io_lock`, whose holder waits for nobody (`HolderRuns`), a commit for those, and the USB core for all but itself (`WaitOrder`); so no set of agents waits inside itself |
| `FinalOffLast` | `FinalOffIsLast` | `UnplugInv`: past the workqueue's destruction no worker and no commit is inside a DRM section, and `final_off` implies that point was passed; so nothing is left that could transfer or latch a fault |
| `SuspendedHeadIsSilent` | `NoFrameWhileSuspended` | `SuspendInv`: from the latch on the device is faulted, and once the work was waited for no worker gets past its first look at the fault |
| `StagedFrameIsNeverStranded` | `PendingFrameIsScheduled` | `PendingInv`: while the CRTC has a framebuffer, the worker that will look at `tx_pending` has not popped yet, or is about to put the frame back, or the commit under way has still to stage the frame that replaces one a disable stranded |
| `RawQuietAtMonitorOff` | `QuietAtMonitorOff` for RAW | `DisableInv`: after each of the five steps of a disable one more activity is gone, and those that remain cannot start it again; the second deletion of the timer is what makes the last step true |
| `RawDrainedBeforeRelease` | `DrainedBeforeRelease` for RAW | `ReleaseInv`: on a RAW head nothing arms the deferral, so the order of the cancellations is harmless |
| `DelayIsTheOnlySurvivor` | for any transport, after the workqueue and the buffers are gone neither worker, queued work, timer, callback nor commit is left | `UnplugInv` and `ReleaseInv`: it delimits the finding of `nv12_drain`, whose delayed work is the one thing left |
| `RawFramesOnlyWhileOn` | `FramesOnlyWhileOn` for RAW | `BlankInv`: ties `scanout_active`, the stage of the commit or of the cancellation, and the monitor; a worker that transfers excludes every stage after the work was cancelled |
| `ReferenceIsShown` | `DamageReferenceIsShown` | `ShownInv`: what is on the screen at each stage of the worker; a torn frame belongs to a transfer under way or to a fault that no later work gets past. It rests on `FaultInv` (a failure leaves the device faulted) and `HeldInv` (the buffers hold frames wherever they are read) |
| `NewestIsShown` | `NewestFrameIsShown`, for RAW and NV12 | `NewestInv`: over a sound link the newest frame waits in `tx_back`, travels with the worker, or is shown; a refresh sends that one again |
| `ChainAlive` | `RefreshChainAlive` | `ChainInv`: on a lit screen the timer is armed, its callback has not yet decided, `keepalive_due` is set with a worker to see it, or the worker is on its way to arm the timer; a refresh that is skipped was put off by a frame that armed it. `ScanoutInv` ties `scanout_active` to the stage of the commit |
| `Refinement` | `ImplementsScreen` | each action maps to one of `T6Screen` or to a stutter (`ScreenWorker`, `ScreenPower`, `ScreenCommit`, `ScreenUsb`), from the invariants above |
| `NeverBackInTime` | frames staged in order are shown in order | `InOrder` of `T6ScreenProofs`, through the refinement |

The assumption `Transport = "RAW"` of the three `Raw` theorems is needed: for an NV12 head the first two are refuted (section 5), and the
third fails by the same path, since the surviving deferral lets a frame reach a
blanked monitor. Those of `T6StreamProofs` need no such assumption and hold
for any `UsbCallbacks`.

### T6Screen (`T6ScreenProofs`)

`InOrder` says what the abstract specification is worth: the screen never shows
an older frame after a newer one. A frame has no date in the models, so `Age`
gives it one, and two history variables record the newest age staged and the
last age shown. They constrain nobody but the compositor, which is assumed to
stage its frames in order (`StageInOrder`). `AgeInv` orders what is on its way:
the frame shown, the one taken, the one staged, the newest. Since `T6Head` and
`T6Damage` implement `T6Screen`, and only their staging steps map to `Stage`
(`ScreenStep`), the same holds of them, with no look at their works, timers and
buffers: `NeverBackInTime` in `T6StreamProofs` and `T6DamageProofs`, under the
same assumption on the compositor.

### T6Damage (`T6DamageProofs`)

| Theorem | States | Argument |
|---|---|---|
| `Typing` | `TypeOK` | `Listed`: the list fits its array, no range ends after the row where the comparison stands, the open one ends just there, and a whole frame is one range |
| `ExactDamage` | `DamageIsExact` | `ScanInv`, the invariant of the loop: after each row the ranges hold exactly the dirty rows seen so far, apart and in order, and there are as many of them as runs have begun. So the list overflows exactly when the runs do not fit |
| `ReferenceShown` | `ReferenceIsShown` | `MemoryInv`: during a transfer a row that was sent (`SentSoFar`), or lies in no range, is the new one already, because the ranges cover every difference (`Covers`); a valid reference means a lit monitor, whose memory stays |
| `WholeSlot` | `DisplayedSlotIsWhole` | `SlotInv`: the slot on the screen is the last index, and the next one is another |
| `Refinement` | `ImplementsScreen` | the last write completes the frame because of `MemoryInv` |
| `NeverBackInTime` | frames staged in order are shown in order | as for the head |

### T6Probe (`T6ProbeProofs`)

| Theorem | States | Argument |
|---|---|---|
| `Typing` | `TypeOK` | Boolean variables (`Flags`) first, then the ranges |
| `Unwinding`, `HandOver` | `UnwindingIsExact`, `RegisteredIsReady` | `ProbeInv`: what exists at each label. `RunInv` says which parameters let a probe get this far and that its transport is sound, `BuildInv` what was built, `SinkInv` what is known of the selected head and what it was told, `IdleInv` what is left when no callback runs |
| `OneAttempt`, `Modes`, `PolicyFits`, `TableBounds` | `OneAttemptPerInsertion`, `ModesAreRespected`, `PolicyAdmitsOwnRequests`, `TableReadWithinCount` | `WireInv`: the four properties together, of the last request on the wire; with `ProbeInv` each request the code makes at its label is one the policy lists |

### T6Controller (`T6ControllerProofs`, `T6SleepProofs`)

| Theorem | States | Argument |
|---|---|---|
| `Typing` | `TypeOK` | inductive as it stands, once the Boolean variables (`Flags`) are dealt with apart |
| `InFlight` | a command in the kernel is marked in the ledger (`OperationIsInFlight`, which no run needs to check again) | `WorkInv`: from its second write of the ledger on, an operation is marked; mark and lock go together |
| `ConsumedInsertions` | `InsertionsAreConsumed` | `BudgetInv`: between the ledger write and `insmod` one attempt is unused, and `decide` starts only below the budget (`StartConditions`) |
| `PacedAttempts` | `AttemptsArePaced` | `PaceInv`: `last_age` follows the last attempt as far as the cooldown looks, and what `decide` found of budget and cooldown (`StartIsDue`) is still so when the attempt is committed. Time turns no attempt recent (`TimeKeepsPace`), so only a commit can break the pace (`AttemptKeepsPace`) |
| `AuthorisedInsertions` | `InsertionIsAuthorised` | `StartInv`: what `decide` looked at in the ledger is still true when `insmod` is submitted, since every command that changes it needs the lock |
| `InsertedOnce` | `OneInsertionPerGeneration` | `TriedInv`: the generation of the last insertion is remembered by the ledger, as the managed one or by a latched circuit or a marker |
| `Refinement` | `ImplementsPolicy` | the second write of a tick grants the mandate, `insmod` uses it, the end of a start withdraws it (`EndsAsPromised`), commands are `Intend` or `Reset`, and all else is a stutter; from `StartInv`, `BudgetInv`, `TriedInv`, and `ForgiveInv`: a stop or a pause that lets go of the last generation has recorded before that nobody wants it. No assumption on `Commands` |
| `BlockedReentry` | `AutomaticReentryIsBlocked` | `OrphanInv`: interrupted work leaves its marker, the first rule of `decide` trips on it, and only `clear-circuit` removes it. It is assumed that nobody stops or pauses: with a pause it is refuted (section 5) |
| `FailedPauseInhibits` | `IncompletePauseIsInhibited` | `PauseInv`: the hook marks before it pauses, and a resume only clears the mark of a pause that finished. It is assumed that nobody resets the ledger |
| `QuiescedSleep` | `SleepsQuiesced` | `QuiesceInv`: a stop that succeeded left no module, and the ledger says paused, which no start gets past; `InsertInv`: no `insmod` was abandoned before it was in the init function, and one command at a time is in an init or exit function. It is assumed that nobody kills the controller and no load stalls, without which it is refuted (section 3) |

The decision rules are a function (`Rules`), so that a proof about a decision
is one about the rules before it: `StartConditions` and `UnfinishedTrips`.

### What is left to TLC

Every safety property of a passing run is proved. Only model-checked are the
liveness properties (`StagedFrameIsTaken`, `IdleScreenIsRefreshed`,
`DisconnectCompletes`, `CommitCompletes`, `LockIsReleased`,
`StableGenerationIsDecided`): the prover has neither fairness nor `ENABLED`, nor
induction over data. The assumptions on `Commands` of the last three theorems of
`T6Controller` hold in the runs that check the same properties; `ctl_reentry`
refutes the first without its assumption.

## 5. Where code and documents differ

Each is a run that TLC ends with a counterexample.

| Run | Property | What happens |
|---|---|---|
| `nv12_drain` | `DrainedBeforeRelease` | `t6_cancel_head_activity` cancels `tx_defer_work` before `tx_work`; a worker that meets the pacing gate between the two arms it again, and it outlives the workqueue and the buffers. `t6_crtc_atomic_disable` has the same order, so `QuietAtMonitorOff` and `FramesOnlyWhileOn` fail for an NV12 head as well: they are checked for RAW |
| `final_off` | `NoFinalOffWhenOff` | disconnect reads `scanout_active` before it waits for a commit that is switching the monitor off |
| `ctl_repeat` | `FailedStopIsNotRepeated` | a start first removes the old module; when that `rmmod` times out, the cleanup of the failed start runs `stop_module` again and submits a second one while the first is alive. It needs an `rmmod` that timed out before the kernel began the unload: a module that is `going` is refused by `settle_module_references` |
| `ctl_reentry` | `AutomaticReentryIsBlocked` | a pause that was killed leaves its marker; the next pause overwrites it and clears it, and the service inserts again. It needs that no tick ran in between (a stopped service, or one that lost the lock), because a tick would latch the circuit |

Four more observations have no run, because they are harmless or because no
document of the repository says otherwise:

- `paused` may be left from a pause whose resume did not finish, and the property
  `IncompletePauseIsInhibited` does not see what follows, because it speaks of
  pauses that reached the ledger. A next pause
  that fails before it takes the lock is then taken by its resume for the older
  one, and `sleep-inhibit` is removed although the comment of the hook says "post
  never clears an incomplete pre operation". The module is gone in this case.
- The comment at `trigger6_drv.c:1523` lists "first 10 frames (RESET)" among the
  reasons for a full frame. The code only sets the RESET flag by `frame_seq`;
  whether a frame is full depends on the damage alone, and the second frame after
  an enable is already partial.
- A disable strands a staged frame if the next enable brings no framebuffer
  (section 2, `T6Head`); the next update of the plane replaces it.
- A probe that fails after the `MONITOR_CTRL` of `t6_chip_init` unwinds all it
  holds, but the monitor stays on; no document says it should not.

## 6. Not modelled

- *Pixel conversion and JPEG codec* (`trigger6_codec.c`). The JPEG encoder only
  serves a transport that the probe refuses, and what it computes (DCT,
  quantisation, bit packing) is arithmetic on whole images, without order of
  events. The conversion to NV12 is used, but computes each pixel from one pixel
  without state; a frame is a value here.
- *Userspace JPEG device and the secondary RAW ring*. The probe refuses the
  options that enable them.
- *Setup helper* (`setup.py`). Sequential; its state is packages and files on
  disk, and what a repeated `uninstall` meets depends on how `dkms`, `systemctl`
  and `pacman` answer for what is gone already, which nothing in the repository
  says.
- *DRM connector*. `detect` returns what probe latched, and the mode list is
  fixed.
- *Metrics*: counters and their text; no control depends on them except the last
  encoding time, which the pacing gate abstracts.
- `approve` and `status`; ownership and hash checks of files (a refusal is a step
  that fails); tools, packaging and the sandbox of the unit (input and output).

What a next step could be, in this order: a composition of `T6Controller` with
`T6Probe`, so that the state of the binding decides how a tool's work in the
kernel ends; bit packing and byte stuffing of the codec as folds, against
reference definitions; the write handler of the userspace JPEG device next to
the worker, if the probe ever accepts it.
