------------------------------- MODULE T6Head -------------------------------
(***************************************************************************)
(* One selected head of the Trigger 6 driver, from DRM commit to USB bulk   *)
(* transfer: kernel/trigger6_drv.c.  Five agents share its state:           *)
(*                                                                          *)
(*   c    the thread running a DRM atomic commit (crtc disable, crtc        *)
(*        enable, plane update, in the order of commit_tail_rpm);           *)
(*   w    the tx_work worker, t6_frame_work;                                *)
(*   k    the keepalive timer's callback, t6_keepalive_timeout;             *)
(*   d    the delayed work tx_defer_work, t6_frame_defer_work;              *)
(*   u    the USB core's thread: t6_usb_disconnect, t6_usb_suspend and      *)
(*        t6_usb_resume, which the USB core serialises.                     *)
(*                                                                          *)
(* Each agent has a program counter of that name.  A step is what the code  *)
(* does between two points where another agent can observe it: a section    *)
(* under tx_lock is one step, a section under io_lock is several.           *)
(*                                                                          *)
(* Only one head is ever connected (output_mask is 1 or 2), so the turn     *)
(* taking between heads has nothing to choose from and is left out.  The    *)
(* jiffies clock is abstracted to two facts: the refresh deadline of the    *)
(* last frame has passed (refresh_elapsed), the pacing gate of an NV12 head *)
(* is open (gate_open).  Frame contents are members of a small set.         *)
(***************************************************************************)

CONSTANTS
  Transport,      \* "RAW" (head 0) or "NV12" (head 1): head->transport
  IdleRefresh,    \* module parameter raw_idle_refresh
  FinalOff,       \* module parameter final_monitor_off
  Frames,         \* contents of a framebuffer
  UsbCallbacks    \* the USB callbacks that may arrive (a bound of the model)

NoFrame == "none"   \* a buffer that holds nothing yet
Torn    == "torn"   \* adapter memory in the middle of a transfer

\* t6_usb_probe refuses raw_idle_refresh and final_monitor_off on head 1.
ASSUME ParamsAssumption ==
  /\ Transport \in {"RAW", "NV12"}
  /\ IdleRefresh \in BOOLEAN /\ FinalOff \in BOOLEAN
  /\ Transport = "NV12" => ~IdleRefresh /\ ~FinalOff
  /\ UsbCallbacks \subseteq {"suspend", "disconnect"}

ASSUME FramesAssumption == Frames # {} /\ {NoFrame, Torn} \cap Frames = {}

VARIABLES
  \* struct t6_device
  io_faulted,        \* no USB request may start any more
  io_lock,           \* agent that holds the mutex, or "free"
  wq,                \* "live", or "gone" once destroyed
  unplugged,         \* drm_device.unplugged
  \* struct t6_head
  head_faulted, scanout_active, keepalive_due, tx_pending, last_sent_valid,
  tx_back, tx_front, last_sent_frame,
  buffers,           \* "live", or "freed" by t6_free_head_buffers
  \* kernel timers and works
  tx_work_queued,    \* tx_work is on the workqueue
  defer_armed,       \* tx_defer_work is waiting for its delay
  timer_armed,       \* keepalive_timer is pending
  \* time
  refresh_elapsed, gate_open,
  \* program counters, and the local variables that outlive a step
  c, w, k, d, u,
  w_kind,            \* worker: "frame" popped, or "refresh" (keepalive_due)
  w_ok,              \* worker: ret = 0
  was_active,        \* disconnect: scanout_active when it began
  \* DRM's committed state
  crtc_on,           \* crtc_state->active
  plane_fb,          \* an active CRTC has a plane with a framebuffer
  \* the adapter
  attached,          \* the USB device is still there
  monitor,           \* last monitor control request it obeyed
  shown,             \* frame in its display memory
  final_off,         \* the private request of t6_final_off_disconnect was sent
  \* history
  newest             \* contents of the last staged frame

faults  == <<io_faulted, head_faulted>>
life    == <<wq, unplugged, buffers>>
stream  == <<keepalive_due, tx_pending, tx_back, tx_front, newest>>
refs    == <<last_sent_valid, last_sent_frame>>
async   == <<tx_work_queued, defer_armed, timer_armed>>
clock   == <<refresh_elapsed, gate_open>>
adapter == <<attached, monitor, shown, final_off>>
wlocals == <<w_kind, w_ok>>
drm     == <<crtc_on, plane_fb>>
vars == <<faults, life, stream, refs, async, clock, adapter, wlocals,
          io_lock, scanout_active, was_active, drm, c, w, k, d, u>>

-----------------------------------------------------------------------------
(* Shared conditions and helpers *)

Faulted == io_faulted \/ head_faulted

\* t6_head_runtime_connected: connected and the mode of operation never
\* change after probe, so only the latches are left.
RuntimeConnected == ~Faulted

\* t6_raw_refresh_allowed; a bound head is connected and not manual_only.
RefreshAllowed(active, valid) ==
  IdleRefresh /\ Transport = "RAW" /\ active /\ valid /\ ~Faulted

\* t6_raw_refresh_eligible
RefreshEligible == RefreshAllowed(scanout_active, last_sent_valid)

\* t6_queue_head_tx_work; queueing a queued work is a no-op.
QueueTxWork == tx_work_queued' = (tx_work_queued \/ wq = "live")

\* Agents inside drm_dev_enter()/drm_dev_exit(): drm_dev_unplug waits for them.
WorkerInDrm == w \in {"send", "xfer", "ack", "arm", "unlock"}
CommitInDrm == c \in {"d_lock", "d_off", "d_req", "e_lock", "e_on", "e_req",
                      "e_active", "p_stage", "p_queue"}

\* No frame activity of the head is left anywhere.
Quiet ==
  /\ w = "idle" /\ ~tx_work_queued
  /\ d = "idle" /\ ~defer_armed
  /\ k = "idle" /\ ~timer_armed

\* A head as the probe leaves it: t6_chip_init has switched its monitor on.
Init ==
  /\ io_faulted = FALSE /\ head_faulted = FALSE
  /\ io_lock = "free" /\ wq = "live" /\ unplugged = FALSE /\ buffers = "live"
  /\ scanout_active = FALSE /\ keepalive_due = FALSE
  /\ tx_pending = FALSE /\ last_sent_valid = FALSE
  /\ tx_back = NoFrame /\ tx_front = NoFrame /\ last_sent_frame = NoFrame
  /\ tx_work_queued = FALSE /\ defer_armed = FALSE /\ timer_armed = FALSE
  /\ refresh_elapsed = FALSE /\ gate_open = TRUE
  /\ c = "idle" /\ w = "idle" /\ k = "idle" /\ d = "idle" /\ u = "bound"
  /\ w_kind = "frame" /\ w_ok = TRUE
  /\ was_active = FALSE /\ crtc_on = FALSE /\ plane_fb = FALSE
  /\ attached = TRUE /\ monitor = "on" /\ shown = NoFrame
  /\ final_off = FALSE
  /\ newest = NoFrame

-----------------------------------------------------------------------------
(* Time and the cable *)

\* The interval since raw_last_sent_jiffies reaches T6_RAW_IDLE_REFRESH_MS.
RefreshDeadlinePasses ==
  /\ Transport = "RAW" /\ ~refresh_elapsed /\ refresh_elapsed' = TRUE
  /\ UNCHANGED <<faults, life, stream, refs, async, gate_open, adapter,
                 wlocals, io_lock, scanout_active, was_active, drm,
                 c, w, k, d, u>>

\* The interval since tx_last_jiffies reaches the gate of an NV12 head.
GateOpens ==
  /\ ~gate_open /\ gate_open' = TRUE
  /\ UNCHANGED <<faults, life, stream, refs, async, refresh_elapsed, adapter,
                 wlocals, io_lock, scanout_active, was_active, drm,
                 c, w, k, d, u>>

\* The device leaves the bus: every later request fails, and the USB core will
\* call disconnect.
Detach ==
  /\ "disconnect" \in UsbCallbacks /\ attached /\ attached' = FALSE
  /\ UNCHANGED <<faults, life, stream, refs, async, clock, monitor, shown,
                 final_off, wlocals, io_lock, scanout_active, was_active,
                 drm, c, w, k, d, u>>

\* t6_ctrl_out of a monitor control request, under io_lock: refused after a
\* fault.  Once checked it reaches the adapter whatever is latched meanwhile
\* (suspend takes no lock), or fails, obeyed or not, and latches the fault.
CtrlOut(value, check, request, ok, failed) ==
  \/ /\ c = check /\ c' = IF io_faulted THEN failed ELSE request
     /\ UNCHANGED <<io_faulted, monitor>>
  \/ /\ c = request /\ attached /\ monitor' = value /\ c' = ok
     /\ UNCHANGED io_faulted
  \/ /\ c = request /\ io_faulted' = TRUE /\ c' = failed
     /\ \/ UNCHANGED monitor
        \/ attached /\ monitor' = value

-----------------------------------------------------------------------------
(* DRM commits of the CRTC; DRM runs them one at a time *)

\* What every step of the commit thread leaves alone.
commit_frame == <<head_faulted, life, d, u, k, w, wlocals, clock, attached,
                  shown, final_off, was_active, last_sent_frame, tx_front>>

\* Atomic check lets an active state through only on a connected head, with or
\* without a plane: a CRTC may be switched on, or go on, with none, or with one
\* that has no framebuffer.  (DRM adds the plane of a CRTC it switches on to
\* the commit, so an active CRTC with a framebuffer has been given an update.)
CommitOn ==
  /\ c = "idle" /\ ~crtc_on /\ RuntimeConnected
  /\ crtc_on' = TRUE /\ plane_fb' \in BOOLEAN /\ c' = "e_check"
  /\ UNCHANGED <<commit_frame, io_faulted, io_lock, scanout_active, stream,
                 last_sent_valid, async, monitor>>

CommitFlip ==
  /\ c = "idle" /\ crtc_on /\ RuntimeConnected
  /\ plane_fb' \in BOOLEAN /\ c' = "p_check"
  /\ UNCHANGED <<commit_frame, io_faulted, io_lock, scanout_active, stream,
                 last_sent_valid, async, monitor, crtc_on>>

CommitOff ==
  /\ c = "idle" /\ crtc_on
  /\ crtc_on' = FALSE /\ plane_fb' = FALSE /\ c' = "d_flag"
  /\ UNCHANGED <<commit_frame, io_faulted, io_lock, scanout_active, stream,
                 last_sent_valid, async, monitor>>

\* A full modeset of an active CRTC disables and enables it in one commit.
CommitModeset ==
  /\ c = "idle" /\ crtc_on /\ RuntimeConnected
  /\ plane_fb' \in BOOLEAN /\ c' = "d_flag"
  /\ UNCHANGED <<commit_frame, io_faulted, io_lock, scanout_active, stream,
                 last_sent_valid, async, monitor, crtc_on>>

\* t6_crtc_atomic_disable, statement by statement.
AfterDisable == IF crtc_on THEN "e_check" ELSE "idle"

DisableFlag ==
  /\ c = "d_flag" /\ c' = "d_timer"
  /\ scanout_active' = FALSE
  /\ UNCHANGED <<commit_frame, io_faulted, io_lock, stream, last_sent_valid,
                 async, monitor, drm>>

\* timer_delete_sync(&keepalive_timer) returns when no callback is running.
DisableTimer ==
  /\ c \in {"d_timer", "d_timer2"}
  /\ k = "idle" /\ timer_armed' = FALSE
  /\ c' = IF c = "d_timer" THEN "d_defer" ELSE "d_clear"
  /\ UNCHANGED <<commit_frame, io_faulted, io_lock, scanout_active, stream,
                 last_sent_valid, tx_work_queued, defer_armed, monitor,
                 drm>>

\* cancel_delayed_work_sync(&tx_defer_work)
DisableDefer ==
  /\ c = "d_defer" /\ c' = "d_work"
  /\ d = "idle" /\ defer_armed' = FALSE
  /\ UNCHANGED <<commit_frame, io_faulted, io_lock, scanout_active, stream,
                 last_sent_valid, tx_work_queued, timer_armed, monitor,
                 drm>>

\* cancel_work_sync(&tx_work) returns when the worker is not running.
DisableWork_NoWait ==
  /\ c = "d_work" /\ c' = "d_timer2"
  /\ tx_work_queued' = FALSE
  /\ UNCHANGED <<commit_frame, io_faulted, io_lock, scanout_active, stream,
                 last_sent_valid, defer_armed, timer_armed, monitor, drm>>

DisableWork_SkipsSecondDelete ==
  /\ c = "d_work" /\ c' = "d_clear"
  /\ w = "idle" /\ tx_work_queued' = FALSE
  /\ UNCHANGED <<commit_frame, io_faulted, io_lock, scanout_active, stream,
                 last_sent_valid, defer_armed, timer_armed, monitor, drm>>

DisableWork ==
  /\ c = "d_work" /\ c' = "d_timer2"
  /\ w = "idle" /\ tx_work_queued' = FALSE
  /\ UNCHANGED <<commit_frame, io_faulted, io_lock, scanout_active, stream,
                 last_sent_valid, defer_armed, timer_armed, monitor, drm>>

DisableClear ==
  /\ c = "d_clear" /\ c' = "d_enter"
  /\ keepalive_due' = FALSE /\ last_sent_valid' = FALSE
  /\ UNCHANGED <<commit_frame, io_faulted, io_lock, scanout_active,
                 tx_pending, tx_back, newest, async, monitor, drm>>

DisableEnter ==
  /\ c = "d_enter"
  /\ c' = IF unplugged THEN AfterDisable ELSE "d_lock"
  /\ UNCHANGED <<commit_frame, io_faulted, io_lock, scanout_active, stream,
                 last_sent_valid, async, monitor, drm>>

CommitLock ==
  /\ c \in {"d_lock", "e_lock"} /\ io_lock = "free"
  /\ io_lock' = "commit"
  /\ c' = IF c = "d_lock" THEN "d_off" ELSE "e_on"
  /\ UNCHANGED <<commit_frame, io_faulted, scanout_active, stream,
                 last_sent_valid, async, monitor, drm>>

\* Monitor off; then mutex_unlock and drm_dev_exit.
DisableOff ==
  /\ CtrlOut("off", "d_off", "d_req", AfterDisable, AfterDisable)
  /\ io_lock' = IF c' = "d_req" THEN "commit" ELSE "free"
  /\ UNCHANGED <<commit_frame, scanout_active, stream, last_sent_valid, async,
                 drm>>

\* t6_crtc_atomic_enable
EnableCheck ==
  /\ c = "e_check"
  /\ c' = IF RuntimeConnected THEN "e_timer" ELSE "p_check"
  /\ UNCHANGED <<commit_frame, io_faulted, io_lock, scanout_active, stream,
                 last_sent_valid, async, monitor, drm>>

EnableTimer ==
  /\ c = "e_timer" /\ c' = "e_enter"
  /\ k = "idle" /\ timer_armed' = FALSE
  /\ UNCHANGED <<commit_frame, io_faulted, io_lock, scanout_active, stream,
                 last_sent_valid, tx_work_queued, defer_armed, monitor,
                 drm>>

EnableEnter ==
  /\ c = "e_enter"
  /\ c' = IF unplugged THEN "p_check" ELSE "e_lock"
  /\ UNCHANGED <<commit_frame, io_faulted, io_lock, scanout_active, stream,
                 last_sent_valid, async, monitor, drm>>

\* Monitor on; a failure leaves scanout_active as it was.
EnableOn_KeepsLock ==
  /\ CtrlOut("on", "e_on", "e_req", "e_active", "p_check")
  /\ UNCHANGED <<commit_frame, io_lock, scanout_active, stream,
                 last_sent_valid, async, drm>>

EnableOn_Retries ==
  /\ CtrlOut("on", "e_on", "e_req", "e_active", "e_on")
  /\ UNCHANGED <<commit_frame, io_lock, scanout_active, stream,
                 last_sent_valid, async, drm>>

EnableOn ==
  /\ CtrlOut("on", "e_on", "e_req", "e_active", "p_check")
  /\ io_lock' = IF c' = "p_check" THEN "free" ELSE "commit"
  /\ UNCHANGED <<commit_frame, scanout_active, stream, last_sent_valid, async,
                 drm>>

EnableActive ==
  /\ c = "e_active" /\ c' = "p_check" /\ io_lock' = "free"
  /\ scanout_active' = TRUE
  /\ timer_armed' = (timer_armed \/ RefreshAllowed(TRUE, last_sent_valid))
  /\ UNCHANGED <<commit_frame, io_faulted, stream, last_sent_valid,
                 tx_work_queued, defer_armed, monitor, drm>>

\* t6_plane_atomic_update: a plane without a framebuffer stages nothing.
PlaneIsEmpty == ~plane_fb

PlaneCheck ==
  /\ c = "p_check"
  /\ c' = IF PlaneIsEmpty \/ ~RuntimeConnected THEN "idle" ELSE "p_enter"
  /\ UNCHANGED <<commit_frame, io_faulted, io_lock, scanout_active, stream,
                 last_sent_valid, async, monitor, drm>>

PlaneEnter ==
  /\ c = "p_enter"
  /\ c' = IF unplugged THEN "idle" ELSE "p_stage"
  /\ UNCHANGED <<commit_frame, io_faulted, io_lock, scanout_active, stream,
                 last_sent_valid, async, monitor, drm>>

\* Under tx_lock the frame is packed over whatever tx_back held.
PlaneStage_KeepsPending ==
  /\ c = "p_stage" /\ c' = "p_queue"
  /\ \E f \in Frames : /\ newest' = f
                       /\ tx_back' = IF tx_pending THEN tx_back ELSE f
  /\ tx_pending' = TRUE
  /\ UNCHANGED <<commit_frame, io_faulted, io_lock, scanout_active,
                 keepalive_due, last_sent_valid, async, monitor, drm>>

PlaneStage_IntoFront ==
  /\ c = "p_stage" /\ c' = "p_queue"
  /\ \E f \in Frames : tx_back' = f /\ tx_front' = f /\ newest' = f
  /\ tx_pending' = TRUE
  /\ UNCHANGED <<head_faulted, life, d, u, k, w, wlocals, clock, attached,
                 shown, final_off, was_active, last_sent_frame, io_faulted,
                 io_lock, scanout_active, keepalive_due, last_sent_valid,
                 async, monitor, drm>>

PlaneStage ==
  /\ c = "p_stage" /\ c' = "p_queue"
  /\ \E f \in Frames : tx_back' = f /\ newest' = f
  /\ tx_pending' = TRUE
  /\ UNCHANGED <<commit_frame, io_faulted, io_lock, scanout_active,
                 keepalive_due, last_sent_valid, async, monitor, drm>>

PlaneQueue ==
  /\ c = "p_queue" /\ c' = "idle"
  /\ QueueTxWork
  /\ UNCHANGED <<commit_frame, io_faulted, io_lock, scanout_active, stream,
                 last_sent_valid, defer_armed, timer_armed, monitor, drm>>

CommitBegins == CommitOn \/ CommitFlip \/ CommitOff \/ CommitModeset

CommitWaits == DisableTimer \/ DisableDefer \/ DisableWork \/ EnableTimer
               \/ CommitLock

CommitRuns ==
  \/ DisableFlag \/ DisableClear \/ DisableEnter \/ DisableOff
  \/ EnableCheck \/ EnableEnter \/ EnableOn \/ EnableActive
  \/ PlaneCheck \/ PlaneEnter \/ PlaneStage \/ PlaneQueue

-----------------------------------------------------------------------------
(* tx_work: t6_frame_work *)

worker_frame == <<life, d, u, k, c, drm, was_active, scanout_active,
                  attached, monitor, final_off, newest>>

\* The workqueue runs the work unless it is running already.
WorkStart ==
  /\ w = "idle" /\ tx_work_queued /\ wq = "live"
  /\ tx_work_queued' = FALSE
  /\ w' = IF Faulted THEN "idle" ELSE "pop"
  /\ w_kind' = "frame" /\ w_ok' = TRUE
  /\ UNCHANGED <<worker_frame, faults, io_lock, keepalive_due, tx_pending,
                 tx_back, tx_front, refs, defer_armed, timer_armed, clock,
                 shown>>

\* Under tx_lock: a pending frame goes first, else a refresh that is due.
\* last_jpeg_data is only ever allocated by the JPEG sender, never here.
WorkPop ==
  /\ w = "pop"
  /\ \/ /\ tx_pending /\ w' = "gate"
        /\ tx_front' = tx_back /\ tx_back' = tx_front
        /\ tx_pending' = FALSE
        /\ UNCHANGED <<keepalive_due, w_kind>>
     \/ /\ ~tx_pending /\ keepalive_due /\ RefreshEligible
        /\ keepalive_due' = FALSE /\ w_kind' = "refresh" /\ w' = "gate"
        /\ UNCHANGED <<tx_pending, tx_back, tx_front>>
     \/ /\ ~tx_pending /\ ~(keepalive_due /\ RefreshEligible)
        /\ w' = "idle"
        /\ UNCHANGED <<keepalive_due, tx_pending, tx_back, tx_front, w_kind>>
  /\ UNCHANGED <<worker_frame, faults, io_lock, refs, async, clock, shown,
                 w_ok>>

\* A fault drops the popped frame; an NV12 head may have to wait its pace.
WorkGate ==
  /\ w = "gate"
  /\ w' = IF ~RuntimeConnected THEN "idle"
          ELSE IF ~gate_open THEN "requeue"
          ELSE "damage"
  /\ UNCHANGED <<worker_frame, faults, io_lock, keepalive_due, tx_pending,
                 tx_back, tx_front, refs, async, clock, shown, wlocals>>

\* t6_requeue_head_activity, under tx_lock: unless a newer frame is pending.
WorkRequeue_Always ==
  /\ w = "requeue" /\ w' = "defer"
  /\ tx_front' = tx_back /\ tx_back' = tx_front
  /\ tx_pending' = TRUE /\ UNCHANGED keepalive_due
  /\ UNCHANGED <<worker_frame, faults, io_lock, refs, async, clock, shown,
                 wlocals>>

WorkRequeue ==
  /\ w = "requeue" /\ w' = "defer"
  /\ \/ /\ tx_pending
        /\ UNCHANGED <<keepalive_due, tx_pending, tx_back, tx_front>>
     \/ /\ ~tx_pending /\ w_kind = "frame"
        /\ tx_front' = tx_back /\ tx_back' = tx_front
        /\ tx_pending' = TRUE /\ UNCHANGED keepalive_due
     \/ /\ ~tx_pending /\ w_kind = "refresh"
        /\ keepalive_due' = TRUE
        /\ UNCHANGED <<tx_pending, tx_back, tx_front>>
  /\ UNCHANGED <<worker_frame, faults, io_lock, refs, async, clock, shown,
                 wlocals>>

\* The rest of t6_defer_head_activity: mod_delayed_work(tx_defer_work).
WorkDefer_Forgets ==
  /\ w = "defer" /\ w' = "idle"
  /\ UNCHANGED <<worker_frame, faults, io_lock, keepalive_due, tx_pending,
                 tx_back, tx_front, refs, async, clock, shown, wlocals>>

WorkDefer ==
  /\ w = "defer" /\ w' = "idle"
  /\ defer_armed' = (defer_armed \/ wq = "live")
  /\ UNCHANGED <<worker_frame, faults, io_lock, keepalive_due, tx_pending,
                 tx_back, tx_front, refs, tx_work_queued, timer_armed, clock,
                 shown, wlocals>>

\* t6_compute_frame_damage: nothing to send when the reference is the frame.
NoDamage ==
  /\ w_kind = "frame"
  /\ last_sent_valid /\ last_sent_frame = tx_front

\* An undamaged NV12 frame ends the work here, without looking for another.
WorkDamage ==
  /\ w = "damage"
  /\ w' = IF Transport = "NV12" /\ NoDamage THEN "idle" ELSE "lock"
  /\ UNCHANGED <<worker_frame, faults, io_lock, keepalive_due, tx_pending,
                 tx_back, tx_front, refs, async, clock, shown, wlocals>>

WorkLock ==
  /\ w = "lock" /\ io_lock = "free"
  /\ io_lock' = "worker" /\ w' = "enter"
  /\ UNCHANGED <<worker_frame, faults, keepalive_due, tx_pending, tx_back,
                 tx_front, refs, async, clock, shown, wlocals>>

\* drm_dev_enter under io_lock; on failure the popped frame is dropped.  (The
\* pacing gate is read once more before it.  It is still open: the time since
\* it was found open includes the conversion that may have made it longer.)
WorkEnter_KeepsLock ==
  /\ w = "enter"
  /\ w' = IF unplugged THEN "idle" ELSE "send"
  /\ UNCHANGED <<worker_frame, faults, io_lock, keepalive_due, tx_pending,
                 tx_back, tx_front, refs, async, clock, shown, wlocals>>

WorkEnter ==
  /\ w = "enter"
  /\ \/ unplugged /\ w' = "idle" /\ io_lock' = "free"
     \/ ~unplugged /\ w' = "send" /\ UNCHANGED io_lock
  /\ UNCHANGED <<worker_frame, faults, keepalive_due, tx_pending, tx_back,
                 tx_front, refs, async, clock, shown, wlocals>>

\* What the worker decides not to send: a refresh that is no longer due, an
\* undamaged frame.  (The damage found before io_lock is still what a
\* comparison finds here: only the worker writes what it compared.)
SendSkipped ==
  \/ w_kind = "refresh" /\ ~(RefreshEligible /\ refresh_elapsed)
  \/ w_kind = "frame" /\ Transport = "RAW" /\ NoDamage

\* The first t6_bulk_write is refused after a fault; otherwise bytes flow.
WorkSend ==
  /\ w = "send"
  /\ \/ SendSkipped /\ w' = "unlock" /\ UNCHANGED <<w_ok, shown>>
     \/ ~SendSkipped /\ io_faulted
        /\ w' = "unlock" /\ w_ok' = FALSE /\ UNCHANGED shown
     \/ ~SendSkipped /\ ~io_faulted
        /\ w' = "xfer" /\ shown' = Torn /\ UNCHANGED w_ok
  /\ UNCHANGED <<worker_frame, faults, io_lock, keepalive_due, tx_pending,
                 tx_back, tx_front, refs, async, clock, w_kind>>

\* The remaining chunks: all arrive, or one fails or meets a fault latched
\* meanwhile.  (A fault latched after the last chunk began changes nothing.)
WorkTransfer ==
  /\ w = "xfer"
  /\ \/ /\ attached /\ w' = "ack"
        /\ shown' = IF w_kind = "frame" THEN tx_front ELSE last_sent_frame
        /\ UNCHANGED <<io_faulted, w_ok>>
     \/ /\ w' = "unlock" /\ w_ok' = FALSE /\ io_faulted' = TRUE
        /\ UNCHANGED shown
  /\ UNCHANGED <<worker_frame, head_faulted, io_lock, keepalive_due,
                 tx_pending, tx_back, tx_front, refs, async, clock, w_kind>>

\* RAW: the damage reference and raw_last_sent_jiffies follow a sent frame,
\* and the timer is armed if the refresh is still eligible.
WorkAck ==
  /\ w = "ack"
  /\ \/ /\ Transport = "RAW" /\ refresh_elapsed' = FALSE
        /\ IF w_kind = "frame"
           THEN last_sent_frame' = tx_front /\ last_sent_valid' = TRUE
           ELSE UNCHANGED refs
        /\ w' = IF RefreshAllowed(scanout_active,
                                 w_kind = "frame" \/ last_sent_valid)
                THEN "arm" ELSE "unlock"
     \/ /\ Transport = "NV12" /\ w' = "arm"
        /\ UNCHANGED <<refresh_elapsed, refs>>
  /\ UNCHANGED <<worker_frame, faults, io_lock, keepalive_due, tx_pending,
                 tx_back, tx_front, async, gate_open, shown, wlocals>>

\* mod_timer(&keepalive_timer)
WorkArm_Forgets ==
  /\ w = "arm" /\ w' = "unlock"
  /\ UNCHANGED <<worker_frame, faults, io_lock, keepalive_due, tx_pending,
                 tx_back, tx_front, refs, async, clock, shown, wlocals>>

WorkArm ==
  /\ w = "arm" /\ w' = "unlock"
  /\ timer_armed' = TRUE
  /\ UNCHANGED <<worker_frame, faults, io_lock, keepalive_due, tx_pending,
                 tx_back, tx_front, refs, tx_work_queued, defer_armed, clock,
                 shown, wlocals>>

\* mutex_unlock, drm_dev_exit, tx_last_jiffies = jiffies: the gate closes,
\* except that t6_head_tx_delay_jiffies never delays a RAW head.
WorkUnlock_DelaysRaw ==
  /\ w = "unlock" /\ w' = "done"
  /\ io_lock' = "free" /\ gate_open' = FALSE
  /\ UNCHANGED <<worker_frame, faults, keepalive_due, tx_pending, tx_back,
                 tx_front, refs, async, refresh_elapsed, shown, wlocals>>

WorkUnlock ==
  /\ w = "unlock" /\ w' = "done"
  /\ io_lock' = "free" /\ gate_open' = (Transport = "RAW")
  /\ UNCHANGED <<worker_frame, faults, keepalive_due, tx_pending, tx_back,
                 tx_front, refs, async, refresh_elapsed, shown, wlocals>>

\* A failed frame trips the head (t6_trip_transport_fault), a failed refresh
\* only ends; success updates the NV12 reference and queues what is pending.
WorkDone ==
  /\ w = "done" /\ w' = "idle"
  /\ \/ /\ ~w_ok /\ w_kind = "refresh"
        /\ UNCHANGED <<faults, tx_pending, refs, tx_work_queued>>
     \/ /\ ~w_ok /\ w_kind = "frame"
        /\ head_faulted' = TRUE /\ io_faulted' = TRUE
        /\ tx_pending' = (head_faulted /\ tx_pending)
        /\ UNCHANGED <<refs, tx_work_queued>>
     \/ /\ w_ok
        /\ IF Transport = "NV12"
           THEN last_sent_frame' = tx_front /\ last_sent_valid' = TRUE
           ELSE UNCHANGED refs
        /\ IF tx_pending \/ keepalive_due
           THEN QueueTxWork
           ELSE UNCHANGED tx_work_queued
        /\ UNCHANGED <<faults, tx_pending>>
  /\ UNCHANGED <<worker_frame, io_lock, keepalive_due, tx_back, tx_front,
                 defer_armed, timer_armed, clock, shown, wlocals>>

Worker == WorkStart \/ WorkPop \/ WorkGate \/ WorkRequeue \/ WorkDefer
          \/ WorkDamage \/ WorkEnter \/ WorkSend \/ WorkTransfer \/ WorkAck
          \/ WorkArm \/ WorkUnlock \/ WorkDone

-----------------------------------------------------------------------------
(* keepalive_timer and tx_defer_work *)

callback_frame == <<faults, life, tx_pending, tx_back, tx_front, newest, refs,
                    clock, adapter, wlocals, io_lock, scanout_active,
                    was_active, drm, c, w, u>>

TimerFires ==
  /\ timer_armed /\ k = "idle"
  /\ timer_armed' = FALSE /\ k' = "check"
  /\ UNCHANGED <<callback_frame, keepalive_due, tx_work_queued, defer_armed,
                 d>>

\* t6_keepalive_timeout: an NV12 head has no cached frame and gives up; a RAW
\* head gives up, postpones, or goes on to request a refresh.
TimerCheck_NoRearm ==
  /\ k = "check"
  /\ k' = IF scanout_active /\ RefreshEligible /\ refresh_elapsed
          THEN "due" ELSE "idle"
  /\ UNCHANGED <<callback_frame, keepalive_due, async, d>>

TimerCheck ==
  /\ k = "check"
  /\ k' = IF ~(scanout_active /\ RefreshEligible) THEN "idle"
          ELSE IF refresh_elapsed THEN "due" ELSE "rearm"
  /\ UNCHANGED <<callback_frame, keepalive_due, async, d>>

TimerRearm ==
  /\ k = "rearm" /\ k' = "idle" /\ timer_armed' = TRUE
  /\ UNCHANGED <<callback_frame, keepalive_due, tx_work_queued, defer_armed,
                 d>>

TimerDue ==
  /\ k = "due" /\ k' = "queue" /\ keepalive_due' = TRUE
  /\ UNCHANGED <<callback_frame, async, d>>

TimerQueue ==
  /\ k = "queue" /\ k' = "idle" /\ QueueTxWork
  /\ UNCHANGED <<callback_frame, keepalive_due, defer_armed, timer_armed, d>>

\* The delay of tx_defer_work elapses; t6_frame_defer_work queues tx_work.
DeferFires ==
  /\ defer_armed /\ d = "idle" /\ wq = "live"
  /\ defer_armed' = FALSE /\ d' = "run"
  /\ UNCHANGED <<callback_frame, keepalive_due, tx_work_queued, timer_armed,
                 k>>

DeferRuns ==
  /\ d = "run" /\ d' = "idle" /\ QueueTxWork
  /\ UNCHANGED <<callback_frame, keepalive_due, defer_armed, timer_armed, k>>

Callbacks == TimerCheck \/ TimerRearm \/ TimerDue \/ TimerQueue \/ DeferRuns

-----------------------------------------------------------------------------
(* USB callbacks *)

usb_frame == <<head_faulted, tx_pending, tx_back, tx_front, newest,
               last_sent_frame, last_sent_valid, clock, wlocals, attached,
               shown, k, w, d>>

\* t6_usb_disconnect reads scanout_active before anything is stopped.
DisconnectBegins ==
  /\ u = "bound" /\ "disconnect" \in UsbCallbacks
  /\ was_active' = scanout_active /\ u' = "unplug"
  /\ UNCHANGED <<usb_frame, io_faulted, io_lock, life, keepalive_due,
                 scanout_active, async, monitor, final_off, drm, c>>

\* drm_dev_unplug: no new drm_dev_enter, then wait for those inside.
DisconnectUnplugs ==
  /\ u = "unplug" /\ unplugged' = TRUE /\ u' = "srcu"
  /\ UNCHANGED <<usb_frame, io_faulted, io_lock, wq, buffers, keepalive_due,
                 scanout_active, async, monitor, final_off, was_active,
                 drm, c>>

DisconnectSynced_NoWait ==
  /\ u = "srcu" /\ u' = "flag"
  /\ UNCHANGED <<usb_frame, io_faulted, io_lock, life, keepalive_due,
                 scanout_active, async, monitor, final_off, was_active,
                 drm, c>>

DisconnectSynced ==
  /\ u = "srcu" /\ ~WorkerInDrm /\ ~CommitInDrm
  /\ u' = "flag"
  /\ UNCHANGED <<usb_frame, io_faulted, io_lock, life, keepalive_due,
                 scanout_active, async, monitor, final_off, was_active,
                 drm, c>>

\* t6_usb_suspend latches the fault, then stops the head; it takes no lock.
SuspendBegins_NoLatch ==
  /\ u = "bound" /\ "suspend" \in UsbCallbacks
  /\ u' = "flag"
  /\ UNCHANGED <<usb_frame, io_faulted, io_lock, life, keepalive_due,
                 scanout_active, async, monitor, final_off, was_active,
                 drm, c>>

SuspendBegins ==
  /\ u = "bound" /\ "suspend" \in UsbCallbacks
  /\ io_faulted' = TRUE /\ u' = "flag"
  /\ UNCHANGED <<usb_frame, io_lock, life, keepalive_due, scanout_active,
                 async, monitor, final_off, was_active, drm, c>>

\* t6_usb_resume latches the fault again: only a new probe restarts traffic.
Resume ==
  /\ u = "suspended" /\ u' = "bound" /\ io_faulted' = TRUE
  /\ UNCHANGED <<usb_frame, io_lock, life, keepalive_due, scanout_active,
                 async, monitor, final_off, was_active, drm, c>>

\* t6_cancel_head_activity, shared by suspend and disconnect.
CancelFlag ==
  /\ u = "flag" /\ u' = "timer" /\ scanout_active' = FALSE
  /\ UNCHANGED <<usb_frame, io_faulted, io_lock, life, keepalive_due, async,
                 monitor, final_off, was_active, drm, c>>

CancelTimer ==
  /\ u = "timer" /\ u' = "defer"
  /\ k = "idle" /\ timer_armed' = FALSE
  /\ UNCHANGED <<usb_frame, io_faulted, io_lock, life, keepalive_due,
                 scanout_active, tx_work_queued, defer_armed, monitor,
                 final_off, was_active, drm, c>>

CancelDefer ==
  /\ u = "defer" /\ u' = "work"
  /\ d = "idle" /\ defer_armed' = FALSE
  /\ UNCHANGED <<usb_frame, io_faulted, io_lock, life, keepalive_due,
                 scanout_active, tx_work_queued, timer_armed, monitor,
                 final_off, was_active, drm, c>>

CancelWork ==
  /\ u = "work" /\ u' = "due"
  /\ w = "idle" /\ tx_work_queued' = FALSE
  /\ UNCHANGED <<usb_frame, io_faulted, io_lock, life, keepalive_due,
                 scanout_active, defer_armed, timer_armed, monitor, final_off,
                 was_active, drm, c>>

CancelDue ==
  /\ u = "due" /\ keepalive_due' = FALSE
  /\ u' = IF unplugged THEN "flush" ELSE "suspended"
  /\ UNCHANGED <<usb_frame, io_faulted, io_lock, life, scanout_active, async,
                 monitor, final_off, was_active, drm, c>>

\* flush_workqueue, destroy_workqueue, wq = NULL: queued work is run first.
DestroyQueue ==
  /\ u = "flush" /\ w = "idle" /\ ~tx_work_queued /\ d = "idle"
  /\ wq' = "gone" /\ u' = "policy"
  /\ UNCHANGED <<usb_frame, io_faulted, io_lock, unplugged, buffers,
                 keepalive_due, scanout_active, async, monitor, final_off,
                 was_active, drm, c>>

\* t6_final_off_policy: profile, path, sink and EDID passed the probe; the
\* device is configured while it is attached.
FinalOffAllowed_IgnoresFault ==
  /\ FinalOff /\ Transport = "RAW" /\ was_active /\ attached
  /\ unplugged /\ wq = "gone"

FinalOffAllowed ==
  /\ FinalOff /\ Transport = "RAW" /\ was_active /\ ~Faulted /\ attached
  /\ unplugged /\ wq = "gone"

\* Checked once without the lock, once more under io_lock.
FinalOffPolicy ==
  /\ u = "policy"
  /\ \/ FinalOffAllowed /\ io_lock = "free" /\ io_lock' = "usb" /\ u' = "off"
     \/ ~FinalOffAllowed /\ u' = "shutdown" /\ UNCHANGED io_lock
  /\ UNCHANGED <<usb_frame, io_faulted, life, keepalive_due, scanout_active,
                 async, monitor, final_off, was_active, drm, c>>

\* The request itself may fail; its failure is logged and latches nothing.
FinalOffRequest ==
  /\ u = "off" /\ u' = "shutdown" /\ io_lock' = "free"
  /\ IF FinalOffAllowed
     THEN /\ final_off' = TRUE
          /\ \/ monitor' = "off"
             \/ UNCHANGED monitor
     ELSE UNCHANGED <<final_off, monitor>>
  /\ UNCHANGED <<usb_frame, io_faulted, life, keepalive_due, scanout_active,
                 async, was_active, drm, c>>

\* drm_atomic_helper_shutdown commits one disable of an active CRTC, in turn
\* with the commits of others, and waits for it.
Shutdown ==
  /\ c = "idle"
  /\ \/ /\ u = "shutdown" /\ crtc_on
        /\ crtc_on' = FALSE /\ plane_fb' = FALSE
        /\ c' = "d_flag" /\ u' = "stopping"
     \/ /\ u = "shutdown" /\ ~crtc_on
        /\ u' = "free" /\ UNCHANGED <<c, drm>>
     \/ /\ u = "stopping"
        /\ u' = "free" /\ UNCHANGED <<c, drm>>
  /\ UNCHANGED <<usb_frame, io_faulted, io_lock, life, keepalive_due,
                 scanout_active, async, monitor, final_off, was_active>>

\* t6_free_head_buffers, whose last call is timer_delete_sync.
FreeBuffers ==
  /\ u = "free" /\ k = "idle"
  /\ buffers' = "freed" /\ timer_armed' = FALSE /\ u' = "gone"
  /\ tx_back' = NoFrame /\ tx_front' = NoFrame /\ tx_pending' = FALSE
  /\ last_sent_frame' = NoFrame /\ last_sent_valid' = FALSE
  /\ UNCHANGED <<head_faulted, newest, clock, wlocals, attached, shown, k, w,
                 d, io_faulted, io_lock, wq, unplugged, keepalive_due,
                 scanout_active, tx_work_queued, defer_armed, monitor,
                 final_off, was_active, drm, c>>

\* After disconnect the head may rest for good.
Unbound == u = "gone" /\ UNCHANGED vars

UsbBegins == DisconnectBegins \/ SuspendBegins \/ Resume

UsbWaits == DisconnectSynced \/ CancelTimer \/ CancelDefer \/ CancelWork
            \/ DestroyQueue \/ FinalOffPolicy \/ Shutdown \/ FreeBuffers

UsbRuns == DisconnectUnplugs \/ CancelFlag \/ CancelDue \/ FinalOffRequest

-----------------------------------------------------------------------------
Next ==
  \/ RefreshDeadlinePasses \/ GateOpens \/ Detach
  \/ CommitBegins \/ CommitWaits \/ CommitRuns
  \/ Worker \/ WorkLock
  \/ TimerFires \/ DeferFires \/ Callbacks
  \/ UsbBegins \/ UsbWaits \/ UsbRuns
  \/ Unbound

Spec == Init /\ [][Next]_vars

\* Time passes; timers and delayed works expire and their callbacks run; a
\* scheduled work or thread runs, and a USB request ends by its timeout.  An
\* agent that waits for a lock or for a callback to finish gets its turn when
\* the wait is over infinitely often: kernel mutexes hand over to the first
\* waiter, and a cancel or a deletion in progress keeps its object from being
\* queued again.  Each agent is at one place of its code, so one condition says
\* it of all its steps; at a place where it waits for nobody, strong fairness
\* asks no more than weak.  Nothing obliges DRM to commit or the USB core to
\* call back.
Fairness ==
  /\ WF_vars(RefreshDeadlinePasses) /\ WF_vars(GateOpens)
  /\ WF_vars(TimerFires \/ TimerCheck \/ TimerRearm \/ TimerDue \/ TimerQueue)
  /\ WF_vars(DeferFires \/ DeferRuns)
  /\ SF_vars(Worker \/ WorkLock)
  /\ SF_vars(CommitRuns \/ CommitWaits)
  /\ SF_vars(UsbRuns \/ UsbWaits)

FairSpec == Spec /\ Fairness

-----------------------------------------------------------------------------
(* Properties *)

\* Every variable stays in its range, and io_lock names the agent that is in
\* its critical section.
TypeOK ==
  /\ io_faulted \in BOOLEAN /\ head_faulted \in BOOLEAN
  /\ wq \in {"live", "gone"} /\ buffers \in {"live", "freed"}
  /\ unplugged \in BOOLEAN /\ scanout_active \in BOOLEAN
  /\ keepalive_due \in BOOLEAN /\ tx_pending \in BOOLEAN
  /\ last_sent_valid \in BOOLEAN
  /\ tx_back \in Frames \cup {NoFrame} /\ tx_front \in Frames \cup {NoFrame}
  /\ last_sent_frame \in Frames \cup {NoFrame}
  /\ newest \in Frames \cup {NoFrame}
  /\ tx_work_queued \in BOOLEAN /\ defer_armed \in BOOLEAN
  /\ timer_armed \in BOOLEAN
  /\ refresh_elapsed \in BOOLEAN /\ gate_open \in BOOLEAN
  /\ c \in {"idle", "d_flag", "d_timer", "d_defer", "d_work", "d_timer2",
            "d_clear", "d_enter", "d_lock", "d_off", "d_req", "e_check",
            "e_timer", "e_enter", "e_lock", "e_on", "e_req", "e_active",
            "p_check", "p_enter", "p_stage", "p_queue"}
  /\ w \in {"idle", "pop", "gate", "requeue", "defer", "damage", "lock",
            "enter", "send", "xfer", "ack", "arm", "unlock", "done"}
  /\ k \in {"idle", "check", "rearm", "due", "queue"}
  /\ d \in {"idle", "run"}
  /\ u \in {"bound", "unplug", "srcu", "flag", "timer", "defer", "work", "due",
            "suspended", "flush", "policy", "off", "shutdown", "stopping",
            "free", "gone"}
  /\ w_kind \in {"frame", "refresh"} /\ w_ok \in BOOLEAN
  /\ was_active \in BOOLEAN /\ crtc_on \in BOOLEAN /\ plane_fb \in BOOLEAN
  /\ attached \in BOOLEAN /\ monitor \in {"off", "on"}
  /\ shown \in Frames \cup {NoFrame, Torn} /\ final_off \in BOOLEAN
  /\ io_lock \in {"free", "worker", "commit", "usb"}
  /\ io_lock = "worker"
       <=> w \in {"enter", "send", "xfer", "ack", "arm", "unlock"}
  /\ io_lock = "commit"
       <=> c \in {"d_off", "d_req", "e_on", "e_req", "e_active"}
  /\ io_lock = "usb" <=> u = "off"

\* A frame only travels to an adapter whose monitor was switched on and not
\* off again: no commit, timer or worker wakes a monitor the compositor
\* blanked (the power cycle the comment in t6_crtc_atomic_disable describes).
FramesOnlyWhileOn == w = "xfer" => monitor = "on"

\* "Stop ALL frame activity before turning the output off": when a disable
\* is about to send monitor-off, no worker, timer or delayed work is left.
QuietAtMonitorOff == c \in {"d_off", "d_req"} => Quiet

\* "Cancel async frame work before releasing buffers": nothing can run on the
\* workqueue once it is destroyed, and nothing reads the frame buffers or
\* fires the timer once they are freed.
DrainedBeforeRelease ==
  /\ wq = "gone" => w = "idle" /\ ~tx_work_queued /\ d = "idle" /\ ~defer_armed
  /\ buffers = "freed" => Quiet /\ ~CommitInDrm

\* A suspended head sends nothing: the worker in flight was waited for, and
\* any work queued later finds the fault latched.
NoFrameWhileSuspended ==
  u = "suspended" => w \notin {"send", "xfer", "ack", "arm"}

\* The private monitor-off of disconnect is the last thing the adapter hears,
\* it is not sent over a faulted transport, and no fault comes after it.
FinalOffIsLast ==
  [][/\ final_off => monitor' = monitor /\ shown' = shown
     /\ final_off' => ~Faulted']_<<monitor, shown, final_off, faults>>

\* Who waits for whom: io_lock for its holder, a cancel or a deletion for the
\* callback it found running, a flush for the works, drm_dev_unplug for those
\* inside, the shutdown for the commit before it.
Agents == {"commit", "worker", "timer", "defer", "usb"}

WaitsFor(a, b) ==
  \/ /\ b = io_lock
     /\ \/ a = "commit" /\ c \in {"d_lock", "e_lock"}
        \/ a = "worker" /\ w = "lock"
        \/ a = "usb" /\ u = "policy" /\ FinalOffAllowed
  \/ /\ b = "timer" /\ k # "idle"
     /\ \/ a = "commit" /\ c \in {"d_timer", "d_timer2", "e_timer"}
        \/ a = "usb" /\ u \in {"timer", "free"}
  \/ /\ b = "defer" /\ d # "idle"
     /\ \/ a = "commit" /\ c = "d_defer"
        \/ a = "usb" /\ u \in {"defer", "flush"}
  \/ /\ b = "worker" /\ w # "idle"
     /\ \/ a = "commit" /\ c = "d_work"
        \/ a = "usb" /\ u \in {"work", "flush"}
        \/ a = "usb" /\ u = "srcu" /\ WorkerInDrm
  \/ /\ b = "commit" /\ c # "idle" /\ a = "usb"
     /\ \/ u \in {"shutdown", "stopping"}
        \/ u = "srcu" /\ CommitInDrm

\* Those that wait for somebody; no circle contains another.
Waiting == {a \in Agents : \E b \in Agents : WaitsFor(a, b)}

\* No set of commit, worker, callbacks and USB core waits for itself: every
\* wait ends at an agent that runs.
NoCircularWait ==
  \A S \in SUBSET Waiting :
    S # {} => \E a \in S : \A b \in S : ~WaitsFor(a, b)

\* A staged frame is never stranded: while DRM shows a framebuffer and the
\* transport is sound, something is under way that will look at tx_pending.
\* (A disable cancels tx_work and keeps tx_pending; a CRTC that is then enabled
\* without a framebuffer does strand the frame, until the next update of its
\* plane stages another over it.)
PendingFrameIsScheduled ==
  tx_pending /\ plane_fb /\ c = "idle" /\ ~Faulted /\ ~unplugged
    => tx_work_queued \/ w # "idle" \/ defer_armed \/ d = "run"

\* Newest frame wins: when the head has come to rest the adapter shows the
\* framebuffer DRM shows, the one staged last, however disables, the worker,
\* the requeues and newer updates interleaved.
NewestFrameIsShown ==
  /\ plane_fb /\ c = "idle" /\ ~Faulted /\ ~unplugged
  /\ w = "idle" /\ ~tx_work_queued /\ ~defer_armed /\ d = "idle"
  => shown = newest

\* The damage reference is what the adapter shows, so sending only the rows
\* that differ from it is enough.  (Between the last byte of a transfer and
\* the update of the reference only the worker knows.)
DamageReferenceIsShown ==
  /\ last_sent_valid /\ ~io_faulted
  /\ w \notin {"xfer", "ack"}
  /\ Transport = "NV12" => w \notin {"arm", "unlock", "done"}
  => shown = last_sent_frame

\* The refresh chain of a lit, idle screen is never lost: the timer is armed,
\* its callback runs, its request waits for a worker, or the worker that will
\* arm it again is sending.
RefreshChainAlive ==
  RefreshEligible /\ ~unplugged =>
    \/ timer_armed \/ k # "idle"
    \/ keepalive_due /\ (tx_work_queued \/ w # "idle")
    \/ w \in {"gate", "damage", "lock", "enter", "send", "xfer", "ack", "arm"}

\* The stream keeps the promise of T6Screen: no interleaving of commits,
\* worker, requeues, refreshes and teardown shows a frame that was not taken
\* from the newest staged one, puts an old frame over a newer one, skips a
\* frame that is not on the screen, or loses one while the link is up.
Carried ==
  IF w_kind = "frame"
     /\ w \in {"gate", "requeue", "damage", "lock", "enter", "send", "xfer"}
  THEN tx_front
  ELSE IF w_kind = "refresh" /\ w = "xfer" THEN last_sent_frame
  ELSE NoFrame

Screen == INSTANCE T6Screen WITH
  staged <- IF tx_pending THEN tx_back ELSE NoFrame,
  taken  <- Carried,
  link   <- IF Faulted \/ (unplugged /\ ~WorkerInDrm) THEN "down" ELSE "up",
  lit    <- monitor = "on"

ImplementsScreen == Screen!Spec

\* Under fairness: while DRM shows a framebuffer a staged frame is taken by the
\* worker, unless a disable, a fault or unplug comes first; it is never left
\* waiting.
StagedFrameIsTaken ==
  tx_pending /\ plane_fb ~> ~tx_pending \/ c = "d_flag" \/ Faulted \/ unplugged

\* Under fairness: a screen that has been idle for the refresh interval is
\* refreshed, unless it stops being eligible or a new frame comes, which goes
\* first (a compositor that stages undamaged frames faster than the worker
\* pops them keeps a refresh waiting).
IdleScreenIsRefreshed ==
  RefreshEligible /\ refresh_elapsed
    ~> ~refresh_elapsed \/ ~RefreshEligible \/ tx_pending \/ unplugged

\* Under fairness: disconnect comes to its end, whatever commits, timers and
\* transfers it has to wait for.
DisconnectCompletes == u = "unplug" ~> u = "gone"

\* Under fairness: a commit comes to its end.
CommitCompletes == c # "idle" ~> c = "idle"

\* "already-off ... cases send nothing": the private monitor-off is only sent
\* to a monitor that is on.
NoFinalOffWhenOff == [][final_off' => monitor = "on"]_final_off

=============================================================================
