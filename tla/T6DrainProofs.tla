---------------------------- MODULE T6DrainProofs ----------------------------
(***************************************************************************)
(* Theorems about T6Head: what a disable, a suspend and a disconnect find   *)
(* stopped, and that no frame is stranded.  The theorems about the order of  *)
(* disable are about a RAW head; an NV12 head breaks them (see the README).  *)
(***************************************************************************)
EXTENDS T6HeadProofs

USE DEF faults, life, stream, refs, async, clock, adapter, wlocals, drm

-----------------------------------------------------------------------------
(* Suspend *)

\* Stages of t6_cancel_head_activity in which suspend may be, and its end.
Stopping == {"flag", "timer", "defer", "work", "due", "suspended"}

\* A suspend keeps the fault latched from its first statement on, and once it
\* waited for the worker no other run of it gets past the latch.
SuspendInv ==
  /\ u \in Stopping /\ ~unplugged => io_faulted
  /\ u \in {"due", "suspended"} /\ ~unplugged => w = "idle"

\* SuspendInv holds in every reachable state.
LEMMA SuspendInvariant == Spec => []SuspendInv
<1>1. Init => SuspendInv
  BY ParamsAssumption DEF Init, SuspendInv, UnplugInv, AfterQueue, Stopping,
     Faulted
<1>2. TypeOK /\ UnplugInv /\ SuspendInv /\ [Next]_vars => SuspendInv'
  <2> SUFFICES ASSUME TypeOK, UnplugInv, SuspendInv, [Next]_vars
               PROVE  SuspendInv'
    OBVIOUS
  <2> USE DEF TypeOK, SuspendInv, UnplugInv, AfterQueue, Stopping, Faulted
  <2>1. CASE RefreshDeadlinePasses
    BY <2>1 DEF RefreshDeadlinePasses
  <2>2. CASE GateOpens
    BY <2>2 DEF GateOpens
  <2>3. CASE Detach
    BY <2>3 DEF Detach
  <2>4. CASE WorkLock
    BY <2>4 DEF WorkLock, worker_frame
  <2>5. CASE TimerFires
    BY <2>5 DEF TimerFires, callback_frame
  <2>6. CASE DeferFires
    BY <2>6 DEF DeferFires, callback_frame
  <2>7. CASE CommitBegins
    BY <2>7 DEF CommitBegins, CommitOn, commit_frame, CommitFlip, CommitOff,
       CommitModeset
  <2>8. CASE CommitWaits
    BY <2>8 DEF CommitWaits, DisableTimer, commit_frame, DisableDefer,
       DisableWork, EnableTimer, CommitLock
  <2>9. CASE CommitRuns
    BY <2>9 DEF CommitRuns, DisableFlag, commit_frame, DisableClear,
       DisableEnter, AfterDisable, DisableOff, CtrlOut, EnableCheck,
       EnableEnter, EnableOn, EnableActive, PlaneCheck, PlaneEnter,
       PlaneStage, PlaneQueue, QueueTxWork
  <2>10. CASE Worker
    BY <2>10 DEF Worker, WorkStart, worker_frame, WorkPop, WorkGate,
       WorkRequeue, WorkDefer, WorkDamage, WorkEnter, WorkSend, WorkTransfer,
       WorkAck, WorkArm, WorkUnlock, WorkDone, QueueTxWork
  <2>11. CASE Callbacks
    BY <2>11 DEF Callbacks, TimerCheck, callback_frame, TimerRearm, TimerDue,
       TimerQueue, QueueTxWork, DeferRuns
  <2>12. CASE UsbBegins
    BY <2>12 DEF UsbBegins, DisconnectBegins, usb_frame, SuspendBegins,
       Resume
  <2>13. CASE UsbWaits
    BY <2>13 DEF UsbWaits, DisconnectSynced, usb_frame, CancelTimer,
       CancelDefer, CancelWork, DestroyQueue, FinalOffPolicy, Shutdown,
       FreeBuffers
  <2>14. CASE UsbRuns
    BY <2>14 DEF UsbRuns, DisconnectUnplugs, usb_frame, CancelFlag,
       CancelDue, FinalOffRequest
  <2>15. CASE UNCHANGED vars
    BY <2>15 DEF vars
  <2>16. QED
    BY <2>1, <2>2, <2>3, <2>4, <2>5, <2>6, <2>7, <2>8, <2>9, <2>10, <2>11,
       <2>12, <2>13, <2>14, <2>15 DEF Next, Unbound
<1>3. QED
  BY <1>1, <1>2, Typing, UnplugInvariant, PTL DEF Spec

\* A suspended head is not transferring anything, and no work that was queued
\* meanwhile starts to.
THEOREM SuspendedHeadIsSilent == Spec => []NoFrameWhileSuspended
<1>1. UnplugInv /\ SuspendInv => NoFrameWhileSuspended
  BY DEF UnplugInv, SuspendInv, NoFrameWhileSuspended
<1>2. QED
  BY <1>1, UnplugInvariant, SuspendInvariant, PTL

-----------------------------------------------------------------------------
(* Staged frames *)

\* Stronger than PendingFrameIsScheduled: the worker that will look at
\* tx_pending has not popped a frame yet, or is about to put one back.  A plane
\* that gets a framebuffer is updated before the commit ends.
PendingInv ==
  /\ plane_fb => crtc_on
  /\ tx_pending /\ plane_fb /\ c = "idle" /\ ~Faulted /\ ~unplugged
       => tx_work_queued \/ w \in {"pop", "defer"} \/ defer_armed \/ d = "run"

\* PendingInv holds in every reachable state.
LEMMA PendingInvariant == Spec => []PendingInv
<1>1. Init => PendingInv
  BY ParamsAssumption DEF Init, PendingInv, UnplugInv, SuspendInv,
     AfterQueue, Stopping, Faulted, RuntimeConnected
<1>2. TypeOK /\ UnplugInv /\ SuspendInv /\ PendingInv
        /\ [Next]_vars => PendingInv'
  <2> SUFFICES ASSUME TypeOK, UnplugInv, SuspendInv, PendingInv, [Next]_vars
               PROVE  PendingInv'
    OBVIOUS
  <2> USE DEF TypeOK, PendingInv, UnplugInv, SuspendInv, AfterQueue,
     Stopping, Faulted, RuntimeConnected
  <2>1. CASE RefreshDeadlinePasses
    BY <2>1 DEF RefreshDeadlinePasses
  <2>2. CASE GateOpens
    BY <2>2 DEF GateOpens
  <2>3. CASE Detach
    BY <2>3 DEF Detach
  <2>4. CASE WorkLock
    BY <2>4 DEF WorkLock, worker_frame
  <2>5. CASE TimerFires
    BY <2>5 DEF TimerFires, callback_frame
  <2>6. CASE DeferFires
    BY <2>6 DEF DeferFires, callback_frame
  <2>7. CASE CommitBegins
    BY <2>7 DEF CommitBegins, CommitOn, commit_frame, CommitFlip, CommitOff,
       CommitModeset
  <2>8. CASE CommitWaits
    BY <2>8 DEF CommitWaits, DisableTimer, commit_frame, DisableDefer,
       DisableWork, EnableTimer, CommitLock
  <2>9. CASE CommitRuns
    <3>1. CASE DisableFlag
      BY <3>1 DEF DisableFlag, commit_frame
    <3>2. CASE DisableClear
      BY <3>2 DEF DisableClear, commit_frame
    <3>3. CASE DisableEnter
      BY <3>3 DEF DisableEnter, commit_frame, AfterDisable
    <3>4. CASE DisableOff
      BY <3>4 DEF DisableOff, commit_frame, CtrlOut, AfterDisable
    <3>5. CASE EnableCheck
      BY <3>5 DEF EnableCheck, commit_frame
    <3>6. CASE EnableEnter
      BY <3>6 DEF EnableEnter, commit_frame
    <3>7. CASE EnableOn
      BY <3>7 DEF EnableOn, commit_frame, CtrlOut
    <3>8. CASE EnableActive
      BY <3>8 DEF EnableActive, commit_frame
    <3>9. CASE PlaneCheck
      BY <3>9 DEF PlaneCheck, PlaneIsEmpty, commit_frame
    <3>10. CASE PlaneEnter
      BY <3>10 DEF PlaneEnter, commit_frame
    <3>11. CASE PlaneStage
      BY <3>11 DEF PlaneStage, commit_frame
    <3>12. CASE PlaneQueue
      BY <3>12 DEF PlaneQueue, commit_frame, QueueTxWork
    <3>13. QED
      BY <2>9, <3>1, <3>2, <3>3, <3>4, <3>5, <3>6, <3>7, <3>8, <3>9, <3>10,
         <3>11, <3>12 DEF CommitRuns
  <2>10. CASE Worker
    BY <2>10 DEF Worker, WorkStart, worker_frame, WorkPop, WorkGate,
       WorkRequeue, WorkDefer, WorkDamage, WorkEnter, WorkSend, WorkTransfer,
       WorkAck, WorkArm, WorkUnlock, WorkDone, QueueTxWork
  <2>11. CASE Callbacks
    BY <2>11 DEF Callbacks, TimerCheck, callback_frame, TimerRearm, TimerDue,
       TimerQueue, QueueTxWork, DeferRuns
  <2>12. CASE UsbBegins
    BY <2>12 DEF UsbBegins, DisconnectBegins, usb_frame, SuspendBegins,
       Resume
  <2>13. CASE UsbWaits
    BY <2>13 DEF UsbWaits, DisconnectSynced, usb_frame, CancelTimer,
       CancelDefer, CancelWork, DestroyQueue, FinalOffPolicy, Shutdown,
       FreeBuffers
  <2>14. CASE UsbRuns
    BY <2>14 DEF UsbRuns, DisconnectUnplugs, usb_frame, CancelFlag,
       CancelDue, FinalOffRequest
  <2>15. CASE UNCHANGED vars
    BY <2>15 DEF vars
  <2>16. QED
    BY <2>1, <2>2, <2>3, <2>4, <2>5, <2>6, <2>7, <2>8, <2>9, <2>10, <2>11,
       <2>12, <2>13, <2>14, <2>15 DEF Next, Unbound
<1>3. QED
  BY <1>1, <1>2, Typing, UnplugInvariant, SuspendInvariant, PTL DEF Spec

\* A staged frame is never stranded while DRM shows a framebuffer: every path
\* that leaves tx_pending set leaves a worker, a queued work or a delayed work
\* behind, or is followed by a plane update that stages and queues again.
THEOREM StagedFrameIsNeverStranded == Spec => []PendingFrameIsScheduled
<1>1. PendingInv => PendingFrameIsScheduled
  BY DEF PendingInv, PendingFrameIsScheduled
<1>2. QED
  BY <1>1, PendingInvariant, PTL

-----------------------------------------------------------------------------
(* Disable of a RAW head *)

\* Stages of t6_crtc_atomic_disable after its first statement.
Disabling == {"d_timer", "d_defer", "d_work", "d_timer2", "d_clear",
              "d_enter", "d_lock", "d_off", "d_req"}

\* Each stage of the disable leaves one source of work less: the timer callback
\* past its check sees scanout_active cleared, the worker that may arm the
\* timer again was waited for before the second deletion.  A RAW head is never
\* gated, so nothing delays its work.
DisableInv ==
  /\ gate_open /\ d = "idle" /\ ~defer_armed /\ w \notin {"requeue", "defer"}
  /\ c \in Disabling => ~scanout_active
  /\ c \in Disabling \ {"d_timer"} => k \in {"idle", "check"}
  /\ c \in Disabling \ {"d_timer", "d_defer", "d_work"}
       => w = "idle" /\ ~tx_work_queued
  /\ c \in {"d_clear", "d_enter", "d_lock", "d_off", "d_req"}
       => k = "idle" /\ ~timer_armed

\* DisableInv holds in every reachable state of a RAW head.
LEMMA DisableInvariant == ASSUME Transport = "RAW" PROVE Spec => []DisableInv
<1>1. Init => DisableInv
  BY ParamsAssumption DEF Init, DisableInv, Disabling
<1>2. TypeOK /\ DisableInv /\ [Next]_vars => DisableInv'
  <2> SUFFICES ASSUME TypeOK, DisableInv, [Next]_vars
               PROVE  DisableInv'
    OBVIOUS
  <2> USE DEF TypeOK, DisableInv, Disabling
  <2>1. CASE RefreshDeadlinePasses
    BY <2>1 DEF RefreshDeadlinePasses
  <2>2. CASE GateOpens
    BY <2>2 DEF GateOpens
  <2>3. CASE Detach
    BY <2>3 DEF Detach
  <2>4. CASE WorkLock
    BY <2>4 DEF WorkLock, worker_frame
  <2>5. CASE TimerFires
    BY <2>5 DEF TimerFires, callback_frame
  <2>6. CASE DeferFires
    BY <2>6 DEF DeferFires, callback_frame
  <2>7. CASE CommitBegins
    <3>1. CASE CommitOn
      BY <3>1 DEF CommitOn, commit_frame
    <3>2. CASE CommitFlip
      BY <3>2 DEF CommitFlip, commit_frame
    <3>3. CASE CommitOff
      BY <3>3 DEF CommitOff, commit_frame
    <3>4. CASE CommitModeset
      BY <3>4 DEF CommitModeset, commit_frame
    <3>5. QED
      BY <2>7, <3>1, <3>2, <3>3, <3>4 DEF CommitBegins
  <2>8. CASE CommitWaits
    <3>1. CASE DisableTimer
      BY <3>1 DEF DisableTimer, commit_frame
    <3>2. CASE DisableDefer
      BY <3>2 DEF DisableDefer, commit_frame
    <3>3. CASE DisableWork
      BY <3>3 DEF DisableWork, commit_frame
    <3>4. CASE EnableTimer
      BY <3>4 DEF EnableTimer, commit_frame
    <3>5. CASE CommitLock
      BY <3>5 DEF CommitLock, commit_frame
    <3>6. QED
      BY <2>8, <3>1, <3>2, <3>3, <3>4, <3>5 DEF CommitWaits
  <2>9. CASE CommitRuns
    <3>1. CASE DisableFlag
      BY <3>1 DEF DisableFlag, commit_frame
    <3>2. CASE DisableClear
      BY <3>2 DEF DisableClear, commit_frame
    <3>3. CASE DisableEnter
      BY <3>3 DEF DisableEnter, commit_frame, AfterDisable
    <3>4. CASE DisableOff
      BY <3>4 DEF DisableOff, commit_frame, CtrlOut, AfterDisable
    <3>5. CASE EnableCheck
      BY <3>5 DEF EnableCheck, commit_frame
    <3>6. CASE EnableEnter
      BY <3>6 DEF EnableEnter, commit_frame
    <3>7. CASE EnableOn
      BY <3>7 DEF EnableOn, commit_frame, CtrlOut
    <3>8. CASE EnableActive
      BY <3>8 DEF EnableActive, commit_frame
    <3>9. CASE PlaneCheck
      BY <3>9 DEF PlaneCheck, commit_frame
    <3>10. CASE PlaneEnter
      BY <3>10 DEF PlaneEnter, commit_frame
    <3>11. CASE PlaneStage
      BY <3>11 DEF PlaneStage, commit_frame
    <3>12. CASE PlaneQueue
      BY <3>12 DEF PlaneQueue, commit_frame, QueueTxWork
    <3>13. QED
      BY <2>9, <3>1, <3>2, <3>3, <3>4, <3>5, <3>6, <3>7, <3>8, <3>9, <3>10,
         <3>11, <3>12 DEF CommitRuns
  <2>10. CASE Worker
    <3>1. CASE WorkStart
      BY <3>1 DEF WorkStart, worker_frame
    <3>2. CASE WorkPop
      BY <3>2 DEF WorkPop, worker_frame
    <3>3. CASE WorkGate
      BY <3>3 DEF WorkGate, worker_frame
    <3>4. CASE WorkRequeue
      BY <3>4 DEF WorkRequeue, worker_frame
    <3>5. CASE WorkDefer
      BY <3>5 DEF WorkDefer, worker_frame
    <3>6. CASE WorkDamage
      BY <3>6 DEF WorkDamage, worker_frame
    <3>7. CASE WorkEnter
      BY <3>7 DEF WorkEnter, worker_frame
    <3>8. CASE WorkSend
      BY <3>8 DEF WorkSend, worker_frame
    <3>9. CASE WorkTransfer
      BY <3>9 DEF WorkTransfer, worker_frame
    <3>10. CASE WorkAck
      BY <3>10 DEF WorkAck, worker_frame
    <3>11. CASE WorkArm
      BY <3>11 DEF WorkArm, worker_frame
    <3>12. CASE WorkUnlock
      BY <3>12 DEF WorkUnlock, worker_frame
    <3>13. CASE WorkDone
      BY <3>13 DEF WorkDone, worker_frame, QueueTxWork
    <3>14. QED
      BY <2>10, <3>1, <3>2, <3>3, <3>4, <3>5, <3>6, <3>7, <3>8, <3>9, <3>10,
         <3>11, <3>12, <3>13 DEF Worker
  <2>11. CASE Callbacks
    <3>1. CASE TimerCheck
      BY <3>1 DEF TimerCheck, callback_frame, RefreshEligible, RefreshAllowed
    <3>2. CASE TimerRearm
      BY <3>2 DEF TimerRearm, callback_frame
    <3>3. CASE TimerDue
      BY <3>3 DEF TimerDue, callback_frame
    <3>4. CASE TimerQueue
      BY <3>4 DEF TimerQueue, callback_frame, QueueTxWork
    <3>5. CASE DeferRuns
      BY <3>5 DEF DeferRuns, callback_frame, QueueTxWork
    <3>6. QED
      BY <2>11, <3>1, <3>2, <3>3, <3>4, <3>5 DEF Callbacks
  <2>12. CASE UsbBegins
    <3>1. CASE DisconnectBegins
      BY <3>1 DEF DisconnectBegins, usb_frame
    <3>2. CASE SuspendBegins
      BY <3>2 DEF SuspendBegins, usb_frame
    <3>3. CASE Resume
      BY <3>3 DEF Resume, usb_frame
    <3>4. QED
      BY <2>12, <3>1, <3>2, <3>3 DEF UsbBegins
  <2>13. CASE UsbWaits
    <3>1. CASE DisconnectSynced
      BY <3>1 DEF DisconnectSynced, usb_frame
    <3>2. CASE CancelTimer
      BY <3>2 DEF CancelTimer, usb_frame
    <3>3. CASE CancelDefer
      BY <3>3 DEF CancelDefer, usb_frame
    <3>4. CASE CancelWork
      BY <3>4 DEF CancelWork, usb_frame
    <3>5. CASE DestroyQueue
      BY <3>5 DEF DestroyQueue, usb_frame
    <3>6. CASE FinalOffPolicy
      BY <3>6 DEF FinalOffPolicy, usb_frame
    <3>7. CASE Shutdown
      BY <3>7 DEF Shutdown, usb_frame
    <3>8. CASE FreeBuffers
      BY <3>8 DEF FreeBuffers
    <3>9. QED
      BY <2>13, <3>1, <3>2, <3>3, <3>4, <3>5, <3>6, <3>7, <3>8 DEF UsbWaits
  <2>14. CASE UsbRuns
    <3>1. CASE DisconnectUnplugs
      BY <3>1 DEF DisconnectUnplugs, usb_frame
    <3>2. CASE CancelFlag
      BY <3>2 DEF CancelFlag, usb_frame
    <3>3. CASE CancelDue
      BY <3>3 DEF CancelDue, usb_frame
    <3>4. CASE FinalOffRequest
      BY <3>4 DEF FinalOffRequest, usb_frame
    <3>5. QED
      BY <2>14, <3>1, <3>2, <3>3, <3>4 DEF UsbRuns
  <2>15. CASE UNCHANGED vars
    BY <2>15 DEF vars
  <2>16. QED
    BY <2>1, <2>2, <2>3, <2>4, <2>5, <2>6, <2>7, <2>8, <2>9, <2>10, <2>11,
       <2>12, <2>13, <2>14, <2>15 DEF Next, Unbound
<1>3. QED
  BY <1>1, <1>2, Typing, PTL DEF Spec

\* When a disable of a RAW head sends monitor-off, no worker, timer callback or
\* delayed work of the head is running or waiting to run.
THEOREM RawQuietAtMonitorOff ==
  ASSUME Transport = "RAW" PROVE Spec => []QuietAtMonitorOff
<1>1. DisableInv => QuietAtMonitorOff
  BY DEF DisableInv, Disabling, QuietAtMonitorOff, Quiet
<1>2. QED
  BY <1>1, DisableInvariant, PTL

-----------------------------------------------------------------------------
(* Release of the buffers of a RAW head *)

\* The destroyed workqueue stays empty, and nothing arms the timer again once
\* t6_free_head_buffers deleted it.
ReleaseInv ==
  /\ wq = "gone" => ~tx_work_queued
  /\ buffers = "freed" => u = "gone" /\ k = "idle" /\ ~timer_armed

\* ReleaseInv holds in every reachable state.
LEMMA ReleaseInvariant == Spec => []ReleaseInv
<1>1. Init => ReleaseInv
  BY ParamsAssumption DEF Init, ReleaseInv, UnplugInv, AfterQueue, CommitInDrm
<1>2. TypeOK /\ UnplugInv /\ ReleaseInv /\ [Next]_vars => ReleaseInv'
  <2> SUFFICES ASSUME TypeOK, UnplugInv, ReleaseInv, [Next]_vars
               PROVE  ReleaseInv'
    OBVIOUS
  <2> USE DEF TypeOK, ReleaseInv, UnplugInv, AfterQueue, CommitInDrm
  <2>1. CASE RefreshDeadlinePasses
    BY <2>1 DEF RefreshDeadlinePasses
  <2>2. CASE GateOpens
    BY <2>2 DEF GateOpens
  <2>3. CASE Detach
    BY <2>3 DEF Detach
  <2>4. CASE WorkLock
    BY <2>4 DEF WorkLock, worker_frame
  <2>5. CASE TimerFires
    BY <2>5 DEF TimerFires, callback_frame
  <2>6. CASE DeferFires
    BY <2>6 DEF DeferFires, callback_frame
  <2>7. CASE CommitBegins
    BY <2>7 DEF CommitBegins, CommitOn, commit_frame, CommitFlip, CommitOff,
       CommitModeset
  <2>8. CASE CommitWaits
    BY <2>8 DEF CommitWaits, DisableTimer, commit_frame, DisableDefer,
       DisableWork, EnableTimer, CommitLock
  <2>9. CASE CommitRuns
    <3>1. CASE DisableFlag
      BY <3>1 DEF DisableFlag, commit_frame
    <3>2. CASE DisableClear
      BY <3>2 DEF DisableClear, commit_frame
    <3>3. CASE DisableEnter
      BY <3>3 DEF DisableEnter, commit_frame, AfterDisable
    <3>4. CASE DisableOff
      BY <3>4 DEF DisableOff, commit_frame, CtrlOut, AfterDisable
    <3>5. CASE EnableCheck
      BY <3>5 DEF EnableCheck, commit_frame
    <3>6. CASE EnableEnter
      BY <3>6 DEF EnableEnter, commit_frame
    <3>7. CASE EnableOn
      BY <3>7 DEF EnableOn, commit_frame, CtrlOut
    <3>8. CASE EnableActive
      BY <3>8 DEF EnableActive, commit_frame
    <3>9. CASE PlaneCheck
      BY <3>9 DEF PlaneCheck, commit_frame
    <3>10. CASE PlaneEnter
      BY <3>10 DEF PlaneEnter, commit_frame
    <3>11. CASE PlaneStage
      BY <3>11 DEF PlaneStage, commit_frame
    <3>12. CASE PlaneQueue
      BY <3>12 DEF PlaneQueue, commit_frame, QueueTxWork
    <3>13. QED
      BY <2>9, <3>1, <3>2, <3>3, <3>4, <3>5, <3>6, <3>7, <3>8, <3>9, <3>10,
         <3>11, <3>12 DEF CommitRuns
  <2>10. CASE Worker
    BY <2>10 DEF Worker, WorkStart, worker_frame, WorkPop, WorkGate,
       WorkRequeue, WorkDefer, WorkDamage, WorkEnter, WorkSend, WorkTransfer,
       WorkAck, WorkArm, WorkUnlock, WorkDone, QueueTxWork
  <2>11. CASE Callbacks
    BY <2>11 DEF Callbacks, TimerCheck, callback_frame, TimerRearm, TimerDue,
       TimerQueue, QueueTxWork, DeferRuns
  <2>12. CASE UsbBegins
    BY <2>12 DEF UsbBegins, DisconnectBegins, usb_frame, SuspendBegins,
       Resume
  <2>13. CASE UsbWaits
    BY <2>13 DEF UsbWaits, DisconnectSynced, usb_frame, CancelTimer,
       CancelDefer, CancelWork, DestroyQueue, FinalOffPolicy, Shutdown,
       FreeBuffers
  <2>14. CASE UsbRuns
    BY <2>14 DEF UsbRuns, DisconnectUnplugs, usb_frame, CancelFlag,
       CancelDue, FinalOffRequest
  <2>15. CASE UNCHANGED vars
    BY <2>15 DEF vars
  <2>16. QED
    BY <2>1, <2>2, <2>3, <2>4, <2>5, <2>6, <2>7, <2>8, <2>9, <2>10, <2>11,
       <2>12, <2>13, <2>14, <2>15 DEF Next, Unbound
<1>3. QED
  BY <1>1, <1>2, Typing, UnplugInvariant, PTL DEF Spec

\* Nothing of a RAW head runs on the workqueue once it is destroyed, nor uses
\* the frame buffers once they are freed.
THEOREM RawDrainedBeforeRelease ==
  ASSUME Transport = "RAW" PROVE Spec => []DrainedBeforeRelease
<1>1. UnplugInv /\ DisableInv /\ ReleaseInv => DrainedBeforeRelease
  BY DEF UnplugInv, AfterQueue, DisableInv, ReleaseInv, DrainedBeforeRelease,
     Quiet
<1>2. QED
  BY <1>1, UnplugInvariant, DisableInvariant, ReleaseInvariant, PTL

\* On any head all that can outlive the workqueue is the delay of
\* tx_defer_work, whose expiry would queue its work on a queue that is gone:
\* the worker rests for good and, once the buffers are freed, the timer and its
\* callback rest too and no commit is inside a DRM section.
OnlyDelaySurvives ==
  /\ wq = "gone" => w = "idle" /\ ~tx_work_queued
  /\ buffers = "freed" =>
       /\ w = "idle" /\ ~tx_work_queued /\ k = "idle" /\ ~timer_armed
       /\ ~CommitInDrm

\* Nothing but the delay of a deferred frame survives the release of a head.
THEOREM DelayIsTheOnlySurvivor == Spec => []OnlyDelaySurvives
<1>1. UnplugInv /\ ReleaseInv => OnlyDelaySurvives
  BY DEF UnplugInv, AfterQueue, ReleaseInv, OnlyDelaySurvives
<1>2. QED
  BY <1>1, UnplugInvariant, ReleaseInvariant, PTL

-----------------------------------------------------------------------------
(* A blanked RAW head *)

\* Stages of disconnect from the clearing of scanout_active to the end.
Unplugged == {"timer", "defer", "work", "due", "flush"} \cup AfterQueue

\* While the monitor is off nothing of the head is running or queued, and a
\* commit can stage a frame only after a monitor-on that was obeyed: one that
\* failed latched the fault, which the plane update checks.  During disconnect
\* the plane update is stopped by drm_dev_enter instead.
BlankInv ==
  /\ unplugged /\ u \in Unplugged => ~scanout_active
  /\ unplugged /\ u \in Unplugged \ {"timer"} => k \in {"idle", "check"}
  /\ monitor = "off" =>
       /\ w = "idle" /\ ~tx_work_queued /\ ~scanout_active
       /\ k \in {"idle", "check"}
       /\ c \notin {"e_active", "p_stage", "p_queue"}
       /\ c = "p_enter" => unplugged
       /\ c = "p_check" \/ (c = "idle" /\ crtc_on) => Faulted \/ unplugged

\* BlankInv holds in every reachable state of a RAW head.
LEMMA BlankInvariant == ASSUME Transport = "RAW" PROVE Spec => []BlankInv
<1>1. Init => BlankInv
  BY ParamsAssumption DEF Init, BlankInv, Unplugged, DisableInv, Disabling,
     UnplugInv, AfterQueue, CommitInDrm, Faulted, RuntimeConnected
<1>2. TypeOK /\ UnplugInv /\ DisableInv /\ ReleaseInv /\ BlankInv
        /\ [Next]_vars => BlankInv'
  <2> SUFFICES ASSUME TypeOK, UnplugInv, DisableInv, ReleaseInv,
                      BlankInv, [Next]_vars
               PROVE  BlankInv'
    OBVIOUS
  <2> USE DEF TypeOK, BlankInv, Unplugged, DisableInv, Disabling, UnplugInv,
     AfterQueue, CommitInDrm, Faulted, RuntimeConnected
  <2>1. CASE RefreshDeadlinePasses
    BY <2>1 DEF RefreshDeadlinePasses
  <2>2. CASE GateOpens
    BY <2>2 DEF GateOpens
  <2>3. CASE Detach
    BY <2>3 DEF Detach
  <2>4. CASE WorkLock
    BY <2>4 DEF WorkLock, worker_frame
  <2>5. CASE TimerFires
    BY <2>5 DEF TimerFires, callback_frame
  <2>6. CASE DeferFires
    BY <2>6 DEF DeferFires, callback_frame
  <2>7. CASE CommitBegins
    <3>1. CASE CommitOn
      BY <3>1 DEF CommitOn, commit_frame
    <3>2. CASE CommitFlip
      BY <3>2 DEF CommitFlip, commit_frame
    <3>3. CASE CommitOff
      BY <3>3 DEF CommitOff, commit_frame
    <3>4. CASE CommitModeset
      BY <3>4 DEF CommitModeset, commit_frame
    <3>5. QED
      BY <2>7, <3>1, <3>2, <3>3, <3>4 DEF CommitBegins
  <2>8. CASE CommitWaits
    <3>1. CASE DisableTimer
      BY <3>1 DEF DisableTimer, commit_frame
    <3>2. CASE DisableDefer
      BY <3>2 DEF DisableDefer, commit_frame
    <3>3. CASE DisableWork
      BY <3>3 DEF DisableWork, commit_frame
    <3>4. CASE EnableTimer
      BY <3>4 DEF EnableTimer, commit_frame
    <3>5. CASE CommitLock
      BY <3>5 DEF CommitLock, commit_frame
    <3>6. QED
      BY <2>8, <3>1, <3>2, <3>3, <3>4, <3>5 DEF CommitWaits
  <2>9. CASE CommitRuns
    <3>1. CASE DisableFlag
      BY <3>1 DEF DisableFlag, commit_frame
    <3>2. CASE DisableClear
      BY <3>2 DEF DisableClear, commit_frame
    <3>3. CASE DisableEnter
      BY <3>3 DEF DisableEnter, commit_frame, AfterDisable
    <3>4. CASE DisableOff
      BY <3>4 DEF DisableOff, commit_frame, CtrlOut, AfterDisable
    <3>5. CASE EnableCheck
      BY <3>5 DEF EnableCheck, commit_frame
    <3>6. CASE EnableEnter
      BY <3>6 DEF EnableEnter, commit_frame
    <3>7. CASE EnableOn
      BY <3>7 DEF EnableOn, commit_frame, CtrlOut
    <3>8. CASE EnableActive
      BY <3>8 DEF EnableActive, commit_frame
    <3>9. CASE PlaneCheck
      BY <3>9 DEF PlaneCheck, commit_frame
    <3>10. CASE PlaneEnter
      BY <3>10 DEF PlaneEnter, commit_frame
    <3>11. CASE PlaneStage
      BY <3>11 DEF PlaneStage, commit_frame
    <3>12. CASE PlaneQueue
      BY <3>12 DEF PlaneQueue, commit_frame, QueueTxWork
    <3>13. QED
      BY <2>9, <3>1, <3>2, <3>3, <3>4, <3>5, <3>6, <3>7, <3>8, <3>9, <3>10,
         <3>11, <3>12 DEF CommitRuns
  <2>10. CASE Worker
    <3>1. CASE WorkStart
      BY <3>1 DEF WorkStart, worker_frame
    <3>2. CASE WorkPop
      BY <3>2 DEF WorkPop, worker_frame
    <3>3. CASE WorkGate
      BY <3>3 DEF WorkGate, worker_frame
    <3>4. CASE WorkRequeue
      BY <3>4 DEF WorkRequeue, worker_frame
    <3>5. CASE WorkDefer
      BY <3>5 DEF WorkDefer, worker_frame
    <3>6. CASE WorkDamage
      BY <3>6 DEF WorkDamage, worker_frame
    <3>7. CASE WorkEnter
      BY <3>7 DEF WorkEnter, worker_frame
    <3>8. CASE WorkSend
      BY <3>8 DEF WorkSend, worker_frame
    <3>9. CASE WorkTransfer
      BY <3>9 DEF WorkTransfer, worker_frame
    <3>10. CASE WorkAck
      BY <3>10 DEF WorkAck, worker_frame
    <3>11. CASE WorkArm
      BY <3>11 DEF WorkArm, worker_frame
    <3>12. CASE WorkUnlock
      BY <3>12 DEF WorkUnlock, worker_frame
    <3>13. CASE WorkDone
      BY <3>13 DEF WorkDone, worker_frame, QueueTxWork
    <3>14. QED
      BY <2>10, <3>1, <3>2, <3>3, <3>4, <3>5, <3>6, <3>7, <3>8, <3>9, <3>10,
         <3>11, <3>12, <3>13 DEF Worker
  <2>11. CASE Callbacks
    <3>1. CASE TimerCheck
      BY <3>1 DEF TimerCheck, callback_frame, RefreshEligible, RefreshAllowed
    <3>2. CASE TimerRearm
      BY <3>2 DEF TimerRearm, callback_frame
    <3>3. CASE TimerDue
      BY <3>3 DEF TimerDue, callback_frame
    <3>4. CASE TimerQueue
      BY <3>4 DEF TimerQueue, callback_frame, QueueTxWork
    <3>5. CASE DeferRuns
      BY <3>5 DEF DeferRuns, callback_frame, QueueTxWork
    <3>6. QED
      BY <2>11, <3>1, <3>2, <3>3, <3>4, <3>5 DEF Callbacks
  <2>12. CASE UsbBegins
    <3>1. CASE DisconnectBegins
      BY <3>1 DEF DisconnectBegins, usb_frame
    <3>2. CASE SuspendBegins
      BY <3>2 DEF SuspendBegins, usb_frame
    <3>3. CASE Resume
      BY <3>3 DEF Resume, usb_frame
    <3>4. QED
      BY <2>12, <3>1, <3>2, <3>3 DEF UsbBegins
  <2>13. CASE UsbWaits
    <3>1. CASE DisconnectSynced
      BY <3>1 DEF DisconnectSynced, usb_frame
    <3>2. CASE CancelTimer
      BY <3>2 DEF CancelTimer, usb_frame
    <3>3. CASE CancelDefer
      BY <3>3 DEF CancelDefer, usb_frame
    <3>4. CASE CancelWork
      BY <3>4 DEF CancelWork, usb_frame
    <3>5. CASE DestroyQueue
      BY <3>5 DEF DestroyQueue, usb_frame
    <3>6. CASE FinalOffPolicy
      BY <3>6 DEF FinalOffPolicy, usb_frame
    <3>7. CASE Shutdown
      BY <3>7 DEF Shutdown, usb_frame
    <3>8. CASE FreeBuffers
      BY <3>8 DEF FreeBuffers
    <3>9. QED
      BY <2>13, <3>1, <3>2, <3>3, <3>4, <3>5, <3>6, <3>7, <3>8 DEF UsbWaits
  <2>14. CASE UsbRuns
    <3>1. CASE DisconnectUnplugs
      BY <3>1 DEF DisconnectUnplugs, usb_frame
    <3>2. CASE CancelFlag
      BY <3>2 DEF CancelFlag, usb_frame
    <3>3. CASE CancelDue
      BY <3>3 DEF CancelDue, usb_frame
    <3>4. CASE FinalOffRequest
      BY <3>4 DEF FinalOffRequest, usb_frame, FinalOffAllowed, ReleaseInv
    <3>5. QED
      BY <2>14, <3>1, <3>2, <3>3, <3>4 DEF UsbRuns
  <2>15. CASE UNCHANGED vars
    BY <2>15 DEF vars
  <2>16. QED
    BY <2>1, <2>2, <2>3, <2>4, <2>5, <2>6, <2>7, <2>8, <2>9, <2>10, <2>11,
       <2>12, <2>13, <2>14, <2>15 DEF Next, Unbound
<1>3. QED
  BY <1>1, <1>2, Typing, UnplugInvariant, DisableInvariant, ReleaseInvariant,
     PTL DEF Spec

\* No frame travels to a RAW adapter whose monitor is off.
THEOREM RawFramesOnlyWhileOn ==
  ASSUME Transport = "RAW" PROVE Spec => []FramesOnlyWhileOn
<1>1. TypeOK /\ BlankInv => FramesOnlyWhileOn
  BY DEF TypeOK, BlankInv, FramesOnlyWhileOn
<1>2. QED
  BY <1>1, Typing, BlankInvariant, PTL

=============================================================================
