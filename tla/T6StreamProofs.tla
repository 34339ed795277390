--------------------------- MODULE T6StreamProofs ---------------------------
(***************************************************************************)
(* Theorems about what T6Head shows: the damage reference, the newest frame, *)
(* the refresh chain, and that the head implements T6Screen.                 *)
(***************************************************************************)
EXTENDS T6DrainProofs, Naturals

USE DEF faults, life, stream, refs, async, clock, adapter, wlocals, drm

-----------------------------------------------------------------------------
(* The damage reference *)

\* A failure leaves the device faulted; a RAW head is not paced, an NV12 head
\* not refreshed.  Until it has popped one, a worker is after a frame.
FaultInv ==
  /\ head_faulted \/ ~w_ok => io_faulted
  /\ Transport = "RAW" => gate_open /\ w \notin {"requeue", "defer"}
  /\ Transport = "NV12" \/ w = "pop" => w_kind = "frame"

\* FaultInv holds in every reachable state.
LEMMA FaultInvariant == Spec => []FaultInv
<1>1. Init => FaultInv
  BY ParamsAssumption, FramesAssumption DEF Init, FaultInv, Faulted
<1>2. TypeOK /\ FaultInv /\ [Next]_vars => FaultInv'
  <2> SUFFICES ASSUME TypeOK, FaultInv, [Next]_vars
               PROVE  FaultInv'
    OBVIOUS
    <2> USE DEF FaultInv, TypeOK, Faulted, RefreshEligible, RefreshAllowed
  <2>1. CASE RefreshDeadlinePasses
    BY <2>1 DEF RefreshDeadlinePasses
  <2>2. CASE GateOpens
    BY <2>2 DEF GateOpens
  <2>3. CASE Detach
    BY <2>3 DEF Detach
  <2>4. CASE WorkLock
    BY <2>4 DEF WorkLock, worker_frame
  <2>5. CASE TimerFires
    BY <2>5 DEF TimerFires, callback_frame
  <2>6. CASE DeferFires
    BY <2>6 DEF DeferFires, callback_frame
  <2>7. CASE CommitBegins
    BY <2>7 DEF CommitBegins, commit_frame, CommitOn, CommitFlip, CommitOff,
       CommitModeset
  <2>8. CASE CommitWaits
    BY <2>8 DEF CommitWaits, commit_frame, DisableTimer, DisableDefer,
       DisableWork, EnableTimer, CommitLock
  <2>9. CASE CommitRuns
    <3>1. CASE DisableFlag
      BY <3>1 DEF DisableFlag, commit_frame
    <3>2. CASE DisableClear
      BY <3>2 DEF DisableClear, commit_frame
    <3>3. CASE DisableEnter
      BY <3>3 DEF DisableEnter, commit_frame, AfterDisable
    <3>4. CASE DisableOff
      BY <3>4 DEF DisableOff, commit_frame, CtrlOut, AfterDisable
    <3>5. CASE EnableCheck
      BY <3>5 DEF EnableCheck, commit_frame
    <3>6. CASE EnableEnter
      BY <3>6 DEF EnableEnter, commit_frame
    <3>7. CASE EnableOn
      BY <3>7 DEF EnableOn, commit_frame, CtrlOut
    <3>8. CASE EnableActive
      BY <3>8 DEF EnableActive, commit_frame
    <3>9. CASE PlaneCheck
      BY <3>9 DEF PlaneCheck, commit_frame
    <3>10. CASE PlaneEnter
      BY <3>10 DEF PlaneEnter, commit_frame
    <3>11. CASE PlaneStage
      BY <3>11 DEF PlaneStage, commit_frame
    <3>12. CASE PlaneQueue
      BY <3>12 DEF PlaneQueue, commit_frame, QueueTxWork
    <3>13. QED
      BY <2>9, <3>1, <3>2, <3>3, <3>4, <3>5, <3>6, <3>7, <3>8, <3>9, <3>10,
         <3>11, <3>12 DEF CommitRuns
  <2>10. CASE Worker
    <3>1. CASE WorkStart
      BY <3>1 DEF WorkStart, worker_frame
    <3>2. CASE WorkPop
      BY <3>2 DEF WorkPop, worker_frame
    <3>3. CASE WorkGate
      BY <3>3 DEF WorkGate, worker_frame
    <3>4. CASE WorkRequeue
      BY <3>4 DEF WorkRequeue, worker_frame
    <3>5. CASE WorkDefer
      BY <3>5 DEF WorkDefer, worker_frame
    <3>6. CASE WorkDamage
      BY <3>6 DEF WorkDamage, worker_frame
    <3>7. CASE WorkEnter
      BY <3>7 DEF WorkEnter, worker_frame
    <3>8. CASE WorkSend
      BY <3>8 DEF WorkSend, worker_frame
    <3>9. CASE WorkTransfer
      BY <3>9 DEF WorkTransfer, worker_frame
    <3>10. CASE WorkAck
      BY <3>10 DEF WorkAck, worker_frame
    <3>11. CASE WorkArm
      BY <3>11 DEF WorkArm, worker_frame
    <3>12. CASE WorkUnlock
      BY <3>12 DEF WorkUnlock, worker_frame
    <3>13. CASE WorkDone
      BY <3>13 DEF WorkDone, worker_frame, QueueTxWork
    <3>14. QED
      BY <2>10, <3>1, <3>2, <3>3, <3>4, <3>5, <3>6, <3>7, <3>8, <3>9, <3>10,
         <3>11, <3>12, <3>13 DEF Worker
  <2>11. CASE Callbacks
    BY <2>11 DEF Callbacks, callback_frame, TimerCheck, TimerRearm, TimerDue,
       TimerQueue, QueueTxWork, DeferRuns
  <2>12. CASE UsbBegins
    BY <2>12 DEF UsbBegins, usb_frame, DisconnectBegins, SuspendBegins, Resume
  <2>13. CASE UsbWaits
    BY <2>13 DEF UsbWaits, usb_frame, DisconnectSynced, CancelTimer,
       CancelDefer, CancelWork, DestroyQueue, FinalOffPolicy, Shutdown,
       FreeBuffers
  <2>14. CASE UsbRuns
    BY <2>14 DEF UsbRuns, usb_frame, DisconnectUnplugs, CancelFlag, CancelDue,
       FinalOffRequest
  <2>15. CASE UNCHANGED vars
    BY <2>15 DEF vars
  <2>16. QED
    BY <2>1, <2>2, <2>3, <2>4, <2>5, <2>6, <2>7, <2>8, <2>9, <2>10, <2>11,
       <2>12, <2>13, <2>14, <2>15 DEF Next, Unbound
<1>3. QED
  BY <1>1, <1>2, Typing, PTL DEF Spec

\* The worker holds a frame the adapter does not show yet.
CarriesFrame ==
  w_kind = "frame"
  /\ w \in {"gate", "requeue", "damage", "lock", "enter", "send", "xfer"}

\* An NV12 worker has shown its frame and not yet made it the reference.
Unreferenced ==
  Transport = "NV12" /\ (w = "arm" \/ (w_ok /\ w \in {"unlock", "done"}))

\* What is shown at each stage of the worker.  A torn frame belongs to a
\* transfer under way, or to a fault that no later work gets past.
ShownInv ==
  /\ w = "xfer" => shown = Torn
  /\ shown = Torn =>
       w = "xfer" \/ (io_faulted /\ w \in {"unlock", "done", "idle"})
  /\ w_kind = "frame" /\ w = "ack" => shown = tx_front
  /\ w_kind = "refresh" /\ w = "ack" => shown = last_sent_frame
  /\ Unreferenced => shown = tx_front
  /\ last_sent_valid /\ ~io_faulted /\ w \notin {"xfer", "ack"}
     /\ (Transport = "NV12" => w \notin {"arm", "unlock", "done"})
       => shown = last_sent_frame

\* The buffers hold frames wherever they are read.
HeldInv ==
  /\ tx_pending => tx_back \in Frames
  /\ CarriesFrame \/ Unreferenced \/ (w = "ack" /\ w_kind = "frame")
       => tx_front \in Frames
  /\ last_sent_valid \/ (w_kind = "refresh" /\ w = "xfer")
       => last_sent_frame \in Frames

\* HeldInv holds in every reachable state.
LEMMA HeldInvariant == Spec => []HeldInv
<1>1. Init => HeldInv
  BY ParamsAssumption, FramesAssumption DEF Init, HeldInv, CarriesFrame,
     Unreferenced
<1>2. TypeOK /\ UnplugInv /\ FaultInv /\ HeldInv /\ [Next]_vars => HeldInv'
  <2> SUFFICES ASSUME TypeOK, UnplugInv, FaultInv, HeldInv, [Next]_vars
               PROVE  HeldInv'
    OBVIOUS
    <2> USE DEF HeldInv, TypeOK, UnplugInv, FaultInv, AfterQueue, CarriesFrame,
     Unreferenced, Faulted, RefreshEligible, RefreshAllowed, RuntimeConnected
  <2>1. CASE RefreshDeadlinePasses
    BY <2>1 DEF RefreshDeadlinePasses
  <2>2. CASE GateOpens
    BY <2>2 DEF GateOpens
  <2>3. CASE Detach
    BY <2>3 DEF Detach
  <2>4. CASE WorkLock
    BY <2>4 DEF WorkLock, worker_frame
  <2>5. CASE TimerFires
    BY <2>5 DEF TimerFires, callback_frame
  <2>6. CASE DeferFires
    BY <2>6 DEF DeferFires, callback_frame
  <2>7. CASE CommitBegins
    BY <2>7 DEF CommitBegins, commit_frame, CommitOn, CommitFlip, CommitOff,
       CommitModeset
  <2>8. CASE CommitWaits
    BY <2>8 DEF CommitWaits, commit_frame, DisableTimer, DisableDefer,
       DisableWork, EnableTimer, CommitLock
  <2>9. CASE CommitRuns
    BY <2>9 DEF CommitRuns, commit_frame, DisableFlag, DisableClear,
       DisableEnter, AfterDisable, DisableOff, CtrlOut, EnableCheck,
       EnableEnter, EnableOn, EnableActive, PlaneCheck, PlaneEnter, PlaneStage,
       PlaneQueue, QueueTxWork
  <2>10. CASE Worker
    <3>1. CASE WorkStart
      BY <3>1 DEF WorkStart, worker_frame
    <3>2. CASE WorkPop
      BY <3>2 DEF WorkPop, worker_frame
    <3>3. CASE WorkGate
      BY <3>3 DEF WorkGate, worker_frame
    <3>4. CASE WorkRequeue
      BY <3>4 DEF WorkRequeue, worker_frame
    <3>5. CASE WorkDefer
      BY <3>5 DEF WorkDefer, worker_frame
    <3>6. CASE WorkDamage
      BY <3>6 DEF WorkDamage, worker_frame
    <3>7. CASE WorkEnter
      BY <3>7 DEF WorkEnter, worker_frame
    <3>8. CASE WorkSend
      BY <3>8 DEF WorkSend, worker_frame, SendSkipped
    <3>9. CASE WorkTransfer
      BY <3>9 DEF WorkTransfer, worker_frame
    <3>10. CASE WorkAck
      BY <3>10 DEF WorkAck, worker_frame
    <3>11. CASE WorkArm
      BY <3>11 DEF WorkArm, worker_frame
    <3>12. CASE WorkUnlock
      BY <3>12 DEF WorkUnlock, worker_frame
    <3>13. CASE WorkDone
      BY <3>13 DEF WorkDone, worker_frame, QueueTxWork
    <3>14. QED
      BY <2>10, <3>1, <3>2, <3>3, <3>4, <3>5, <3>6, <3>7, <3>8, <3>9, <3>10,
         <3>11, <3>12, <3>13 DEF Worker
  <2>11. CASE Callbacks
    BY <2>11 DEF Callbacks, callback_frame, TimerCheck, TimerRearm, TimerDue,
       TimerQueue, QueueTxWork, DeferRuns
  <2>12. CASE UsbBegins
    BY <2>12 DEF UsbBegins, usb_frame, DisconnectBegins, SuspendBegins, Resume
  <2>13. CASE UsbWaits
    BY <2>13 DEF UsbWaits, usb_frame, DisconnectSynced, CancelTimer,
       CancelDefer, CancelWork, DestroyQueue, FinalOffPolicy, Shutdown,
       FreeBuffers
  <2>14. CASE UsbRuns
    BY <2>14 DEF UsbRuns, usb_frame, DisconnectUnplugs, CancelFlag, CancelDue,
       FinalOffRequest
  <2>15. CASE UNCHANGED vars
    BY <2>15 DEF vars
  <2>16. QED
    BY <2>1, <2>2, <2>3, <2>4, <2>5, <2>6, <2>7, <2>8, <2>9, <2>10, <2>11,
       <2>12, <2>13, <2>14, <2>15 DEF Next, Unbound
<1>3. QED
  BY <1>1, <1>2, Typing, UnplugInvariant, FaultInvariant, PTL DEF Spec

\* ShownInv holds in every reachable state.
LEMMA ShownInvariant == Spec => []ShownInv
<1>1. Init => ShownInv
  BY ParamsAssumption, FramesAssumption DEF Init, ShownInv, CarriesFrame,
     Unreferenced, NoFrame, Torn
<1>2. TypeOK /\ UnplugInv /\ FaultInv /\ HeldInv /\ ShownInv /\ [Next]_vars => ShownInv'
  <2> SUFFICES ASSUME TypeOK, UnplugInv, FaultInv, HeldInv, ShownInv, [Next]_vars
               PROVE  ShownInv'
    OBVIOUS
    <2> USE DEF ShownInv, TypeOK, UnplugInv, FaultInv, AfterQueue, CarriesFrame,
     Unreferenced, Faulted, RefreshEligible, RefreshAllowed, RuntimeConnected,
     HeldInv
  <2>1. CASE RefreshDeadlinePasses
    BY <2>1 DEF RefreshDeadlinePasses
  <2>2. CASE GateOpens
    BY <2>2 DEF GateOpens
  <2>3. CASE Detach
    BY <2>3 DEF Detach
  <2>4. CASE WorkLock
    BY <2>4 DEF WorkLock, worker_frame
  <2>5. CASE TimerFires
    BY <2>5 DEF TimerFires, callback_frame
  <2>6. CASE DeferFires
    BY <2>6 DEF DeferFires, callback_frame
  <2>7. CASE CommitBegins
    BY <2>7 DEF CommitBegins, commit_frame, CommitOn, CommitFlip, CommitOff,
       CommitModeset
  <2>8. CASE CommitWaits
    BY <2>8 DEF CommitWaits, commit_frame, DisableTimer, DisableDefer,
       DisableWork, EnableTimer, CommitLock
  <2>9. CASE CommitRuns
    BY <2>9 DEF CommitRuns, commit_frame, DisableFlag, DisableClear,
       DisableEnter, AfterDisable, DisableOff, CtrlOut, EnableCheck,
       EnableEnter, EnableOn, EnableActive, PlaneCheck, PlaneEnter, PlaneStage,
       PlaneQueue, QueueTxWork
  <2>10. CASE Worker
    <3>1. CASE WorkStart
      BY <3>1 DEF WorkStart, worker_frame
    <3>2. CASE WorkPop
      BY <3>2 DEF WorkPop, worker_frame
    <3>3. CASE WorkGate
      BY <3>3 DEF WorkGate, worker_frame
    <3>4. CASE WorkRequeue
      BY <3>4 DEF WorkRequeue, worker_frame
    <3>5. CASE WorkDefer
      BY <3>5 DEF WorkDefer, worker_frame
    <3>6. CASE WorkDamage
      BY <3>6 DEF WorkDamage, worker_frame
    <3>7. CASE WorkEnter
      BY <3>7 DEF WorkEnter, worker_frame
    <3>8. CASE WorkSend
      BY <3>8 DEF WorkSend, worker_frame, SendSkipped, NoDamage
    <3>9. CASE WorkTransfer
      BY <3>9, FramesAssumption DEF WorkTransfer, worker_frame
    <3>10. CASE WorkAck
      BY <3>10 DEF WorkAck, worker_frame
    <3>11. CASE WorkArm
      BY <3>11 DEF WorkArm, worker_frame
    <3>12. CASE WorkUnlock
      BY <3>12 DEF WorkUnlock, worker_frame
    <3>13. CASE WorkDone
      BY <3>13 DEF WorkDone, worker_frame, QueueTxWork
    <3>14. QED
      BY <2>10, <3>1, <3>2, <3>3, <3>4, <3>5, <3>6, <3>7, <3>8, <3>9, <3>10,
         <3>11, <3>12, <3>13 DEF Worker
  <2>11. CASE Callbacks
    BY <2>11 DEF Callbacks, callback_frame, TimerCheck, TimerRearm, TimerDue,
       TimerQueue, QueueTxWork, DeferRuns
  <2>12. CASE UsbBegins
    BY <2>12 DEF UsbBegins, usb_frame, DisconnectBegins, SuspendBegins, Resume
  <2>13. CASE UsbWaits
    BY <2>13 DEF UsbWaits, usb_frame, DisconnectSynced, CancelTimer,
       CancelDefer, CancelWork, DestroyQueue, FinalOffPolicy, Shutdown,
       FreeBuffers
  <2>14. CASE UsbRuns
    BY <2>14 DEF UsbRuns, usb_frame, DisconnectUnplugs, CancelFlag, CancelDue,
       FinalOffRequest
  <2>15. CASE UNCHANGED vars
    BY <2>15 DEF vars
  <2>16. QED
    BY <2>1, <2>2, <2>3, <2>4, <2>5, <2>6, <2>7, <2>8, <2>9, <2>10, <2>11,
       <2>12, <2>13, <2>14, <2>15 DEF Next, Unbound
<1>3. QED
  BY <1>1, <1>2, Typing, UnplugInvariant, FaultInvariant, HeldInvariant, PTL
     DEF Spec

\* The rows that differ from the reference are all that has to be sent.
THEOREM ReferenceIsShown == Spec => []DamageReferenceIsShown
<1>1. ShownInv => DamageReferenceIsShown
  BY DEF ShownInv, DamageReferenceIsShown
<1>2. QED
  BY <1>1, ShownInvariant, PTL

-----------------------------------------------------------------------------
(* The newest frame *)

\* Over a sound link the newest frame waits in tx_back, travels with the
\* worker, or is shown; a refresh under way sends it once more.
NewestInv ==
  ~Faulted /\ ~unplugged =>
    /\ tx_pending => tx_back = newest
    /\ ~tx_pending =>
         /\ CarriesFrame => tx_front = newest
         /\ ~CarriesFrame /\ w = "xfer" => last_sent_frame = newest
         /\ ~CarriesFrame /\ w # "xfer" => shown = newest

\* NewestInv holds in every reachable state.
LEMMA NewestInvariant == Spec => []NewestInv
<1>1. Init => NewestInv
  BY ParamsAssumption, FramesAssumption DEF Init, NewestInv, CarriesFrame,
     Unreferenced
<1>2. TypeOK /\ UnplugInv /\ FaultInv /\ HeldInv /\ ShownInv /\ NewestInv /\ [Next]_vars => NewestInv'
  <2> SUFFICES ASSUME TypeOK, UnplugInv, FaultInv, HeldInv, ShownInv, NewestInv, [Next]_vars
               PROVE  NewestInv'
    OBVIOUS
    <2> USE DEF NewestInv, TypeOK, UnplugInv, FaultInv, AfterQueue, CarriesFrame,
     Unreferenced, Faulted, RefreshEligible, RefreshAllowed, RuntimeConnected,
     HeldInv, ShownInv
  <2>1. CASE RefreshDeadlinePasses
    BY <2>1 DEF RefreshDeadlinePasses
  <2>2. CASE GateOpens
    BY <2>2 DEF GateOpens
  <2>3. CASE Detach
    BY <2>3 DEF Detach
  <2>4. CASE WorkLock
    BY <2>4 DEF WorkLock, worker_frame
  <2>5. CASE TimerFires
    BY <2>5 DEF TimerFires, callback_frame
  <2>6. CASE DeferFires
    BY <2>6 DEF DeferFires, callback_frame
  <2>7. CASE CommitBegins
    BY <2>7 DEF CommitBegins, commit_frame, CommitOn, CommitFlip, CommitOff,
       CommitModeset
  <2>8. CASE CommitWaits
    BY <2>8 DEF CommitWaits, commit_frame, DisableTimer, DisableDefer,
       DisableWork, EnableTimer, CommitLock
  <2>9. CASE CommitRuns
    BY <2>9 DEF CommitRuns, commit_frame, DisableFlag, DisableClear,
       DisableEnter, AfterDisable, DisableOff, CtrlOut, EnableCheck,
       EnableEnter, EnableOn, EnableActive, PlaneCheck, PlaneEnter, PlaneStage,
       PlaneQueue, QueueTxWork
  <2>10. CASE Worker
    <3>1. CASE WorkStart
      BY <3>1 DEF WorkStart, worker_frame
    <3>2. CASE WorkPop
      BY <3>2 DEF WorkPop, worker_frame
    <3>3. CASE WorkGate
      BY <3>3 DEF WorkGate, worker_frame
    <3>4. CASE WorkRequeue
      BY <3>4 DEF WorkRequeue, worker_frame
    <3>5. CASE WorkDefer
      BY <3>5 DEF WorkDefer, worker_frame
    <3>6. CASE WorkDamage
      BY <3>6 DEF WorkDamage, worker_frame, NoDamage
    <3>7. CASE WorkEnter
      BY <3>7 DEF WorkEnter, worker_frame
    <3>8. CASE WorkSend
      BY <3>8 DEF WorkSend, worker_frame, SendSkipped, NoDamage
    <3>9. CASE WorkTransfer
      BY <3>9 DEF WorkTransfer, worker_frame
    <3>10. CASE WorkAck
      BY <3>10 DEF WorkAck, worker_frame
    <3>11. CASE WorkArm
      BY <3>11 DEF WorkArm, worker_frame
    <3>12. CASE WorkUnlock
      BY <3>12 DEF WorkUnlock, worker_frame
    <3>13. CASE WorkDone
      BY <3>13 DEF WorkDone, worker_frame, QueueTxWork
    <3>14. QED
      BY <2>10, <3>1, <3>2, <3>3, <3>4, <3>5, <3>6, <3>7, <3>8, <3>9, <3>10,
         <3>11, <3>12, <3>13 DEF Worker
  <2>11. CASE Callbacks
    BY <2>11 DEF Callbacks, callback_frame, TimerCheck, TimerRearm, TimerDue,
       TimerQueue, QueueTxWork, DeferRuns
  <2>12. CASE UsbBegins
    BY <2>12 DEF UsbBegins, usb_frame, DisconnectBegins, SuspendBegins, Resume
  <2>13. CASE UsbWaits
    BY <2>13 DEF UsbWaits, usb_frame, DisconnectSynced, CancelTimer,
       CancelDefer, CancelWork, DestroyQueue, FinalOffPolicy, Shutdown,
       FreeBuffers
  <2>14. CASE UsbRuns
    BY <2>14 DEF UsbRuns, usb_frame, DisconnectUnplugs, CancelFlag, CancelDue,
       FinalOffRequest
  <2>15. CASE UNCHANGED vars
    BY <2>15 DEF vars
  <2>16. QED
    BY <2>1, <2>2, <2>3, <2>4, <2>5, <2>6, <2>7, <2>8, <2>9, <2>10, <2>11,
       <2>12, <2>13, <2>14, <2>15 DEF Next, Unbound
<1>3. QED
  BY <1>1, <1>2, Typing, UnplugInvariant, FaultInvariant, HeldInvariant,
     ShownInvariant, PTL DEF Spec

\* When the head has come to rest and DRM shows a framebuffer, the newest frame
\* is on the screen, on a RAW head and on an NV12 head.
THEOREM NewestIsShown == Spec => []NewestFrameIsShown
<1>1. TypeOK /\ NewestInv /\ PendingFrameIsScheduled => NewestFrameIsShown
  BY DEF TypeOK, NewestInv, PendingFrameIsScheduled, NewestFrameIsShown,
     CarriesFrame
<1>2. QED
  BY <1>1, Typing, NewestInvariant, StagedFrameIsNeverStranded, PTL

-----------------------------------------------------------------------------
(* The refresh chain *)

Enabling == {"e_check", "e_timer", "e_enter", "e_lock", "e_on", "e_req",
             "e_active"}
Planing  == {"p_check", "p_enter", "p_stage", "p_queue"}

\* A head scans out only between the end of an enable and the first step of
\* the next disable.
ScanoutInv ==
  /\ c \in Enabling \cup Planing => crtc_on
  /\ scanout_active /\ c # "d_flag" => crtc_on /\ c \in {"idle"} \cup Planing

\* ScanoutInv holds in every reachable state.
LEMMA ScanoutInvariant == Spec => []ScanoutInv
<1>1. Init => ScanoutInv
  BY ParamsAssumption, FramesAssumption DEF Init, ScanoutInv, Enabling, Planing
<1>2. TypeOK /\ ScanoutInv /\ [Next]_vars => ScanoutInv'
  <2> SUFFICES ASSUME TypeOK, ScanoutInv, [Next]_vars
               PROVE  ScanoutInv'
    OBVIOUS
    <2> USE DEF ScanoutInv, TypeOK, Enabling, Planing
  <2>1. CASE RefreshDeadlinePasses
    BY <2>1 DEF RefreshDeadlinePasses
  <2>2. CASE GateOpens
    BY <2>2 DEF GateOpens
  <2>3. CASE Detach
    BY <2>3 DEF Detach
  <2>4. CASE WorkLock
    BY <2>4 DEF WorkLock, worker_frame
  <2>5. CASE TimerFires
    BY <2>5 DEF TimerFires, callback_frame
  <2>6. CASE DeferFires
    BY <2>6 DEF DeferFires, callback_frame
  <2>7. CASE CommitBegins
    BY <2>7 DEF CommitBegins, commit_frame, CommitOn, CommitFlip, CommitOff,
       CommitModeset
  <2>8. CASE CommitWaits
    BY <2>8 DEF CommitWaits, commit_frame, DisableTimer, DisableDefer,
       DisableWork, EnableTimer, CommitLock
  <2>9. CASE CommitRuns
    <3>1. CASE DisableFlag
      BY <3>1 DEF DisableFlag, commit_frame
    <3>2. CASE DisableClear
      BY <3>2 DEF DisableClear, commit_frame
    <3>3. CASE DisableEnter
      BY <3>3 DEF DisableEnter, commit_frame, AfterDisable
    <3>4. CASE DisableOff
      BY <3>4 DEF DisableOff, commit_frame, CtrlOut, AfterDisable
    <3>5. CASE EnableCheck
      BY <3>5 DEF EnableCheck, commit_frame
    <3>6. CASE EnableEnter
      BY <3>6 DEF EnableEnter, commit_frame
    <3>7. CASE EnableOn
      BY <3>7 DEF EnableOn, commit_frame, CtrlOut
    <3>8. CASE EnableActive
      BY <3>8 DEF EnableActive, commit_frame
    <3>9. CASE PlaneCheck
      BY <3>9 DEF PlaneCheck, commit_frame
    <3>10. CASE PlaneEnter
      BY <3>10 DEF PlaneEnter, commit_frame
    <3>11. CASE PlaneStage
      BY <3>11 DEF PlaneStage, commit_frame
    <3>12. CASE PlaneQueue
      BY <3>12 DEF PlaneQueue, commit_frame, QueueTxWork
    <3>13. QED
      BY <2>9, <3>1, <3>2, <3>3, <3>4, <3>5, <3>6, <3>7, <3>8, <3>9, <3>10,
         <3>11, <3>12 DEF CommitRuns
  <2>10. CASE Worker
    BY <2>10 DEF Worker, worker_frame, WorkStart, WorkPop, WorkGate,
       WorkRequeue, WorkDefer, WorkDamage, WorkEnter, WorkSend, WorkTransfer,
       WorkAck, WorkArm, WorkUnlock, WorkDone, QueueTxWork
  <2>11. CASE Callbacks
    BY <2>11 DEF Callbacks, callback_frame, TimerCheck, TimerRearm, TimerDue,
       TimerQueue, QueueTxWork, DeferRuns
  <2>12. CASE UsbBegins
    BY <2>12 DEF UsbBegins, usb_frame, DisconnectBegins, SuspendBegins, Resume
  <2>13. CASE UsbWaits
    <3>1. CASE DisconnectSynced
      BY <3>1 DEF DisconnectSynced, usb_frame
    <3>2. CASE CancelTimer
      BY <3>2 DEF CancelTimer, usb_frame
    <3>3. CASE CancelDefer
      BY <3>3 DEF CancelDefer, usb_frame
    <3>4. CASE CancelWork
      BY <3>4 DEF CancelWork, usb_frame
    <3>5. CASE DestroyQueue
      BY <3>5 DEF DestroyQueue, usb_frame
    <3>6. CASE FinalOffPolicy
      BY <3>6 DEF FinalOffPolicy, usb_frame
    <3>7. CASE Shutdown
      BY <3>7 DEF Shutdown, usb_frame
    <3>8. CASE FreeBuffers
      BY <3>8 DEF FreeBuffers, usb_frame
    <3>9. QED
      BY <2>13, <3>1, <3>2, <3>3, <3>4, <3>5, <3>6, <3>7, <3>8 DEF UsbWaits
  <2>14. CASE UsbRuns
    BY <2>14 DEF UsbRuns, usb_frame, DisconnectUnplugs, CancelFlag, CancelDue,
       FinalOffRequest
  <2>15. CASE UNCHANGED vars
    BY <2>15 DEF vars
  <2>16. QED
    BY <2>1, <2>2, <2>3, <2>4, <2>5, <2>6, <2>7, <2>8, <2>9, <2>10, <2>11,
       <2>12, <2>13, <2>14, <2>15 DEF Next, Unbound
<1>3. QED
  BY <1>1, <1>2, Typing, PTL DEF Spec

\* What keeps the chain alive at each of its links, and why a refresh that is
\* skipped breaks none: only a frame sent meanwhile can have put it off, and
\* that frame has armed the timer.
ChainInv ==
  RefreshEligible /\ ~unplugged =>
    /\ refresh_elapsed \/ timer_armed \/ k \in {"check", "rearm"} \/ w = "arm"
    /\ \/ timer_armed \/ k \in {"check", "rearm", "due"}
       \/ keepalive_due /\ (tx_work_queued \/ w # "idle" \/ k = "queue")
       \/ w_kind = "refresh" /\ w \in {"gate", "damage", "lock", "enter", "send"}
       \/ w \in {"xfer", "ack", "arm"}

\* ChainInv holds in every reachable state.
LEMMA ChainInvariant == Spec => []ChainInv
<1>1. Init => ChainInv
  BY ParamsAssumption, FramesAssumption DEF Init, ChainInv, RefreshEligible,
     RefreshAllowed
<1>2. TypeOK /\ UnplugInv /\ SuspendInv /\ FaultInv /\ ScanoutInv /\ ChainInv /\ [Next]_vars => ChainInv'
  <2> SUFFICES ASSUME TypeOK, UnplugInv, SuspendInv, FaultInv, ScanoutInv, ChainInv, [Next]_vars
               PROVE  ChainInv'
    OBVIOUS
    <2> USE DEF ChainInv, TypeOK, UnplugInv, SuspendInv, FaultInv, ScanoutInv,
     AfterQueue, Stopping, Enabling, Planing, Faulted, RefreshEligible,
     RefreshAllowed, RuntimeConnected
  <2>1. CASE RefreshDeadlinePasses
    BY <2>1 DEF RefreshDeadlinePasses
  <2>2. CASE GateOpens
    BY <2>2 DEF GateOpens
  <2>3. CASE Detach
    BY <2>3 DEF Detach
  <2>4. CASE WorkLock
    BY <2>4 DEF WorkLock, worker_frame
  <2>5. CASE TimerFires
    BY <2>5 DEF TimerFires, callback_frame
  <2>6. CASE DeferFires
    BY <2>6 DEF DeferFires, callback_frame
  <2>7. CASE CommitBegins
    BY <2>7 DEF CommitBegins, commit_frame, CommitOn, CommitFlip, CommitOff,
       CommitModeset
  <2>8. CASE CommitWaits
    <3>1. CASE DisableTimer
      BY <3>1 DEF DisableTimer, commit_frame
    <3>2. CASE DisableDefer
      BY <3>2 DEF DisableDefer, commit_frame
    <3>3. CASE DisableWork
      BY <3>3 DEF DisableWork, commit_frame
    <3>4. CASE EnableTimer
      BY <3>4 DEF EnableTimer, commit_frame
    <3>5. CASE CommitLock
      BY <3>5 DEF CommitLock, commit_frame
    <3>6. QED
      BY <2>8, <3>1, <3>2, <3>3, <3>4, <3>5 DEF CommitWaits
  <2>9. CASE CommitRuns
    <3>1. CASE DisableFlag
      BY <3>1 DEF DisableFlag, commit_frame
    <3>2. CASE DisableClear
      BY <3>2 DEF DisableClear, commit_frame
    <3>3. CASE DisableEnter
      BY <3>3 DEF DisableEnter, commit_frame, AfterDisable
    <3>4. CASE DisableOff
      BY <3>4 DEF DisableOff, commit_frame, CtrlOut, AfterDisable
    <3>5. CASE EnableCheck
      BY <3>5 DEF EnableCheck, commit_frame
    <3>6. CASE EnableEnter
      BY <3>6 DEF EnableEnter, commit_frame
    <3>7. CASE EnableOn
      BY <3>7 DEF EnableOn, commit_frame, CtrlOut
    <3>8. CASE EnableActive
      BY <3>8 DEF EnableActive, commit_frame
    <3>9. CASE PlaneCheck
      BY <3>9 DEF PlaneCheck, commit_frame
    <3>10. CASE PlaneEnter
      BY <3>10 DEF PlaneEnter, commit_frame
    <3>11. CASE PlaneStage
      BY <3>11 DEF PlaneStage, commit_frame
    <3>12. CASE PlaneQueue
      BY <3>12 DEF PlaneQueue, commit_frame, QueueTxWork
    <3>13. QED
      BY <2>9, <3>1, <3>2, <3>3, <3>4, <3>5, <3>6, <3>7, <3>8, <3>9, <3>10,
         <3>11, <3>12 DEF CommitRuns
  <2>10. CASE Worker
    <3>1. CASE WorkStart
      BY <3>1 DEF WorkStart, worker_frame
    <3>2. CASE WorkPop
      BY <3>2 DEF WorkPop, worker_frame
    <3>3. CASE WorkGate
      BY <3>3 DEF WorkGate, worker_frame
    <3>4. CASE WorkRequeue
      BY <3>4 DEF WorkRequeue, worker_frame
    <3>5. CASE WorkDefer
      BY <3>5 DEF WorkDefer, worker_frame
    <3>6. CASE WorkDamage
      BY <3>6 DEF WorkDamage, worker_frame
    <3>7. CASE WorkEnter
      BY <3>7 DEF WorkEnter, worker_frame
    <3>8. CASE WorkSend
      BY <3>8 DEF WorkSend, worker_frame, SendSkipped, NoDamage
    <3>9. CASE WorkTransfer
      BY <3>9 DEF WorkTransfer, worker_frame
    <3>10. CASE WorkAck
      BY <3>10 DEF WorkAck, worker_frame
    <3>11. CASE WorkArm
      BY <3>11 DEF WorkArm, worker_frame
    <3>12. CASE WorkUnlock
      BY <3>12 DEF WorkUnlock, worker_frame
    <3>13. CASE WorkDone
      BY <3>13 DEF WorkDone, worker_frame, QueueTxWork
    <3>14. QED
      BY <2>10, <3>1, <3>2, <3>3, <3>4, <3>5, <3>6, <3>7, <3>8, <3>9, <3>10,
         <3>11, <3>12, <3>13 DEF Worker
  <2>11. CASE Callbacks
    <3>1. CASE TimerCheck
      BY <3>1 DEF TimerCheck, callback_frame
    <3>2. CASE TimerRearm
      BY <3>2 DEF TimerRearm, callback_frame
    <3>3. CASE TimerDue
      BY <3>3 DEF TimerDue, callback_frame
    <3>4. CASE TimerQueue
      BY <3>4 DEF TimerQueue, callback_frame, QueueTxWork
    <3>5. CASE DeferRuns
      BY <3>5 DEF DeferRuns, callback_frame, QueueTxWork
    <3>6. QED
      BY <2>11, <3>1, <3>2, <3>3, <3>4, <3>5 DEF Callbacks
  <2>12. CASE UsbBegins
    BY <2>12 DEF UsbBegins, usb_frame, DisconnectBegins, SuspendBegins, Resume
  <2>13. CASE UsbWaits
    <3>1. CASE DisconnectSynced
      BY <3>1 DEF DisconnectSynced, usb_frame
    <3>2. CASE CancelTimer
      BY <3>2 DEF CancelTimer, usb_frame
    <3>3. CASE CancelDefer
      BY <3>3 DEF CancelDefer, usb_frame
    <3>4. CASE CancelWork
      BY <3>4 DEF CancelWork, usb_frame
    <3>5. CASE DestroyQueue
      BY <3>5 DEF DestroyQueue, usb_frame
    <3>6. CASE FinalOffPolicy
      BY <3>6 DEF FinalOffPolicy, usb_frame
    <3>7. CASE Shutdown
      BY <3>7 DEF Shutdown, usb_frame
    <3>8. CASE FreeBuffers
      BY <3>8 DEF FreeBuffers, usb_frame
    <3>9. QED
      BY <2>13, <3>1, <3>2, <3>3, <3>4, <3>5, <3>6, <3>7, <3>8 DEF UsbWaits
  <2>14. CASE UsbRuns
    <3>1. CASE DisconnectUnplugs
      BY <3>1 DEF DisconnectUnplugs, usb_frame
    <3>2. CASE CancelFlag
      BY <3>2 DEF CancelFlag, usb_frame
    <3>3. CASE CancelDue
      BY <3>3 DEF CancelDue, usb_frame
    <3>4. CASE FinalOffRequest
      BY <3>4 DEF FinalOffRequest, usb_frame
    <3>5. QED
      BY <2>14, <3>1, <3>2, <3>3, <3>4 DEF UsbRuns
  <2>15. CASE UNCHANGED vars
    BY <2>15 DEF vars
  <2>16. QED
    BY <2>1, <2>2, <2>3, <2>4, <2>5, <2>6, <2>7, <2>8, <2>9, <2>10, <2>11,
       <2>12, <2>13, <2>14, <2>15 DEF Next, Unbound
<1>3. QED
  BY <1>1, <1>2, Typing, UnplugInvariant, SuspendInvariant, FaultInvariant,
     ScanoutInvariant, PTL DEF Spec

\* The refresh of a lit, idle screen is never forgotten.
THEOREM ChainAlive == Spec => []RefreshChainAlive
<1>1. TypeOK /\ ChainInv => RefreshChainAlive
  BY DEF TypeOK, ChainInv, RefreshChainAlive
<1>2. QED
  BY <1>1, Typing, ChainInvariant, PTL

-----------------------------------------------------------------------------
(* The head implements T6Screen *)

StreamInv == /\ TypeOK /\ UnplugInv /\ FaultInv
             /\ HeldInv /\ ShownInv

LEMMA Values ==
  NoFrame \notin Frames /\ Torn \notin Frames /\ NoFrame # Torn
<1>1. NoFrame \notin Frames /\ Torn \notin Frames
  BY FramesAssumption
<1>2. NoFrame # Torn
  BY DEF NoFrame, Torn
<1>3. QED
  BY <1>1, <1>2

\* What the mapping does not look at.
LEMMA Unseen ==
  ASSUME UNCHANGED <<tx_pending, tx_back, tx_front, last_sent_frame, shown, w,
                     w_kind, faults, unplugged, monitor>>
  PROVE  UNCHANGED Screen!vars
  BY DEF Screen!vars, Carried, Faulted, WorkerInDrm

\* A worker that goes from one stage to the next with what it carries.
LEMMA CarriedOn ==
  ASSUME UNCHANGED <<tx_pending, tx_back, shown, faults, unplugged, monitor>>,
         Carried' = Carried, WorkerInDrm' = WorkerInDrm \/ ~unplugged
  PROVE  UNCHANGED Screen!vars
  BY DEF Screen!vars, Faulted

LEMMA ScreenInit == Init => Screen!Init
  BY DEF Init, Screen!Init, Carried, Faulted, WorkerInDrm

\* The worker.
LEMMA ScreenWorker ==
  ASSUME StreamInv, Worker
  PROVE  [Screen!Driver]_(Screen!vars)
<1> USE DEF StreamInv, TypeOK, Faulted, Carried, WorkerInDrm
<1>0. /\ UNCHANGED <<unplugged, monitor>>
      /\ tx_pending => tx_back \in Frames /\ tx_back # NoFrame
      /\ Carried # NoFrame => w_kind = "refresh" \/ (CarriesFrame /\ tx_front \in Frames)
  <2>1. UNCHANGED <<unplugged, monitor>>
    BY DEF Worker, WorkStart, WorkPop, WorkGate, WorkRequeue, WorkDefer,
       WorkDamage, WorkEnter, WorkSend, WorkTransfer, WorkAck, WorkArm,
       WorkUnlock, WorkDone, worker_frame
  <2>2. QED
    BY <2>1, Values DEF HeldInv, CarriesFrame
<1>1. CASE WorkStart
  BY <1>1, CarriedOn DEF WorkStart, worker_frame
<1>2. CASE WorkPop
  <2>1. CASE tx_pending
    <3>1. Screen!Take
      BY <1>0, <1>2, <2>1, Values DEF WorkPop, worker_frame, Screen!Take, FaultInv
    <3>2. QED
      BY <3>1 DEF Screen!Driver
  <2>2. CASE ~tx_pending
    BY <1>2, <2>2, CarriedOn DEF WorkPop, worker_frame
  <2>3. QED
    BY <2>1, <2>2
<1>3. CASE WorkGate
  <2>1. CASE Faulted
    <3>1. Screen!Drop
      BY <1>3, <2>1 DEF WorkGate, worker_frame, Screen!Drop, RuntimeConnected
    <3>2. QED
      BY <3>1 DEF Screen!Driver
  <2>2. CASE ~Faulted
    BY <1>3, <2>2, CarriedOn DEF WorkGate, worker_frame, RuntimeConnected
  <2>3. QED
    BY <2>1, <2>2
<1>4. CASE WorkRequeue
  <2>1. CASE w_kind = "frame"
    <3>1. shown # Torn
      BY <1>4 DEF WorkRequeue, ShownInv
    <3>2. tx_front \in Frames
      BY <1>4, <2>1 DEF WorkRequeue, HeldInv, CarriesFrame
    <3>3. Screen!PutBack
      BY <1>0, <1>4, <2>1, <3>1, <3>2, Values DEF WorkRequeue, worker_frame,
         Screen!PutBack
    <3>4. QED
      BY <3>3 DEF Screen!Driver
  <2>2. CASE w_kind = "refresh"
    BY <1>4, <2>2 DEF WorkRequeue, worker_frame, Screen!vars
  <2>3. QED
    BY <2>1, <2>2
<1>5. CASE WorkDefer
  BY <1>5, CarriedOn DEF WorkDefer, worker_frame
<1>6. CASE WorkDamage
  <2>1. CASE Transport = "NV12" /\ NoDamage
    <3>1. CASE io_faulted
      <4>1. Screen!Drop
        BY <1>6, <2>1, <3>1 DEF WorkDamage, worker_frame, Screen!Drop
      <4>2. QED
        BY <4>1 DEF Screen!Driver
    <3>2. CASE ~io_faulted
      <4>1. tx_front = shown /\ tx_front \in Frames /\ w_kind = "frame"
        BY <1>6, <2>1, <3>2 DEF WorkDamage, NoDamage, ShownInv, HeldInv
      <4>2. Screen!Skip
        BY <1>6, <2>1, <4>1, Values DEF WorkDamage, worker_frame, Screen!Skip
      <4>3. QED
        BY <4>2 DEF Screen!Driver
    <3>3. QED
      BY <3>1, <3>2
  <2>2. CASE ~(Transport = "NV12" /\ NoDamage)
    BY <1>6, <2>2, CarriedOn DEF WorkDamage, worker_frame
  <2>3. QED
    BY <2>1, <2>2
<1>7. CASE WorkEnter
  <2>1. CASE unplugged
    <3>1. Screen!Drop
      BY <1>7, <2>1 DEF WorkEnter, worker_frame, Screen!Drop
    <3>2. QED
      BY <3>1 DEF Screen!Driver
  <2>2. CASE ~unplugged
    BY <1>7, <2>2 DEF WorkEnter, worker_frame, Screen!vars
  <2>3. QED
    BY <2>1, <2>2
<1>8. CASE WorkSend
  <2>1. CASE w' = "unlock" /\ io_faulted
    <3>1. Screen!Drop
      BY <1>8, <2>1 DEF WorkSend, worker_frame, Screen!Drop
    <3>2. QED
      BY <3>1 DEF Screen!Driver
  <2>2. CASE w' = "unlock" /\ ~io_faulted /\ w_kind = "frame"
    <3>1. NoDamage /\ SendSkipped
      BY <1>8, <2>2 DEF WorkSend, SendSkipped
    <3>2. tx_front = shown /\ tx_front \in Frames
      BY <1>8, <2>2, <3>1 DEF WorkSend, NoDamage, ShownInv, HeldInv
    <3>3. Screen!Skip
      BY <1>8, <2>2, <3>2, Values DEF WorkSend, worker_frame, Screen!Skip
    <3>4. QED
      BY <3>3 DEF Screen!Driver
  <2>3. CASE w' = "unlock" /\ ~io_faulted /\ w_kind = "refresh"
    BY <1>8, <2>3 DEF WorkSend, worker_frame, Screen!vars
  <2>4. CASE w' = "xfer" /\ w_kind = "frame"
    <3>1. tx_front \in Frames /\ ~Faulted
      BY <1>8, <2>4 DEF WorkSend, HeldInv, CarriesFrame, FaultInv
    <3>2. Screen!Begin
      BY <1>8, <2>4, <3>1, Values DEF WorkSend, worker_frame, Screen!Begin
    <3>3. QED
      BY <3>2 DEF Screen!Driver
  <2>5. CASE w' = "xfer" /\ w_kind = "refresh"
    <3>1. last_sent_valid /\ ~Faulted /\ w = "send"
      BY <1>8, <2>5 DEF WorkSend, SendSkipped, RefreshEligible, RefreshAllowed
    <3>2. Transport = "RAW"
      BY <2>5, ParamsAssumption DEF FaultInv
    <3>3. shown = last_sent_frame /\ last_sent_frame \in Frames
      BY <3>1, <3>2 DEF ShownInv, HeldInv
    <3>4. Screen!Refresh
      BY <1>8, <2>5, <3>1, <3>3 DEF WorkSend, worker_frame, Screen!Refresh
    <3>5. QED
      BY <3>4 DEF Screen!Driver
  <2>6. QED
    BY <1>8, <2>1, <2>2, <2>3, <2>4, <2>5 DEF WorkSend
<1>9. CASE WorkTransfer
  <2>1. shown = Torn /\ Carried # NoFrame
    BY <1>9, Values DEF WorkTransfer, ShownInv, HeldInv, CarriesFrame
  <2>2. CASE w' = "ack"
    <3>1. Screen!Finish
      BY <1>9, <2>1, <2>2 DEF WorkTransfer, worker_frame, Screen!Finish
    <3>2. QED
      BY <3>1 DEF Screen!Driver
  <2>3. CASE w' = "unlock"
    <3>1. Screen!Break
      BY <1>9, <2>1, <2>3 DEF WorkTransfer, worker_frame, Screen!Break
    <3>2. QED
      BY <3>1 DEF Screen!Driver
  <2>4. QED
    BY <1>9, <2>2, <2>3 DEF WorkTransfer
<1>10. CASE WorkAck
  BY <1>10 DEF WorkAck, worker_frame, Screen!vars
<1>11. CASE WorkArm
  BY <1>11, CarriedOn DEF WorkArm, worker_frame
<1>12. CASE WorkUnlock
  <2>1. CASE unplugged
    <3>1. Screen!Break
      BY <1>12, <2>1 DEF WorkUnlock, worker_frame, Screen!Break
    <3>2. QED
      BY <3>1 DEF Screen!Driver
  <2>2. CASE ~unplugged
    BY <1>12, <2>2 DEF WorkUnlock, worker_frame, Screen!vars
  <2>3. QED
    BY <2>1, <2>2
<1>13. CASE WorkDone
  <2>1. CASE w_ok
    BY <1>13, <2>1 DEF WorkDone, worker_frame, Screen!vars
  <2>2. CASE ~w_ok
    <3>1. io_faulted
      BY <2>2 DEF FaultInv
    <3>2. io_faulted' /\ (tx_pending' => tx_pending)
      <4>1. CASE UNCHANGED <<faults, tx_pending>>
        BY <3>1, <4>1
      <4>2. CASE io_faulted' = TRUE /\ tx_pending' = (head_faulted /\ tx_pending)
        BY <4>2, Zenon
      <4>3. QED
        BY <1>13, <2>2, <4>1, <4>2 DEF WorkDone
    <3>3. UNCHANGED <<tx_back, tx_front, w_kind, shown>> /\ w = "done" /\ w' = "idle"
      BY <1>13 DEF WorkDone
    <3>4. Screen!Drop
      BY <1>0, <3>1, <3>2, <3>3 DEF Screen!Drop
    <3>5. QED
      BY <3>4 DEF Screen!Driver
  <2>3. QED
    BY <2>1, <2>2
<1>14. QED
  BY <1>1, <1>2, <1>3, <1>4, <1>5, <1>6, <1>7, <1>8, <1>9, <1>10, <1>11, <1>12,
     <1>13 DEF Worker

\* A control request, or the latch of a suspend or resume: the link breaks, or
\* the power changes.
LEMMA ScreenPower ==
  ASSUME StreamInv, io_faulted => io_faulted', io_faulted' \in BOOLEAN,
         monitor' \in {"on", "off"},
         UNCHANGED <<tx_pending, tx_back, tx_front, last_sent_frame, shown, w,
                     w_kind, head_faulted, unplugged>>
  PROVE  [Screen!Driver]_(Screen!vars)
<1> USE DEF StreamInv, TypeOK, Faulted, Carried, WorkerInDrm
<1>1. CASE io_faulted' = io_faulted /\ monitor' = monitor
  BY <1>1, Unseen
<1>2. CASE io_faulted' = io_faulted /\ monitor' # monitor
  <2>1. (monitor' = "on") = ~(monitor = "on")
    BY <1>2
  <2>2. Screen!Power
    BY <1>2, <2>1 DEF Screen!Power
  <2>3. QED
    BY <2>2 DEF Screen!Driver
<1>3. CASE io_faulted' # io_faulted
  <2>1. Screen!Break
    BY <1>3 DEF Screen!Break
  <2>2. QED
    BY <2>1 DEF Screen!Driver
<1>4. QED
  BY <1>1, <1>2, <1>3

LEMMA ScreenCommit ==
  ASSUME StreamInv, CommitRuns, ~PlaneStage
  PROVE  [Screen!Driver]_(Screen!vars)
<1>1. CASE DisableOff \/ EnableOn
  <2>1. /\ io_faulted => io_faulted'
        /\ io_faulted' \in BOOLEAN /\ monitor' \in {"on", "off"}
    BY <1>1 DEF DisableOff, EnableOn, CtrlOut, StreamInv, TypeOK
  <2>2. QED
    BY <1>1, <2>1, ScreenPower DEF DisableOff, EnableOn, commit_frame
<1>2. CASE ~(DisableOff \/ EnableOn)
  BY <1>2, Unseen DEF CommitRuns, DisableFlag, DisableClear, DisableEnter,
     EnableCheck, EnableEnter, EnableActive, PlaneCheck, PlaneEnter, PlaneQueue,
     commit_frame
<1>3. QED
  BY <1>1, <1>2

LEMMA ScreenUsb ==
  ASSUME StreamInv, UsbBegins \/ UsbWaits \/ UsbRuns
  PROVE  [Screen!Driver]_(Screen!vars)
<1>1. CASE SuspendBegins \/ Resume
  <2>1. io_faulted' = TRUE /\ monitor' = monitor
    BY <1>1 DEF SuspendBegins, Resume
  <2>2. io_faulted' \in BOOLEAN
    BY <2>1, Zenon
  <2>3. QED
    BY <1>1, <2>1, <2>2, ScreenPower DEF SuspendBegins, Resume, usb_frame,
       StreamInv, TypeOK
<1>2. CASE FinalOffRequest
  BY <1>2, ScreenPower DEF FinalOffRequest, usb_frame, StreamInv, TypeOK
<1>3. CASE DisconnectUnplugs
  <2> USE DEF StreamInv, TypeOK, Faulted, Carried, WorkerInDrm
  <2>1. CASE Faulted \/ WorkerInDrm
    BY <1>3, <2>1 DEF DisconnectUnplugs, usb_frame, Screen!vars
  <2>2. CASE ~(Faulted \/ WorkerInDrm)
    <3>1. Screen!Break
      BY <1>3, <2>2 DEF DisconnectUnplugs, usb_frame, Screen!Break
    <3>2. QED
      BY <3>1 DEF Screen!Driver
  <2>3. QED
    BY <2>1, <2>2
<1>4. CASE FreeBuffers
  <2>1. unplugged /\ w = "idle" /\ ~tx_pending'
    BY <1>4 DEF FreeBuffers, StreamInv, UnplugInv, AfterQueue
  <2>2. Screen!Drop
    BY <1>4, <2>1 DEF FreeBuffers, Screen!Drop, Carried, Faulted, WorkerInDrm
  <2>3. QED
    BY <2>2 DEF Screen!Driver
<1>5. CASE DisconnectBegins \/ CancelFlag \/ CancelDue
  BY <1>5, Unseen DEF DisconnectBegins, CancelFlag, CancelDue, usb_frame
<1>6. CASE UsbWaits /\ ~FreeBuffers
  BY <1>6, Unseen DEF UsbWaits, DisconnectSynced, CancelTimer, CancelDefer,
     CancelWork, DestroyQueue, FinalOffPolicy, Shutdown, usb_frame
<1>7. QED
  BY <1>1, <1>2, <1>3, <1>4, <1>5, <1>6 DEF UsbBegins, UsbRuns

\* Only a plane update stages a frame.
LEMMA ScreenStage ==
  ASSUME PlaneStage
  PROVE  Screen!Stage /\ tx_pending' /\ UNCHANGED shown
  BY DEF PlaneStage, commit_frame, Screen!Stage, Carried, Faulted, WorkerInDrm

LEMMA ScreenDriver ==
  ASSUME StreamInv, [Next]_vars, ~PlaneStage
  PROVE  [Screen!Driver]_(Screen!vars)
<1>1. CASE RefreshDeadlinePasses \/ GateOpens \/ Detach
  BY <1>1, Unseen DEF RefreshDeadlinePasses, GateOpens, Detach
<1>2. CASE WorkLock
  BY <1>2, CarriedOn DEF WorkLock, worker_frame, Carried, WorkerInDrm
<1>3. CASE TimerFires \/ DeferFires \/ Callbacks
  BY <1>3, Unseen DEF TimerFires, DeferFires, Callbacks, TimerCheck, TimerRearm,
     TimerDue, TimerQueue, DeferRuns, callback_frame
<1>4. CASE CommitBegins
  BY <1>4, Unseen DEF CommitBegins, CommitOn, CommitFlip, CommitOff,
     CommitModeset, commit_frame
<1>5. CASE CommitWaits
  BY <1>5, Unseen DEF CommitWaits, DisableTimer, DisableDefer, DisableWork,
     EnableTimer, CommitLock, commit_frame
<1>6. CASE UNCHANGED vars
  BY <1>6, Unseen DEF vars
<1>7. QED
  BY <1>1, <1>2, <1>3, <1>4, <1>5, <1>6, ScreenWorker, ScreenCommit, ScreenUsb
     DEF Next, Unbound

LEMMA ScreenStep == StreamInv /\ [Next]_vars => [Screen!Next]_(Screen!vars)
  BY ScreenStage, ScreenDriver DEF Screen!Next

\* No interleaving of commits, worker, requeues, refreshes, faults and teardown
\* breaks the promise of T6Screen.
THEOREM Refinement == Spec => ImplementsScreen
<1>1. Spec => []StreamInv /\ [][Next]_vars /\ Init
  BY Typing, UnplugInvariant, FaultInvariant, HeldInvariant, ShownInvariant, PTL
     DEF Spec, StreamInv
<1>2. QED
  BY <1>1, ScreenInit, ScreenStep, PTL DEF ImplementsScreen, Screen!Spec

-----------------------------------------------------------------------------
(* The monitor never goes back in time *)

CONSTANT Age       \* of a frame, in the order of the compositor

VARIABLES
  staged_age,      \* of the newest frame staged so far
  shown_age        \* of the frame the screen showed last

Timed == INSTANCE T6ScreenProofs WITH
  staged <- IF tx_pending THEN tx_back ELSE NoFrame,
  taken  <- Carried,
  link   <- IF Faulted \/ (unplugged /\ ~WorkerInDrm) THEN "down" ELSE "up",
  lit    <- monitor = "on"

\* The compositor never stages a frame that is older than one it has staged.
StagesInOrder ==
  IF PlaneStage
  THEN Age[tx_back'] >= staged_age /\ staged_age' = Age[tx_back']
  ELSE UNCHANGED staged_age

TimesInit == staged_age = 0 /\ shown_age = 0

InOrder ==
  TimesInit /\ [][StagesInOrder /\ Timed!Watch]_<<vars, staged_age, shown_age>>

LEMMA TimedStep ==
  ASSUME StreamInv, [Next]_vars,
         [StagesInOrder /\ Timed!Watch]_<<vars, staged_age, shown_age>>
  PROVE  [Timed!TimedNext]_(Timed!timed)
<1>1. CASE UNCHANGED <<vars, staged_age, shown_age>>
  <2>1. UNCHANGED Timed!vars
    BY <1>1 DEF vars, Timed!vars, Carried, Faulted, WorkerInDrm
  <2>2. QED
    BY <1>1, <2>1 DEF Timed!timed
<1>2. CASE StagesInOrder /\ Timed!Watch /\ PlaneStage
  <2>1. Timed!StageInOrder
    BY <1>2, ScreenStage DEF StagesInOrder, Timed!StageInOrder, Timed!Stage, Screen!Stage
  <2>2. QED
    BY <1>2, <2>1 DEF Timed!TimedNext
<1>3. CASE StagesInOrder /\ Timed!Watch /\ ~PlaneStage
  <2>1. Screen!Driver \/ UNCHANGED Screen!vars
    BY <1>3, ScreenDriver
  <2>2. [Timed!Driver]_(Timed!vars)
    <3>1. CASE Screen!Driver
      BY <3>1 DEF Timed!Driver, Screen!Driver, 
         Timed!Take, Screen!Take, Timed!PutBack, Screen!PutBack, Timed!Skip, Screen!Skip,
         Timed!Begin, Screen!Begin, Timed!Refresh, Screen!Refresh, Timed!Finish, Screen!Finish,
         Timed!Break, Screen!Break, Timed!Drop, Screen!Drop, Timed!Power, Screen!Power,
         Timed!Forget, Screen!Forget
    <3>2. CASE UNCHANGED Screen!vars
      BY <3>2 DEF Screen!vars, Timed!vars
    <3>3. QED
      BY <2>1, <3>1, <3>2
  <2>3. QED
    BY <1>3, <2>2 DEF StagesInOrder, Timed!TimedNext
<1>4. QED
  BY <1>1, <1>2, <1>3

\* If the compositor stages its frames in order, the monitor shows them in
\* order.
THEOREM NeverBackInTime ==
  ASSUME Age \in [Frames -> Nat]
  PROVE  Spec /\ InOrder => Timed!NeverBackInTime
<1>1. Timed!Sane
  BY Values DEF Timed!Sane
<1>2. Spec => []StreamInv /\ [][Next]_vars /\ Init
  BY Typing, UnplugInvariant, FaultInvariant, HeldInvariant, ShownInvariant, PTL
     DEF Spec, StreamInv
<1>3. Init /\ TimesInit => Timed!TimedInit
  BY ScreenInit DEF TimesInit, Timed!TimedInit, Timed!Init, Screen!Init
<1>4. StreamInv /\ [Next]_vars
        /\ [StagesInOrder /\ Timed!Watch]_<<vars, staged_age, shown_age>>
      => [Timed!TimedNext]_(Timed!timed)
  BY TimedStep
<1>5. Spec /\ InOrder => Timed!TimedSpec
  BY <1>2, <1>3, <1>4, PTL DEF InOrder, Timed!TimedSpec
<1>6. Timed!TimedSpec => Timed!NeverBackInTime
  BY <1>1, Timed!InOrder
<1>7. QED
  BY <1>5, <1>6

=============================================================================
