---------------------------- MODULE T6HeadProofs ----------------------------
(***************************************************************************)
(* Theorems about T6Head, for every value of its constants.  Each invariant  *)
(* is proved from an inductive one, with one step per action.  A variable    *)
(* assigned FALSE gets a step of its own: Zenon knows that FALSE is a        *)
(* Boolean, the SMT translation does not.                                    *)
(***************************************************************************)
EXTENDS T6Head, TLAPS

USE DEF faults, life, stream, refs, async, clock, adapter, wlocals, drm

-----------------------------------------------------------------------------
(* Types and the ownership of io_lock *)

\* Every variable stays in its range, and io_lock is held exactly by the agent
\* whose program counter is between mutex_lock and mutex_unlock.
THEOREM Typing == Spec => []TypeOK
<1>1. Init => TypeOK
  BY ParamsAssumption, FramesAssumption DEF Init, TypeOK
<1>2. TypeOK /\ [Next]_vars => TypeOK'
  <2> SUFFICES ASSUME TypeOK, [Next]_vars PROVE TypeOK'
    OBVIOUS
  <2> USE ParamsAssumption DEF TypeOK
  <2>1. CASE RefreshDeadlinePasses
    BY <2>1 DEF RefreshDeadlinePasses
  <2>2. CASE GateOpens
    BY <2>2 DEF GateOpens
  <2>3. CASE Detach
    <3>1. attached' \in BOOLEAN
      BY <2>3, Zenon DEF Detach
    <3>2. QED
      BY <2>3, <3>1 DEF Detach
  <2>4. CASE WorkLock
    BY <2>4 DEF WorkLock, worker_frame
  <2>5. CASE TimerFires
    <3>1. timer_armed' \in BOOLEAN
      BY <2>5, Zenon DEF TimerFires, callback_frame
    <3>2. QED
      BY <2>5, <3>1 DEF TimerFires, callback_frame
  <2>6. CASE DeferFires
    <3>1. defer_armed' \in BOOLEAN
      BY <2>6, Zenon DEF DeferFires, callback_frame
    <3>2. QED
      BY <2>6, <3>1 DEF DeferFires, callback_frame
  <2>7. CASE CommitOn
    <3>1. crtc_on' \in BOOLEAN
      BY <2>7, Zenon DEF CommitOn, commit_frame
    <3>2. QED
      BY <2>7, <3>1 DEF CommitOn, commit_frame
  <2>8. CASE CommitFlip
    BY <2>8 DEF CommitFlip, commit_frame
  <2>9. CASE CommitOff
    <3>1. crtc_on' \in BOOLEAN /\ plane_fb' \in BOOLEAN
      BY <2>9, Zenon DEF CommitOff, commit_frame
    <3>2. QED
      BY <2>9, <3>1 DEF CommitOff, commit_frame
  <2>10. CASE CommitModeset
    BY <2>10 DEF CommitModeset, commit_frame
  <2>11. CASE DisableTimer
    <3>1. timer_armed' \in BOOLEAN
      BY <2>11, Zenon DEF DisableTimer, commit_frame
    <3>2. QED
      BY <2>11, <3>1 DEF DisableTimer, commit_frame
  <2>12. CASE DisableDefer
    <3>1. defer_armed' \in BOOLEAN
      BY <2>12, Zenon DEF DisableDefer, commit_frame
    <3>2. QED
      BY <2>12, <3>1 DEF DisableDefer, commit_frame
  <2>13. CASE DisableWork
    <3>1. tx_work_queued' \in BOOLEAN
      BY <2>13, Zenon DEF DisableWork, commit_frame
    <3>2. QED
      BY <2>13, <3>1 DEF DisableWork, commit_frame
  <2>14. CASE EnableTimer
    <3>1. timer_armed' \in BOOLEAN
      BY <2>14, Zenon DEF EnableTimer, commit_frame
    <3>2. QED
      BY <2>14, <3>1 DEF EnableTimer, commit_frame
  <2>15. CASE CommitLock
    BY <2>15 DEF CommitLock, commit_frame
  <2>16. CASE DisableFlag
    <3>1. scanout_active' \in BOOLEAN
      BY <2>16, Zenon DEF DisableFlag, commit_frame
    <3>2. QED
      BY <2>16, <3>1 DEF DisableFlag, commit_frame
  <2>17. CASE DisableClear
    <3>1. keepalive_due' \in BOOLEAN /\ last_sent_valid' \in BOOLEAN
      BY <2>17, Zenon DEF DisableClear, commit_frame
    <3>2. QED
      BY <2>17, <3>1 DEF DisableClear, commit_frame
  <2>18. CASE DisableEnter
    BY <2>18 DEF DisableEnter, commit_frame, AfterDisable
  <2>19. CASE DisableOff
    <3>1. io_faulted' \in BOOLEAN
      BY <2>19, Zenon DEF DisableOff, commit_frame, CtrlOut, AfterDisable
    <3>2. QED
      BY <2>19, <3>1 DEF DisableOff, commit_frame, CtrlOut, AfterDisable
  <2>20. CASE EnableCheck
    BY <2>20 DEF EnableCheck, commit_frame
  <2>21. CASE EnableEnter
    BY <2>21 DEF EnableEnter, commit_frame
  <2>22. CASE EnableOn
    <3>1. io_faulted' \in BOOLEAN
      BY <2>22, Zenon DEF EnableOn, commit_frame, CtrlOut
    <3>2. QED
      BY <2>22, <3>1 DEF EnableOn, commit_frame, CtrlOut
  <2>23. CASE EnableActive
    <3>1. timer_armed' \in BOOLEAN
      BY <2>23, Zenon DEF EnableActive, commit_frame
    <3>2. QED
      BY <2>23, <3>1 DEF EnableActive, commit_frame, RefreshAllowed
  <2>24. CASE PlaneCheck
    BY <2>24 DEF PlaneCheck, commit_frame
  <2>25. CASE PlaneEnter
    BY <2>25 DEF PlaneEnter, commit_frame
  <2>26. CASE PlaneStage
    BY <2>26 DEF PlaneStage, commit_frame
  <2>27. CASE PlaneQueue
    BY <2>27 DEF PlaneQueue, commit_frame, QueueTxWork
  <2>28. CASE WorkStart
    <3>1. tx_work_queued' \in BOOLEAN
      BY <2>28, Zenon DEF WorkStart, worker_frame, Faulted
    <3>2. QED
      BY <2>28, <3>1 DEF WorkStart, worker_frame, Faulted
  <2>29. CASE WorkPop
    <3>1. keepalive_due' \in BOOLEAN /\ tx_pending' \in BOOLEAN
      BY <2>29, Zenon DEF WorkPop, worker_frame
    <3>2. QED
      BY <2>29, <3>1 DEF WorkPop, worker_frame
  <2>30. CASE WorkGate
    BY <2>30 DEF WorkGate, worker_frame
  <2>31. CASE WorkRequeue
    <3>1. keepalive_due' \in BOOLEAN /\ tx_pending' \in BOOLEAN
      BY <2>31, Zenon DEF WorkRequeue, worker_frame
    <3>2. QED
      BY <2>31, <3>1 DEF WorkRequeue, worker_frame
  <2>32. CASE WorkDefer
    <3>1. defer_armed' \in BOOLEAN
      BY <2>32, Zenon DEF WorkDefer, worker_frame
    <3>2. QED
      BY <2>32, <3>1 DEF WorkDefer, worker_frame
  <2>33. CASE WorkDamage
    BY <2>33 DEF WorkDamage, worker_frame
  <2>34. CASE WorkEnter
    BY <2>34 DEF WorkEnter, worker_frame
  <2>35. CASE WorkSend
    <3>1. w_ok' \in BOOLEAN
      BY <2>35, Zenon DEF WorkSend, worker_frame
    <3>2. QED
      BY <2>35, <3>1 DEF WorkSend, worker_frame
  <2>36. CASE WorkTransfer
    <3>1. io_faulted' \in BOOLEAN /\ w_ok' \in BOOLEAN
      BY <2>36, Zenon DEF WorkTransfer, worker_frame
    <3>2. QED
      BY <2>36, <3>1 DEF WorkTransfer, worker_frame
  <2>37. CASE WorkAck
    <3>1. last_sent_valid' \in BOOLEAN /\ refresh_elapsed' \in BOOLEAN
      BY <2>37, Zenon DEF WorkAck, worker_frame
    <3>2. QED
      BY <2>37, <3>1 DEF WorkAck, worker_frame, RefreshAllowed
  <2>38. CASE WorkArm
    BY <2>38 DEF WorkArm, worker_frame
  <2>39. CASE WorkUnlock
    <3>1. gate_open' \in BOOLEAN
      BY <2>39, Zenon DEF WorkUnlock, worker_frame
    <3>2. QED
      BY <2>39, <3>1 DEF WorkUnlock, worker_frame
  <2>40. CASE WorkDone
    <3>1. /\ head_faulted' \in BOOLEAN /\ io_faulted' \in BOOLEAN
          /\ last_sent_valid' \in BOOLEAN /\ tx_pending' \in BOOLEAN
          /\ tx_work_queued' \in BOOLEAN
      BY <2>40, Zenon DEF WorkDone, worker_frame, QueueTxWork
    <3>2. QED
      BY <2>40, <3>1 DEF WorkDone, worker_frame, QueueTxWork
  <2>41. CASE TimerCheck
    BY <2>41 DEF TimerCheck, callback_frame
  <2>42. CASE TimerRearm
    BY <2>42 DEF TimerRearm, callback_frame
  <2>43. CASE TimerDue
    BY <2>43 DEF TimerDue, callback_frame
  <2>44. CASE TimerQueue
    BY <2>44 DEF TimerQueue, callback_frame, QueueTxWork
  <2>45. CASE DeferRuns
    BY <2>45 DEF DeferRuns, callback_frame, QueueTxWork
  <2>46. CASE DisconnectBegins
    BY <2>46 DEF DisconnectBegins, usb_frame
  <2>47. CASE SuspendBegins
    BY <2>47 DEF SuspendBegins, usb_frame
  <2>48. CASE Resume
    BY <2>48 DEF Resume, usb_frame
  <2>49. CASE DisconnectSynced
    BY <2>49 DEF DisconnectSynced, usb_frame
  <2>50. CASE CancelTimer
    <3>1. timer_armed' \in BOOLEAN
      BY <2>50, Zenon DEF CancelTimer, usb_frame
    <3>2. QED
      BY <2>50, <3>1 DEF CancelTimer, usb_frame
  <2>51. CASE CancelDefer
    <3>1. defer_armed' \in BOOLEAN
      BY <2>51, Zenon DEF CancelDefer, usb_frame
    <3>2. QED
      BY <2>51, <3>1 DEF CancelDefer, usb_frame
  <2>52. CASE CancelWork
    <3>1. tx_work_queued' \in BOOLEAN
      BY <2>52, Zenon DEF CancelWork, usb_frame
    <3>2. QED
      BY <2>52, <3>1 DEF CancelWork, usb_frame
  <2>53. CASE DestroyQueue
    BY <2>53 DEF DestroyQueue, usb_frame
  <2>54. CASE FinalOffPolicy
    BY <2>54 DEF FinalOffPolicy, usb_frame
  <2>55. CASE Shutdown
    <3>1. crtc_on' \in BOOLEAN /\ plane_fb' \in BOOLEAN
      BY <2>55, Zenon DEF Shutdown, usb_frame
    <3>2. QED
      BY <2>55, <3>1 DEF Shutdown, usb_frame
  <2>56. CASE FreeBuffers
    <3>1. /\ last_sent_valid' \in BOOLEAN /\ timer_armed' \in BOOLEAN
          /\ tx_pending' \in BOOLEAN
      BY <2>56, Zenon DEF FreeBuffers
    <3>2. QED
      BY <2>56, <3>1 DEF FreeBuffers
  <2>57. CASE DisconnectUnplugs
    BY <2>57 DEF DisconnectUnplugs, usb_frame
  <2>58. CASE CancelFlag
    <3>1. scanout_active' \in BOOLEAN
      BY <2>58, Zenon DEF CancelFlag, usb_frame
    <3>2. QED
      BY <2>58, <3>1 DEF CancelFlag, usb_frame
  <2>59. CASE CancelDue
    <3>1. keepalive_due' \in BOOLEAN
      BY <2>59, Zenon DEF CancelDue, usb_frame
    <3>2. QED
      BY <2>59, <3>1 DEF CancelDue, usb_frame
  <2>60. CASE FinalOffRequest
    <3>1. final_off' \in BOOLEAN
      BY <2>60, Zenon DEF FinalOffRequest, usb_frame
    <3>2. QED
      BY <2>60, <3>1 DEF FinalOffRequest, usb_frame
  <2>61. CASE UNCHANGED vars
    BY <2>61 DEF vars
  <2>62. QED
    BY <2>1, <2>2, <2>3, <2>4, <2>5, <2>6, <2>7, <2>8, <2>9, <2>10, <2>11,
       <2>12, <2>13, <2>14, <2>15, <2>16, <2>17, <2>18, <2>19, <2>20,
       <2>21, <2>22, <2>23, <2>24, <2>25, <2>26, <2>27, <2>28, <2>29,
       <2>30, <2>31, <2>32, <2>33, <2>34, <2>35, <2>36, <2>37, <2>38,
       <2>39, <2>40, <2>41, <2>42, <2>43, <2>44, <2>45, <2>46, <2>47,
       <2>48, <2>49, <2>50, <2>51, <2>52, <2>53, <2>54, <2>55, <2>56,
       <2>57, <2>58, <2>59, <2>60, <2>61 DEF Next, CommitBegins,
       CommitWaits, CommitRuns, Worker, Callbacks, UsbBegins, UsbWaits,
       UsbRuns, Unbound
<1>3. QED
  BY <1>1, <1>2, PTL DEF Spec

-----------------------------------------------------------------------------
(* The private monitor-off of disconnect *)

\* Stages of disconnect after the workqueue is gone, and those after the
\* private monitor-off was decided.
AfterQueue == {"policy", "off", "shutdown", "stopping", "free", "gone"}
AfterOff   == {"shutdown", "stopping", "free", "gone"}

\* What unplug guarantees to the later stages of disconnect: no commit is in a
\* DRM section, so none can reach the adapter; once the workqueue is gone the
\* worker rests; and what was sound when the private request went out stays so.
UnplugInv ==
  /\ u \in {"bound", "unplug", "suspended"} => ~unplugged
  /\ u \in {"srcu", "flush"} \cup AfterQueue => unplugged
  /\ unplugged /\ u # "srcu" => ~CommitInDrm
  /\ wq = "gone" <=> u \in AfterQueue
  /\ wq = "gone" => w = "idle"
  /\ final_off => u \in AfterOff /\ ~Faulted

\* UnplugInv holds in every reachable state.
LEMMA UnplugInvariant == Spec => []UnplugInv
<1>1. Init => UnplugInv
  BY ParamsAssumption DEF Init, UnplugInv, AfterQueue, AfterOff, CommitInDrm,
     Faulted
<1>2. TypeOK /\ UnplugInv /\ [Next]_vars => UnplugInv'
  <2> SUFFICES ASSUME TypeOK, UnplugInv, [Next]_vars
               PROVE  UnplugInv'
    OBVIOUS
  <2> USE DEF TypeOK, UnplugInv, AfterQueue, AfterOff, CommitInDrm, Faulted
  <2>1. CASE RefreshDeadlinePasses
    BY <2>1 DEF RefreshDeadlinePasses
  <2>2. CASE GateOpens
    BY <2>2 DEF GateOpens
  <2>3. CASE Detach
    BY <2>3 DEF Detach
  <2>4. CASE WorkLock
    BY <2>4 DEF WorkLock, worker_frame
  <2>5. CASE TimerFires
    BY <2>5 DEF TimerFires, callback_frame
  <2>6. CASE DeferFires
    BY <2>6 DEF DeferFires, callback_frame
  <2>7. CASE CommitBegins
    BY <2>7 DEF CommitBegins, CommitOn, commit_frame, CommitFlip, CommitOff,
       CommitModeset
  <2>8. CASE CommitWaits
    BY <2>8 DEF CommitWaits, DisableTimer, commit_frame, DisableDefer,
       DisableWork, EnableTimer, CommitLock
  <2>9. CASE CommitRuns
    <3>1. CASE DisableFlag
      BY <3>1 DEF DisableFlag, commit_frame
    <3>2. CASE DisableClear
      BY <3>2 DEF DisableClear, commit_frame
    <3>3. CASE DisableEnter
      BY <3>3 DEF DisableEnter, commit_frame, AfterDisable
    <3>4. CASE DisableOff
      BY <3>4 DEF DisableOff, commit_frame, CtrlOut, AfterDisable
    <3>5. CASE EnableCheck
      BY <3>5 DEF EnableCheck, commit_frame
    <3>6. CASE EnableEnter
      BY <3>6 DEF EnableEnter, commit_frame
    <3>7. CASE EnableOn
      BY <3>7 DEF EnableOn, commit_frame, CtrlOut
    <3>8. CASE EnableActive
      BY <3>8 DEF EnableActive, commit_frame
    <3>9. CASE PlaneCheck
      BY <3>9 DEF PlaneCheck, commit_frame
    <3>10. CASE PlaneEnter
      BY <3>10 DEF PlaneEnter, commit_frame
    <3>11. CASE PlaneStage
      BY <3>11 DEF PlaneStage, commit_frame
    <3>12. CASE PlaneQueue
      BY <3>12 DEF PlaneQueue, commit_frame, QueueTxWork
    <3>13. QED
      BY <2>9, <3>1, <3>2, <3>3, <3>4, <3>5, <3>6, <3>7, <3>8, <3>9, <3>10,
         <3>11, <3>12 DEF CommitRuns
  <2>10. CASE Worker
    BY <2>10 DEF Worker, WorkStart, worker_frame, WorkPop, WorkGate,
       WorkRequeue, WorkDefer, WorkDamage, WorkEnter, WorkSend, WorkTransfer,
       WorkAck, WorkArm, WorkUnlock, WorkDone, QueueTxWork
  <2>11. CASE Callbacks
    BY <2>11 DEF Callbacks, TimerCheck, callback_frame, TimerRearm, TimerDue,
       TimerQueue, QueueTxWork, DeferRuns
  <2>12. CASE UsbBegins
    BY <2>12 DEF UsbBegins, DisconnectBegins, usb_frame, SuspendBegins,
       Resume
  <2>13. CASE UsbWaits
    BY <2>13 DEF UsbWaits, DisconnectSynced, usb_frame, CancelTimer,
       CancelDefer, CancelWork, DestroyQueue, FinalOffPolicy, Shutdown,
       FreeBuffers
  <2>14. CASE UsbRuns
    BY <2>14 DEF UsbRuns, DisconnectUnplugs, usb_frame, CancelFlag,
       CancelDue, FinalOffRequest, FinalOffAllowed
  <2>15. CASE UNCHANGED vars
    BY <2>15 DEF vars
  <2>16. QED
    BY <2>1, <2>2, <2>3, <2>4, <2>5, <2>6, <2>7, <2>8, <2>9, <2>10, <2>11,
       <2>12, <2>13, <2>14, <2>15 DEF Next, Unbound
<1>3. QED
  BY <1>1, <1>2, Typing, PTL DEF Spec

\* The private monitor-off is only sent over a sound transport; once it is
\* sent, nothing else reaches the adapter.
THEOREM FinalOffLast == Spec => FinalOffIsLast
<1>1. TypeOK /\ UnplugInv /\ [Next]_vars
      => [final_off => monitor' = monitor /\ shown' = shown]_<<monitor, shown>>
  <2> SUFFICES ASSUME TypeOK, UnplugInv, [Next]_vars, final_off
               PROVE  monitor' = monitor /\ shown' = shown
    OBVIOUS
  <2> USE DEF TypeOK, UnplugInv, AfterQueue, AfterOff, CommitInDrm
  <2>1. CASE RefreshDeadlinePasses
    BY <2>1 DEF RefreshDeadlinePasses
  <2>2. CASE GateOpens
    BY <2>2 DEF GateOpens
  <2>3. CASE Detach
    BY <2>3 DEF Detach
  <2>4. CASE WorkLock
    BY <2>4 DEF WorkLock, worker_frame
  <2>5. CASE TimerFires
    BY <2>5 DEF TimerFires, callback_frame
  <2>6. CASE DeferFires
    BY <2>6 DEF DeferFires, callback_frame
  <2>7. CASE CommitBegins
    BY <2>7 DEF CommitBegins, CommitOn, commit_frame, CommitFlip, CommitOff,
       CommitModeset
  <2>8. CASE CommitWaits
    BY <2>8 DEF CommitWaits, DisableTimer, commit_frame, DisableDefer,
       DisableWork, EnableTimer, CommitLock
  <2>9. CASE CommitRuns
    BY <2>9 DEF CommitRuns, DisableFlag, commit_frame, DisableClear,
       DisableEnter, DisableOff, CtrlOut, EnableCheck, EnableEnter,
       EnableOn, EnableActive, PlaneCheck, PlaneEnter, PlaneStage,
       PlaneQueue
  <2>10. CASE Worker
    BY <2>10 DEF Worker, WorkStart, worker_frame, WorkPop, WorkGate,
       WorkRequeue, WorkDefer, WorkDamage, WorkEnter, WorkSend,
       WorkTransfer, WorkAck, WorkArm, WorkUnlock, WorkDone
  <2>11. CASE Callbacks
    BY <2>11 DEF Callbacks, TimerCheck, callback_frame, TimerRearm,
       TimerDue, TimerQueue, DeferRuns
  <2>12. CASE UsbBegins
    BY <2>12 DEF UsbBegins, DisconnectBegins, usb_frame, SuspendBegins,
       Resume
  <2>13. CASE UsbWaits
    BY <2>13 DEF UsbWaits, DisconnectSynced, usb_frame, CancelTimer,
       CancelDefer, CancelWork, DestroyQueue, FinalOffPolicy, Shutdown,
       FreeBuffers
  <2>14. CASE UsbRuns
    BY <2>14 DEF UsbRuns, DisconnectUnplugs, usb_frame, CancelFlag,
       CancelDue, FinalOffRequest
  <2>15. CASE UNCHANGED vars
    BY <2>15 DEF vars
  <2>16. QED
    BY <2>1, <2>2, <2>3, <2>4, <2>5, <2>6, <2>7, <2>8, <2>9, <2>10, <2>11,
       <2>12, <2>13, <2>14, <2>15 DEF Next, Unbound
<1>2. UnplugInv' => (final_off' => ~Faulted')
  BY DEF UnplugInv
<1>3. TypeOK /\ UnplugInv /\ UnplugInv' /\ [Next]_vars
      => [/\ final_off => monitor' = monitor /\ shown' = shown
          /\ final_off' => ~Faulted']_<<monitor, shown, final_off, faults>>
  BY <1>1, <1>2
<1>4. QED
  BY <1>3, Typing, UnplugInvariant, PTL DEF Spec, FinalOffIsLast

-----------------------------------------------------------------------------
(* Waiting *)

\* An agent that waits for another does not move.
LEMMA WaitersWait ==
  ASSUME NEW b \in Agents, TypeOK, [Next]_vars
  PROVE  /\ WaitsFor("commit", b) => c' = c
         /\ WaitsFor("worker", b) => w' = w
         /\ WaitsFor("usb", b) => u' = u
<1> USE DEF TypeOK, WaitsFor, Agents
<1>1. CASE RefreshDeadlinePasses \/ GateOpens \/ Detach
  BY <1>1 DEF RefreshDeadlinePasses, GateOpens, Detach
<1>2. CASE TimerFires \/ DeferFires \/ Callbacks
  BY <1>2 DEF TimerFires, DeferFires, Callbacks, TimerCheck, TimerRearm,
     TimerDue, TimerQueue, DeferRuns, callback_frame
<1>3. CASE CommitBegins
  BY <1>3 DEF CommitBegins, CommitOn, CommitFlip, CommitOff, CommitModeset,
     commit_frame
<1>4. CASE CommitWaits
  BY <1>4 DEF CommitWaits, DisableTimer, DisableDefer, DisableWork,
     EnableTimer, CommitLock, commit_frame
<1>5. CASE CommitRuns
  BY <1>5 DEF CommitRuns, DisableFlag, DisableClear, DisableEnter, DisableOff,
     CtrlOut, EnableCheck, EnableEnter, EnableOn, EnableActive, PlaneCheck,
     PlaneEnter, PlaneStage, PlaneQueue, commit_frame
<1>6. CASE Worker \/ WorkLock
  BY <1>6 DEF Worker, WorkStart, WorkPop, WorkGate, WorkRequeue, WorkDefer,
     WorkDamage, WorkLock, WorkEnter, WorkSend, WorkTransfer, WorkAck, WorkArm,
     WorkUnlock, WorkDone, worker_frame
<1>7. CASE UsbBegins \/ UsbRuns
  BY <1>7 DEF UsbBegins, DisconnectBegins, SuspendBegins, Resume, UsbRuns,
     DisconnectUnplugs, CancelFlag, CancelDue, FinalOffRequest, usb_frame
<1>8. CASE UsbWaits
  BY <1>8 DEF UsbWaits, DisconnectSynced, CancelTimer, CancelDefer, CancelWork,
     DestroyQueue, FinalOffPolicy, Shutdown, FreeBuffers, usb_frame
<1>9. CASE UNCHANGED vars
  BY <1>9 DEF vars
<1>10. QED
  BY <1>1, <1>2, <1>3, <1>4, <1>5, <1>6, <1>7, <1>8, <1>9 DEF Next, Unbound

\* The holder of io_lock waits for no one.
LEMMA HolderRuns ==
  ASSUME TypeOK, NEW b \in Agents
  PROVE  ~WaitsFor(io_lock, b)
  BY DEF TypeOK, WaitsFor, Agents, FinalOffAllowed

\* Callbacks never wait, the worker only for io_lock, a commit never for the
\* USB core unless it holds io_lock, and the USB core never for itself.
LEMMA WaitOrder ==
  ASSUME TypeOK, NEW a \in Agents, NEW b \in Agents, WaitsFor(a, b)
  PROVE  /\ a \in {"commit", "worker", "usb"}
         /\ a = "worker" => b = io_lock
         /\ a = "commit" => b \in {"timer", "defer", "worker", io_lock}
         /\ a = "usb" => b \in {"timer", "defer", "worker", "commit", io_lock}
  BY DEF WaitsFor, Agents

\* Commit, worker, callbacks and USB core never wait for each other in a
\* circle.
THEOREM NoDeadlock == Spec => []NoCircularWait
<1>1. TypeOK => NoCircularWait
  <2> SUFFICES ASSUME TypeOK, NEW S \in SUBSET Agents, S # {},
                      \A a \in S : \E b \in S : WaitsFor(a, b)
               PROVE  FALSE
    BY DEF NoCircularWait, Waiting
  <2>1. io_lock \notin S
    BY HolderRuns
  <2>2. "timer" \notin S /\ "defer" \notin S
    <3>1. \A a \in S : a \in {"commit", "worker", "usb"}
      BY WaitOrder
    <3>2. QED
      BY <3>1
  <2>3. "worker" \notin S
    BY <2>1, WaitOrder
  <2>4. "commit" \notin S
    BY <2>1, <2>2, <2>3, WaitOrder
  <2>5. "usb" \notin S
    BY <2>1, <2>2, <2>3, <2>4, WaitOrder
  <2>6. QED
    BY <2>2, <2>3, <2>4, <2>5 DEF Agents
<1>2. QED
  BY <1>1, Typing, PTL

=============================================================================
