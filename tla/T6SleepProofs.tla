--------------------------- MODULE T6SleepProofs ----------------------------
(***************************************************************************)
(* The sleep hook of the host controller: what a failed pause leaves behind *)
(* when nobody resets the ledger, and what a pause that reported success    *)
(* guarantees when no insmod is abandoned before the kernel has its file.   *)
(***************************************************************************)
EXTENDS T6ControllerProofs

USE DEF ledger, intent, budget, choice, outcome, loops, sleeping, holder,
        module, device, kernel, history, op_frame

-----------------------------------------------------------------------------
(* A pause that failed *)

\* sleep-inhibit is there from the marker on, and stays there while the ledger
\* holds a pause; the intent that made it worth pausing is still recorded.
PauseInv ==
  /\ hook \in {"marked", "pausing"} => inhibit
  /\ inflight = "pause" => inhibit /\ paused /\ desired
  /\ task = "pause" => paused

\* PauseInv holds in every reachable state, if nobody resets the ledger.
LEMMA PauseInvariant == ASSUME "clear" \notin Commands PROVE Spec => []PauseInv
<1>1. Init => PauseInv
  BY DEF Init, PauseInv, None
<1>2. TypeOK /\ PauseInv /\ [Next]_vars => PauseInv'
  <2> SUFFICES ASSUME TypeOK, PauseInv, [Next]_vars
               PROVE  PauseInv'
    OBVIOUS
  <2> USE DEF TypeOK, PauseInv, LockIsFree, PauseCompleted, None
  <2>1. CASE TimePasses
    BY <2>1 DEF TimePasses
  <2>2. CASE Plug
    BY <2>2 DEF Plug
  <2>3. CASE Unplug
    BY <2>3 DEF Unplug
  <2>4. CASE TransportFails
    BY <2>4 DEF TransportFails
  <2>5. CASE ReadinessChanges
    BY <2>5 DEF ReadinessChanges
  <2>6. CASE KernelRuns
    BY <2>6 DEF KernelRuns
  <2>7. CASE GhostDies
    BY <2>7 DEF GhostDies
  <2>8. CASE TickSnapshotFails
    BY <2>8 DEF TickSnapshotFails
  <2>9. CASE TickDecides
    BY <2>9 DEF TickDecides, Begin, Take
  <2>10. CASE TickCommits
    BY <2>10 DEF TickCommits, MarkInflight
  <2>11. CASE StopSnapshot
    BY <2>11 DEF StopSnapshot, StopSucceeds, Fails, Release, PreEnds
  <2>12. CASE StopChecks
    BY <2>12 DEF StopChecks
  <2>13. CASE Submit
    BY <2>13 DEF Submit, Runs
  <2>14. CASE StopCommandEnds
    BY <2>14 DEF StopCommandEnds, StopSucceeds, Fails, Release, GivesUp,
       PreEnds
  <2>15. CASE StartVerifies
    BY <2>15 DEF StartVerifies
  <2>16. CASE StartRechecks
    BY <2>16 DEF StartRechecks
  <2>17. CASE StartCommandEnds
    BY <2>17 DEF StartCommandEnds, Fails, Release, GivesUp, PreEnds
  <2>18. CASE StopRefuses
    BY <2>18 DEF StopRefuses, Fails, Release, PreEnds
  <2>19. CASE StartRefuses
    BY <2>19 DEF StartRefuses, Fails, Release, PreEnds
  <2>20. CASE ProcessStarts
    BY <2>20 DEF ProcessStarts
  <2>21. CASE ProcessEnds
    BY <2>21 DEF ProcessEnds
  <2>22. CASE CommandStop
    BY <2>22 DEF CommandStop, Take
  <2>23. CASE CommandClearCircuit
    BY <2>23 DEF CommandClearCircuit, LockIsFree
  <2>24. CASE ClearCircuitDies
    BY <2>24 DEF ClearCircuitDies
  <2>25. CASE PauseMarks
    BY <2>25 DEF PauseMarks
  <2>26. CASE CommandPause
    BY <2>26 DEF CommandPause, Take
  <2>27. CASE PauseFails
    BY <2>27 DEF PauseFails
  <2>28. CASE Sleeps
    BY <2>28 DEF Sleeps
  <2>29. CASE Wakes
    BY <2>29 DEF Wakes
  <2>30. CASE CommandResume
    BY <2>30 DEF CommandResume, LockIsFree
  <2>31. CASE ResumeFails
    BY <2>31 DEF ResumeFails
  <2>32. CASE Dies
    BY <2>32 DEF Dies, Release, PreEnds
  <2>33. CASE UNCHANGED vars
    BY <2>33 DEF vars
  <2>34. QED
    BY <2>1, <2>2, <2>3, <2>4, <2>5, <2>6, <2>7, <2>8, <2>9, <2>10, <2>11,
       <2>12, <2>13, <2>14, <2>15, <2>16, <2>17, <2>18, <2>19, <2>20, <2>21,
       <2>22, <2>23, <2>24, <2>25, <2>26, <2>27, <2>28, <2>29, <2>30, <2>31,
       <2>32, <2>33 DEF Next, Environment, HolderRuns, HolderRefuses,
       UserActs, HookRuns
<1>3. QED
  BY <1>1, <1>2, Typing, PTL DEF Spec

\* A pause that failed in its stop leaves the machine inhibited.
THEOREM FailedPauseInhibits ==
  ASSUME "clear" \notin Commands
  PROVE  Spec => []IncompletePauseIsInhibited
<1>1. PauseInv => IncompletePauseIsInhibited
  BY DEF PauseInv, IncompletePauseIsInhibited
<1>2. QED
  BY <1>1, PauseInvariant, PTL

-----------------------------------------------------------------------------
(* A pause that reported success *)

\* Who may still be inserting: an insmod is waited for until it is in the init
\* function, and whoever is there keeps the module from being inserted again;
\* one rmmod at most is in the exit function.
InsertInv ==
  /\ "insmod" \notin ghosts
  /\ kop = "insmod" => pc = "run_insmod"
  /\ kop = "init" =>
       pc = "run_insmod" /\ mod = "coming" /\ "init" \notin ghosts
  /\ "init" \in ghosts => mod = "coming"
  /\ kop = "exit" => mod = "going" /\ "exit" \notin ghosts
  /\ "exit" \in ghosts => mod = "going"

\* InsertInv holds in every reachable state, if nobody kills the controller
\* and no insmod is given up before the kernel has its file.
LEMMA InsertInvariant ==
  ASSUME "crash" \notin Commands, "stall" \notin Commands
  PROVE  Spec => []InsertInv
<1>1. Init => InsertInv
  BY DEF Init, InsertInv
<1>2. TypeOK /\ InsertInv /\ [Next]_vars => InsertInv'
  <2> SUFFICES ASSUME TypeOK, InsertInv, [Next]_vars
               PROVE  InsertInv'
    OBVIOUS
  <2> USE DEF TypeOK, InsertInv, LockIsFree
  <2>1. CASE TimePasses
    BY <2>1 DEF TimePasses
  <2>2. CASE Plug
    BY <2>2 DEF Plug
  <2>3. CASE Unplug
    BY <2>3 DEF Unplug
  <2>4. CASE TransportFails
    BY <2>4 DEF TransportFails
  <2>5. CASE ReadinessChanges
    BY <2>5 DEF ReadinessChanges
  <2>6. CASE KernelRuns
    <3>1. PICK op, result : /\ Effect(op, result)
                             /\ result \in {"ok", "fail", "init", "exit"}
                             /\ \/ op = kop /\ kop \in Ops /\ kop' = result
                                   /\ UNCHANGED ghosts
                                \/ /\ op \in ghosts
                                   /\ ghosts' = (ghosts \ {op})
                                                    \cup ({result} \cap Ops)
                                   /\ UNCHANGED kop
      BY <2>6 DEF KernelRuns
    <3>2. UNCHANGED pc
      BY <2>6 DEF KernelRuns
    <3>3. CASE op = "insmod"
      BY <3>1, <3>2, <3>3 DEF Effect, Ops
    <3>4. CASE op = "init"
      BY <3>1, <3>2, <3>4 DEF Effect, Gone, Ops
    <3>5. CASE op = "unbind"
      BY <3>1, <3>2, <3>5 DEF Effect, Ops
    <3>6. CASE op = "rmmod"
      BY <3>1, <3>2, <3>6 DEF Effect, Ops
    <3>7. CASE op = "exit"
      BY <3>1, <3>2, <3>7 DEF Effect, Gone, Ops
    <3>8. QED
      BY <3>1, <3>3, <3>4, <3>5, <3>6, <3>7 DEF Ops
  <2>7. CASE GhostDies
    BY <2>7 DEF GhostDies, Ops
  <2>8. CASE TickSnapshotFails
    BY <2>8 DEF TickSnapshotFails
  <2>9. CASE TickDecides
    BY <2>9 DEF TickDecides, Begin, Take
  <2>10. CASE TickCommits
    BY <2>10 DEF TickCommits, MarkInflight
  <2>11. CASE StopSnapshot
    BY <2>11 DEF StopSnapshot, StopSucceeds, Fails, Release, PreEnds
  <2>12. CASE StopChecks
    BY <2>12 DEF StopChecks
  <2>13. CASE Submit
    BY <2>13 DEF Submit, Runs
  <2>14. CASE StopCommandEnds
    BY <2>14 DEF StopCommandEnds, StopSucceeds, Fails, Release, GivesUp,
       PreEnds, Ops
  <2>15. CASE StartVerifies
    BY <2>15 DEF StartVerifies
  <2>16. CASE StartRechecks
    BY <2>16 DEF StartRechecks
  <2>17. CASE StartCommandEnds
    BY <2>17 DEF StartCommandEnds, Fails, Release, GivesUp, PreEnds, Ops
  <2>18. CASE StopRefuses
    BY <2>18 DEF StopRefuses, Fails, Release, PreEnds
  <2>19. CASE StartRefuses
    BY <2>19 DEF StartRefuses, Fails, Release, PreEnds
  <2>20. CASE ProcessStarts
    BY <2>20 DEF ProcessStarts
  <2>21. CASE ProcessEnds
    BY <2>21 DEF ProcessEnds
  <2>22. CASE CommandStop
    BY <2>22 DEF CommandStop, Take
  <2>23. CASE CommandClearCircuit
    BY <2>23 DEF CommandClearCircuit, LockIsFree
  <2>24. CASE ClearCircuitDies
    BY <2>24 DEF ClearCircuitDies
  <2>25. CASE PauseMarks
    BY <2>25 DEF PauseMarks
  <2>26. CASE CommandPause
    BY <2>26 DEF CommandPause, Take
  <2>27. CASE PauseFails
    BY <2>27 DEF PauseFails
  <2>28. CASE Sleeps
    BY <2>28 DEF Sleeps
  <2>29. CASE Wakes
    BY <2>29 DEF Wakes
  <2>30. CASE CommandResume
    BY <2>30 DEF CommandResume, LockIsFree
  <2>31. CASE ResumeFails
    BY <2>31 DEF ResumeFails
  <2>32. CASE Dies
    BY <2>32 DEF Dies, Release, PreEnds, Ops
  <2>33. CASE UNCHANGED vars
    BY <2>33 DEF vars
  <2>34. QED
    BY <2>1, <2>2, <2>3, <2>4, <2>5, <2>6, <2>7, <2>8, <2>9, <2>10, <2>11,
       <2>12, <2>13, <2>14, <2>15, <2>16, <2>17, <2>18, <2>19, <2>20, <2>21,
       <2>22, <2>23, <2>24, <2>25, <2>26, <2>27, <2>28, <2>29, <2>30, <2>31,
       <2>32, <2>33 DEF Next, Environment, HolderRuns, HolderRefuses,
       UserActs, HookRuns
<1>3. QED
  BY <1>1, <1>2, Typing, PTL DEF Spec

\* From a pause that succeeded until its resume there is no module, and the
\* ledger says paused, which no start gets past.
QuiesceInv ==
  /\ hook \in {"ready", "asleep", "woken"} /\ pre_ok /\ inhibit
       => mod = "none" /\ paused
  /\ task = "pause" => paused

\* QuiesceInv holds in every reachable state, under the same assumption.
LEMMA QuiesceInvariant ==
  ASSUME "crash" \notin Commands, "stall" \notin Commands
  PROVE  Spec => []QuiesceInv
<1>1. Init => QuiesceInv
  BY DEF Init, QuiesceInv
<1>2. TypeOK /\ InsertInv /\ StartInv /\ QuiesceInv /\ [Next]_vars
        => QuiesceInv'
  <2> SUFFICES ASSUME TypeOK, InsertInv, StartInv, QuiesceInv,
                      [Next]_vars
               PROVE  QuiesceInv'
    OBVIOUS
  <2> USE DEF TypeOK, StartInv, QuiesceInv, LockIsFree
  <2>1. CASE TimePasses
    BY <2>1 DEF TimePasses
  <2>2. CASE Plug
    BY <2>2 DEF Plug
  <2>3. CASE Unplug
    BY <2>3 DEF Unplug
  <2>4. CASE TransportFails
    BY <2>4 DEF TransportFails
  <2>5. CASE ReadinessChanges
    BY <2>5 DEF ReadinessChanges
  <2>6. CASE KernelRuns
    <3>1. PICK op, result : Effect(op, result) /\ op \in {kop} \cup ghosts
      BY <2>6 DEF KernelRuns
    <3>2. CASE op = "insmod"
      BY <3>1, <3>2, <2>6 DEF KernelRuns, InsertInv
    <3>3. CASE op = "init"
      BY <3>1, <3>3, <2>6 DEF KernelRuns, InsertInv
    <3>4. CASE op \notin {"insmod", "init"}
      BY <3>1, <3>4, <2>6 DEF KernelRuns, Effect, Gone
    <3>5. QED
      BY <3>2, <3>3, <3>4
  <2>7. CASE GhostDies
    BY <2>7 DEF GhostDies
  <2>8. CASE TickSnapshotFails
    BY <2>8 DEF TickSnapshotFails
  <2>9. CASE TickDecides
    BY <2>9 DEF TickDecides, Begin, Take
  <2>10. CASE TickCommits
    BY <2>10 DEF TickCommits, MarkInflight
  <2>11. CASE StopSnapshot
    BY <2>11 DEF StopSnapshot, NothingToStop, StopSucceeds, Fails, Release,
       PreEnds
  <2>12. CASE StopChecks
    BY <2>12 DEF StopChecks
  <2>13. CASE Submit
    BY <2>13 DEF Submit, Runs
  <2>14. CASE StopCommandEnds
    BY <2>14 DEF StopCommandEnds, StopSucceeds, Fails, Release, GivesUp,
       PreEnds
  <2>15. CASE StartVerifies
    BY <2>15 DEF StartVerifies
  <2>16. CASE StartRechecks
    BY <2>16 DEF StartRechecks
  <2>17. CASE StartCommandEnds
    BY <2>17 DEF StartCommandEnds, Fails, Release, GivesUp, PreEnds
  <2>18. CASE StopRefuses
    BY <2>18 DEF StopRefuses, Fails, Release, PreEnds
  <2>19. CASE StartRefuses
    BY <2>19 DEF StartRefuses, Fails, Release, PreEnds
  <2>20. CASE ProcessStarts
    BY <2>20 DEF ProcessStarts
  <2>21. CASE ProcessEnds
    BY <2>21 DEF ProcessEnds
  <2>22. CASE CommandStop
    BY <2>22 DEF CommandStop, Take
  <2>23. CASE CommandClearCircuit
    BY <2>23 DEF CommandClearCircuit, LockIsFree
  <2>24. CASE ClearCircuitDies
    BY <2>24 DEF ClearCircuitDies
  <2>25. CASE PauseMarks
    BY <2>25 DEF PauseMarks
  <2>26. CASE CommandPause
    BY <2>26 DEF CommandPause, Take
  <2>27. CASE PauseFails
    BY <2>27 DEF PauseFails
  <2>28. CASE Sleeps
    BY <2>28 DEF Sleeps
  <2>29. CASE Wakes
    BY <2>29 DEF Wakes
  <2>30. CASE CommandResume
    BY <2>30 DEF CommandResume, LockIsFree
  <2>31. CASE ResumeFails
    BY <2>31 DEF ResumeFails
  <2>32. CASE Dies
    BY <2>32 DEF Dies, Release, PreEnds
  <2>33. CASE UNCHANGED vars
    BY <2>33 DEF vars
  <2>34. QED
    BY <2>1, <2>2, <2>3, <2>4, <2>5, <2>6, <2>7, <2>8, <2>9, <2>10, <2>11,
       <2>12, <2>13, <2>14, <2>15, <2>16, <2>17, <2>18, <2>19, <2>20, <2>21,
       <2>22, <2>23, <2>24, <2>25, <2>26, <2>27, <2>28, <2>29, <2>30, <2>31,
       <2>32, <2>33 DEF Next, Environment, HolderRuns, HolderRefuses,
       UserActs, HookRuns
<1>3. QED
  BY <1>1, <1>2, Typing, InsertInvariant, StartInvariant, PTL DEF Spec

\* A machine that sleeps after a successful pause has no module resident.
THEOREM QuiescedSleep ==
  ASSUME "crash" \notin Commands, "stall" \notin Commands
  PROVE  Spec => []SleepsQuiesced
<1>1. QuiesceInv => SleepsQuiesced
  BY DEF QuiesceInv, SleepsQuiesced
<1>2. QED
  BY <1>1, QuiesceInvariant, PTL

=============================================================================
