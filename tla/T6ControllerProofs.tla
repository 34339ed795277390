------------------------- MODULE T6ControllerProofs -------------------------
(***************************************************************************)
(* What holds of the host controller for every choice of its delays and     *)
(* budgets and any number of device generations: the range of its           *)
(* variables; no command runs in the kernel without an entry in the ledger; *)
(* insertions never exceed the attempts consumed, nor the budget of a boot; *)
(* none begins without the intent, nor twice for one generation.            *)
(***************************************************************************)
EXTENDS T6Controller, SequenceTheorems, FiniteSetTheorems, TLAPS

USE DEF ledger, intent, budget, choice, outcome, loops, sleeping, holder,
        module, device, kernel, history, op_frame

-----------------------------------------------------------------------------
(* Types *)

\* The Boolean variables, apart from the others: they are Zenon's work.
Flags ==
  /\ desired \in BOOLEAN /\ paused \in BOOLEAN /\ circuit \in BOOLEAN
  /\ inhibit \in BOOLEAN /\ watching \in BOOLEAN /\ starting \in BOOLEAN
  /\ pre_ok \in BOOLEAN /\ own \in BOOLEAN /\ used \in BOOLEAN
  /\ bound \in BOOLEAN /\ fault \in BOOLEAN /\ ready \in BOOLEAN
  /\ orphan \in BOOLEAN

\* A command in the kernel leaves the flags of module and device Boolean.
LEMMA EffectFlags ==
  ASSUME Flags, NEW op, NEW result, Effect(op, result)
  PROVE  /\ own' \in BOOLEAN /\ used' \in BOOLEAN
         /\ bound' \in BOOLEAN /\ fault' \in BOOLEAN
<1>1. own' \in BOOLEAN
  BY Zenon DEF Effect, Gone, Flags
<1>2. used' \in BOOLEAN
  BY Zenon DEF Effect, Gone, Flags
<1>3. bound' \in BOOLEAN
  BY Zenon DEF Effect, Gone, Flags
<1>4. fault' \in BOOLEAN
  BY Zenon DEF Effect, Gone, Flags
<1>5. QED
  BY <1>1, <1>2, <1>3, <1>4

\* So does the end of stop_module, in success and in failure.
LEMMA EndFlags ==
  ASSUME Flags, StopSucceeds \/ Fails
  PROVE  circuit' \in BOOLEAN /\ pre_ok' \in BOOLEAN
<1>1. circuit' \in BOOLEAN
  BY Zenon DEF StopSucceeds, Fails, LatchCleanup, Flags
<1>2. pre_ok' \in BOOLEAN
  BY Zenon DEF StopSucceeds, Fails, PreEnds, Flags
<1>3. QED
  BY <1>1, <1>2

\* The Boolean variables stay Boolean.
LEMMA FlagsTyping == Spec => []Flags
<1>1. Init => Flags
  BY Zenon DEF Init, Flags
<1>2. Flags /\ [Next]_vars => Flags'
  <2> SUFFICES ASSUME Flags, [Next]_vars PROVE Flags'
    OBVIOUS
  <2> USE DEF Flags
  <2>1. CASE TimePasses
    BY <2>1, Zenon DEF TimePasses, Older
  <2>2. CASE Plug
    BY <2>2, Zenon DEF Plug
  <2>3. CASE Unplug
    BY <2>3, Zenon DEF Unplug
  <2>4. CASE TransportFails
    BY <2>4, Zenon DEF TransportFails
  <2>5. CASE ReadinessChanges
    BY <2>5, Zenon DEF ReadinessChanges
  <2>6. CASE KernelRuns
    <3>1. \E op, result : Effect(op, result)
      BY <2>6 DEF KernelRuns
    <3>2. QED
      BY <3>1, <2>6, EffectFlags, Zenon DEF KernelRuns, Flags
  <2>7. CASE GhostDies
    BY <2>7, Zenon DEF GhostDies, Ops
  <2>8. CASE TickSnapshotFails
    BY <2>8, Zenon DEF TickSnapshotFails
  <2>9. CASE TickDecides
    <3>1. circuit' \in BOOLEAN
      BY <2>9, Zenon DEF TickDecides
    <3>2. UNCHANGED <<desired, paused, loops, sleeping, own, used, bound,
                      fault, ready, orphan>>
      BY <2>9 DEF TickDecides
    <3>3. QED
      BY <3>1, <3>2, Zenon DEF Flags
  <2>10. CASE TickCommits
    BY <2>10, Zenon DEF TickCommits, MarkInflight, ConsumeAttempt
  <2>11. CASE StopSnapshot
    <3>1. circuit' \in BOOLEAN /\ pre_ok' \in BOOLEAN
      <4>1. CASE NothingToStop
        BY <4>1, <2>11, EndFlags, Zenon DEF StopSnapshot
      <4>2. CASE ~NothingToStop /\ own
        BY <4>2, <2>11, Zenon DEF StopSnapshot, Flags
      <4>3. CASE ~NothingToStop /\ ~own
        BY <4>3, <2>11, EndFlags, Zenon DEF StopSnapshot
      <4>4. QED
        BY <4>1, <4>2, <4>3
    <3>2. QED
      BY <3>1, <2>11, Zenon DEF StopSnapshot, Flags
  <2>12. CASE StopChecks
    BY <2>12, Zenon DEF StopChecks
  <2>13. CASE Submit
    BY <2>13, Zenon DEF Submit, Runs, Ops
  <2>14. CASE StopCommandEnds
    <3>1. circuit' \in BOOLEAN /\ pre_ok' \in BOOLEAN
      <4>1. CASE UNCHANGED <<outcome, hook, pre_ok>>
        BY <4>1, Zenon DEF Flags
      <4>2. CASE StopSucceeds \/ Fails
        BY <4>2, EndFlags
      <4>3. QED
        BY <4>1, <4>2, <2>14 DEF StopCommandEnds, GivesUp
    <3>2. QED
      BY <3>1, <2>14, Zenon DEF StopCommandEnds, Flags
  <2>15. CASE StartVerifies
    BY <2>15, Zenon DEF StartVerifies
  <2>16. CASE StartRechecks
    BY <2>16, Zenon DEF StartRechecks
  <2>17. CASE StartCommandEnds
    <3>1. circuit' \in BOOLEAN /\ pre_ok' \in BOOLEAN
      <4>1. CASE UNCHANGED <<circuit, pre_ok>>
        BY <4>1, Zenon DEF Flags
      <4>2. CASE Fails
        BY <4>2, EndFlags
      <4>3. QED
        BY <4>1, <4>2, <2>17 DEF StartCommandEnds, GivesUp
    <3>2. QED
      BY <3>1, <2>17, Zenon DEF StartCommandEnds, Flags
  <2>18. CASE StopRefuses
    <3>1. circuit' \in BOOLEAN /\ pre_ok' \in BOOLEAN
      BY <2>18, EndFlags DEF StopRefuses
    <3>2. QED
      BY <3>1, <2>18, Zenon DEF StopRefuses
  <2>19. CASE StartRefuses
    <3>1. circuit' \in BOOLEAN /\ pre_ok' \in BOOLEAN
      BY <2>19, EndFlags DEF StartRefuses
    <3>2. QED
      BY <3>1, <2>19, Zenon DEF StartRefuses
  <2>20. CASE ProcessStarts
    BY <2>20, Zenon DEF ProcessStarts
  <2>21. CASE ProcessEnds
    BY <2>21, Zenon DEF ProcessEnds
  <2>22. CASE CommandStop
    BY <2>22, Zenon DEF CommandStop, Take, LockIsFree
  <2>23. CASE CommandClearCircuit
    BY <2>23, Zenon DEF CommandClearCircuit
  <2>24. CASE ClearCircuitDies
    BY <2>24, Zenon DEF ClearCircuitDies
  <2>25. CASE PauseMarks
    BY <2>25, Zenon DEF PauseMarks
  <2>26. CASE CommandPause
    BY <2>26, Zenon DEF CommandPause, Take, LockIsFree
  <2>27. CASE PauseFails
    BY <2>27, Zenon DEF PauseFails
  <2>28. CASE Sleeps
    BY <2>28, Zenon DEF Sleeps
  <2>29. CASE Wakes
    BY <2>29, Zenon DEF Wakes
  <2>30. CASE CommandResume
    BY <2>30, Zenon DEF CommandResume
  <2>31. CASE ResumeFails
    <3>1. inhibit' \in BOOLEAN
      BY <2>31, Zenon DEF ResumeFails, Flags
    <3>2. QED
      BY <3>1, <2>31, Zenon DEF ResumeFails, Flags
  <2>32. CASE Dies
    BY <2>32, Zenon DEF Dies, Release, PreEnds, Ops
  <2>33. CASE UNCHANGED vars
    BY <2>33, Zenon DEF vars
  <2>34. QED
    BY <2>1, <2>2, <2>3, <2>4, <2>5, <2>6, <2>7, <2>8, <2>9, <2>10, <2>11,
       <2>12, <2>13, <2>14, <2>15, <2>16, <2>17, <2>18, <2>19, <2>20, <2>21,
       <2>22, <2>23, <2>24, <2>25, <2>26, <2>27, <2>28, <2>29, <2>30, <2>31,
       <2>32, <2>33 DEF Next, Environment, HolderRuns, HolderRefuses,
       UserActs, HookRuns
<1>3. QED
  BY <1>1, <1>2, PTL DEF Spec

\* stop_module ends: it goes on inside start_module, is begun once more as the
\* cleanup of a failed start, or lets go of the lock.
LEMMA EndTyping ==
  ASSUME TypeOK, lock # "free", StopSucceeds \/ Fails
  PROVE  /\ managed_generation' \in Generations \cup {None}
         /\ tried' \in Generations \cup {None}
         /\ inflight' \in {None, "tick", "stop", "pause"}
         /\ lock' \in {"free", "watch", "start", "stop", "hook"}
         /\ lock' = "free" <=> pc' = "none"
         /\ pc' \in {"none", "insert", "stop"}
         /\ task' \in {"none", "start_tick", "stop_tick", "cleanup", "stop",
                       "pause"}
         /\ hook' \in {"awake", "marked", "pausing", "ready", "asleep",
                       "woken"}
         /\ hook' = "pausing" <=> lock' = "hook"
         /\ task' = "pause" <=> lock' = "hook"
         /\ pc' = "insert" => task' = "start_tick"
<1>1. CASE StopSucceeds
  BY <1>1 DEF StopSucceeds, Release, PreEnds, TypeOK
<1>2. CASE Fails
  BY <1>2 DEF Fails, Release, PreEnds, TypeOK
<1>3. QED
  BY <1>1, <1>2

\* An older attempt is still one of as many.
LEMMA OlderAttempts ==
  ASSUME HOUR \in Nat, attempts \in Seq(0..HOUR),
         attempts' = [i \in DOMAIN attempts |-> Older(attempts[i], HOUR)]
  PROVE  attempts' \in Seq(0..HOUR) /\ Len(attempts') = Len(attempts)
<1>1. \A i \in 1..Len(attempts) : Older(attempts[i], HOUR) \in 0..HOUR
  BY DEF Older
<1>2. QED
  BY <1>1

\* Every variable stays in its range, and the program counter is that of the
\* process that holds the lock.
THEOREM Typing == Spec => []TypeOK
<1>1. Init => TypeOK
  <2> SUFFICES ASSUME Init PROVE TypeOK
    OBVIOUS
  <2>1. Flags
    BY Zenon DEF Init, Flags
  <2>2. attempts \in Seq(0..HOUR)
    BY EmptySeq DEF Init
  <2>3. QED
    BY <2>1, <2>2, TimesAssumption DEF Init, TypeOK, Flags
<1>2. TypeOK /\ Flags' /\ [Next]_vars => TypeOK'
  <2> SUFFICES ASSUME TypeOK, Flags', [Next]_vars PROVE TypeOK'
    OBVIOUS
  <2> USE TimesAssumption, GenerationsAssumption DEF TypeOK, Flags
  <2>1. CASE TimePasses
    <3>1. attempts' \in Seq(0..HOUR)
      BY <2>1, OlderAttempts DEF TimePasses
    <3>2. QED
      BY <3>1, <2>1 DEF TimePasses, Older
  <2>2. CASE Plug
    BY <2>2 DEF Plug
  <2>3. CASE Unplug
    BY <2>3 DEF Unplug
  <2>4. CASE TransportFails
    BY <2>4 DEF TransportFails
  <2>5. CASE ReadinessChanges
    BY <2>5 DEF ReadinessChanges
  <2>6. CASE KernelRuns
    <3>1. PICK op, result : /\ Effect(op, result)
                             /\ result \in {"ok", "fail", "init", "exit"}
                             /\ \/ /\ kop \in Ops /\ kop' = result
                                   /\ UNCHANGED ghosts
                                \/ /\ ghosts' = (ghosts \ {op})
                                                    \cup ({result} \cap Ops)
                                   /\ UNCHANGED kop
      BY <2>6 DEF KernelRuns
    <3>2. mod' \in {"none", "coming", "live", "going"} /\ gen' = gen
      BY <3>1 DEF Effect, Gone
    <3>3. ghosts' \subseteq Ops /\ kop' \in Ops \cup {"none", "ok", "fail"}
      BY <3>1 DEF Ops
    <3>4. kop' # "none" => pc \in {"run_unbind", "run_rmmod", "run_insmod"}
      BY <3>1 DEF Ops
    <3>5. QED
      BY <3>2, <3>3, <3>4, <2>6 DEF KernelRuns
  <2>7. CASE GhostDies
    BY <2>7 DEF GhostDies, Ops
  <2>8. CASE TickSnapshotFails
    BY <2>8 DEF TickSnapshotFails
  <2>9. CASE TickDecides
    BY <2>9 DEF TickDecides, Begin, Take, CandidateAge, LockIsFree, Tickers,
       Awake
  <2>10. CASE TickCommits
    <3>1. attempts' \in Seq(0..HOUR) /\ last_age' \in 0..COOLDOWN_SECONDS
      <4>1. CASE task = "start_tick"
        <5>1. attempts' = Append(attempts, 0) /\ last_age' = 0
          BY <4>1, <2>10 DEF TickCommits, ConsumeAttempt
        <5>2. attempts \in Seq(0..HOUR) /\ 0 \in 0..HOUR
          OBVIOUS
        <5>3. Append(attempts, 0) \in Seq(0..HOUR)
          BY <5>2, AppendProperties
        <5>4. QED
          BY <5>1, <5>3
      <4>2. CASE task # "start_tick"
        BY <4>2, <2>10 DEF TickCommits
      <4>3. QED
        BY <4>1, <4>2
    <3>2. pc' \in {"verify", "stop"}
      BY <2>10 DEF TickCommits
    <3>3. QED
      BY <3>1, <3>2, <2>10 DEF TickCommits, MarkInflight
  <2>11. CASE StopSnapshot
    <3>1. CASE StopSucceeds \/ Fails
      BY <3>1, <2>11, EndTyping DEF StopSnapshot
    <3>2. CASE UNCHANGED <<outcome, lock, task, hook, tried>>
               /\ pc' \in {"unbind", "settle"}
      BY <3>2, <2>11 DEF StopSnapshot
    <3>3. QED
      BY <3>1, <3>2, <2>11 DEF StopSnapshot
  <2>12. CASE StopChecks
    BY <2>12 DEF StopChecks
  <2>13. CASE Submit
    BY <2>13 DEF Submit, Runs, Ops
  <2>14. CASE StopCommandEnds
    <3>1. ghosts' \subseteq Ops
      BY <2>14 DEF StopCommandEnds, GivesUp
    <3>2. CASE StopSucceeds \/ Fails
      BY <3>1, <3>2, <2>14, EndTyping DEF StopCommandEnds
    <3>3. CASE UNCHANGED <<outcome, lock, task, hook, tried>> /\ pc' = "settle"
      BY <3>1, <3>3, <2>14 DEF StopCommandEnds
    <3>4. QED
      BY <3>2, <3>3, <2>14 DEF StopCommandEnds, GivesUp
  <2>15. CASE StartVerifies
    BY <2>15 DEF StartVerifies
  <2>16. CASE StartRechecks
    BY <2>16 DEF StartRechecks
  <2>17. CASE StartCommandEnds
    <3>1. ghosts' \subseteq Ops
      BY <2>17 DEF StartCommandEnds, GivesUp
    <3>2. CASE Fails
      BY <3>1, <3>2, <2>17, EndTyping DEF StartCommandEnds
    <3>3. CASE managed_generation' = target /\ inflight' = None /\ Release
               /\ UNCHANGED <<hook, tried>>
      BY <3>1, <3>3, <2>17 DEF StartCommandEnds, Release
    <3>4. QED
      BY <3>2, <3>3, <2>17 DEF StartCommandEnds, GivesUp
  <2>18. CASE StopRefuses
    BY <2>18, EndTyping DEF StopRefuses
  <2>19. CASE StartRefuses
    BY <2>19, EndTyping DEF StartRefuses
  <2>20. CASE ProcessStarts
    BY <2>20 DEF ProcessStarts
  <2>21. CASE ProcessEnds
    BY <2>21 DEF ProcessEnds
  <2>22. CASE CommandStop
    BY <2>22 DEF CommandStop, Take, LockIsFree
  <2>23. CASE CommandClearCircuit
    BY <2>23 DEF CommandClearCircuit
  <2>24. CASE ClearCircuitDies
    BY <2>24 DEF ClearCircuitDies
  <2>25. CASE PauseMarks
    BY <2>25 DEF PauseMarks
  <2>26. CASE CommandPause
    BY <2>26 DEF CommandPause, Take, LockIsFree
  <2>27. CASE PauseFails
    BY <2>27 DEF PauseFails
  <2>28. CASE Sleeps
    BY <2>28 DEF Sleeps
  <2>29. CASE Wakes
    BY <2>29 DEF Wakes
  <2>30. CASE CommandResume
    BY <2>30 DEF CommandResume
  <2>31. CASE ResumeFails
    BY <2>31 DEF ResumeFails
  <2>32. CASE Dies
    <3>1. ghosts' \subseteq Ops
      BY <2>32 DEF Dies
    <3>2. QED
      BY <3>1, <2>32 DEF Dies, Release, PreEnds
  <2>33. CASE UNCHANGED vars
    BY <2>33 DEF vars
  <2>34. QED
    BY <2>1, <2>2, <2>3, <2>4, <2>5, <2>6, <2>7, <2>8, <2>9, <2>10, <2>11,
       <2>12, <2>13, <2>14, <2>15, <2>16, <2>17, <2>18, <2>19, <2>20, <2>21,
       <2>22, <2>23, <2>24, <2>25, <2>26, <2>27, <2>28, <2>29, <2>30, <2>31,
       <2>32, <2>33 DEF Next, Environment, HolderRuns, HolderRefuses,
       UserActs, HookRuns
<1>3. QED
  BY <1>1, <1>2, FlagsTyping, PTL DEF Spec

-----------------------------------------------------------------------------
(* What decide answers *)

\* start is the last rule's answer: none of those before it applies.
LEMMA StartConditions ==
  ASSUME NEW error, NEW i \in DOMAIN Rules(error),
         Decides(i, Rules(error)), Rules(error)[i].answer = "start"
  PROVE  /\ ~Unfinished /\ ~circuit /\ ~HeldBack
         /\ gen # None /\ gen # managed_generation
         /\ ~BudgetExhausted
         /\ ~(attempts # <<>> /\ last_age < COOLDOWN_SECONDS)
<1>1. i \in 1..18
  BY DEF Rules
<1>2. i = 18
  BY <1>1 DEF Rules, Rule
<1>3. \A j \in 1..17 : ~Rules(error)[j].when
  BY <1>2 DEF Decides
<1>4. /\ ~Rules(error)[1].when /\ ~Rules(error)[2].when
      /\ ~Rules(error)[3].when /\ ~Rules(error)[6].when
      /\ ~Rules(error)[12].when /\ ~Rules(error)[16].when
      /\ ~Rules(error)[17].when
  BY <1>3
<1>5. QED
  BY <1>4 DEF Rules, Rule

\* Work in flight stops every decision at the first rule.
LEMMA UnfinishedTrips ==
  ASSUME NEW error, NEW i \in DOMAIN Rules(error),
         Decides(i, Rules(error)), Unfinished
  PROVE  Rules(error)[i].answer = "trip"
<1>1. i \in 1..18
  BY DEF Rules
<1>2. Rules(error)[1].when
  BY DEF Rules, Rule
<1>3. i = 1
  BY <1>1, <1>2 DEF Decides
<1>4. QED
  BY <1>3 DEF Rules, Rule

-----------------------------------------------------------------------------
(* Operations in flight *)

\* From its second write of the ledger on an operation is marked there, and
\* the marker goes only together with the lock.
WorkInv == pc \notin {"none", "commit"} => inflight # None

\* WorkInv holds in every reachable state.
LEMMA WorkInvariant == Spec => []WorkInv
<1>1. Init => WorkInv
  BY DEF Init, WorkInv
<1>2. TypeOK /\ WorkInv /\ [Next]_vars => WorkInv'
  <2> SUFFICES ASSUME TypeOK, WorkInv, [Next]_vars
               PROVE  WorkInv'
    OBVIOUS
  <2> USE DEF TypeOK, WorkInv, None
  <2>1. CASE TimePasses
    BY <2>1 DEF TimePasses
  <2>2. CASE Plug
    BY <2>2 DEF Plug
  <2>3. CASE Unplug
    BY <2>3 DEF Unplug
  <2>4. CASE TransportFails
    BY <2>4 DEF TransportFails
  <2>5. CASE ReadinessChanges
    BY <2>5 DEF ReadinessChanges
  <2>6. CASE KernelRuns
    BY <2>6 DEF KernelRuns
  <2>7. CASE GhostDies
    BY <2>7 DEF GhostDies
  <2>8. CASE TickSnapshotFails
    BY <2>8 DEF TickSnapshotFails
  <2>9. CASE TickDecides
    BY <2>9 DEF TickDecides, Begin, Take
  <2>10. CASE TickCommits
    BY <2>10 DEF TickCommits, MarkInflight
  <2>11. CASE StopSnapshot
    BY <2>11 DEF StopSnapshot, StopSucceeds, Fails, Release
  <2>12. CASE StopChecks
    BY <2>12 DEF StopChecks
  <2>13. CASE Submit
    BY <2>13 DEF Submit, Runs
  <2>14. CASE StopCommandEnds
    BY <2>14 DEF StopCommandEnds, StopSucceeds, Fails, Release, GivesUp
  <2>15. CASE StartVerifies
    BY <2>15 DEF StartVerifies
  <2>16. CASE StartRechecks
    BY <2>16 DEF StartRechecks
  <2>17. CASE StartCommandEnds
    BY <2>17 DEF StartCommandEnds, Fails, Release, GivesUp
  <2>18. CASE StopRefuses
    BY <2>18 DEF StopRefuses, Fails, Release
  <2>19. CASE StartRefuses
    BY <2>19 DEF StartRefuses, Fails, Release
  <2>20. CASE ProcessStarts
    BY <2>20 DEF ProcessStarts
  <2>21. CASE ProcessEnds
    BY <2>21 DEF ProcessEnds
  <2>22. CASE CommandStop
    BY <2>22 DEF CommandStop, Take
  <2>23. CASE CommandClearCircuit
    BY <2>23 DEF CommandClearCircuit, LockIsFree
  <2>24. CASE ClearCircuitDies
    BY <2>24 DEF ClearCircuitDies
  <2>25. CASE PauseMarks
    BY <2>25 DEF PauseMarks
  <2>26. CASE CommandPause
    BY <2>26 DEF CommandPause, Take
  <2>27. CASE PauseFails
    BY <2>27 DEF PauseFails
  <2>28. CASE Sleeps
    BY <2>28 DEF Sleeps
  <2>29. CASE Wakes
    BY <2>29 DEF Wakes
  <2>30. CASE CommandResume
    BY <2>30 DEF CommandResume, LockIsFree
  <2>31. CASE ResumeFails
    BY <2>31 DEF ResumeFails
  <2>32. CASE Dies
    BY <2>32 DEF Dies, Release
  <2>33. CASE UNCHANGED vars
    BY <2>33 DEF vars
  <2>34. QED
    BY <2>1, <2>2, <2>3, <2>4, <2>5, <2>6, <2>7, <2>8, <2>9, <2>10, <2>11,
       <2>12, <2>13, <2>14, <2>15, <2>16, <2>17, <2>18, <2>19, <2>20, <2>21,
       <2>22, <2>23, <2>24, <2>25, <2>26, <2>27, <2>28, <2>29, <2>30, <2>31,
       <2>32, <2>33 DEF Next, Environment, HolderRuns, HolderRefuses,
       UserActs, HookRuns
<1>3. QED
  BY <1>1, <1>2, Typing, PTL DEF Spec

\* A command in the kernel is covered by the ledger from before it is given
\* until its process is done with it.
OperationIsInFlight == kop # "none" => inflight # None

\* Whoever gives a command to the kernel has written so before.
THEOREM InFlight == Spec => []OperationIsInFlight
<1>1. TypeOK /\ WorkInv => OperationIsInFlight
  BY DEF TypeOK, WorkInv, OperationIsInFlight
<1>2. QED
  BY <1>1, Typing, WorkInvariant, PTL

-----------------------------------------------------------------------------
(* Attempts and insertions *)

\* A start that was decided has room in the budget, one that was committed has
\* an attempt that is not yet used by an insertion, until it runs insmod.
BudgetInv ==
  /\ insertions <= Len(attempts) /\ Len(attempts) <= BOOT_ATTEMPTS
  /\ task = "start_tick" /\ pc = "commit" => Len(attempts) < BOOT_ATTEMPTS
  /\ task = "start_tick" /\ pc \notin {"none", "commit", "run_insmod"}
       => insertions < Len(attempts)

\* BudgetInv holds in every reachable state.
LEMMA BudgetInvariant == Spec => []BudgetInv
<1>1. Init => BudgetInv
  BY TimesAssumption DEF Init, BudgetInv
<1>2. TypeOK /\ BudgetInv /\ [Next]_vars => BudgetInv'
  <2> SUFFICES ASSUME TypeOK, BudgetInv, [Next]_vars
               PROVE  BudgetInv'
    OBVIOUS
  <2> USE TimesAssumption DEF TypeOK, BudgetInv
  <2> Len(attempts) \in Nat
    BY LenProperties
  <2>1. CASE TimePasses
    <3>1. Len(attempts') = Len(attempts)
      BY <2>1, OlderAttempts DEF TimePasses
    <3>2. QED
      BY <3>1, <2>1 DEF TimePasses
  <2>2. CASE Plug
    BY <2>2 DEF Plug
  <2>3. CASE Unplug
    BY <2>3 DEF Unplug
  <2>4. CASE TransportFails
    BY <2>4 DEF TransportFails
  <2>5. CASE ReadinessChanges
    BY <2>5 DEF ReadinessChanges
  <2>6. CASE KernelRuns
    BY <2>6 DEF KernelRuns
  <2>7. CASE GhostDies
    BY <2>7 DEF GhostDies
  <2>8. CASE TickSnapshotFails
    BY <2>8 DEF TickSnapshotFails
  <2>9. CASE TickDecides
    <3>1. PICK error, i :
            /\ i \in DOMAIN Rules(error)
            /\ Decides(i, Rules(error))
            /\ circuit' =
                 (circuit \/ Rules(error)[i].answer \in {"trip", "stop"})
            /\ CASE Rules(error)[i].answer = "start" -> Begin("start_tick")
                 [] Rules(error)[i].answer = "stop" -> Begin("stop_tick")
                 [] OTHER -> UNCHANGED <<lock, pc, task, target>>
      BY <2>9 DEF TickDecides
    <3>2. UNCHANGED <<attempts, insertions>>
      BY <2>9 DEF TickDecides
    <3>3. CASE Rules(error)[i].answer = "start"
      <4> ~BudgetExhausted
        BY <3>1, <3>3, StartConditions
      <4>1. Len(attempts) < BOOT_ATTEMPTS
        BY DEF BudgetExhausted
      <4>2. pc' = "commit" /\ task' = "start_tick"
        BY <3>1, <3>3 DEF Begin, Take
      <4>3. QED
        BY <3>2, <4>1, <4>2
    <3>4. CASE Rules(error)[i].answer = "stop"
      <4>1. pc' = "commit" /\ task' = "stop_tick"
        BY <3>1, <3>4 DEF Begin, Take
      <4>2. QED
        BY <3>2, <4>1
    <3>5. CASE Rules(error)[i].answer \notin {"start", "stop"}
      BY <3>1, <3>2, <3>5
    <3>6. QED
      BY <3>3, <3>4, <3>5
  <2>10. CASE TickCommits
    <3>1. CASE task = "start_tick"
      <4>1. Len(attempts') = Len(attempts) + 1
        BY <3>1, <2>10, AppendProperties DEF TickCommits, ConsumeAttempt
      <4>2. QED
        BY <3>1, <4>1, <2>10 DEF TickCommits
    <3>2. CASE task # "start_tick"
      BY <3>2, <2>10 DEF TickCommits
    <3>3. QED
      BY <3>1, <3>2
  <2>11. CASE StopSnapshot
    BY <2>11 DEF StopSnapshot, StopSucceeds, Fails, Release
  <2>12. CASE StopChecks
    BY <2>12 DEF StopChecks
  <2>13. CASE Submit
    BY <2>13 DEF Submit, Runs
  <2>14. CASE StopCommandEnds
    BY <2>14 DEF StopCommandEnds, StopSucceeds, Fails, Release, GivesUp
  <2>15. CASE StartVerifies
    BY <2>15 DEF StartVerifies
  <2>16. CASE StartRechecks
    BY <2>16 DEF StartRechecks
  <2>17. CASE StartCommandEnds
    BY <2>17 DEF StartCommandEnds, Fails, Release, GivesUp
  <2>18. CASE StopRefuses
    BY <2>18 DEF StopRefuses, Fails, Release
  <2>19. CASE StartRefuses
    BY <2>19 DEF StartRefuses, Fails, Release
  <2>20. CASE ProcessStarts
    BY <2>20 DEF ProcessStarts
  <2>21. CASE ProcessEnds
    BY <2>21 DEF ProcessEnds
  <2>22. CASE CommandStop
    BY <2>22 DEF CommandStop, Take
  <2>23. CASE CommandClearCircuit
    BY <2>23 DEF CommandClearCircuit, LockIsFree
  <2>24. CASE ClearCircuitDies
    BY <2>24 DEF ClearCircuitDies
  <2>25. CASE PauseMarks
    BY <2>25 DEF PauseMarks
  <2>26. CASE CommandPause
    BY <2>26 DEF CommandPause, Take
  <2>27. CASE PauseFails
    BY <2>27 DEF PauseFails
  <2>28. CASE Sleeps
    BY <2>28 DEF Sleeps
  <2>29. CASE Wakes
    BY <2>29 DEF Wakes
  <2>30. CASE CommandResume
    BY <2>30 DEF CommandResume, LockIsFree
  <2>31. CASE ResumeFails
    BY <2>31 DEF ResumeFails
  <2>32. CASE Dies
    BY <2>32 DEF Dies, Release
  <2>33. CASE UNCHANGED vars
    BY <2>33 DEF vars
  <2>34. QED
    BY <2>1, <2>2, <2>3, <2>4, <2>5, <2>6, <2>7, <2>8, <2>9, <2>10, <2>11,
       <2>12, <2>13, <2>14, <2>15, <2>16, <2>17, <2>18, <2>19, <2>20, <2>21,
       <2>22, <2>23, <2>24, <2>25, <2>26, <2>27, <2>28, <2>29, <2>30, <2>31,
       <2>32, <2>33 DEF Next, Environment, HolderRuns, HolderRefuses,
       UserActs, HookRuns
<1>3. QED
  BY <1>1, <1>2, Typing, PTL DEF Spec

\* However its processes fail, die and restart, the controller inserts the
\* module no more often than it consumed attempts, nor than a boot allows.
THEOREM ConsumedInsertions == Spec => []InsertionsAreConsumed
<1>1. TypeOK /\ BudgetInv => InsertionsAreConsumed
  <2> SUFFICES ASSUME TypeOK, BudgetInv PROVE InsertionsAreConsumed
    OBVIOUS
  <2>1. Len(attempts) \in Nat /\ insertions \in Nat /\ BOOT_ATTEMPTS \in Nat
    BY LenProperties, TimesAssumption DEF TypeOK
  <2>2. QED
    BY <2>1 DEF BudgetInv, InsertionsAreConsumed
<1>2. QED
  BY <1>1, Typing, BudgetInvariant, PTL

-----------------------------------------------------------------------------
(* The pace of the attempts *)

\* The age of an attempt as far as last_age follows it.
CooldownAge(age) == IF age < COOLDOWN_SECONDS THEN age ELSE COOLDOWN_SECONDS

\* What a start was decided on still holds when it is committed.
StartIsDue ==
  /\ ~BudgetExhausted
  /\ attempts # <<>> => last_age = COOLDOWN_SECONDS

\* The attempts are paced; last_age is that of the last of them, which is what
\* the cooldown is checked against; and nobody else spends the budget between
\* the decision to start and the write that consumes the attempt.
PaceInv ==
  /\ AttemptsArePaced
  /\ attempts # <<>> => last_age = CooldownAge(attempts[Len(attempts)])
  /\ pc = "commit" /\ task = "start_tick" => StartIsDue

\* Only time, a tick and a reset of the ledger touch the budget or begin a
\* commit.
LEMMA BudgetFrame ==
  ASSUME TypeOK, [Next]_vars,
         ~TimePasses, ~TickDecides, ~TickCommits, ~CommandClearCircuit
  PROVE  /\ UNCHANGED budget
         /\ pc' = "commit" => UNCHANGED <<pc, task>>
<1> USE DEF TypeOK
<1>1. CASE Environment \/ KernelRuns \/ GhostDies \/ TickSnapshotFails
           \/ UNCHANGED vars
  BY <1>1 DEF Environment, Plug, Unplug, TransportFails, ReadinessChanges,
     KernelRuns, GhostDies, TickSnapshotFails, vars
<1>2. CASE HolderRuns
  BY <1>2 DEF HolderRuns, StopSnapshot, StopChecks, Submit, StopCommandEnds,
     StartVerifies, StartRechecks, StartCommandEnds, StopSucceeds, Fails,
     Release, GivesUp, Runs
<1>3. CASE HolderRefuses
  BY <1>3 DEF HolderRefuses, StopRefuses, StartRefuses, Fails, Release
<1>4. CASE UserActs
  BY <1>4 DEF UserActs, ProcessStarts, ProcessEnds, CommandStop,
     ClearCircuitDies, Take
<1>5. CASE HookRuns
  BY <1>5 DEF HookRuns, PauseMarks, CommandPause, PauseFails, Sleeps, Wakes,
     CommandResume, ResumeFails, Take
<1>6. CASE Dies
  BY <1>6 DEF Dies, Release
<1>7. QED
  BY <1>1, <1>2, <1>3, <1>4, <1>5, <1>6 DEF Next

\* Of finitely many attempts, finitely many are recent.
LEMMA RecentIsFinite ==
  ASSUME TypeOK
  PROVE  /\ IsFiniteSet(Recent) /\ Cardinality(Recent) \in Nat
         /\ DOMAIN attempts = 1..Len(attempts) /\ Len(attempts) \in Nat
         /\ \A i \in 1..Len(attempts) : attempts[i] \in 0..HOUR
<1>1. attempts \in Seq(0..HOUR)
  BY DEF TypeOK
<1>2. /\ DOMAIN attempts = 1..Len(attempts) /\ Len(attempts) \in Nat
      /\ \A i \in 1..Len(attempts) : attempts[i] \in 0..HOUR
  BY <1>1, LenProperties
<1>3. IsFiniteSet(1..Len(attempts))
  BY <1>2, FS_Interval
<1>4. Recent \subseteq 1..Len(attempts)
  BY <1>2 DEF Recent
<1>5. IsFiniteSet(Recent)
  BY <1>3, <1>4, FS_Subset
<1>6. QED
  BY <1>2, <1>5, FS_CardinalityType

\* Two recent attempts age together, so that their distance stays.
LEMMA OlderTogether ==
  ASSUME HOUR \in Nat, NEW d \in Nat, NEW a \in Nat, NEW b \in Nat,
         a < HOUR, a >= b + d
  PROVE  Older(a, HOUR) >= Older(b, HOUR) + d
<1>1. Older(a, HOUR) = a + 1
  BY DEF Older
<1>2. b < HOUR
  OBVIOUS
<1>3. Older(b, HOUR) = b + 1
  BY <1>2 DEF Older
<1>4. QED
  BY <1>1, <1>3

\* Time makes no attempt recent.
LEMMA TimeKeepsPace ==
  ASSUME TypeOK, PaceInv, TimePasses
  PROVE  PaceInv'
<1> USE TimesAssumption DEF TypeOK
<1> DEFINE n == Len(attempts)
<1>1. /\ attempts' \in Seq(0..HOUR) /\ Len(attempts') = n
      /\ \A i \in 1..n : attempts'[i] = Older(attempts[i], HOUR)
  <2>1. attempts' = [i \in DOMAIN attempts |-> Older(attempts[i], HOUR)]
    BY DEF TimePasses
  <2>2. QED
    BY <2>1, OlderAttempts, RecentIsFinite
<1>2. DOMAIN attempts' = 1..n
  BY <1>1
<1>3. Recent' \subseteq Recent
  BY <1>1, <1>2, RecentIsFinite DEF Recent, Older
<1>4. Cardinality(Recent') <= Cardinality(Recent) /\ Cardinality(Recent') \in Nat
  BY <1>3, RecentIsFinite, FS_Subset, FS_CardinalityType
<1>5. ASSUME NEW i \in Recent', i < n
      PROVE  attempts'[i] >= attempts'[i + 1] + COOLDOWN_SECONDS
  <2>1. i \in 1..n /\ i + 1 \in 1..n /\ i \in Recent
    BY <1>2, <1>3, <1>5, RecentIsFinite DEF Recent
  <2>2. attempts[i] \in Nat /\ attempts[i + 1] \in Nat
    BY <2>1, RecentIsFinite
  <2>3. attempts[i] < HOUR /\ attempts[i] >= attempts[i + 1] + COOLDOWN_SECONDS
    BY <2>1, <1>5 DEF PaceInv, AttemptsArePaced, Recent
  <2>4. /\ attempts'[i] = Older(attempts[i], HOUR)
        /\ attempts'[i + 1] = Older(attempts[i + 1], HOUR)
    BY <1>1, <2>1
  <2>5. QED
    BY <2>2, <2>3, <2>4, OlderTogether
<1>6. AttemptsArePaced'
  BY <1>1, <1>4, <1>5, RecentIsFinite DEF PaceInv, AttemptsArePaced
<1>7. ASSUME attempts' # <<>>
      PROVE  last_age' = CooldownAge(attempts'[n])
  <2>1. n \in 1..n /\ attempts # <<>>
    BY <1>1, <1>7, RecentIsFinite, EmptySeq, LenProperties
  <2>2. attempts'[n] = Older(attempts[n], HOUR) /\ attempts[n] \in 0..HOUR
    BY <1>1, <2>1, RecentIsFinite
  <2>3. last_age = CooldownAge(attempts[n])
    BY <2>1 DEF PaceInv
  <2>4. last_age' = Older(last_age, COOLDOWN_SECONDS)
    BY DEF TimePasses
  <2>5. QED
    BY <2>2, <2>3, <2>4 DEF CooldownAge, Older
<1>8. ASSUME pc' = "commit", task' = "start_tick"
      PROVE  StartIsDue'
  <2>1. StartIsDue
    BY <1>8 DEF PaceInv, TimePasses
  <2>2. ~BudgetExhausted'
    BY <2>1, <1>1, <1>4, RecentIsFinite DEF StartIsDue, BudgetExhausted
  <2>3. ASSUME attempts' # <<>> PROVE last_age' = COOLDOWN_SECONDS
    <3>1. attempts # <<>>
      BY <1>1, <2>3, RecentIsFinite, EmptySeq, LenProperties
    <3>2. last_age = COOLDOWN_SECONDS
      BY <2>1, <3>1 DEF StartIsDue
    <3>3. QED
      BY <3>2 DEF TimePasses, Older
  <2>4. QED
    BY <2>2, <2>3 DEF StartIsDue
<1>9. QED
  BY <1>1, <1>6, <1>7, <1>8 DEF PaceInv

\* A committed attempt is one more, and the cooldown after the one before.
LEMMA AttemptKeepsPace ==
  ASSUME TypeOK, PaceInv, StartIsDue, ConsumeAttempt, pc' # "commit"
  PROVE  PaceInv'
<1> USE TimesAssumption DEF TypeOK
<1> DEFINE n == Len(attempts)
<1>1. /\ attempts' = Append(attempts, 0) /\ last_age' = 0
      /\ attempts' \in Seq(0..HOUR) /\ Len(attempts') = n + 1
      /\ attempts'[n + 1] = 0 /\ \A i \in 1..n : attempts'[i] = attempts[i]
  BY AppendProperties DEF ConsumeAttempt
<1>2. DOMAIN attempts' = 1..(n + 1) /\ n \in Nat
  BY <1>1, RecentIsFinite
<1>3. Recent' \subseteq Recent \cup {n + 1}
  BY <1>1, <1>2, RecentIsFinite DEF Recent
<1>4. Cardinality(Recent') <= HOURLY_ATTEMPTS
  <2>1. /\ IsFiniteSet(Recent \cup {n + 1})
        /\ Cardinality(Recent \cup {n + 1}) <= Cardinality(Recent) + 1
    <3>1. n + 1 \notin Recent
      BY RecentIsFinite DEF Recent
    <3>2. IsFiniteSet(Recent \cup {n + 1})
      BY RecentIsFinite, FS_AddElement
    <3>3. Cardinality(Recent \cup {n + 1}) = Cardinality(Recent) + 1
      BY <3>1, RecentIsFinite, FS_AddElement
    <3>4. QED
      BY <3>2, <3>3, RecentIsFinite
  <2>2. Cardinality(Recent') <= Cardinality(Recent \cup {n + 1})
    BY <1>3, <2>1, FS_Subset
  <2>3. Cardinality(Recent) < HOURLY_ATTEMPTS
    BY RecentIsFinite DEF StartIsDue, BudgetExhausted
  <2>4. Cardinality(Recent') \in Nat /\ Cardinality(Recent \cup {n + 1}) \in Nat
    BY <1>3, <2>1, FS_Subset, FS_CardinalityType
  <2>5. QED
    BY <2>1, <2>2, <2>3, <2>4, RecentIsFinite
<1>5. ASSUME NEW i \in Recent', i < n + 1
      PROVE  attempts'[i] >= attempts'[i + 1] + COOLDOWN_SECONDS
  <2>1. i \in 1..n /\ i \in Recent
    BY <1>1, <1>2, <1>3, <1>5 DEF Recent
  <2>2. CASE i < n
    <3>1. i + 1 \in 1..n
      BY <2>1, <2>2, <1>2
    <3>2. attempts[i] >= attempts[i + 1] + COOLDOWN_SECONDS
      BY <2>1, <2>2 DEF PaceInv, AttemptsArePaced
    <3>3. QED
      BY <1>1, <2>1, <3>1, <3>2
  <2>3. CASE i = n
    <3>1. attempts # <<>>
      BY <2>1, <1>2, EmptySeq, LenProperties
    <3>2. last_age = COOLDOWN_SECONDS /\ last_age = CooldownAge(attempts[n])
      BY <3>1 DEF StartIsDue, PaceInv
    <3>3. attempts[n] \in 0..HOUR
      BY <2>1, <2>3, RecentIsFinite
    <3>4. attempts[n] >= COOLDOWN_SECONDS
      BY <3>2, <3>3 DEF CooldownAge
    <3>5. QED
      BY <1>1, <2>1, <2>3, <3>3, <3>4
  <2>4. QED
    BY <2>1, <2>2, <2>3, <1>2
<1>6. last_age' = CooldownAge(attempts'[Len(attempts')])
  BY <1>1 DEF CooldownAge
<1>7. QED
  BY <1>1, <1>4, <1>5, <1>6 DEF PaceInv, AttemptsArePaced

\* PaceInv holds in every reachable state.
LEMMA PaceInvariant == Spec => []PaceInv
<1>1. ASSUME TypeOK, attempts = <<>>, pc # "commit"
      PROVE  PaceInv
  <2>1. Recent = {}
    BY <1>1 DEF Recent
  <2>2. Cardinality(Recent) = 0
    BY <2>1, FS_EmptySet
  <2>3. QED
    BY <1>1, <2>1, <2>2, TimesAssumption DEF PaceInv, AttemptsArePaced
<1>2. Init /\ TypeOK => PaceInv
  BY <1>1 DEF Init
<1>3. TypeOK /\ TypeOK' /\ PaceInv /\ [Next]_vars => PaceInv'
  <2> SUFFICES ASSUME TypeOK, TypeOK', PaceInv, [Next]_vars
               PROVE  PaceInv'
    OBVIOUS
  <2>1. CASE TimePasses
    BY <2>1, TimeKeepsPace
  <2>2. CASE TickDecides
    <3>1. PICK error, i :
            /\ i \in DOMAIN Rules(error)
            /\ Decides(i, Rules(error))
            /\ CASE Rules(error)[i].answer = "start" -> Begin("start_tick")
                 [] Rules(error)[i].answer = "stop" -> Begin("stop_tick")
                 [] OTHER -> UNCHANGED <<lock, pc, task, target>>
      BY <2>2 DEF TickDecides
    <3>2. UNCHANGED budget /\ pc # "commit"
      BY <2>2 DEF TickDecides, LockIsFree, TypeOK
    <3>3. AttemptsArePaced' /\ (StartIsDue => StartIsDue')
      BY <3>2 DEF PaceInv, AttemptsArePaced, Recent, StartIsDue,
         BudgetExhausted
    <3>4. ASSUME pc' = "commit", task' = "start_tick"
          PROVE  StartIsDue
      <4>1. Rules(error)[i].answer = "start"
        BY <3>1, <3>2, <3>4 DEF Begin, Take
      <4>2. /\ ~BudgetExhausted
            /\ ~(attempts # <<>> /\ last_age < COOLDOWN_SECONDS)
        BY <3>1, <4>1, StartConditions
      <4>3. QED
        BY <4>2, TimesAssumption DEF StartIsDue, TypeOK
    <3>5. QED
      BY <3>2, <3>3, <3>4 DEF PaceInv
  <2>3. CASE TickCommits
    <3>1. CASE task = "start_tick"
      BY <3>1, <2>3, AttemptKeepsPace DEF TickCommits, PaceInv
    <3>2. CASE task # "start_tick"
      <4>1. UNCHANGED budget /\ pc' = "stop"
        BY <3>2, <2>3 DEF TickCommits
      <4>2. QED
        BY <4>1 DEF PaceInv, AttemptsArePaced, Recent
    <3>3. QED
      BY <3>1, <3>2
  <2>4. CASE CommandClearCircuit
    <3>1. attempts' = <<>> /\ pc' # "commit"
      BY <2>4 DEF CommandClearCircuit, LockIsFree, TypeOK
    <3>2. Recent' = {}
      BY <3>1 DEF Recent
    <3>3. Cardinality(Recent') = 0
      BY <3>2, FS_EmptySet
    <3>4. QED
      BY <3>1, <3>2, <3>3, TimesAssumption DEF PaceInv, AttemptsArePaced
  <2>5. CASE ~TimePasses /\ ~TickDecides /\ ~TickCommits
             /\ ~CommandClearCircuit
    <3>1. /\ UNCHANGED budget
          /\ pc' = "commit" => UNCHANGED <<pc, task>>
      BY <2>5, BudgetFrame
    <3>2. AttemptsArePaced' /\ (StartIsDue => StartIsDue')
      BY <3>1 DEF PaceInv, AttemptsArePaced, Recent, StartIsDue,
         BudgetExhausted
    <3>3. QED
      BY <3>1, <3>2 DEF PaceInv
  <2>6. QED
    BY <2>1, <2>2, <2>3, <2>4, <2>5
<1>4. QED
  BY <1>2, <1>3, Typing, PTL DEF Spec

\* Between two resets of the ledger no two attempts are closer than the
\* cooldown, and no hour holds more than it may.
THEOREM PacedAttempts == Spec => []AttemptsArePaced
<1>1. PaceInv => AttemptsArePaced
  BY DEF PaceInv
<1>2. QED
  BY <1>1, PaceInvariant, PTL

-----------------------------------------------------------------------------
(* What an insertion needs *)

\* Only Submit counts an insertion.
LEMMA InsertionIsSubmitted ==
  ASSUME TypeOK, [Next]_vars, insertions' > insertions
  PROVE  pc = "submit_insmod"
<1>1. CASE Submit
  BY <1>1 DEF Submit, Runs, TypeOK
<1>2. CASE CommandClearCircuit
  BY <1>2 DEF CommandClearCircuit, TypeOK
<1>3. CASE UNCHANGED insertions
  BY <1>3 DEF TypeOK
<1>4. QED
  BY <1>1, <1>2, <1>3 DEF Next, Environment, HolderRuns, HolderRefuses,
     UserActs, HookRuns, vars, TimePasses, Plug, Unplug, TransportFails,
     ReadinessChanges, KernelRuns, GhostDies, TickSnapshotFails, TickDecides,
     TickCommits, StopSnapshot, StopChecks, StopCommandEnds, StartVerifies,
     StartRechecks, StartCommandEnds, StopRefuses, StartRefuses,
     ProcessStarts, ProcessEnds, CommandStop, ClearCircuitDies, PauseMarks,
     CommandPause, PauseFails, Sleeps, Wakes, CommandResume, ResumeFails, Dies

\* Nothing withdraws the intent, pauses or latches the circuit while a start
\* holds the lock.
StartInv ==
  /\ task = "start_tick" => desired /\ ~paused /\ ~circuit
  /\ task = "start_tick" /\ pc # "commit" => inflight = "tick"
  /\ lock = "free" => task = "none"

\* StartInv holds in every reachable state.
LEMMA StartInvariant == Spec => []StartInv
<1>1. Init => StartInv
  BY DEF Init, StartInv
<1>2. TypeOK /\ StartInv /\ [Next]_vars => StartInv'
  <2> SUFFICES ASSUME TypeOK, StartInv, [Next]_vars
               PROVE  StartInv'
    OBVIOUS
  <2> USE DEF TypeOK, StartInv, LockIsFree
  <2>1. CASE TimePasses
    BY <2>1 DEF TimePasses
  <2>2. CASE Plug
    BY <2>2 DEF Plug
  <2>3. CASE Unplug
    BY <2>3 DEF Unplug
  <2>4. CASE TransportFails
    BY <2>4 DEF TransportFails
  <2>5. CASE ReadinessChanges
    BY <2>5 DEF ReadinessChanges
  <2>6. CASE KernelRuns
    BY <2>6 DEF KernelRuns
  <2>7. CASE GhostDies
    BY <2>7 DEF GhostDies
  <2>8. CASE TickSnapshotFails
    BY <2>8 DEF TickSnapshotFails
  <2>9. CASE TickDecides
    <3>1. PICK error, i :
            /\ i \in DOMAIN Rules(error)
            /\ Decides(i, Rules(error))
            /\ circuit' =
                 (circuit \/ Rules(error)[i].answer \in {"trip", "stop"})
            /\ CASE Rules(error)[i].answer = "start" -> Begin("start_tick")
                 [] Rules(error)[i].answer = "stop" -> Begin("stop_tick")
                 [] OTHER -> UNCHANGED <<lock, pc, task, target>>
      BY <2>9 DEF TickDecides
    <3>2. CASE Rules(error)[i].answer = "start"
      <4>1. ~circuit /\ ~HeldBack
        BY <3>1, <3>2, StartConditions
      <4>2. ~circuit'
        BY <3>1, <3>2, <4>1
      <4>3. QED
        BY <3>1, <3>2, <4>1, <4>2, <2>9 DEF TickDecides, Begin, Take, HeldBack,
           Tickers
    <3>3. CASE Rules(error)[i].answer = "stop"
      BY <3>1, <3>3, <2>9 DEF TickDecides, Begin, Take, Tickers
    <3>4. CASE Rules(error)[i].answer \notin {"start", "stop"}
      BY <3>1, <3>4, <2>9 DEF TickDecides
    <3>5. QED
      BY <3>2, <3>3, <3>4
  <2>10. CASE TickCommits
    BY <2>10 DEF TickCommits, MarkInflight
  <2>11. CASE StopSnapshot
    BY <2>11 DEF StopSnapshot, StopSucceeds, Fails, Release
  <2>12. CASE StopChecks
    BY <2>12 DEF StopChecks
  <2>13. CASE Submit
    BY <2>13 DEF Submit, Runs
  <2>14. CASE StopCommandEnds
    BY <2>14 DEF StopCommandEnds, StopSucceeds, Fails, Release, GivesUp
  <2>15. CASE StartVerifies
    BY <2>15 DEF StartVerifies
  <2>16. CASE StartRechecks
    BY <2>16 DEF StartRechecks
  <2>17. CASE StartCommandEnds
    BY <2>17 DEF StartCommandEnds, Fails, Release, GivesUp
  <2>18. CASE StopRefuses
    BY <2>18 DEF StopRefuses, Fails, Release
  <2>19. CASE StartRefuses
    BY <2>19 DEF StartRefuses, Fails, Release
  <2>20. CASE ProcessStarts
    BY <2>20 DEF ProcessStarts
  <2>21. CASE ProcessEnds
    BY <2>21 DEF ProcessEnds
  <2>22. CASE CommandStop
    BY <2>22 DEF CommandStop, Take
  <2>23. CASE CommandClearCircuit
    BY <2>23 DEF CommandClearCircuit, LockIsFree
  <2>24. CASE ClearCircuitDies
    BY <2>24 DEF ClearCircuitDies
  <2>25. CASE PauseMarks
    BY <2>25 DEF PauseMarks
  <2>26. CASE CommandPause
    BY <2>26 DEF CommandPause, Take
  <2>27. CASE PauseFails
    BY <2>27 DEF PauseFails
  <2>28. CASE Sleeps
    BY <2>28 DEF Sleeps
  <2>29. CASE Wakes
    BY <2>29 DEF Wakes
  <2>30. CASE CommandResume
    BY <2>30 DEF CommandResume, LockIsFree
  <2>31. CASE ResumeFails
    BY <2>31 DEF ResumeFails
  <2>32. CASE Dies
    BY <2>32 DEF Dies, Release
  <2>33. CASE UNCHANGED vars
    BY <2>33 DEF vars
  <2>34. QED
    BY <2>1, <2>2, <2>3, <2>4, <2>5, <2>6, <2>7, <2>8, <2>9, <2>10, <2>11,
       <2>12, <2>13, <2>14, <2>15, <2>16, <2>17, <2>18, <2>19, <2>20, <2>21,
       <2>22, <2>23, <2>24, <2>25, <2>26, <2>27, <2>28, <2>29, <2>30, <2>31,
       <2>32, <2>33 DEF Next, Environment, HolderRuns, HolderRefuses,
       UserActs, HookRuns
<1>3. QED
  BY <1>1, <1>2, Typing, PTL DEF Spec

\* An insertion only begins for the recorded intent, with the circuit closed.
THEOREM AuthorisedInsertions == Spec => InsertionIsAuthorised
<1>1. TypeOK /\ StartInv /\ [Next]_vars
      => [insertions' > insertions =>
            desired /\ ~paused /\ ~circuit /\ inflight = "tick"]_insertions
  <2> SUFFICES ASSUME TypeOK, StartInv, [Next]_vars, insertions' > insertions
               PROVE  desired /\ ~paused /\ ~circuit /\ inflight = "tick"
    OBVIOUS
  <2>1. pc = "submit_insmod"
    BY InsertionIsSubmitted
  <2>2. QED
    BY <2>1 DEF TypeOK, StartInv
<1>2. QED
  BY <1>1, Typing, StartInvariant, PTL DEF Spec, InsertionIsAuthorised

-----------------------------------------------------------------------------
(* One insertion for each generation *)

\* What remembers the generation inserted for last: the ledger, as the managed
\* one or because something went wrong since; and while a start is under way,
\* its target is another one until insmod runs.
TriedInv ==
  /\ tried \in {None, managed_generation} \/ circuit \/ inflight # None
  /\ task = "start_tick" /\ pc # "run_insmod" => tried # target
  /\ pc = "run_insmod" => tried = target
  /\ task = "stop_tick" => circuit
  /\ task = "start_tick" => target # None
  /\ lock = "free" <=> task = "none"

\* TriedInv holds in every reachable state.
LEMMA TriedInvariant == Spec => []TriedInv
<1>1. Init => TriedInv
  BY DEF Init, TriedInv
<1>2. TypeOK /\ WorkInv /\ TriedInv /\ [Next]_vars => TriedInv'
  <2> SUFFICES ASSUME TypeOK, WorkInv, TriedInv, [Next]_vars
               PROVE  TriedInv'
    OBVIOUS
  <2> USE DEF TypeOK, WorkInv, TriedInv, LockIsFree, None
  <2>1. CASE TimePasses
    BY <2>1 DEF TimePasses
  <2>2. CASE Plug
    BY <2>2 DEF Plug
  <2>3. CASE Unplug
    BY <2>3 DEF Unplug
  <2>4. CASE TransportFails
    BY <2>4 DEF TransportFails
  <2>5. CASE ReadinessChanges
    BY <2>5 DEF ReadinessChanges
  <2>6. CASE KernelRuns
    BY <2>6 DEF KernelRuns
  <2>7. CASE GhostDies
    BY <2>7 DEF GhostDies
  <2>8. CASE TickSnapshotFails
    BY <2>8 DEF TickSnapshotFails
  <2>9. CASE TickDecides
    <3>1. PICK error, i :
            /\ i \in DOMAIN Rules(error)
            /\ Decides(i, Rules(error))
            /\ circuit' =
                 (circuit \/ Rules(error)[i].answer \in {"trip", "stop"})
            /\ CASE Rules(error)[i].answer = "start" -> Begin("start_tick")
                 [] Rules(error)[i].answer = "stop" -> Begin("stop_tick")
                 [] OTHER -> UNCHANGED <<lock, pc, task, target>>
      BY <2>9 DEF TickDecides
    <3>2. CASE Rules(error)[i].answer = "start"
      <4>1. /\ inflight = None /\ ~circuit
            /\ gen \notin {None, managed_generation}
        BY <3>1, <3>2, StartConditions DEF Unfinished
      <4>2. tried # gen
        BY <4>1
      <4>3. QED
        BY <3>1, <3>2, <4>1, <4>2, <2>9 DEF TickDecides, Begin, Take, Tickers
    <3>3. CASE Rules(error)[i].answer = "stop"
      <4>1. circuit'
        BY <3>1, <3>3
      <4>2. QED
        BY <3>1, <3>3, <4>1, <2>9 DEF TickDecides, Begin, Take, Tickers
    <3>4. CASE Rules(error)[i].answer \notin {"start", "stop"}
      <4>1. circuit => circuit'
        BY <3>1
      <4>2. QED
        BY <3>1, <3>4, <4>1, <2>9 DEF TickDecides
    <3>5. QED
      BY <3>2, <3>3, <3>4
  <2>10. CASE TickCommits
    BY <2>10 DEF TickCommits, MarkInflight
  <2>11. CASE StopSnapshot
    <3>1. /\ circuit => circuit'
          /\ task = "cleanup" /\ StopSucceeds => circuit'
      BY <2>11 DEF StopSnapshot, StopSucceeds, Fails, LatchCleanup, Release
    <3>2. QED
      BY <3>1, <2>11 DEF StopSnapshot, StopSucceeds, Fails, Release
  <2>12. CASE StopChecks
    BY <2>12 DEF StopChecks
  <2>13. CASE Submit
    BY <2>13 DEF Submit, Runs
  <2>14. CASE StopCommandEnds
    <3>1. /\ circuit => circuit'
          /\ task = "cleanup" /\ StopSucceeds => circuit'
      BY <2>14 DEF StopCommandEnds, GivesUp, StopSucceeds, Fails, LatchCleanup,
         Release
    <3>2. QED
      BY <3>1, <2>14 DEF StopCommandEnds, GivesUp, StopSucceeds, Fails, Release
  <2>15. CASE StartVerifies
    BY <2>15 DEF StartVerifies
  <2>16. CASE StartRechecks
    BY <2>16 DEF StartRechecks
  <2>17. CASE StartCommandEnds
    BY <2>17 DEF StartCommandEnds, Fails, Release, GivesUp
  <2>18. CASE StopRefuses
    BY <2>18 DEF StopRefuses, Fails, Release
  <2>19. CASE StartRefuses
    BY <2>19 DEF StartRefuses, Fails, Release
  <2>20. CASE ProcessStarts
    BY <2>20 DEF ProcessStarts
  <2>21. CASE ProcessEnds
    BY <2>21 DEF ProcessEnds
  <2>22. CASE CommandStop
    BY <2>22 DEF CommandStop, Take
  <2>23. CASE CommandClearCircuit
    BY <2>23 DEF CommandClearCircuit, LockIsFree
  <2>24. CASE ClearCircuitDies
    BY <2>24 DEF ClearCircuitDies
  <2>25. CASE PauseMarks
    BY <2>25 DEF PauseMarks
  <2>26. CASE CommandPause
    BY <2>26 DEF CommandPause, Take
  <2>27. CASE PauseFails
    BY <2>27 DEF PauseFails
  <2>28. CASE Sleeps
    BY <2>28 DEF Sleeps
  <2>29. CASE Wakes
    BY <2>29 DEF Wakes
  <2>30. CASE CommandResume
    BY <2>30 DEF CommandResume, LockIsFree
  <2>31. CASE ResumeFails
    BY <2>31 DEF ResumeFails
  <2>32. CASE Dies
    BY <2>32 DEF Dies, Release
  <2>33. CASE UNCHANGED vars
    BY <2>33 DEF vars
  <2>34. QED
    BY <2>1, <2>2, <2>3, <2>4, <2>5, <2>6, <2>7, <2>8, <2>9, <2>10, <2>11,
       <2>12, <2>13, <2>14, <2>15, <2>16, <2>17, <2>18, <2>19, <2>20, <2>21,
       <2>22, <2>23, <2>24, <2>25, <2>26, <2>27, <2>28, <2>29, <2>30, <2>31,
       <2>32, <2>33 DEF Next, Environment, HolderRuns, HolderRefuses,
       UserActs, HookRuns
<1>3. QED
  BY <1>1, <1>2, Typing, WorkInvariant, PTL DEF Spec

\* No automatic loop: no insertion is begun for the generation of the last one
\* before a stop, a completed pause or a reset released it.
THEOREM InsertedOnce == Spec => OneInsertionPerGeneration
<1>1. TypeOK /\ TriedInv /\ [Next]_vars
      => [insertions' > insertions => tried # target]_insertions
  <2> SUFFICES ASSUME TypeOK, TriedInv, [Next]_vars, insertions' > insertions
               PROVE  tried # target
    OBVIOUS
  <2>1. pc = "submit_insmod"
    BY InsertionIsSubmitted
  <2>2. QED
    BY <2>1 DEF TypeOK, TriedInv
<1>2. QED
  BY <1>1, Typing, TriedInvariant, PTL DEF Spec, OneInsertionPerGeneration

-----------------------------------------------------------------------------
(* Interrupted work, with no stop and no pause of anybody *)

\* Nobody takes the marker of a process that died: no tick gets past it.
OrphanInv == orphan => inflight # None /\ lock = "free"

\* OrphanInv holds in every reachable state, if nobody stops or sleeps.
LEMMA OrphanInvariant ==
  ASSUME {"stop", "sleep"} \cap Commands = {}
  PROVE  Spec => [](OrphanInv /\ hook = "awake")
<1> DEFINE Inv == OrphanInv /\ hook = "awake"
<1>1. Init => Inv
  BY DEF Init, OrphanInv
<1>2. TypeOK /\ Inv /\ [Next]_vars => Inv'
  <2> SUFFICES ASSUME TypeOK, Inv, [Next]_vars
               PROVE  Inv'
    OBVIOUS
  <2> USE DEF TypeOK, OrphanInv, LockIsFree, None
  <2>1. CASE TimePasses
    BY <2>1 DEF TimePasses
  <2>2. CASE Plug
    BY <2>2 DEF Plug
  <2>3. CASE Unplug
    BY <2>3 DEF Unplug
  <2>4. CASE TransportFails
    BY <2>4 DEF TransportFails
  <2>5. CASE ReadinessChanges
    BY <2>5 DEF ReadinessChanges
  <2>6. CASE KernelRuns
    BY <2>6 DEF KernelRuns
  <2>7. CASE GhostDies
    BY <2>7 DEF GhostDies
  <2>8. CASE TickSnapshotFails
    BY <2>8 DEF TickSnapshotFails
  <2>9. CASE TickDecides
    <3>1. PICK error, i :
            /\ i \in DOMAIN Rules(error)
            /\ Decides(i, Rules(error))
            /\ circuit' =
                 (circuit \/ Rules(error)[i].answer \in {"trip", "stop"})
            /\ CASE Rules(error)[i].answer = "start" -> Begin("start_tick")
                 [] Rules(error)[i].answer = "stop" -> Begin("stop_tick")
                 [] OTHER -> UNCHANGED <<lock, pc, task, target>>
      BY <2>9 DEF TickDecides
    <3>2. CASE orphan
      <4>1. Rules(error)[i].answer = "trip"
        BY <3>1, <3>2, UnfinishedTrips DEF Unfinished
      <4>2. QED
        BY <3>1, <4>1, <2>9 DEF TickDecides
    <3>3. CASE ~orphan
      BY <3>3, <2>9 DEF TickDecides
    <3>4. QED
      BY <3>2, <3>3
  <2>10. CASE TickCommits
    BY <2>10 DEF TickCommits, MarkInflight
  <2>11. CASE StopSnapshot
    BY <2>11 DEF StopSnapshot, StopSucceeds, Fails, Release, PreEnds
  <2>12. CASE StopChecks
    BY <2>12 DEF StopChecks
  <2>13. CASE Submit
    BY <2>13 DEF Submit, Runs
  <2>14. CASE StopCommandEnds
    BY <2>14 DEF StopCommandEnds, StopSucceeds, Fails, Release, GivesUp,
       PreEnds
  <2>15. CASE StartVerifies
    BY <2>15 DEF StartVerifies
  <2>16. CASE StartRechecks
    BY <2>16 DEF StartRechecks
  <2>17. CASE StartCommandEnds
    BY <2>17 DEF StartCommandEnds, Fails, Release, GivesUp, PreEnds
  <2>18. CASE StopRefuses
    BY <2>18 DEF StopRefuses, Fails, Release, PreEnds
  <2>19. CASE StartRefuses
    BY <2>19 DEF StartRefuses, Fails, Release, PreEnds
  <2>20. CASE ProcessStarts
    BY <2>20 DEF ProcessStarts
  <2>21. CASE ProcessEnds
    BY <2>21 DEF ProcessEnds
  <2>22. CASE CommandStop
    BY <2>22 DEF CommandStop, Take
  <2>23. CASE CommandClearCircuit
    BY <2>23 DEF CommandClearCircuit, LockIsFree
  <2>24. CASE ClearCircuitDies
    BY <2>24 DEF ClearCircuitDies
  <2>25. CASE PauseMarks
    BY <2>25 DEF PauseMarks
  <2>26. CASE CommandPause
    BY <2>26 DEF CommandPause, Take
  <2>27. CASE PauseFails
    BY <2>27 DEF PauseFails
  <2>28. CASE Sleeps
    BY <2>28 DEF Sleeps
  <2>29. CASE Wakes
    BY <2>29 DEF Wakes
  <2>30. CASE CommandResume
    BY <2>30 DEF CommandResume, LockIsFree
  <2>31. CASE ResumeFails
    BY <2>31 DEF ResumeFails
  <2>32. CASE Dies
    <3>1. inflight # None => inflight' # None
      BY <2>32 DEF Dies
    <3>2. task # "pause"
      OBVIOUS
    <3>3. QED
      BY <3>1, <3>2, <2>32, Zenon DEF Dies, Release, PreEnds
  <2>33. CASE UNCHANGED vars
    BY <2>33 DEF vars
  <2>34. QED
    BY <2>1, <2>2, <2>3, <2>4, <2>5, <2>6, <2>7, <2>8, <2>9, <2>10, <2>11,
       <2>12, <2>13, <2>14, <2>15, <2>16, <2>17, <2>18, <2>19, <2>20, <2>21,
       <2>22, <2>23, <2>24, <2>25, <2>26, <2>27, <2>28, <2>29, <2>30, <2>31,
       <2>32, <2>33 DEF Next, Environment, HolderRuns, HolderRefuses,
       UserActs, HookRuns
<1>3. QED
  BY <1>1, <1>2, Typing, PTL DEF Spec

\* "Interrupted cleanup retains an inflight marker; automatic re-entry is
\* blocked": true as long as nobody stops or pauses.
THEOREM BlockedReentry ==
  ASSUME {"stop", "sleep"} \cap Commands = {}
  PROVE  Spec => AutomaticReentryIsBlocked
<1>1. TypeOK /\ OrphanInv /\ [Next]_vars
      => [insertions' > insertions => ~orphan]_insertions
  <2> SUFFICES ASSUME TypeOK, OrphanInv, [Next]_vars, insertions' > insertions
               PROVE  ~orphan
    OBVIOUS
  <2>1. pc = "submit_insmod"
    BY InsertionIsSubmitted
  <2>2. QED
    BY <2>1 DEF TypeOK, OrphanInv
<1>2. QED
  BY <1>1, Typing, OrphanInvariant, PTL DEF Spec, AutomaticReentryIsBlocked

-----------------------------------------------------------------------------
(* The promise of T6Policy *)

\* Whoever lets go of the last generation does so while nobody wants the head.
ForgiveInv ==
  /\ task = "stop" => ~desired
  /\ task = "pause" => paused

\* ForgiveInv holds in every reachable state.
LEMMA ForgiveInvariant == Spec => []ForgiveInv
<1>1. Init => ForgiveInv
  BY DEF Init, ForgiveInv
<1>2. TypeOK /\ StartInv /\ ForgiveInv /\ [Next]_vars => ForgiveInv'
  <2> SUFFICES ASSUME TypeOK, StartInv, ForgiveInv, [Next]_vars
               PROVE  ForgiveInv'
    OBVIOUS
  <2> USE DEF TypeOK, StartInv, ForgiveInv, LockIsFree
  <2>1. CASE Environment \/ TimePasses \/ KernelRuns \/ GhostDies
             \/ TickSnapshotFails \/ UNCHANGED vars
    BY <2>1 DEF Environment, TimePasses, Plug, Unplug, TransportFails,
       ReadinessChanges, KernelRuns, GhostDies, TickSnapshotFails, vars
  <2>2. CASE TickDecides
    BY <2>2 DEF TickDecides, Begin, Take
  <2>3. CASE HolderRuns
    <3>1. CASE StopSnapshot
      BY <3>1 DEF StopSnapshot, StopSucceeds, Fails, Release
    <3>2. CASE StopCommandEnds
      BY <3>2 DEF StopCommandEnds, StopSucceeds, Fails, Release, GivesUp
    <3>3. CASE StartCommandEnds
      BY <3>3 DEF StartCommandEnds, Fails, Release, GivesUp
    <3>4. CASE ~StopSnapshot /\ ~StopCommandEnds /\ ~StartCommandEnds
      BY <3>4, <2>3 DEF HolderRuns, TickCommits, StopChecks, Submit,
         StartVerifies, StartRechecks
    <3>5. QED
      BY <3>1, <3>2, <3>3, <3>4
  <2>4. CASE HolderRefuses
    BY <2>4 DEF HolderRefuses, StopRefuses, StartRefuses, Fails, Release
  <2>5. CASE UserActs
    BY <2>5 DEF UserActs, ProcessStarts, ProcessEnds, CommandStop,
       CommandClearCircuit, ClearCircuitDies, Take
  <2>6. CASE HookRuns
    BY <2>6 DEF HookRuns, PauseMarks, CommandPause, PauseFails, Sleeps, Wakes,
       CommandResume, ResumeFails, Take
  <2>7. CASE Dies
    BY <2>7 DEF Dies, Release
  <2>8. QED
    BY <2>1, <2>2, <2>3, <2>4, <2>5, <2>6, <2>7 DEF Next
<1>3. QED
  BY <1>1, <1>2, Typing, StartInvariant, PTL DEF Spec

PolicyInv == TypeOK /\ StartInv /\ BudgetInv /\ TriedInv /\ ForgiveInv

\* What T6Policy sees of an attempt under way.
Mandate == IF task = "start_tick" /\ pc # "commit" THEN target ELSE None

\* A step that leaves alone what T6Policy sees is a stutter of it.
LEMMA PolicyStutter ==
  ASSUME UNCHANGED <<intent, circuit, tried>>,
         Len(attempts') = Len(attempts), Mandate' = Mandate,
         (pc' = "run_insmod") <=> (pc = "run_insmod")
  PROVE  UNCHANGED Policy!vars
<1>1. /\ (desired' /\ ~paused') = (desired /\ ~paused)
      /\ (pc' = "run_insmod") = (pc = "run_insmod")
  OBVIOUS
<1>2. QED
  BY <1>1 DEF Policy!vars, Mandate

\* Outside of a start there is no mandate, and inside of one it has a target.
LEMMA MandateHolder ==
  ASSUME PolicyInv
  PROVE  /\ (Mandate = None) <=> (task # "start_tick" \/ pc = "commit")
         /\ pc = "run_insmod" => Mandate # None
         /\ task = "start_tick" => lock # "free" /\ target \in Generations
BY GenerationsAssumption DEF PolicyInv, TypeOK, TriedInv, Mandate

\* A start that ends, in whatever way, gives its mandate back.
LEMMA MandateEnds ==
  ASSUME PolicyInv, UNCHANGED <<intent, circuit, tried, attempts>>,
         task = "start_tick", pc # "commit", task' # "start_tick",
         pc' # "run_insmod"
  PROVE  Policy!Next
<1>1. Mandate # None /\ Mandate' = None
  BY MandateHolder DEF Mandate
<1>2. Policy!Withdraw
  BY <1>1 DEF Policy!Withdraw, Mandate
<1>3. QED
  BY <1>2 DEF Policy!Next

\* Another operation that ends may latch the circuit, or forgive a generation.
LEMMA OtherEnds ==
  ASSUME PolicyInv, UNCHANGED <<intent, attempts, target>>,
         task # "start_tick", task' # "start_tick", pc' # "run_insmod",
         \/ UNCHANGED <<circuit, tried>>
         \/ circuit' = TRUE /\ UNCHANGED tried
         \/ UNCHANGED circuit /\ tried' = None /\ task \in {"stop", "pause"}
  PROVE  Policy!Next \/ UNCHANGED Policy!vars
<1>1. Mandate = None /\ Mandate' = None
  BY DEF Mandate
<1>2. pc # "run_insmod"
  BY DEF PolicyInv, TypeOK
<1>3. CASE UNCHANGED <<circuit, tried>>
  BY <1>1, <1>2, <1>3, PolicyStutter
<1>4. CASE circuit' = TRUE /\ UNCHANGED tried
  <2>1. Policy!Trip
    BY <1>1, <1>2, <1>4 DEF Policy!Trip, Mandate
  <2>2. QED
    BY <2>1 DEF Policy!Next
<1>5. CASE UNCHANGED circuit /\ tried' = None /\ task \in {"stop", "pause"}
  <2>1. ~(desired /\ ~paused)
    BY <1>5 DEF PolicyInv, ForgiveInv
  <2>2. Policy!Forgive
    BY <1>1, <1>2, <1>5, <2>1 DEF Policy!Forgive, Mandate
  <2>3. QED
    BY <2>2 DEF Policy!Next
<1>6. QED
  BY <1>3, <1>4, <1>5

\* stop_module and start_module end as T6Policy allows.
LEMMA EndsAsPromised ==
  ASSUME PolicyInv, UNCHANGED <<intent, attempts, target>>,
         pc \notin {"none", "commit"},
         Fails \/ (StopSucceeds /\ pc # "run_insmod")
  PROVE  Policy!Next \/ UNCHANGED Policy!vars
<1> USE DEF PolicyInv, TypeOK
<1>1. CASE StopSucceeds /\ pc # "run_insmod" /\ task = "start_tick"
  <2>1. /\ pc' = "insert" /\ UNCHANGED <<circuit, task, tried>>
        /\ pc # "run_insmod"
    BY <1>1 DEF StopSucceeds
  <2>2. QED
    BY <2>1, PolicyStutter DEF Mandate
<1>2. CASE StopSucceeds /\ task # "start_tick"
  <2>1. /\ pc' = "none" /\ task' = "none"
        /\ circuit' = (circuit \/ task = "cleanup")
        /\ tried' = IF task \in {"stop", "pause"} THEN None ELSE tried
    BY <1>2 DEF StopSucceeds, LatchCleanup, Release
  <2>2. CASE task = "cleanup"
    <3>1. circuit' = TRUE /\ UNCHANGED tried
      BY <2>1, <2>2
    <3>2. QED
      BY <1>2, <2>1, <3>1, OtherEnds
  <2>3. CASE task # "cleanup"
    <3>1. circuit' = circuit
      BY <2>1, <2>3
    <3>2. QED
      BY <1>2, <2>1, <3>1, OtherEnds
  <2>4. QED
    BY <2>2, <2>3
<1>3. CASE Fails /\ task = "start_tick"
  <2>1. /\ task' = "cleanup" /\ pc' = "stop" /\ UNCHANGED <<circuit, tried>>
    BY <1>3 DEF Fails
  <2>2. QED
    BY <1>3, <2>1, MandateEnds
<1>4. CASE Fails /\ task # "start_tick"
  <2>1. circuit' = TRUE /\ UNCHANGED tried /\ pc' = "none" /\ task' = "none"
    BY <1>4 DEF Fails, Release
  <2>2. QED
    BY <1>4, <2>1, OtherEnds
<1>5. QED
  BY <1>1, <1>2, <1>3, <1>4

\* Every step of the controller is one that T6Policy allows, or invisible to it.
LEMMA PolicyStep ==
  ASSUME PolicyInv, [Next]_vars
  PROVE  Policy!Next \/ UNCHANGED Policy!vars
<1> USE DEF PolicyInv, TypeOK
<1>1. CASE TimePasses
  <2>1. Len(attempts') = Len(attempts)
    BY <1>1, OlderAttempts, TimesAssumption DEF TimePasses
  <2>2. QED
    BY <1>1, <2>1, PolicyStutter DEF TimePasses, Mandate
<1>2. CASE Environment \/ KernelRuns \/ GhostDies \/ UNCHANGED vars
  BY <1>2, PolicyStutter
     DEF Environment, Plug, Unplug, TransportFails, ReadinessChanges,
         KernelRuns, GhostDies, vars, Mandate
<1>3. CASE TickSnapshotFails
  <2>1. UNCHANGED <<intent, attempts, target, task, pc, tried>> /\ circuit'
    BY <1>3 DEF TickSnapshotFails
  <2>2. pc = "none" /\ task = "none"
    BY <1>3 DEF TickSnapshotFails, LockIsFree, StartInv
  <2>3. QED
    BY <2>1, <2>2, OtherEnds
<1>4. CASE TickDecides
  <2>1. pc = "none" /\ task = "none"
    BY <1>4 DEF TickDecides, LockIsFree, StartInv
  <2>2. /\ UNCHANGED <<intent, attempts, tried>>
        /\ \/ pc' = "commit"
           \/ UNCHANGED <<pc, task>>
    BY <1>4 DEF TickDecides, Begin, Take
  <2>3. Mandate = None /\ Mandate' = None
    BY <2>1, <2>2 DEF Mandate
  <2>4. circuit' = circuit \/ circuit' = TRUE
    BY <1>4, Zenon DEF TickDecides
  <2>5. CASE circuit' = circuit
    BY <2>1, <2>2, <2>3, <2>5, PolicyStutter
  <2>6. CASE circuit' = TRUE
    <3>1. Policy!Trip
      BY <2>1, <2>2, <2>3, <2>6 DEF Policy!Trip, Mandate
    <3>2. QED
      BY <3>1 DEF Policy!Next
  <2>7. QED
    BY <2>4, <2>5, <2>6
<1>5. CASE TickCommits
  <2>1. UNCHANGED <<intent, circuit, task, target, tried>> /\ pc = "commit"
    BY <1>5 DEF TickCommits
  <2>2. CASE task = "start_tick"
    <3>1. pc' = "verify" /\ Len(attempts') = Len(attempts) + 1
      BY <1>5, <2>2, AppendProperties DEF TickCommits, ConsumeAttempt
    <3>2. Mandate = None /\ Mandate' = target
      BY <2>1, <2>2, <3>1 DEF Mandate
    <3>3. desired /\ ~paused /\ ~circuit /\ Len(attempts) < BOOT_ATTEMPTS
      BY <2>1, <2>2 DEF StartInv, BudgetInv
    <3>4. target \in Generations \ {tried}
      BY <2>1, <2>2 DEF TriedInv
    <3>5. Policy!Grant
      BY <2>1, <3>1, <3>2, <3>3, <3>4 DEF Policy!Grant, Mandate
    <3>6. QED
      BY <3>5 DEF Policy!Next
  <2>3. CASE task # "start_tick"
    BY <1>5, <2>1, <2>3, PolicyStutter DEF TickCommits, Mandate
  <2>4. QED
    BY <2>2, <2>3
<1>6. CASE StopSnapshot
  <2>1. UNCHANGED <<intent, attempts, target>> /\ pc = "stop"
    BY <1>6 DEF StopSnapshot
  <2>2. CASE StopSucceeds \/ Fails
    BY <2>1, <2>2, EndsAsPromised
  <2>3. CASE pc' \in {"unbind", "settle"} /\ UNCHANGED <<circuit, task, tried>>
    BY <2>1, <2>3, PolicyStutter DEF Mandate
  <2>4. QED
    BY <1>6, <2>2, <2>3 DEF StopSnapshot
<1>7. CASE StopChecks \/ StartVerifies \/ StartRechecks
  BY <1>7, PolicyStutter
     DEF StopChecks, StartVerifies, StartRechecks, Mandate
<1>8. CASE Submit
  <2>1. UNCHANGED <<intent, circuit, attempts, task, target>>
    BY <1>8 DEF Submit
  <2>2. CASE pc = "submit_insmod"
    <3>1. pc' = "run_insmod" /\ tried' = target /\ task = "start_tick"
      BY <1>8, <2>2 DEF Submit, Runs
    <3>2. Mandate = target /\ Mandate' = target /\ target # None
      BY <2>1, <2>2, <3>1 DEF Mandate, TriedInv
    <3>3. Policy!Insert
      BY <2>1, <2>2, <3>1, <3>2 DEF Policy!Insert, Mandate
    <3>4. QED
      BY <3>3 DEF Policy!Next
  <2>3. CASE pc # "submit_insmod"
    BY <1>8, <2>1, <2>3, PolicyStutter DEF Submit, Runs, Mandate
  <2>4. QED
    BY <2>2, <2>3
<1>9. CASE StopCommandEnds
  <2>1. /\ UNCHANGED <<intent, attempts, target>>
        /\ pc \in {"run_unbind", "run_rmmod"}
    BY <1>9 DEF StopCommandEnds
  <2>2. CASE (StopSucceeds /\ pc = "run_rmmod") \/ Fails
    BY <2>1, <2>2, EndsAsPromised
  <2>3. CASE pc' = "settle" /\ UNCHANGED <<circuit, task, tried>>
    BY <2>1, <2>3, PolicyStutter DEF Mandate
  <2>4. QED
    BY <1>9, <2>2, <2>3 DEF StopCommandEnds, GivesUp
<1>10. CASE StartCommandEnds
  <2>1. UNCHANGED <<intent, attempts, target>> /\ pc = "run_insmod"
    BY <1>10 DEF StartCommandEnds
  <2>2. CASE Fails
    BY <2>1, <2>2, EndsAsPromised
  <2>3. CASE Release /\ UNCHANGED <<circuit, tried>>
    BY <2>1, <2>3, MandateEnds DEF Release
  <2>4. QED
    BY <1>10, <2>2, <2>3 DEF StartCommandEnds, GivesUp
<1>11. CASE HolderRefuses
  <2>1. /\ UNCHANGED <<intent, attempts, target>> /\ Fails
        /\ pc \in {"stop", "unbind", "settle", "rmmod", "verify", "insert"}
    BY <1>11 DEF HolderRefuses, StopRefuses, StartRefuses
  <2>2. QED
    BY <2>1, EndsAsPromised
<1>12. CASE ProcessStarts \/ CommandStop \/ CommandPause \/ CommandResume
  <2>1. UNCHANGED <<circuit, attempts, target, tried>>
    BY <1>12 DEF ProcessStarts, CommandStop, CommandPause, CommandResume
  <2>2. CASE UNCHANGED <<intent, pc, task>>
    BY <2>1, <2>2, PolicyStutter DEF Mandate
  <2>3. CASE LockIsFree
    <3>1. pc = "none" /\ task = "none"
      BY <2>3 DEF LockIsFree, StartInv
    <3>2. task' # "start_tick" /\ pc' \notin {"commit", "run_insmod"}
      BY <1>12, <3>1 DEF ProcessStarts, CommandStop, CommandPause,
         CommandResume, Take
    <3>3. Mandate = None /\ Mandate' = None
      BY <3>1, <3>2 DEF Mandate
    <3>4. Policy!Intend
      BY <2>1, <3>1, <3>2, <3>3 DEF Policy!Intend, Mandate
    <3>5. QED
      BY <3>4 DEF Policy!Next
  <2>4. QED
    BY <1>12, <2>2, <2>3 DEF ProcessStarts, CommandStop, CommandPause,
       CommandResume
<1>13. CASE CommandClearCircuit
  <2>1. /\ pc = "none" /\ task = "none" /\ UNCHANGED <<pc, task>>
        /\ attempts' = <<>> /\ ~desired' /\ ~circuit' /\ tried' = None
    BY <1>13 DEF CommandClearCircuit, LockIsFree, StartInv
  <2>2. Mandate = None /\ Mandate' = None /\ Len(attempts') = 0
    BY <2>1 DEF Mandate
  <2>3. Policy!Reset
    BY <2>1, <2>2, <1>13 DEF Policy!Reset, Mandate, CommandClearCircuit
  <2>4. QED
    BY <2>3 DEF Policy!Next
<1>14. CASE ProcessEnds \/ ClearCircuitDies
  BY <1>14, PolicyStutter DEF ProcessEnds, ClearCircuitDies, Mandate
<1>15. CASE PauseMarks \/ PauseFails \/ Sleeps \/ Wakes \/ ResumeFails
  BY <1>15, PolicyStutter
     DEF PauseMarks, PauseFails, Sleeps, Wakes, ResumeFails, Mandate
<1>16. CASE Dies
  <2>1. /\ UNCHANGED <<intent, circuit, attempts, target, tried>>
        /\ pc' = "none" /\ task' = "none"
    BY <1>16 DEF Dies, Release
  <2>2. CASE task = "start_tick" /\ pc # "commit"
    BY <2>1, <2>2, MandateEnds
  <2>3. CASE ~(task = "start_tick" /\ pc # "commit")
    BY <2>1, <2>3, PolicyStutter DEF Mandate
  <2>4. QED
    BY <2>2, <2>3
<1>17. QED
  BY <1>1, <1>2, <1>3, <1>4, <1>5, <1>6, <1>7, <1>8, <1>9, <1>10, <1>11,
     <1>12, <1>13, <1>14, <1>15, <1>16
     DEF Next, HolderRuns, UserActs, HookRuns

\* With all its processes, their deaths and the kernel's late answers, the
\* controller implements T6Policy: initial states map to initial states, and
\* every step to a step or a stutter.
THEOREM Refinement == Spec => ImplementsPolicy
<1>1. Init => Policy!Init
  BY DEF Init, Policy!Init
<1>2. PolicyInv /\ [Next]_vars => [Policy!Next]_(Policy!vars)
  BY PolicyStep
<1>3. Spec => []PolicyInv
  BY Typing, StartInvariant, BudgetInvariant, TriedInvariant, ForgiveInvariant,
     PTL DEF PolicyInv
<1>4. QED
  BY <1>1, <1>2, <1>3, PTL DEF Spec, ImplementsPolicy, Policy!Spec

=============================================================================
