---------------------------- MODULE T6Controller ----------------------------
(***************************************************************************)
(* The host controller of the driver, control/controller.py: its ledger in  *)
(* state.json, the policy (decide), one pass of the observer (tick) and the  *)
(* commands (operate), run by three kinds of process:                        *)
(*                                                                          *)
(*   the service (watch) and the command start, which both repeat tick;     *)
(*   the commands stop and clear-circuit of a user;                         *)
(*   the sleep hook packaging/jcd543-trigger6-sleep: pause before a sleep,  *)
(*   resume after it, each killed after three seconds.                      *)
(*                                                                          *)
(* The flock of the ledger is not waited for: a tick skips its turn, a      *)
(* command is refused.  Whoever holds it owns pc, task, target and seen; a   *)
(* command that only rewrites the ledger is one step.  A command line tool   *)
(* given to the kernel (unbind, rmmod, insmod) runs on its own: it can end   *)
(* before its time limit, or be given up and end, or not, at any later time. *)
(*                                                                          *)
(* Timestamps are kept as ages, which stop growing at the largest bound they *)
(* are compared with.  A device generation never returns.                    *)
(***************************************************************************)
EXTENDS Naturals, Sequences, FiniteSets

CONSTANTS
  STABLE_SECONDS, COOLDOWN_SECONDS, RAPID_LOSS_SECONDS, HOUR,
  HOURLY_ATTEMPTS, BOOT_ATTEMPTS,
  Generations,    \* identities of an enumerated device
  Commands        \* what may be started or happen (a bound of the model)

ASSUME TimesAssumption ==
  /\ {STABLE_SECONDS, COOLDOWN_SECONDS, RAPID_LOSS_SECONDS, HOUR} \subseteq Nat
  /\ RAPID_LOSS_SECONDS <= COOLDOWN_SECONDS /\ COOLDOWN_SECONDS <= HOUR
  /\ {HOURLY_ATTEMPTS, BOOT_ATTEMPTS} \subseteq Nat

ASSUME CommandsAssumption ==
  Commands \subseteq
    {"watch", "start", "stop", "sleep", "clear", "crash", "stall", "panel"}

None == "none"
ASSUME GenerationsAssumption == None \notin Generations

VARIABLES
  \* the ledger
  desired, paused, circuit, attempts, candidate, candidate_age,
  managed_generation, last_age, inflight,
  \* files next to it
  inhibit,       \* sleep-inhibit exists
  lock,          \* process that holds the flock, or "free"
  \* processes
  watching, starting,  \* the service, the command start are running
  hook,          \* stage of the sleep hook
  pre_ok,        \* the last pause ended without an error
  pc, task,      \* of the holder: next statement; why stop_module runs
  target,        \* generation a tick starts
  seen,          \* generation stop_module saw first
  \* the kernel
  kop,           \* command the holder waits for, or its result
  ghosts,        \* commands nobody waits for any more
  mod, own,      \* state of the resident module; it has the approved profile
  used,          \* its one active probe was consumed
  gen, bound,    \* enumerated device; its interface has the driver
  fault,         \* bad metrics or no DRM device
  ready,         \* laptop panel lit and Hyprland running
  \* history
  insertions,    \* insmod commands since the ledger was reset
  tried,         \* generation of the last one, until a stop or pause
  orphan         \* a process died with an operation in flight

intent   == <<desired, paused>>
budget   == <<attempts, last_age>>
choice   == <<candidate, candidate_age>>
outcome  == <<circuit, managed_generation, inflight>>
ledger   == <<intent, budget, choice, outcome>>
loops    == <<watching, starting>>
sleeping == <<hook, pre_ok, inhibit>>
holder   == <<lock, pc, task, target, seen>>
module   == <<mod, own, used>>
device   == <<gen, bound, fault>>
kernel   == <<kop, ghosts, module, device>>
history  == <<insertions, tried, orphan>>
vars == <<ledger, loops, sleeping, holder, kernel, ready, history>>

\* "init" and "exit" are insmod and rmmod inside the module's own functions.
Ops == {"unbind", "rmmod", "exit", "insmod", "init"}

Init ==
  /\ desired = FALSE /\ paused = FALSE /\ circuit = FALSE
  /\ attempts = <<>> /\ candidate = None /\ candidate_age = 0
  /\ managed_generation = None /\ last_age = 0 /\ inflight = None
  /\ inhibit = FALSE /\ lock = "free"
  /\ watching = FALSE /\ starting = FALSE /\ hook = "awake" /\ pre_ok = TRUE
  /\ pc = "none" /\ task = "none" /\ target = None /\ seen = None
  /\ kop = "none" /\ ghosts = {}
  /\ mod \in {"none", "live"} /\ own \in BOOLEAN /\ used = (mod = "live")
  /\ mod = "none" => ~own
  /\ gen = None /\ bound = FALSE /\ fault = FALSE /\ ready = TRUE
  /\ insertions = 0 /\ tried = None /\ orphan = FALSE

-----------------------------------------------------------------------------
(* Time, the device and the laptop *)

Older(age, limit) == IF age < limit THEN age + 1 ELSE age

TimePasses ==
  /\ candidate_age' = Older(candidate_age, STABLE_SECONDS)
  /\ last_age' = Older(last_age, COOLDOWN_SECONDS)
  /\ attempts' = [i \in DOMAIN attempts |-> Older(attempts[i], HOUR)]
  /\ UNCHANGED <<intent, candidate, outcome, loops, sleeping, holder, kernel,
                 ready, history>>

\* A device is enumerated: a generation that nothing remembers.  A module whose
\* one active probe is left takes it, until its exit function unregistered it.
Plug ==
  /\ gen = None
  /\ gen' \in Generations \
               {candidate, managed_generation, target, seen, tried}
  /\ bound' \in {mod = "live" /\ ~used, mod \in {"live", "going"} /\ ~used}
  /\ used' = (used \/ mod = "live" \/ bound')
  /\ fault' = FALSE
  /\ UNCHANGED <<ledger, loops, sleeping, holder, kop, ghosts, mod, own, ready,
                 history>>

Unplug ==
  /\ gen # None /\ gen' = None /\ bound' = FALSE /\ fault' = FALSE
  /\ UNCHANGED <<ledger, loops, sleeping, holder, kop, ghosts, module, ready,
                 history>>

TransportFails ==
  /\ bound /\ ~fault /\ fault' = TRUE
  /\ UNCHANGED <<ledger, loops, sleeping, holder, kop, ghosts, module, gen,
                 bound, ready, history>>

\* The panel is switched off or on, Hyprland ends or starts.
ReadinessChanges ==
  /\ "panel" \in Commands /\ ready' = ~ready
  /\ UNCHANGED <<ledger, loops, sleeping, holder, kernel, history>>

-----------------------------------------------------------------------------
(* Commands inside the kernel *)

\* The module has unregistered its driver and is freed.
Gone ==
  /\ mod' = "none" /\ own' = FALSE /\ used' = FALSE
  /\ bound' = FALSE /\ fault' = FALSE /\ UNCHANGED gen

\* What a command does, and what its process returns.  A module is visible
\* (coming) before its init function probes the device, which has a driver link
\* from the start of the probe; meanwhile an unbind waits for the device lock.
\* It stays visible (going) until its exit function has unbound the device.
Effect(op, result) ==
  \/ /\ op = "unbind" /\ mod # "coming"
     /\ result = IF bound THEN "ok" ELSE "fail"
     /\ bound' = FALSE /\ fault' = FALSE
     /\ UNCHANGED <<module, gen>>
  \/ /\ op = "rmmod" /\ mod = "live" /\ result = "exit"
     /\ mod' = "going" /\ UNCHANGED <<own, used, device>>
  \/ op = "exit" /\ result = "ok" /\ Gone
  \/ /\ op = "insmod" /\ mod = "none" /\ result = "init"
     /\ mod' = "coming" /\ own' = TRUE
     /\ used' = (gen # None) /\ bound' = (gen # None)
     /\ fault' = FALSE /\ UNCHANGED gen
  \/ /\ op = "init" /\ result = "ok"
     /\ mod' = "live" /\ used' = (used \/ gen # None)
     /\ bound' \in {IF used THEN bound ELSE gen # None, FALSE}
     /\ fault' = FALSE /\ UNCHANGED <<own, gen>>
  \/ op = "init" /\ result = "fail" /\ Gone
  \/ /\ op \in {"rmmod", "insmod"} /\ result = "fail"
     /\ UNCHANGED <<module, device>>

KernelRuns ==
  /\ \E result \in {"ok", "fail", "init", "exit"} :
       \/ /\ kop \in Ops /\ Effect(kop, result)
          /\ kop' = result /\ UNCHANGED ghosts
       \/ \E op \in ghosts :
            /\ Effect(op, result)
            /\ ghosts' = (ghosts \ {op}) \cup ({result} \cap Ops)
            /\ UNCHANGED kop
  /\ UNCHANGED <<ledger, loops, sleeping, holder, ready, history>>

\* A killed process that had not entered the kernel.
GhostDies ==
  /\ \E op \in ghosts \ {"init", "exit"} : ghosts' = ghosts \ {op}
  /\ UNCHANGED <<ledger, loops, sleeping, holder, kop, module, device, ready,
                 history>>

-----------------------------------------------------------------------------
(* decide: the policy *)

\* last_attempt is set exactly when the ledger holds an attempt.
RapidLoss ==
  managed_generation # None /\ attempts # <<>> /\ last_age < RAPID_LOSS_SECONDS

CandidateAge_Restarts == 0
CandidateAge == IF candidate = gen THEN candidate_age ELSE 0

Unfinished_Ignored == FALSE
Unfinished == inflight # None

HeldBack_IgnoresIntent == inhibit
HeldBack == ~desired \/ paused \/ inhibit

Recent == {i \in DOMAIN attempts : attempts[i] < HOUR}

BudgetExhausted_IgnoresHour == Len(attempts) >= BOOT_ATTEMPTS
BudgetExhausted ==
  Len(attempts) >= BOOT_ATTEMPTS \/ Cardinality(Recent) >= HOURLY_ATTEMPTS

\* The early returns of decide, in order: when, and what it answers.  "trip" is
\* a wait and "stop" a stop that latches the circuit.  The first four rules
\* return before the candidate is looked at.
Rule(when, answer) == [when |-> when, answer |-> answer]

Rules(error) == <<
  Rule(Unfinished, "trip"),
  Rule(circuit, "wait"),
  Rule(HeldBack, "wait"),
  Rule(error, "trip"),
  Rule(gen = None /\ RapidLoss, "trip"),
  Rule(gen = None, "wait"),
  Rule(bound /\ ~own, "trip"),
  Rule(bound /\ gen # managed_generation, "trip"),
  Rule(bound /\ fault, "stop"),
  Rule(bound, "wait"),
  Rule(mod # "none" /\ ~own, "trip"),
  Rule(gen = managed_generation, "trip"),
  Rule(RapidLoss, "trip"),
  Rule(~ready, "wait"),
  Rule(CandidateAge < STABLE_SECONDS, "wait"),
  Rule(BudgetExhausted, "trip"),
  Rule(attempts # <<>> /\ last_age < COOLDOWN_SECONDS, "wait"),
  Rule(TRUE, "start") >>

\* The first rule whose condition is met decides.
Decides(i, rules) == rules[i].when /\ \A j \in 1..(i - 1) : ~rules[j].when

-----------------------------------------------------------------------------
(* tick: one pass of the observer, up to the operation it begins *)

Tickers ==
  {t \in {"watch", "start"} : IF t = "watch" THEN watching ELSE starting}

LockIsFree_Shared == TRUE
LockIsFree == lock = "free"

\* Nobody runs while the machine sleeps.
Awake == hook # "asleep"

Take(process, at, why) ==
  /\ lock' = process /\ pc' = at /\ task' = why

Release == lock' = "free" /\ pc' = "none" /\ task' = "none"

\* The snapshot fails: no decision, the circuit is latched.
TickSnapshotFails ==
  /\ Awake /\ LockIsFree /\ Tickers # {}
  /\ circuit' = TRUE
  /\ UNCHANGED <<intent, budget, choice, managed_generation, inflight, loops,
                 sleeping, holder, kernel, ready, history>>

\* A process that ticks takes the lock for the operation it decided on.
Begin(why) ==
  (\E t \in Tickers : Take(t, "commit", why)) /\ target' = gen

\* Snapshot, decide and the first write of the ledger.
TickDecides ==
  /\ Awake /\ LockIsFree /\ Tickers # {}
  /\ \E error \in BOOLEAN :
       LET rules == Rules(error)
       IN  \E i \in DOMAIN rules :
             /\ Decides(i, rules)
             /\ IF i <= 4
                THEN UNCHANGED choice
                ELSE /\ candidate' = gen
                     /\ candidate_age' =
                          IF gen = None THEN candidate_age ELSE CandidateAge
             /\ circuit' = (circuit \/ rules[i].answer \in {"trip", "stop"})
             /\ CASE rules[i].answer = "start" ->
                       Begin("start_tick")
                  [] rules[i].answer = "stop" ->
                       Begin("stop_tick")
                  [] OTHER -> UNCHANGED <<lock, pc, task, target>>
  /\ UNCHANGED <<intent, budget, managed_generation, inflight, loops, sleeping,
                 seen, kernel, ready, history>>

MarkInflight_Forgets == UNCHANGED inflight
MarkInflight == inflight' = "tick"

ConsumeAttempt_Forgets == UNCHANGED budget
ConsumeAttempt == attempts' = Append(attempts, 0) /\ last_age' = 0

\* The second write: the operation is in flight and its attempt is consumed
\* before anything is done.
TickCommits ==
  /\ Awake /\ pc = "commit" /\ MarkInflight
  /\ IF task = "start_tick" THEN ConsumeAttempt /\ pc' = "verify"
                             ELSE UNCHANGED budget /\ pc' = "stop"
  /\ UNCHANGED <<intent, choice, circuit, managed_generation, loops, sleeping,
                 lock, task, target, seen, kernel, ready, history>>

-----------------------------------------------------------------------------
(* stop_module, and what its caller does with its outcome *)

\* What the steps of stop_module and start_module leave alone.
op_frame == <<intent, budget, choice, loops, ready, insertions, orphan>>

PreEnds(ok) ==
  IF task = "pause" THEN hook' = "ready" /\ pre_ok' = ok
                    ELSE UNCHANGED <<hook, pre_ok>>

LatchCleanup_Forgets == UNCHANGED circuit
LatchCleanup == circuit' = (circuit \/ task = "cleanup")

\* The module is gone.  Inside start_module the insertion goes on; otherwise
\* the last write of the ledger clears the marker.
StopSucceeds ==
  IF task = "start_tick"
  THEN /\ pc' = "insert"
       /\ UNCHANGED <<outcome, lock, task, hook, pre_ok, tried>>
  ELSE /\ managed_generation' = None /\ inflight' = None
       /\ LatchCleanup
       /\ Release /\ PreEnds(TRUE)
       /\ tried' = IF task \in {"stop", "pause"} THEN None ELSE tried

\* A failed start gets one cleanup; any other failure latches the circuit and
\* leaves the marker.
Fails ==
  IF task = "start_tick"
  THEN /\ task' = "cleanup" /\ pc' = "stop"
       /\ UNCHANGED <<outcome, lock, hook, pre_ok, tried>>
  ELSE /\ circuit' = TRUE
       /\ Release /\ PreEnds(FALSE)
       /\ UNCHANGED <<managed_generation, inflight, tried>>

NothingToStop_WhenUnbound == mod = "none" \/ ~bound
NothingToStop == mod = "none"

\* The first snapshot: nothing to do, or the module must be ours.
StopSnapshot ==
  /\ Awake /\ pc = "stop"
  /\ IF NothingToStop
     THEN StopSucceeds /\ UNCHANGED seen
     ELSE IF own
     THEN /\ seen' = gen /\ pc' = IF bound THEN "unbind" ELSE "settle"
          /\ UNCHANGED <<outcome, lock, task, hook, pre_ok, tried>>
     ELSE Fails /\ UNCHANGED seen
  /\ UNCHANGED <<op_frame, inhibit, target, kernel>>

\* The checks in front of each command; what they refuse, fails.
StopChecks ==
  /\ Awake /\ pc \in {"unbind", "settle", "rmmod"}
  /\ \/ /\ pc = "unbind" /\ gen = seen /\ bound /\ pc' = "submit_unbind"
     \/ /\ pc = "settle" /\ mod = "live" /\ pc' = "rmmod"
     \/ /\ pc = "rmmod" /\ mod = "live" /\ own /\ gen = seen /\ ~bound
        /\ pc' = "submit_rmmod"
  /\ UNCHANGED <<op_frame, outcome, sleeping, lock, task, target, seen, kernel,
                 tried>>

\* A check fails, the module keeps its references, or the deadline passes.
StopRefuses ==
  /\ Awake /\ pc \in {"stop", "unbind", "settle", "rmmod"} /\ Fails
  /\ UNCHANGED <<op_frame, inhibit, target, seen, kernel>>

\* run_command gives the command to the kernel.
Runs(command, from, to) == pc = from /\ kop' = command /\ pc' = to

Submit ==
  /\ Awake
  /\ \/ /\ \/ Runs("unbind", "submit_unbind", "run_unbind")
           \/ Runs("rmmod", "submit_rmmod", "run_rmmod")
        /\ UNCHANGED <<insertions, tried>>
     \/ /\ Runs("insmod", "submit_insmod", "run_insmod")
        /\ insertions' = insertions + 1 /\ tried' = target
  /\ UNCHANGED <<ledger, loops, sleeping, lock, task, target, seen, ghosts,
                 module, device, ready, orphan>>

\* Its time limit passes, and it goes on alone.
GivesUp_Never == FALSE
GivesUp == kop \in Ops /\ Fails /\ ghosts' = ghosts \cup {kop}

\* The command returned, or is given up.
StopCommandEnds ==
  /\ Awake /\ pc \in {"run_unbind", "run_rmmod"}
  /\ \/ /\ kop = "ok" /\ pc = "run_unbind" /\ pc' = "settle"
        /\ UNCHANGED <<outcome, lock, task, hook, pre_ok, tried, ghosts>>
     \/ /\ kop = "ok" /\ pc = "run_rmmod"
        /\ IF mod = "none" THEN StopSucceeds ELSE Fails
        /\ UNCHANGED ghosts
     \/ kop = "fail" /\ Fails /\ UNCHANGED ghosts
     \/ GivesUp
  /\ kop' = "none"
  /\ UNCHANGED <<op_frame, inhibit, target, seen, module, device>>

-----------------------------------------------------------------------------
(* start_module *)

\* The first snapshot; a resident module of ours is removed first.
StartVerifies ==
  /\ Awake /\ pc = "verify"
  /\ ~inhibit /\ ready /\ gen = target /\ ~bound
  /\ pc' = IF mod = "none" THEN "insert" ELSE "stop"
  /\ UNCHANGED <<op_frame, outcome, sleeping, lock, task, target, seen, kernel,
                 tried>>

\* The fresh snapshot right before insmod.
StartRechecks ==
  /\ Awake /\ pc = "insert"
  /\ ~inhibit /\ ready /\ gen = target /\ ~bound /\ mod = "none"
  /\ pc' = "submit_insmod"
  /\ UNCHANGED <<op_frame, outcome, sleeping, lock, task, target, seen, kernel,
                 tried>>

\* A snapshot differs, or the artifact, the packages or the taint are refused.
StartRefuses ==
  /\ Awake /\ pc \in {"verify", "insert"} /\ Fails
  /\ UNCHANGED <<op_frame, inhibit, target, seen, kernel>>

\* insmod returned: the last snapshot must show the generation bound and sound.
\* One that exceeds its eight seconds is in the module's init function, unless
\* loading the file stalls.
StartCommandEnds ==
  /\ Awake /\ pc = "run_insmod"
  /\ \/ /\ kop = "ok" /\ gen = target /\ bound /\ own /\ ~fault
        /\ managed_generation' = target /\ inflight' = None /\ Release
        /\ UNCHANGED <<circuit, hook, pre_ok, tried, ghosts>>
     \/ kop \in {"ok", "fail"} /\ Fails /\ UNCHANGED ghosts
     \/ (kop = "init" \/ "stall" \in Commands) /\ GivesUp
  /\ kop' = "none"
  /\ UNCHANGED <<op_frame, inhibit, target, seen, module, device>>

-----------------------------------------------------------------------------
(* operate: the commands.  A busy lock refuses them without a change. *)

\* The service begins to watch, or the command start: both record the intent
\* and go on with ticks.
ProcessStarts ==
  /\ Awake /\ LockIsFree
  /\ \/ "watch" \in Commands /\ ~watching /\ watching' = TRUE
        /\ UNCHANGED starting
     \/ "start" \in Commands /\ ~starting /\ starting' = TRUE
        /\ UNCHANGED watching
  /\ desired' = TRUE
  /\ UNCHANGED <<paused, budget, choice, outcome, sleeping, holder, kernel,
                 ready, history>>

\* start ends when the generation is managed, the circuit is latched or its
\* deadline has passed; the service is stopped between two ticks.
ProcessEnds ==
  /\ Awake
  /\ \/ starting /\ lock # "start" /\ starting' = FALSE /\ UNCHANGED watching
     \/ "crash" \in Commands /\ watching /\ lock # "watch"
        /\ watching' = FALSE /\ UNCHANGED starting
  /\ UNCHANGED <<ledger, sleeping, holder, kernel, ready, history>>

CommandStop ==
  /\ Awake /\ LockIsFree /\ "stop" \in Commands
  /\ desired' = FALSE /\ inflight' = "stop" /\ Take("stop", "stop", "stop")
  /\ UNCHANGED <<paused, budget, choice, circuit, managed_generation, loops,
                 sleeping, target, seen, kernel, ready, history>>

CommandClearCircuit ==
  /\ Awake /\ LockIsFree /\ "clear" \in Commands /\ ~bound
  /\ desired' = FALSE /\ paused' = FALSE /\ circuit' = FALSE
  /\ attempts' = <<>> /\ last_age' = 0
  /\ candidate' = None /\ candidate_age' = 0
  /\ managed_generation' = None /\ inflight' = None
  /\ inhibit' = FALSE
  /\ insertions' = 0 /\ tried' = None /\ orphan' = FALSE
  /\ UNCHANGED <<loops, hook, pre_ok, holder, kernel, ready>>

\* clear-circuit is killed between the marker and the ledger.
ClearCircuitDies ==
  /\ Awake /\ LockIsFree /\ {"clear", "crash"} \subseteq Commands /\ ~bound
  /\ inhibit' = FALSE
  /\ UNCHANGED <<ledger, loops, hook, pre_ok, holder, kernel, ready, history>>

\* pause writes sleep-inhibit before it asks for the lock.
PauseMarks ==
  /\ hook = "awake" /\ "sleep" \in Commands
  /\ hook' = "marked" /\ inhibit' = TRUE
  /\ UNCHANGED <<ledger, loops, pre_ok, holder, kernel, ready, history>>

\* Nothing to pause: the marker is taken back.  Otherwise the pending stop is
\* recorded before it begins.
CommandPause ==
  /\ hook = "marked" /\ LockIsFree
  /\ IF desired
     THEN /\ paused' = TRUE /\ inflight' = "pause"
          /\ Take("hook", "stop", "pause") /\ hook' = "pausing"
          /\ UNCHANGED <<pre_ok, inhibit>>
     ELSE /\ inhibit' = FALSE /\ hook' = "ready" /\ pre_ok' = inhibit
          /\ UNCHANGED <<paused, inflight, lock, pc, task>>
  /\ UNCHANGED <<desired, budget, choice, circuit, managed_generation, loops,
                 target, seen, kernel, ready, history>>

\* The lock is busy, or the three seconds are over before it is asked for.
PauseFails ==
  /\ hook = "marked" /\ hook' = "ready" /\ pre_ok' = FALSE
  /\ UNCHANGED <<ledger, loops, inhibit, holder, kernel, ready, history>>

\* The freezer lets the machine sleep when no task is stuck in the kernel; a
\* bound driver's suspend callback latches its transport fault.
Sleeps ==
  /\ hook = "ready" /\ kop \notin Ops /\ ghosts = {}
  /\ hook' = "asleep" /\ fault' = (fault \/ bound)
  /\ UNCHANGED <<ledger, loops, pre_ok, inhibit, holder, kop, ghosts, module,
                 gen, bound, ready, history>>

\* The machine wakes, or never went to sleep.
Wakes ==
  /\ hook \in {"ready", "asleep"} /\ hook' = "woken"
  /\ UNCHANGED <<ledger, loops, pre_ok, inhibit, holder, kernel, ready,
                 history>>

PauseCompleted_IgnoresMarker == paused
PauseCompleted == paused /\ inflight = None

\* resume takes back a pause that was completed, and only that.
CommandResume ==
  /\ hook = "woken" /\ hook' = "awake"
  /\ IF LockIsFree /\ PauseCompleted
     THEN paused' = FALSE /\ candidate' = None /\ inhibit' = FALSE
     ELSE UNCHANGED <<paused, candidate, inhibit>>
  /\ UNCHANGED <<desired, budget, candidate_age, outcome, loops, pre_ok,
                 holder, kernel, ready, history>>

\* resume runs out of time, perhaps between the marker and the ledger.
ResumeFails ==
  /\ hook = "woken" /\ hook' = "awake"
  /\ \/ LockIsFree /\ PauseCompleted /\ inhibit' = FALSE
     \/ UNCHANGED inhibit
  /\ UNCHANGED <<ledger, loops, pre_ok, holder, kernel, ready, history>>

\* The holder is killed: the sleep hook's by its time limit, another one by
\* anybody.  The kernel drops the flock; a running command goes on alone.
Dies ==
  /\ Awake /\ lock # "free"
  /\ lock = "hook" \/ "crash" \in Commands
  /\ Release /\ PreEnds(FALSE)
  /\ watching' = (watching /\ lock # "watch")
  /\ starting' = (starting /\ lock # "start")
  /\ kop' = "none" /\ ghosts' = ghosts \cup ({kop} \cap Ops)
  /\ orphan' = (orphan \/ inflight # None)
  /\ UNCHANGED <<ledger, inhibit, target, seen, module, device, ready,
                 insertions, tried>>

-----------------------------------------------------------------------------
HolderRuns ==
  TickCommits \/ StopSnapshot \/ StopChecks \/ Submit \/ StopCommandEnds
  \/ StartVerifies \/ StartRechecks \/ StartCommandEnds

HolderRefuses == StopRefuses \/ StartRefuses

Environment == Plug \/ Unplug \/ TransportFails \/ ReadinessChanges

UserActs == ProcessStarts \/ ProcessEnds \/ CommandStop
            \/ CommandClearCircuit \/ ClearCircuitDies

HookRuns == PauseMarks \/ CommandPause \/ PauseFails \/ Sleeps \/ Wakes
            \/ CommandResume \/ ResumeFails

Next ==
  \/ TimePasses \/ Environment \/ KernelRuns \/ GhostDies
  \/ TickSnapshotFails \/ TickDecides \/ HolderRuns \/ HolderRefuses
  \/ UserActs \/ HookRuns \/ Dies

Spec == Init /\ [][Next]_vars

\* Time passes, a running process takes its next step, insmod gets as far as
\* the init function, and a tick gets the lock if it is free again and again.
\* Nothing obliges the kernel to finish a probe, an unbind or a removal.
Fairness ==
  /\ WF_vars(TimePasses) /\ WF_vars(kop = "insmod" /\ KernelRuns)
  /\ WF_vars(HolderRuns \/ HolderRefuses)
  /\ SF_vars(TickDecides)

FairSpec == Spec /\ Fairness

-----------------------------------------------------------------------------
(* Properties *)

\* Every variable stays in its range; a step of an operation belongs to the
\* holder of the lock.
TypeOK ==
  /\ {desired, paused, circuit, inhibit, watching, starting, pre_ok, own, used,
      bound, fault, ready, orphan} \subseteq BOOLEAN
  /\ attempts \in Seq(0..HOUR) /\ last_age \in 0..COOLDOWN_SECONDS
  /\ candidate_age \in 0..STABLE_SECONDS
  /\ {candidate, managed_generation, target, seen, gen, tried}
       \subseteq Generations \cup {None}
  /\ inflight \in {None, "tick", "stop", "pause"}
  /\ lock \in {"free", "watch", "start", "stop", "hook"}
  /\ lock = "free" <=> pc = "none"
  /\ pc \in {"none", "commit", "stop", "unbind", "settle", "rmmod",
             "submit_unbind", "submit_rmmod", "submit_insmod", "run_unbind",
             "run_rmmod", "run_insmod", "verify", "insert"}
  /\ pc \in {"verify", "insert", "submit_insmod", "run_insmod"}
       => task = "start_tick"
  /\ task \in {"none", "start_tick", "stop_tick", "cleanup", "stop", "pause"}
  /\ hook \in {"awake", "marked", "pausing", "ready", "asleep", "woken"}
  /\ hook = "pausing" <=> lock = "hook"
  /\ task = "pause" <=> lock = "hook"
  /\ kop \in Ops \cup {"none", "ok", "fail"} /\ ghosts \subseteq Ops
  /\ kop # "none" => pc \in {"run_unbind", "run_rmmod", "run_insmod"}
  /\ mod \in {"none", "coming", "live", "going"}
  /\ insertions \in Nat

\* "A crash/timeout preserves a fail-closed, consumed attempt": however the
\* processes die, fail or restart, the ledger knows every insertion since its
\* last reset, and there are never more than the budget of a boot.
InsertionsAreConsumed ==
  insertions <= Len(attempts) /\ insertions <= BOOT_ATTEMPTS

\* The kernel is not hammered: between two resets of the ledger the attempts
\* keep the cooldown apart, and no hour holds more of them than it may,
\* whatever processes tick, die and restart in between.
AttemptsArePaced ==
  /\ Cardinality(Recent) <= HOURLY_ATTEMPTS
  /\ \A i \in Recent :
       i < Len(attempts) => attempts[i] >= attempts[i + 1] + COOLDOWN_SECONDS

\* No automatic loop: a generation is inserted for once; again only after a
\* stop or a completed pause released it, or a reset of the ledger.
OneInsertionPerGeneration ==
  [][insertions' > insertions => tried # target]_insertions

\* Automation acts only for the recorded intent: an insertion is never begun
\* while the circuit is latched, the head is paused, or a stop was recorded.
InsertionIsAuthorised ==
  [][insertions' > insertions =>
       desired /\ ~paused /\ ~circuit /\ inflight = "tick"]_insertions

\* A machine that sleeps after a pause that reported success and had something
\* to pause (it kept sleep-inhibit) has no module resident, whatever ticks and
\* commands ran between the two.
SleepsQuiesced == hook = "asleep" /\ pre_ok /\ inhibit => mod = "none"

\* A pause that failed in its stop keeps sleep-inhibit until somebody else
\* rewrites the marker in the ledger: no later resume clears it.
IncompletePauseIsInhibited ==
  inflight = "pause" /\ lock = "free" => inhibit /\ paused

\* Interrupted work stays blocked: once a process died with an operation in
\* flight, no insertion begins before the ledger is reset.
AutomaticReentryIsBlocked ==
  [][insertions' > insertions => ~orphan]_insertions

\* "a failed stop is never repeated, because its timed-out kernel operation may
\* still be in flight".
FailedStopIsNotRepeated ==
  kop \in {"unbind", "rmmod", "exit"} => ghosts \cap {"unbind", "rmmod", "exit"} = {}

\* The promise of T6Policy.  A mandate lasts from the write that consumes the
\* attempt to the end of the start, and its insertion is given from the insmod
\* until somebody knows how that ended, or gives it up.
Policy == INSTANCE T6Policy WITH
  Budget  <- BOOT_ATTEMPTS,
  wanted  <- desired /\ ~paused,
  tripped <- circuit,
  spent   <- Len(attempts),
  mandate <- IF task = "start_tick" /\ pc # "commit" THEN target ELSE None,
  given   <- pc = "run_insmod",
  last    <- tried

\* With all its processes, their deaths and the kernel's late answers, the
\* controller implements T6Policy.
ImplementsPolicy == Policy!Spec

\* Under fairness: no operation holds the lock for ever, whatever the kernel
\* does with its commands.
LockIsReleased == lock # "free" ~> lock = "free"

\* Under fairness: a generation that stays, on a laptop that stays ready, with
\* the service running and nobody asking for a stop or a sleep, is in the end
\* managed, or the circuit says why not.
StableGenerationIsDecided ==
  \A g \in Generations :
    LET waiting == /\ watching /\ desired /\ ~paused /\ ~inhibit
                   /\ ready /\ gen = g
    IN  waiting ~> ~waiting \/ circuit \/ managed_generation = g

=============================================================================
