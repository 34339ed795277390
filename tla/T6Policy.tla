------------------------------ MODULE T6Policy ------------------------------
(***************************************************************************)
(* What the host controller promises, whatever processes, files, locks and  *)
(* kernel commands it is made of (control/controller.py).                    *)
(*                                                                          *)
(* The module is inserted only under a mandate.  A mandate is for one        *)
(* generation, which is not that of the last insertion; it is granted only  *)
(* while the head is wanted and nothing went wrong, and costs one attempt   *)
(* of the boot's budget before anything is done.  It allows one insertion.  *)
(* While it lasts, the intent and the circuit stay as they were.  What went *)
(* wrong is forgotten, and attempts are given back, only by a reset; the    *)
(* generation of the last insertion is forgiven only by a reset, or once    *)
(* nobody wants the head.                                                    *)
(***************************************************************************)
EXTENDS Naturals

CONSTANTS
  Generations,   \* identities of an enumerated device
  Budget,        \* attempts of a boot
  None           \* no generation

VARIABLES
  wanted,    \* the head is desired and not paused
  tripped,   \* the circuit is latched
  spent,     \* attempts since the last reset
  mandate,   \* generation an attempt is under way for, or None
  given,     \* its insertion was given to the kernel
  last       \* generation of the last insertion, or None

vars == <<wanted, tripped, spent, mandate, given, last>>

Init ==
  /\ ~wanted /\ ~tripped /\ spent = 0
  /\ mandate = None /\ given = FALSE /\ last = None

\* The user or the sleep hook changes what is wanted.
Intend ==
  /\ mandate = None /\ wanted' \in BOOLEAN
  /\ UNCHANGED <<tripped, spent, mandate, given, last>>

Trip ==
  /\ mandate = None /\ tripped' = TRUE
  /\ UNCHANGED <<wanted, spent, mandate, given, last>>

Grant ==
  /\ mandate = None /\ wanted /\ ~tripped /\ spent < Budget
  /\ mandate' \in Generations \ {last} /\ spent' = spent + 1
  /\ UNCHANGED <<wanted, tripped, given, last>>

Insert ==
  /\ mandate # None /\ ~given
  /\ given' = TRUE /\ last' = mandate
  /\ UNCHANGED <<wanted, tripped, spent, mandate>>

\* Success, failure, and the death of the process end a mandate alike.
Withdraw ==
  /\ mandate # None /\ mandate' = None /\ given' = FALSE
  /\ UNCHANGED <<wanted, tripped, spent, last>>

Forgive ==
  /\ mandate = None /\ ~wanted /\ last' = None
  /\ UNCHANGED <<wanted, tripped, spent, mandate, given>>

Reset ==
  /\ mandate = None
  /\ wanted' = FALSE /\ tripped' = FALSE /\ spent' = 0 /\ last' = None
  /\ UNCHANGED <<mandate, given>>

Next == Intend \/ Trip \/ Grant \/ Insert \/ Withdraw \/ Forgive \/ Reset

Spec == Init /\ [][Next]_vars
=============================================================================
