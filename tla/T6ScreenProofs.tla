--------------------------- MODULE T6ScreenProofs ---------------------------
(***************************************************************************)
(* The screen of T6Screen never goes back in time: when the compositor       *)
(* stages its frames in order, each frame the screen comes to show is at     *)
(* least as new as the frame it showed before, across requeues, refreshes,    *)
(* failures and dark periods.                                                *)
(*                                                                          *)
(* T6Screen does not know when a frame was made.  Age gives every frame its  *)
(* place in the compositor's order, and two history variables record the     *)
(* past: they restrict nothing but the compositor.                           *)
(***************************************************************************)
EXTENDS T6Screen, Naturals, TLAPS

CONSTANT Age       \* of a frame, in the order of the compositor

VARIABLES
  staged_age,      \* of the newest frame staged so far
  shown_age        \* of the frame the screen showed last

timed == <<vars, staged_age, shown_age>>

TimedInit == Init /\ staged_age = 0 /\ shown_age = 0

StageInOrder ==
  /\ Stage /\ Age[staged'] >= staged_age
  /\ staged_age' = Age[staged']

Watch == shown_age' = IF shown' \in Frames THEN Age[shown'] ELSE shown_age

TimedNext ==
  (StageInOrder \/ ([Driver]_vars /\ UNCHANGED staged_age)) /\ Watch

TimedSpec == TimedInit /\ [][TimedNext]_timed

\* The screen never shows an older frame after a newer one.
NeverBackInTime == [][shown_age' >= shown_age]_shown_age

\* What a frame is not, and what an age is.
Sane ==
  /\ NoFrame \notin Frames /\ Torn \notin Frames /\ NoFrame # Torn
  /\ Age \in [Frames -> Nat]

\* The frames on their way are as old as they are far: no older than the one
\* on the screen, in order, and no newer than the newest.
AgeInv ==
  /\ staged \in Frames \cup {NoFrame} /\ taken \in Frames \cup {NoFrame}
  /\ shown \in Frames \cup {NoFrame, Torn}
  /\ staged_age \in Nat /\ shown_age \in Nat /\ shown_age <= staged_age
  /\ staged \in Frames => shown_age <= Age[staged] /\ Age[staged] <= staged_age
  /\ taken \in Frames => shown_age <= Age[taken] /\ Age[taken] <= staged_age
  /\ staged \in Frames /\ taken \in Frames => Age[taken] <= Age[staged]
  /\ shown \in Frames => Age[shown] = shown_age

LEMMA AgeInit ==
  ASSUME Sane, TimedInit
  PROVE  AgeInv
  BY DEF Sane, TimedInit, Init, AgeInv

LEMMA AgeStep ==
  ASSUME Sane, AgeInv, [TimedNext]_timed
  PROVE  AgeInv' /\ shown_age' >= shown_age
<1> USE DEF Sane, AgeInv
<1>0. /\ \A f \in Frames : Age[f] \in Nat
      /\ NoFrame \notin Frames /\ Torn \notin Frames /\ NoFrame # Torn
  OBVIOUS
<1>1. CASE StageInOrder /\ Watch
  BY <1>0, <1>1 DEF StageInOrder, Stage, Watch
<1>2. CASE [Driver]_vars /\ UNCHANGED staged_age /\ Watch
  <2>1. CASE Take
    BY <1>0, <1>2, <2>1 DEF Take, Watch
  <2>2. CASE PutBack
    BY <1>0, <1>2, <2>2 DEF PutBack, Watch
  <2>3. CASE Skip
    BY <1>0, <1>2, <2>3 DEF Skip, Watch
  <2>4. CASE Begin
    BY <1>0, <1>2, <2>4 DEF Begin, Watch
  <2>5. CASE Refresh
    BY <1>0, <1>2, <2>5 DEF Refresh, Watch
  <2>6. CASE Finish
    BY <1>0, <1>2, <2>6 DEF Finish, Watch
  <2>7. CASE Break
    BY <1>0, <1>2, <2>7 DEF Break, Watch
  <2>8. CASE Drop
    BY <1>0, <1>2, <2>8 DEF Drop, Watch
  <2>9. CASE Power
    BY <1>0, <1>2, <2>9 DEF Power, Watch
  <2>10. CASE Forget
    BY <1>0, <1>2, <2>10 DEF Forget, Watch
  <2>11. CASE UNCHANGED vars
    BY <1>0, <1>2, <2>11 DEF vars, Watch
  <2>12. QED
    BY <1>2, <2>1, <2>2, <2>3, <2>4, <2>5, <2>6, <2>7, <2>8, <2>9, <2>10, <2>11
       DEF Driver
<1>3. CASE UNCHANGED timed
  BY <1>3 DEF timed, vars
<1>4. QED
  BY <1>1, <1>2, <1>3 DEF TimedNext

\* The screen never goes back in time.
THEOREM InOrder ==
  ASSUME Sane
  PROVE  TimedSpec => NeverBackInTime
<1>1. TimedInit => AgeInv
  BY AgeInit
<1>2. AgeInv /\ [TimedNext]_timed => AgeInv' /\ [shown_age' >= shown_age]_shown_age
  BY AgeStep
<1>3. QED
  BY <1>1, <1>2, PTL DEF TimedSpec, NeverBackInTime

=============================================================================
