------------------------------ MODULE T6Screen ------------------------------
(***************************************************************************)
(* What the frame stream of a head promises, whatever buffers, locks, works *)
(* and timers it is made of (kernel/trigger6_drv.c).                         *)
(*                                                                          *)
(* The compositor stages frames; a newer one replaces an older one that was *)
(* not taken yet.  The driver takes the staged frame and then shows it,     *)
(* puts it back, or finds it on the screen already.  Putting it back never   *)
(* replaces a newer one, so the screen never goes back in time.  The screen  *)
(* shows a whole frame, one that was taken, except while a frame travels.    *)
(* Frames are lost only over a link that is down, and a screen forgets what  *)
(* it shows only while it is dark.                                           *)
(***************************************************************************)

CONSTANTS
  Frames,    \* contents of a framebuffer
  NoFrame,   \* no frame
  Torn       \* a frame partly replaced by another

VARIABLES
  staged,    \* frame that waits for the driver, or NoFrame
  taken,     \* frame the driver is about to show, or NoFrame
  shown,     \* what the screen shows: a frame, Torn, or NoFrame
  link,      \* "up", or "down" for good
  lit        \* the monitor is on

vars == <<staged, taken, shown, link, lit>>

Init ==
  /\ staged = NoFrame /\ taken = NoFrame /\ shown = NoFrame
  /\ link = "up" /\ lit \in BOOLEAN

\* The compositor stages a frame.
Stage ==
  /\ \E f \in Frames : staged' = f
  /\ UNCHANGED <<taken, shown, link, lit>>

Take ==
  /\ staged # NoFrame /\ taken = NoFrame
  /\ taken' = staged /\ staged' = NoFrame
  /\ UNCHANGED <<shown, link, lit>>

\* A newer frame wins over the one that is put back.
PutBack ==
  /\ taken # NoFrame /\ shown # Torn
  /\ staged' = (IF staged = NoFrame THEN taken ELSE staged)
  /\ taken' = NoFrame
  /\ UNCHANGED <<shown, link, lit>>

\* The frame is on the screen already.
Skip ==
  /\ taken # NoFrame /\ taken = shown
  /\ taken' = NoFrame
  /\ UNCHANGED <<staged, shown, link, lit>>

Begin ==
  /\ link = "up" /\ taken # NoFrame
  /\ shown' = Torn
  /\ UNCHANGED <<staged, taken, link, lit>>

\* The frame on the screen is sent once more.
Refresh ==
  /\ link = "up" /\ taken = NoFrame /\ shown \in Frames
  /\ taken' = shown /\ shown' = Torn
  /\ UNCHANGED <<staged, link, lit>>

\* The last byte may already be on its way when the link goes down.
Finish ==
  /\ shown = Torn /\ taken # NoFrame
  /\ shown' = taken /\ taken' = NoFrame
  /\ UNCHANGED <<staged, link, lit>>

\* The link breaks for good; a frame under way may be lost with it, and a
\* power request under way may still be obeyed.
Break ==
  /\ link' = "down"
  /\ \/ UNCHANGED taken
     \/ taken' = NoFrame
  /\ lit' \in BOOLEAN
  /\ UNCHANGED <<staged, shown>>

\* Over a broken link whatever waits is dropped.
Drop ==
  /\ link = "down"
  /\ staged' \in {staged, NoFrame} /\ taken' \in {taken, NoFrame}
  /\ UNCHANGED <<shown, link, lit>>

Power ==
  /\ lit' = ~lit
  /\ UNCHANGED <<staged, taken, shown, link>>

\* A dark screen may forget what it showed.
Forget ==
  /\ ~lit /\ taken = NoFrame
  /\ shown' = NoFrame
  /\ UNCHANGED <<staged, taken, link, lit>>

\* What the driver and the adapter do with the frames that are staged.
Driver ==
  \/ Take \/ PutBack \/ Skip
  \/ Begin \/ Refresh \/ Finish
  \/ Break \/ Drop \/ Power \/ Forget

Next == Stage \/ Driver

Spec == Init /\ [][Next]_vars

=============================================================================
