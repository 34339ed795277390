------------------------------ MODULE T6Damage ------------------------------
(***************************************************************************)
(* How one frame of a head reaches the adapter, row by row and write by      *)
(* write: t6_compute_frame_damage, t6_send_frame_raw and                     *)
(* t6_send_prepared_nv12 of kernel/trigger6_drv.c, and the adapter memory    *)
(* they address.  T6Head takes this for one atomic transfer; here the        *)
(* worker runs alone, but a transfer fails, or a suspend stops it, between   *)
(* any two writes.                                                           *)
(*                                                                          *)
(* A RAW head owns one framebuffer, which the adapter scans out while the    *)
(* dirty rows are replaced in place.  An NV12 head sends whole frames to     *)
(* three slots in turn.  The adapter keeps its memory while the monitor is   *)
(* on and may lose it while it is off.  A chunk of a bulk write is a row.    *)
(***************************************************************************)
EXTENDS Integers, Sequences, FiniteSets

CONSTANTS
  Height,      \* rows of a frame
  Pixels,      \* contents of a row
  Unknown,     \* contents of a row that nobody knows
  MaxRanges    \* T6_MAX_DIRTY_RANGES

ASSUME HeightAssumption == Height \in Nat \ {0}
ASSUME MaxRangesAssumption == MaxRanges \in Nat \ {0}
ASSUME PixelsAssumption ==
  Pixels # {} /\ Unknown \notin Pixels \cup {"mixed"} /\ "mixed" \notin Pixels

VARIABLES
  transport,            \* "RAW" or "NV12"
  io_faulted,
  lit,                  \* the CRTC is on
  pixels,               \* the frame being sent: tx_front, or the reference
  refreshing,           \* it is the reference: dmg = NULL
  last_sent_frame, last_sent_valid,
  ranges, full_frame,   \* struct t6_frame_damage; with the open range, if
  in_dirty,             \* the comparison is inside one
  fb_slot_index,
  pc,
  range, row,           \* the range being sent, and the next row of it; or the
                        \* next row to compare
  vram,                 \* rows of the framebuffer the adapter scans out
  displayed             \* the slot that is

driver  == <<io_faulted, lit, pixels, refreshing>>
refs    == <<last_sent_frame, last_sent_valid>>
damage  == <<ranges, full_frame, in_dirty>>
cursor  == <<range, row>>
adapter == <<vram, displayed>>
vars == <<transport, driver, refs, damage, fb_slot_index, pc, cursor, adapter>>

Rows   == 0..(Height - 1)
Frames == [Rows -> Pixels]
Lost   == [r \in Rows |-> Unknown]
Mixed  == [r \in Rows |-> "mixed"]   \* stands for a frame half replaced

-----------------------------------------------------------------------------
(* t6_compute_frame_damage *)

Dirty(r) == pixels[r] # last_sent_frame[r]

Whole == [y_start |-> 0, y_count |-> Height]

RangesFull_OffByOne == Len(ranges) > MaxRanges

RangesFull == Len(ranges) >= MaxRanges

-----------------------------------------------------------------------------
(* t6_init_head_addressing, for the 58 MB the probe insists on; in MB *)

Ram == 58

SlotCount == IF transport = "RAW" THEN 1 ELSE 3

SlotBase(slot) ==
  IF transport = "RAW" THEN Ram - 18 - 12 ELSE Ram - 12 + 4 * slot

\* A flip header with 1920 x 1080 pixels, of four bytes (RAW) or one and a half
\* (NV12) each, and the padding of the latter.
FrameSize == IF transport = "RAW" THEN 8 ELSE 3

\* The slot the next frame goes to.
NextSlot == IF SlotCount > 1 THEN (fb_slot_index + 1) % SlotCount ELSE 0

\* t6_reset_head_stream_state
FirstSlotIndex == IF SlotCount > 1 THEN 1 ELSE 0

NoSlot == -1

Init ==
  /\ transport \in {"RAW", "NV12"}
  /\ io_faulted = FALSE /\ lit = FALSE
  /\ pixels \in {f \in Frames : \A r \in Rows : f[r] = f[0]}
  /\ refreshing = FALSE
  /\ last_sent_frame = pixels /\ last_sent_valid = FALSE
  /\ ranges = << >> /\ full_frame = TRUE /\ in_dirty = FALSE
  /\ fb_slot_index = FirstSlotIndex
  /\ pc = "idle" /\ range = 1 /\ row = 0
  /\ vram = Lost /\ displayed = NoSlot

-----------------------------------------------------------------------------
(* Around the worker *)

\* t6_crtc_atomic_disable, once it has stopped the worker: what was sent is no
\* reference any more.
Disable_KeepsReference ==
  /\ lit /\ pc \in {"idle", "failed"}
  /\ lit' = FALSE
  /\ UNCHANGED <<transport, io_faulted, pixels, refreshing, refs, damage,
                 fb_slot_index, pc, cursor, adapter>>

Disable ==
  /\ lit /\ pc \in {"idle", "failed"}
  /\ lit' = FALSE /\ last_sent_valid' = FALSE
  /\ UNCHANGED <<transport, io_faulted, pixels, refreshing, last_sent_frame,
                 damage, fb_slot_index, pc, cursor, adapter>>

Enable ==
  /\ ~lit /\ lit' = TRUE
  /\ UNCHANGED <<transport, io_faulted, pixels, refreshing, refs, damage,
                 fb_slot_index, pc, cursor, adapter>>

\* A dark adapter forgets.
MemoryIsLost ==
  /\ ~lit /\ pc = "idle" /\ vram' = Lost
  /\ UNCHANGED <<transport, driver, refs, damage, fb_slot_index, pc, cursor,
                 displayed>>

\* t6_usb_suspend, at any moment.
Suspend ==
  /\ ~io_faulted /\ io_faulted' = TRUE
  /\ UNCHANGED <<transport, lit, pixels, refreshing, refs, damage,
                 fb_slot_index, pc, cursor, adapter>>

\* A frame is staged on a lit head.
Stage ==
  /\ pc = "idle" /\ lit /\ ~io_faulted
  /\ pixels' \in Frames /\ refreshing' = FALSE
  /\ pc' = "staged"
  /\ UNCHANGED <<transport, io_faulted, lit, refs, damage, fb_slot_index,
                 cursor, adapter>>

-----------------------------------------------------------------------------
(* The worker *)

\* The frame is popped.  Without a reference all of it is sent.
ComputeDamage ==
  /\ pc = "staged"
  /\ IF last_sent_valid
     THEN pc' = "scan" /\ full_frame' = FALSE /\ ranges' = << >>
     ELSE pc' = "taken" /\ full_frame' = TRUE /\ ranges' = << Whole >>
  /\ in_dirty' = FALSE /\ range' = 1 /\ row' = 0
  /\ UNCHANGED <<transport, driver, refs, fb_slot_index, adapter>>

\* One row compared: it starts a range, or grows or ends the open one.
ScanRow ==
  /\ pc = "scan" /\ row < Height /\ ~(Dirty(row) /\ ~in_dirty /\ RangesFull)
  /\ in_dirty' = Dirty(row)
  /\ ranges' = IF ~Dirty(row) THEN ranges
               ELSE IF in_dirty
                    THEN [ranges EXCEPT ![Len(ranges)].y_count = @ + 1]
                    ELSE Append(ranges, [y_start |-> row, y_count |-> 1])
  /\ row' = row + 1
  /\ UNCHANGED <<transport, driver, refs, full_frame, fb_slot_index, pc, range,
                 adapter>>

\* No room for one more range: the whole frame.
ScanOverflows ==
  /\ pc = "scan" /\ row < Height /\ Dirty(row) /\ ~in_dirty /\ RangesFull
  /\ pc' = "taken" /\ full_frame' = TRUE /\ ranges' = << Whole >> /\ row' = 0
  /\ UNCHANGED <<transport, driver, refs, in_dirty, fb_slot_index, range,
                 adapter>>

\* A range still open after the last row counts.
ScanEnds_LosesLast ==
  /\ pc = "scan" /\ row = Height
  /\ pc' = "taken" /\ in_dirty' = FALSE /\ row' = 0
  /\ ranges' = IF in_dirty THEN SubSeq(ranges, 1, Len(ranges) - 1) ELSE ranges
  /\ UNCHANGED <<transport, driver, refs, full_frame, fb_slot_index, range,
                 adapter>>

ScanEnds ==
  /\ pc = "scan" /\ row = Height
  /\ pc' = "taken" /\ in_dirty' = FALSE /\ row' = 0
  /\ UNCHANGED <<transport, driver, refs, ranges, full_frame, fb_slot_index,
                 range, adapter>>

\* Nothing to send, or t6_bulk_write refuses after a fault.
Drop ==
  /\ pc = "taken" /\ pc' = "idle"
  /\ io_faulted \/ (~full_frame /\ ranges = << >>)
  /\ UNCHANGED <<transport, driver, refs, damage, fb_slot_index, cursor,
                 adapter>>

Begin ==
  /\ pc = "taken" /\ ~io_faulted /\ (full_frame \/ ranges # << >>)
  /\ pc' = IF transport = "RAW" THEN "rows" ELSE "slot"
  /\ UNCHANGED <<transport, driver, refs, damage, fb_slot_index, cursor,
                 adapter>>

\* t6_send_frame_raw of the reference, with no damage: the idle refresh.
Refresh ==
  /\ pc = "idle" /\ transport = "RAW" /\ lit /\ last_sent_valid
  /\ ~io_faulted
  /\ pixels' = last_sent_frame /\ refreshing' = TRUE
  /\ full_frame' = TRUE /\ ranges' = << Whole >>
  /\ pc' = "rows" /\ range' = 1 /\ row' = 0
  /\ UNCHANGED <<transport, io_faulted, lit, refs, in_dirty, fb_slot_index,
                 adapter>>

\* A chunk of the payload of a range; after the last range of a partial frame
\* the flip header follows, a full frame begins with it.
SendRow_SkipsLastRow ==
  LET y == ranges[range]
  IN /\ pc = "rows" /\ ~io_faulted
     /\ vram' = [vram EXCEPT ![y.y_start + row] = pixels[y.y_start + row]]
     /\ IF row + 2 < y.y_count
        THEN row' = row + 1 /\ UNCHANGED <<range, pc>>
        ELSE /\ row' = 0
             /\ IF range < Len(ranges)
                THEN range' = range + 1 /\ UNCHANGED pc
                ELSE /\ range' = 1
                     /\ pc' = IF full_frame THEN "sent" ELSE "flip"
     /\ displayed' = 0
     /\ UNCHANGED <<transport, driver, refs, damage, fb_slot_index>>

SendRow ==
  LET y == ranges[range]
  IN /\ pc = "rows" /\ ~io_faulted
     /\ vram' = [vram EXCEPT ![y.y_start + row] = pixels[y.y_start + row]]
     /\ IF row + 1 < y.y_count
        THEN row' = row + 1 /\ UNCHANGED <<range, pc>>
        ELSE /\ row' = 0
             /\ IF range < Len(ranges)
                THEN range' = range + 1 /\ UNCHANGED pc
                ELSE /\ range' = 1
                     /\ pc' = IF full_frame THEN "sent" ELSE "flip"
     /\ displayed' = 0
     /\ UNCHANGED <<transport, driver, refs, damage, fb_slot_index>>

SendFlip ==
  /\ pc = "flip" /\ ~io_faulted /\ pc' = "sent"
  /\ UNCHANGED <<transport, driver, refs, damage, fb_slot_index, cursor,
                 adapter>>

\* t6_send_prepared_nv12: one write to the next slot, which is shown when it
\* has arrived; the slot that is being scanned out stays whole.
SendSlot_KeepsIndex ==
  /\ pc = "slot" /\ ~io_faulted /\ pc' = "sent"
  /\ displayed' = NextSlot
  /\ vram' = pixels
  /\ UNCHANGED <<transport, driver, refs, damage, fb_slot_index, cursor>>

SendSlot ==
  /\ pc = "slot" /\ ~io_faulted /\ pc' = "sent"
  /\ fb_slot_index' = NextSlot /\ displayed' = NextSlot
  /\ vram' = pixels
  /\ UNCHANGED <<transport, driver, refs, damage, cursor>>

Sending == pc \in {"rows", "flip", "slot"}

\* A write fails, times out, is short, or meets the fault: it is latched, and
\* the row on its way may have arrived in part.
Fail ==
  /\ Sending /\ pc' = "failed" /\ io_faulted' = TRUE
  /\ \/ UNCHANGED vram
     \/ /\ pc = "rows" /\ ~io_faulted
        /\ vram' = [vram EXCEPT ![ranges[range].y_start + row] = Unknown]
  /\ UNCHANGED <<transport, lit, pixels, refreshing, refs, damage,
                 fb_slot_index, cursor, displayed>>

\* The reference follows what was sent: the ranges, or the whole frame.
InRanges(r) ==
  \E i \in 1..Len(ranges) :
    r \in ranges[i].y_start..(ranges[i].y_start + ranges[i].y_count - 1)

Acknowledge ==
  /\ pc = "sent" /\ pc' = "idle"
  /\ IF refreshing THEN UNCHANGED refs
     ELSE /\ last_sent_valid' = TRUE
          /\ last_sent_frame' =
               [r \in Rows |-> IF transport = "NV12" \/ InRanges(r)
                               THEN pixels[r] ELSE last_sent_frame[r]]
  /\ UNCHANGED <<transport, driver, damage, fb_slot_index, cursor, adapter>>

Next ==
  \/ Disable \/ Enable \/ MemoryIsLost \/ Suspend \/ Stage
  \/ ComputeDamage \/ ScanRow \/ ScanOverflows \/ ScanEnds \/ Drop \/ Begin \/ Refresh
  \/ SendRow \/ SendFlip \/ SendSlot \/ Fail \/ Acknowledge

Spec == Init /\ [][Next]_vars

-----------------------------------------------------------------------------
(* Properties *)

Ranges == [y_start : Rows, y_count : 1..Height]

\* Every variable stays in its range; the list of ranges never outgrows its
\* array, and no range leaves the frame.
TypeOK ==
  /\ transport \in {"RAW", "NV12"}
  /\ io_faulted \in BOOLEAN /\ lit \in BOOLEAN /\ refreshing \in BOOLEAN
  /\ pixels \in Frames
  /\ last_sent_frame \in Frames /\ last_sent_valid \in BOOLEAN
  /\ full_frame \in BOOLEAN /\ in_dirty \in BOOLEAN /\ ranges \in Seq(Ranges)
  /\ Len(ranges) <= MaxRanges
  /\ \A i \in 1..Len(ranges) :
       ranges[i].y_start + ranges[i].y_count <= Height
  /\ fb_slot_index \in 0..(SlotCount - 1)
  /\ pc \in {"idle", "staged", "scan", "taken", "rows", "flip", "slot", "sent",
             "failed"}
  /\ range \in 1..MaxRanges /\ row \in 0..Height
  /\ vram \in [Rows -> Pixels \cup {Unknown}]
  /\ displayed \in {NoSlot} \cup 0..(SlotCount - 1)

\* A maximal run of dirty rows begins here.
RunStarts(r) == Dirty(r) /\ (r = 0 \/ ~Dirty(r - 1))

\* The damage is exact: the ranges hold the rows that differ from the
\* reference and no others, apart from each other and in order, and the whole
\* frame is only sent without a reference or when the runs do not fit.
DamageIsExact ==
  pc = "taken" =>
    /\ full_frame <=> \/ ~last_sent_valid
                      \/ Cardinality({r \in Rows : RunStarts(r)}) > MaxRanges
    /\ ~full_frame =>
         /\ \A r \in Rows : Dirty(r) <=> InRanges(r)
         /\ \A i \in 1..(Len(ranges) - 1) :
              ranges[i].y_start + ranges[i].y_count < ranges[i + 1].y_start

\* The reference the next frame is compared with is what the adapter scans
\* out, unless a transfer is under way or has failed.
ReferenceIsShown ==
  last_sent_valid /\ ~Sending /\ pc \notin {"sent", "failed"}
    => vram = last_sent_frame

\* A transfer never writes into the memory that another slot scans out, nor
\* past the end of the adapter's memory; only a RAW head, which has one slot,
\* writes where it displays.
Overlap(a, b) == a < b + FrameSize /\ b < a + FrameSize

DisplayedSlotIsWhole ==
  pc = "slot" =>
    /\ displayed # NoSlot => ~Overlap(SlotBase(NextSlot), SlotBase(displayed))
    /\ SlotBase(NextSlot) + FrameSize <= Ram

\* Row by row, too, the stream keeps the promise of T6Screen.
Screen == INSTANCE T6Screen WITH
  NoFrame <- Lost,
  Torn    <- Mixed,
  staged  <- IF pc = "staged" THEN pixels ELSE Lost,
  taken   <- IF pc \in {"scan", "taken"} \/ Sending THEN pixels ELSE Lost,
  shown   <- IF Sending \/ pc = "failed" THEN Mixed
             ELSE IF vram \in Frames THEN vram ELSE Lost,
  link    <- IF io_faulted THEN "down" ELSE "up"

ImplementsScreen == Screen!Spec

=============================================================================
