--------------------------- MODULE T6DamageProofs ---------------------------
EXTENDS T6Damage, FiniteSetTheorems, TLAPS

USE DEF driver, refs, damage, cursor, adapter
USE HeightAssumption, MaxRangesAssumption

-----------------------------------------------------------------------------
(* Types *)

Flags ==
  /\ io_faulted \in BOOLEAN /\ lit \in BOOLEAN /\ refreshing \in BOOLEAN
  /\ last_sent_valid \in BOOLEAN /\ full_frame \in BOOLEAN
  /\ in_dirty \in BOOLEAN

LEMMA FlagStep == Flags /\ [Next]_vars => Flags'
<1> SUFFICES ASSUME Flags, [Next]_vars PROVE Flags'
  OBVIOUS
<1> USE DEF Flags
<1>1. CASE Disable
  BY <1>1, Zenon DEF Disable
<1>2. CASE Enable
  BY <1>2, Zenon DEF Enable
<1>3. CASE MemoryIsLost
  BY <1>3, Zenon DEF MemoryIsLost
<1>4. CASE Suspend
  BY <1>4, Zenon DEF Suspend
<1>5. CASE Stage
  BY <1>5, Zenon DEF Stage
<1>6. CASE ComputeDamage
  <2>1. CASE last_sent_valid
    BY <1>6, <2>1, Zenon DEF ComputeDamage
  <2>2. CASE ~last_sent_valid
    BY <1>6, <2>2, Zenon DEF ComputeDamage
  <2>3. QED
    BY <2>1, <2>2
<1>7. CASE ScanRow
  <2>1. in_dirty' = TRUE \/ in_dirty' = FALSE
    BY <1>7 DEF ScanRow, Dirty
  <2>2. QED
    BY <1>7, <2>1, Zenon DEF ScanRow
<1>8. CASE ScanOverflows
  BY <1>8, Zenon DEF ScanOverflows
<1>9. CASE ScanEnds
  BY <1>9, Zenon DEF ScanEnds
<1>10. CASE Drop
  BY <1>10, Zenon DEF Drop
<1>11. CASE Begin
  BY <1>11, Zenon DEF Begin
<1>12. CASE Refresh
  BY <1>12, Zenon DEF Refresh
<1>13. CASE SendRow
  BY <1>13, Zenon DEF SendRow
<1>14. CASE SendFlip
  BY <1>14, Zenon DEF SendFlip
<1>15. CASE SendSlot
  BY <1>15, Zenon DEF SendSlot
<1>16. CASE Fail
  BY <1>16, Zenon DEF Fail
<1>17. CASE Acknowledge
  <2>1. CASE refreshing
    BY <1>17, <2>1, Zenon DEF Acknowledge
  <2>2. CASE ~refreshing
    BY <1>17, <2>2, Zenon DEF Acknowledge
  <2>3. QED
    BY <2>1, <2>2
<1>18. CASE UNCHANGED vars
  BY <1>18, Zenon DEF vars
<1>19. QED
  BY <1>1, <1>2, <1>3, <1>4, <1>5, <1>6, <1>7, <1>8, <1>9, <1>10, <1>11, <1>12,
     <1>13, <1>14, <1>15, <1>16, <1>17, <1>18 DEF Next

Typed ==
  /\ transport \in {"RAW", "NV12"}
  /\ pixels \in Frames /\ last_sent_frame \in Frames
  /\ fb_slot_index \in 0..(SlotCount - 1)
  /\ pc \in {"idle", "staged", "scan", "taken", "rows", "flip", "slot", "sent",
             "failed"}
  /\ displayed \in {NoSlot} \cup 0..(SlotCount - 1)
  /\ vram \in [Rows -> Pixels \cup {Unknown}]

\* The list of ranges, and the cursor in it.
End(y) == y.y_start + y.y_count

Listed ==
  /\ ranges \in Seq(Ranges) /\ Len(ranges) <= MaxRanges
  /\ \A i \in 1..Len(ranges) : End(ranges[i]) <= Height
  /\ range \in 1..MaxRanges /\ row \in 0..Height
  /\ full_frame /\ pc \notin {"idle", "staged"} => ranges = << Whole >>
  /\ pc = "scan" => /\ range = 1 /\ ~full_frame
                    /\ \A i \in 1..Len(ranges) : End(ranges[i]) <= row
                    /\ in_dirty => ranges # << >> /\ End(ranges[Len(ranges)]) = row
  /\ pc = "taken" => range = 1 /\ row = 0
  /\ pc = "rows" => range <= Len(ranges) /\ row < ranges[range].y_count

LEMMA WholeRange ==
  /\ Whole \in Ranges /\ End(Whole) = Height
  /\ Whole.y_start = 0 /\ Whole.y_count = Height
  /\ << Whole >> \in Seq(Ranges) /\ Len(<< Whole >>) = 1
  /\ << Whole >>[1] = Whole
<1>1. /\ Whole \in Ranges /\ End(Whole) = Height
      /\ Whole.y_start = 0 /\ Whole.y_count = Height
  BY DEF Whole, Ranges, Rows, End
<1>2. QED
  BY <1>1

LEMMA RangeType ==
  ASSUME ranges \in Seq(Ranges), NEW i \in 1..Len(ranges)
  PROVE  /\ ranges[i].y_start \in Rows /\ ranges[i].y_count \in 1..Height
         /\ End(ranges[i]) \in Int
         /\ End(ranges[i]) = ranges[i].y_start + ranges[i].y_count
<1>1. ranges[i] \in Ranges
  OBVIOUS
<1>2. ranges[i].y_start \in Rows /\ ranges[i].y_count \in 1..Height
  BY <1>1 DEF Ranges
<1>3. QED
  BY <1>2 DEF End, Rows

\* The frame is listed whole.
LEMMA WholeListed ==
  ASSUME ranges' = << Whole >>, range' = 1, row' \in 0..Height,
         pc' # "scan", pc' = "taken" => row' = 0, pc' = "rows" => row' = 0
  PROVE  Listed'
<1>1. Len(ranges') = 1 /\ ranges'[1] = Whole /\ ranges' \in Seq(Ranges)
  BY WholeRange
<1>2. \A i \in 1..Len(ranges') : End(ranges'[i]) <= Height
  BY <1>1, WholeRange
<1>3. pc' = "rows" => range' <= Len(ranges') /\ row' < ranges'[range'].y_count
  BY <1>1, WholeRange
<1>4. QED
  BY <1>1, <1>2, <1>3 DEF Listed

\* The open range grows by the row compared.
LEMMA Grown ==
  ASSUME Listed, ScanRow, Dirty(row), in_dirty
  PROVE  /\ Len(ranges) >= 1 /\ End(ranges[Len(ranges)]) = row
         /\ ranges' \in Seq(Ranges) /\ Len(ranges') = Len(ranges)
         /\ ranges'[Len(ranges)].y_start = ranges[Len(ranges)].y_start
         /\ ranges'[Len(ranges)].y_count = ranges[Len(ranges)].y_count + 1
         /\ End(ranges'[Len(ranges)]) = row + 1
         /\ \A i \in 1..Len(ranges) : i # Len(ranges) => ranges'[i] = ranges[i]
<1> DEFINE last == ranges[Len(ranges)]
           grown == [last EXCEPT !.y_count = @ + 1]
<1>1. ranges' = [ranges EXCEPT ![Len(ranges)] = grown]
  BY DEF ScanRow
<1>2. /\ ranges # << >> /\ End(last) = row /\ ranges \in Seq(Ranges)
      /\ row \in 0..Height /\ row < Height
  BY DEF Listed, ScanRow
<1>3. Len(ranges) \in 1..Len(ranges)
  BY <1>2
<1>4. last \in Ranges /\ last.y_start \in Rows /\ last.y_count \in 1..Height
  <2>1. last \in Ranges
    BY <1>2, <1>3
  <2>2. QED
    BY <2>1 DEF Ranges
<1>5. last.y_start + last.y_count = row
  BY <1>2 DEF End
<1>6. grown = [y_start |-> last.y_start, y_count |-> last.y_count + 1]
  BY <1>4 DEF Ranges
<1>7. last.y_count + 1 \in 1..Height
  BY <1>2, <1>4, <1>5 DEF Rows
<1>8. /\ grown.y_start = last.y_start /\ grown.y_count = last.y_count + 1
      /\ grown \in Ranges
  BY <1>6, <1>4, <1>7 DEF Ranges
<1>9. End(grown) = row + 1
  BY <1>8, <1>4, <1>5 DEF End, Rows
<1> HIDE DEF grown, last
<1>10. /\ ranges' \in Seq(Ranges) /\ Len(ranges') = Len(ranges)
       /\ ranges'[Len(ranges)] = grown
       /\ \A i \in 1..Len(ranges) : i # Len(ranges) => ranges'[i] = ranges[i]
  BY <1>1, <1>2, <1>3, <1>8
<1>11. QED
  BY <1>2, <1>3, <1>8, <1>9, <1>10 DEF last

\* A range of one row opens.
LEMMA Opened ==
  ASSUME Listed, ScanRow, Dirty(row), ~in_dirty
  PROVE  /\ ranges' \in Seq(Ranges) /\ Len(ranges') = Len(ranges) + 1
         /\ Len(ranges) < MaxRanges
         /\ ranges'[Len(ranges) + 1] = [y_start |-> row, y_count |-> 1]
         /\ End(ranges'[Len(ranges) + 1]) = row + 1
         /\ \A i \in 1..Len(ranges) : ranges'[i] = ranges[i]
<1> DEFINE new == [y_start |-> row, y_count |-> 1]
<1>1. ranges' = Append(ranges, new)
  BY DEF ScanRow
<1>2. ranges \in Seq(Ranges) /\ row \in 0..Height /\ row < Height
  BY DEF Listed, ScanRow
<1>3. new \in Ranges /\ End(new) = row + 1
  BY <1>2 DEF Ranges, Rows, End
<1>4. Len(ranges) \in Nat /\ Len(ranges) < MaxRanges
  BY <1>2 DEF ScanRow, RangesFull
<1>5. /\ ranges' \in Seq(Ranges) /\ Len(ranges') = Len(ranges) + 1
      /\ ranges'[Len(ranges) + 1] = new
      /\ \A i \in 1..Len(ranges) : ranges'[i] = ranges[i]
  <2> HIDE DEF new
  <2> QED
    BY <1>1, <1>2, <1>3
<1>6. QED
  BY <1>3, <1>4, <1>5

LEMMA ListedStep == Flags /\ Typed /\ Listed /\ [Next]_vars => Listed'
<1> SUFFICES ASSUME Flags, Typed, Listed, [Next]_vars PROVE Listed'
  OBVIOUS
<1>0. /\ ranges \in Seq(Ranges) /\ Len(ranges) \in Nat
      /\ \A i \in 1..Len(ranges) : End(ranges[i]) \in Int
  BY RangeType DEF Listed
<1>1. CASE Disable
  BY <1>1 DEF Disable, Listed
<1>2. CASE Enable
  BY <1>2 DEF Enable, Listed
<1>3. CASE MemoryIsLost
  BY <1>3 DEF MemoryIsLost, Listed
<1>4. CASE Suspend
  BY <1>4 DEF Suspend, Listed
<1>5. CASE Stage
  BY <1>5 DEF Stage, Listed
<1>6. CASE ComputeDamage
  <2>1. CASE last_sent_valid
    BY <1>6, <2>1 DEF ComputeDamage, Listed
  <2>2. CASE ~last_sent_valid
    BY <1>6, <2>2, WholeListed DEF ComputeDamage
  <2>3. QED
    BY <2>1, <2>2
<1>7. CASE ScanRow
  <2>0. /\ row \in 0..Height /\ row < Height /\ row' = row + 1
        /\ pc = "scan" /\ pc' = "scan" /\ range' = range /\ range = 1
        /\ ~full_frame' /\ in_dirty' = Dirty(row)
        /\ \A i \in 1..Len(ranges) : End(ranges[i]) <= row
    BY <1>7 DEF ScanRow, Listed
  <2>1. CASE ~Dirty(row)
    <3>1. ranges' = ranges
      BY <1>7, <2>1 DEF ScanRow
    <3>2. \A i \in 1..Len(ranges) : End(ranges[i]) <= row + 1
      BY <1>0, <2>0
    <3>3. QED
      BY <2>0, <2>1, <3>1, <3>2 DEF Listed
  <2>2. CASE Dirty(row)
    <3>1. /\ ranges' \in Seq(Ranges) /\ Len(ranges') <= MaxRanges
          /\ ranges' # << >> /\ End(ranges'[Len(ranges')]) = row + 1
          /\ \A i \in 1..Len(ranges') :
               End(ranges'[i]) = row + 1 \/ (i \in 1..Len(ranges) /\ ranges'[i] = ranges[i])
      <4>1. CASE in_dirty
        BY <1>0, <1>7, <2>2, <4>1, Grown DEF Listed
      <4>2. CASE ~in_dirty
        BY <1>0, <1>7, <2>2, <4>2, Opened DEF Listed
      <4>3. QED
        BY <4>1, <4>2
    <3>2. \A i \in 1..Len(ranges') : End(ranges'[i]) <= row + 1
      BY <1>0, <2>0, <3>1
    <3>3. \A i \in 1..Len(ranges') : End(ranges'[i]) <= Height
      BY <1>0, <2>0, <3>1
    <3>4. QED
      BY <2>0, <3>1, <3>2, <3>3 DEF Listed
  <2>3. QED
    BY <2>1, <2>2
<1>8. CASE ScanOverflows
  BY <1>8, WholeListed DEF ScanOverflows, Listed
<1>9. CASE ScanEnds
  BY <1>9 DEF ScanEnds, Listed
<1>10. CASE Drop
  BY <1>10 DEF Drop, Listed
<1>11. CASE Begin
  <2>1. Len(ranges) >= 1
    <3>1. CASE full_frame
      <4>1. pc = "taken"
        BY <1>11 DEF Begin
      <4>2. ranges = << Whole >>
        BY <4>1, <3>1 DEF Listed
      <4>3. QED
        BY <4>2, WholeRange
    <3>2. CASE ranges # << >>
      BY <1>0, <3>2
    <3>3. QED
      BY <1>11, <3>1, <3>2 DEF Begin
  <2>2. ranges[1].y_count \in 1..Height
    BY <1>0, <2>1, RangeType
  <2>3. QED
    BY <1>11, <2>1, <2>2 DEF Begin, Listed
<1>12. CASE Refresh
  BY <1>12, WholeListed DEF Refresh
<1>13. CASE SendRow
  <2>1. /\ pc = "rows" /\ range <= Len(ranges) /\ row < ranges[range].y_count
        /\ ranges' = ranges /\ full_frame' = full_frame
        /\ range \in 1..Len(ranges) /\ row \in 0..Height
    BY <1>0, <1>13 DEF SendRow, Listed
  <2>2. ranges[range].y_count \in 1..Height
    BY <1>0, <2>1, RangeType
  <2>3. CASE row + 1 < ranges[range].y_count
    <3>1. row' = row + 1 /\ range' = range /\ pc' = pc
      BY <1>13, <2>3 DEF SendRow
    <3>2. QED
      BY <2>1, <2>2, <2>3, <3>1 DEF Listed
  <2>4. CASE ~(row + 1 < ranges[range].y_count) /\ range < Len(ranges)
    <3>1. row' = 0 /\ range' = range + 1 /\ pc' = pc
      BY <1>13, <2>4 DEF SendRow
    <3>2. ranges[range + 1].y_count \in 1..Height
      BY <1>0, <2>1, <2>4, RangeType
    <3>3. QED
      BY <1>0, <2>1, <2>4, <3>1, <3>2 DEF Listed
  <2>5. CASE ~(row + 1 < ranges[range].y_count) /\ ~(range < Len(ranges))
    <3>1. row' = 0 /\ range' = 1 /\ pc' \in {"sent", "flip"}
      BY <1>13, <2>5 DEF SendRow
    <3>2. QED
      BY <2>1, <3>1 DEF Listed
  <2>6. QED
    BY <2>3, <2>4, <2>5
<1>14. CASE SendFlip
  BY <1>14 DEF SendFlip, Listed
<1>15. CASE SendSlot
  BY <1>15 DEF SendSlot, Listed
<1>16. CASE Fail
  BY <1>16 DEF Fail, Listed, Sending
<1>17. CASE Acknowledge
  BY <1>17 DEF Acknowledge, Listed
<1>18. CASE UNCHANGED vars
  BY <1>18 DEF vars, Listed
<1>19. QED
  BY <1>1, <1>2, <1>3, <1>4, <1>5, <1>6, <1>7, <1>8, <1>9, <1>10, <1>11, <1>12,
     <1>13, <1>14, <1>15, <1>16, <1>17, <1>18 DEF Next

LEMMA TypedStep == Flags /\ Typed /\ Listed /\ [Next]_vars => Typed'
<1> SUFFICES ASSUME Flags, Typed, Listed, [Next]_vars PROVE Typed'
  OBVIOUS
<1> USE DEF Typed, SlotCount, Frames
<1>1. CASE Disable
  BY <1>1 DEF Disable
<1>2. CASE Enable
  BY <1>2 DEF Enable
<1>3. CASE MemoryIsLost
  BY <1>3 DEF MemoryIsLost, Lost
<1>4. CASE Suspend
  BY <1>4 DEF Suspend
<1>5. CASE Stage
  BY <1>5 DEF Stage
<1>6. CASE ComputeDamage
  BY <1>6 DEF ComputeDamage
<1>7. CASE ScanRow
  BY <1>7 DEF ScanRow
<1>8. CASE ScanOverflows
  BY <1>8 DEF ScanOverflows
<1>9. CASE ScanEnds
  BY <1>9 DEF ScanEnds
<1>10. CASE Drop
  BY <1>10 DEF Drop
<1>11. CASE Begin
  BY <1>11 DEF Begin
<1>12. CASE Refresh
  BY <1>12 DEF Refresh
<1>13. CASE SendRow
  <2>1. range \in 1..Len(ranges)
    BY <1>13 DEF SendRow, Listed
  <2>2. pixels[ranges[range].y_start + row] \in Pixels
    <3>1. ranges[range].y_start + row \in Rows
      BY <1>13, <2>1, RangeType DEF SendRow, Listed, Rows
    <3>2. QED
      BY <3>1
  <2>3. vram' \in [Rows -> Pixels \cup {Unknown}]
    BY <1>13, <2>2 DEF SendRow
  <2>4. pc' \in {"rows", "sent", "flip"}
    BY <1>13 DEF SendRow
  <2>5. displayed' \in 0..(SlotCount - 1)
    BY <1>13 DEF SendRow
  <2>6. QED
    BY <1>13, <2>3, <2>4, <2>5 DEF SendRow
<1>14. CASE SendFlip
  BY <1>14 DEF SendFlip
<1>15. CASE SendSlot
  BY <1>15 DEF SendSlot, NextSlot
<1>16. CASE Fail
  BY <1>16 DEF Fail
<1>17. CASE Acknowledge
  BY <1>17 DEF Acknowledge
<1>18. CASE UNCHANGED vars
  BY <1>18 DEF vars
<1>19. QED
  BY <1>1, <1>2, <1>3, <1>4, <1>5, <1>6, <1>7, <1>8, <1>9, <1>10, <1>11, <1>12,
     <1>13, <1>14, <1>15, <1>16, <1>17, <1>18 DEF Next

Types == Flags /\ Typed /\ Listed

LEMMA TypesInit == Init => Types
<1> SUFFICES ASSUME Init PROVE Types
  OBVIOUS
<1>1. Flags
  BY DEF Init, Flags
<1>2. Typed
  BY DEF Init, Typed, Frames, Lost, NoSlot, FirstSlotIndex, SlotCount
<1>3. Listed
  BY DEF Init, Listed
<1>4. QED
  BY <1>1, <1>2, <1>3 DEF Types

LEMMA TypesStep == Types /\ [Next]_vars => Types'
  BY FlagStep, ListedStep, TypedStep DEF Types

\* Every variable stays in its range, and the list of dirty ranges in its array.
THEOREM Typing == Spec => []TypeOK
<1>1. Types => TypeOK
  <2> SUFFICES ASSUME Types PROVE TypeOK
    OBVIOUS
  <2>1. \A i \in 1..Len(ranges) : ranges[i].y_start + ranges[i].y_count <= Height
    BY DEF Types, Listed, End
  <2>2. QED
    BY <2>1 DEF Types, Flags, Typed, Listed, TypeOK
<1>2. QED
  BY <1>1, TypesInit, TypesStep, PTL DEF Spec

-----------------------------------------------------------------------------
(* Slots: an NV12 head shows the slot its index names, and writes another. *)

SlotInv ==
  /\ transport = "NV12" => displayed \in {NoSlot, fb_slot_index}
  /\ pc = "slot" => transport = "NV12"
  /\ pc = "rows" => transport = "RAW"

LEMMA SlotStep == Types /\ SlotInv /\ [Next]_vars => SlotInv'
<1> SUFFICES ASSUME Types, SlotInv, [Next]_vars PROVE SlotInv'
  OBVIOUS
<1> USE DEF SlotInv
<1>0. transport \in {"RAW", "NV12"}
  BY DEF Types, Typed
<1>1. CASE SendRow
  BY <1>0, <1>1 DEF SendRow
<1>2. CASE SendSlot
  BY <1>0, <1>2 DEF SendSlot
<1>3. CASE Disable \/ Enable \/ MemoryIsLost \/ Suspend \/ Stage
  BY <1>3 DEF Disable, Enable, MemoryIsLost, Suspend, Stage
<1>4. CASE ComputeDamage \/ ScanRow \/ ScanOverflows \/ ScanEnds \/ Drop
  BY <1>4 DEF ComputeDamage, ScanRow, ScanOverflows, ScanEnds, Drop
<1>5. CASE Begin \/ Refresh \/ SendFlip \/ Fail \/ Acknowledge
  BY <1>0, <1>5 DEF Begin, Refresh, SendFlip, Fail, Acknowledge
<1>6. CASE UNCHANGED vars
  BY <1>6 DEF vars
<1>7. QED
  BY <1>1, <1>2, <1>3, <1>4, <1>5, <1>6 DEF Next

\* A transfer never overlaps the slot that is scanned out, nor leaves the
\* adapter's memory.
THEOREM WholeSlot == Spec => []DisplayedSlotIsWhole
<1>1. Init => SlotInv
  BY DEF Init, SlotInv
<1>2. Types /\ SlotInv => DisplayedSlotIsWhole
  <2> SUFFICES ASSUME Types, SlotInv, pc = "slot"
               PROVE  /\ displayed # NoSlot =>
                           ~Overlap(SlotBase(NextSlot), SlotBase(displayed))
                      /\ SlotBase(NextSlot) + FrameSize <= Ram
    BY DEF DisplayedSlotIsWhole
  <2>1. transport = "NV12" /\ SlotCount = 3 /\ FrameSize = 3
    BY DEF SlotInv, SlotCount, FrameSize
  <2>2. fb_slot_index \in {0, 1, 2}
    BY <2>1 DEF Types, Typed
  <2>3. /\ fb_slot_index = 0 => NextSlot = 1
        /\ fb_slot_index = 1 => NextSlot = 2
        /\ fb_slot_index = 2 => NextSlot = 0
    BY <2>1 DEF NextSlot
  <2>4. \A s : SlotBase(s) = 46 + 4 * s
    BY <2>1 DEF SlotBase, Ram
  <2>5. displayed # NoSlot => displayed = fb_slot_index
    BY <2>1 DEF SlotInv
  <2>6. QED
    BY <2>1, <2>2, <2>3, <2>4, <2>5 DEF Overlap, Ram
<1>3. QED
  BY <1>1, <1>2, SlotStep, TypesInit, TypesStep, PTL DEF Spec

-----------------------------------------------------------------------------
(* Damage: after each row compared, the ranges are exact for the rows so far. *)

\* The runs that begin above a row.
Starts(n) == {r \in Rows : r < n /\ RunStarts(r)}

Apart ==
  \A i \in 1..(Len(ranges) - 1) : End(ranges[i]) < ranges[i + 1].y_start

ScanInv ==
  pc = "scan" =>
    /\ last_sent_valid
    /\ \A r \in Rows : r < row => (Dirty(r) <=> InRanges(r))
    /\ Apart
    /\ in_dirty <=> row > 0 /\ Dirty(row - 1)
    /\ ~in_dirty => \A i \in 1..Len(ranges) : End(ranges[i]) < row
    /\ Cardinality(Starts(row)) = Len(ranges)

LEMMA StartsFinite ==
  \A n : IsFiniteSet(Starts(n)) /\ Cardinality(Starts(n)) \in Nat
<1>1. IsFiniteSet(Rows)
  BY FS_Interval DEF Rows
<1>2. \A n : Starts(n) \subseteq Rows
  BY DEF Starts
<1>3. QED
  BY <1>1, <1>2, FS_Subset, FS_CardinalityType

\* A row below the frame compared so far adds its run, if one begins there.
LEMMA StartsGrow ==
  ASSUME NEW n \in Rows
  PROVE  /\ RunStarts(n) => Cardinality(Starts(n + 1)) = Cardinality(Starts(n)) + 1
         /\ ~RunStarts(n) => Starts(n + 1) = Starts(n)
<1>1. n \in Int /\ \A r \in Rows : r < n + 1 <=> r < n \/ r = n
  BY DEF Rows
<1>2. CASE RunStarts(n)
  <2>1. Starts(n + 1) = Starts(n) \cup {n}
    BY <1>1, <1>2 DEF Starts
  <2>2. n \notin Starts(n)
    BY <1>1 DEF Starts
  <2>3. QED
    BY <1>2, <2>1, <2>2, StartsFinite, FS_AddElement
<1>3. CASE ~RunStarts(n)
  BY <1>1, <1>3 DEF Starts
<1>4. QED
  BY <1>2, <1>3

\* The ranges lie above row n; so do the rows in them.
LEMMA InRangesBelow ==
  ASSUME ranges \in Seq(Ranges), NEW n \in Int,
         \A i \in 1..Len(ranges) : End(ranges[i]) <= n,
         NEW r \in Int, InRanges(r)
  PROVE  r < n
<1>1. PICK i \in 1..Len(ranges) :
             r \in ranges[i].y_start..(ranges[i].y_start + ranges[i].y_count - 1)
  BY DEF InRanges
<1>2. QED
  BY <1>1, RangeType DEF Rows

\* What a dirty row adds to the ranges is that row.
LEMMA ScanAdds ==
  ASSUME Types, ScanRow, Dirty(row), NEW r \in Int
  PROVE  InRanges(r)' <=> InRanges(r) \/ r = row
<1>0. /\ row \in Nat /\ ranges \in Seq(Ranges) /\ Len(ranges) \in Nat
      /\ Listed
  BY DEF Types, Listed
<1> DEFINE In(y) == r \in y.y_start..(y.y_start + y.y_count - 1)
<1>1. /\ InRanges(r) <=> \E i \in 1..Len(ranges) : In(ranges[i])
      /\ InRanges(r)' <=> \E i \in 1..Len(ranges') : In(ranges'[i])
  BY DEF InRanges
<1>2. CASE in_dirty
  <2> DEFINE n == Len(ranges)
  <2>1. /\ n \in 1..n /\ Len(ranges') = n
        /\ ranges'[n].y_start = ranges[n].y_start
        /\ ranges'[n].y_count = ranges[n].y_count + 1
        /\ ranges[n].y_start + ranges[n].y_count = row
        /\ \A i \in 1..n : i # n => ranges'[i] = ranges[i]
    BY <1>0, <1>2, Grown DEF End
  <2>2. ranges[n].y_start \in Int /\ ranges[n].y_count \in 1..Height
    BY <1>0, <2>1, RangeType DEF Rows
  <2>3. In(ranges'[n]) <=> In(ranges[n]) \/ r = row
    BY <1>0, <2>1, <2>2
  <2> HIDE DEF In, n
  <2>4. QED
    BY <1>1, <2>1, <2>3 DEF n
<1>3. CASE ~in_dirty
  <2>1. /\ Len(ranges') = Len(ranges) + 1
        /\ ranges'[Len(ranges) + 1] = [y_start |-> row, y_count |-> 1]
        /\ \A i \in 1..Len(ranges) : ranges'[i] = ranges[i]
    BY <1>0, <1>3, Opened
  <2>2. In(ranges'[Len(ranges) + 1]) <=> r = row
    BY <1>0, <2>1
  <2> HIDE DEF In
  <2>3. QED
    BY <1>0, <1>1, <2>1, <2>2
<1>4. QED
  BY <1>2, <1>3

LEMMA ScanStep ==
  ASSUME Types, ScanInv, ScanRow
  PROVE  ScanInv'
<1>0. /\ row \in Rows /\ row \in Nat /\ row' = row + 1 /\ pc = "scan"
      /\ ranges \in Seq(Ranges) /\ Len(ranges) \in Nat
      /\ in_dirty' = Dirty(row) /\ Listed
      /\ last_sent_valid' /\ \A r : Dirty(r)' <=> Dirty(r)
      /\ \A i \in 1..Len(ranges) : End(ranges[i]) <= row
  BY DEF Types, Listed, ScanRow, ScanInv, Rows, Dirty
<1>1. ~InRanges(row)
  BY <1>0, InRangesBelow
<1>2. \A r \in Rows : r < row + 1 => (Dirty(r)' <=> InRanges(r)')
  <2> SUFFICES ASSUME NEW r \in Rows, r < row + 1
               PROVE  Dirty(r) <=> InRanges(r)'
    BY <1>0
  <2>0. r \in Int /\ (r < row \/ r = row)
    BY <1>0 DEF Rows
  <2>1. CASE Dirty(row)
    BY <1>0, <2>0, <2>1, ScanAdds DEF ScanInv
  <2>2. CASE ~Dirty(row)
    <3>1. InRanges(r)' <=> InRanges(r)
      BY <2>2 DEF ScanRow, InRanges
    <3>2. QED
      BY <1>0, <1>1, <2>0, <2>2, <3>1 DEF ScanInv
  <2>3. QED
    BY <2>1, <2>2
<1>3. RunStarts(row) <=> Dirty(row) /\ ~in_dirty
  BY <1>0 DEF ScanInv, RunStarts
<1>4. \A n : Starts(n)' = Starts(n)
  BY <1>0 DEF Starts, RunStarts
<1>5. Apart' /\ Cardinality(Starts(row + 1)) = Len(ranges')
  <2>1. CASE ~Dirty(row)
    BY <1>0, <1>3, <2>1, StartsGrow DEF ScanRow, ScanInv, Apart
  <2>2. CASE Dirty(row) /\ in_dirty
    <3>1. /\ Len(ranges) >= 1 /\ Len(ranges') = Len(ranges)
          /\ ranges'[Len(ranges)].y_start = ranges[Len(ranges)].y_start
          /\ \A i \in 1..Len(ranges) : i # Len(ranges) => ranges'[i] = ranges[i]
      BY <1>0, <2>2, Grown
    <3>2. \A i \in 1..Len(ranges) : ranges'[i].y_start = ranges[i].y_start
      BY <3>1
    <3>3. Apart'
      <4> SUFFICES ASSUME NEW i \in 1..(Len(ranges') - 1)
                   PROVE  End(ranges'[i]) < ranges'[i + 1].y_start
        BY DEF Apart, End
      <4>1. ranges'[i] = ranges[i] /\ ranges'[i + 1].y_start = ranges[i + 1].y_start
        BY <1>0, <3>1, <3>2
      <4>2. QED
        BY <1>0, <3>1, <4>1 DEF ScanInv, Apart
    <3>4. QED
      BY <1>0, <1>3, <2>2, <3>1, <3>3, StartsGrow DEF ScanInv
  <2>3. CASE Dirty(row) /\ ~in_dirty
    <3>1. /\ Len(ranges') = Len(ranges) + 1
          /\ ranges'[Len(ranges) + 1] = [y_start |-> row, y_count |-> 1]
          /\ \A i \in 1..Len(ranges) : ranges'[i] = ranges[i]
      BY <1>0, <2>3, Opened
    <3>2. Apart'
      <4> SUFFICES ASSUME NEW i \in 1..(Len(ranges') - 1)
                   PROVE  End(ranges'[i]) < ranges'[i + 1].y_start
        BY DEF Apart, End
      <4>1. i \in 1..Len(ranges) /\ ranges'[i] = ranges[i]
        BY <1>0, <3>1
      <4>2. CASE i = Len(ranges)
        <5>1. End(ranges[i]) < row
          BY <1>0, <2>3, <4>1 DEF ScanInv
        <5>2. QED
          BY <3>1, <4>1, <4>2, <5>1
      <4>3. CASE i # Len(ranges)
        <5>1. i \in 1..(Len(ranges) - 1) /\ ranges'[i + 1] = ranges[i + 1]
          BY <1>0, <3>1, <4>1, <4>3
        <5>2. QED
          BY <1>0, <4>1, <5>1 DEF ScanInv, Apart
      <4>4. QED
        BY <4>2, <4>3
    <3>3. QED
      BY <1>0, <1>3, <2>3, <3>1, <3>2, StartsGrow DEF ScanInv
  <2>4. QED
    BY <2>1, <2>2, <2>3
<1>6. ~in_dirty' => \A i \in 1..Len(ranges') : End(ranges[i])' < row + 1
  <2> SUFFICES ASSUME ~Dirty(row), NEW i \in 1..Len(ranges')
               PROVE  End(ranges[i])' < row + 1
    BY <1>0
  <2>1. ranges' = ranges
    BY DEF ScanRow
  <2>2. End(ranges[i]) \in Int /\ End(ranges[i]) <= row
    BY <1>0, <2>1, RangeType
  <2>3. QED
    BY <1>0, <2>1, <2>2 DEF End
<1>7. in_dirty' <=> (row > 0 /\ Dirty(row - 1))'
  <2>1. row' > 0 /\ row' - 1 = row
    BY <1>0
  <2>2. Dirty(row - 1)' <=> Dirty(row)
    BY <1>0, <2>1 DEF Dirty, ScanRow
  <2>3. QED
    BY <1>0, <2>1, <2>2, Zenon
<1>8. QED
  BY <1>0, <1>2, <1>4, <1>5, <1>6, <1>7 DEF ScanInv

DamageInv == ScanInv /\ DamageIsExact

\* The starts of all runs of dirty rows.
LEMMA AllStarts == Starts(Height) = {r \in Rows : RunStarts(r)}
  BY DEF Starts, Rows

LEMMA OverflowIsExact ==
  ASSUME Types, ScanInv, ScanOverflows
  PROVE  DamageIsExact'
<1>0. /\ row \in Rows /\ row \in Nat /\ Dirty(row) /\ ~in_dirty
      /\ full_frame' /\ Len(ranges) >= MaxRanges /\ Len(ranges) \in Nat
      /\ \A r : RunStarts(r)' <=> RunStarts(r)
  BY DEF Types, Listed, ScanOverflows, Rows, RangesFull, RunStarts, Dirty
<1>1. RunStarts(row) /\ Cardinality(Starts(row)) >= MaxRanges /\ pc = "scan"
  BY <1>0 DEF ScanOverflows, ScanInv, RunStarts
<1>2. Cardinality(Starts(row + 1)) > MaxRanges
  BY <1>0, <1>1, StartsGrow, StartsFinite
<1>3. Starts(row + 1) \subseteq Starts(Height)
  BY <1>0 DEF Starts, Rows
<1>4. Cardinality(Starts(row + 1)) <= Cardinality(Starts(Height))
  BY <1>3, StartsFinite, FS_Subset
<1>5. Cardinality(Starts(Height)) > MaxRanges
  BY <1>2, <1>4, StartsFinite
<1>6. Cardinality({r \in Rows : RunStarts(r)'}) > MaxRanges
  BY <1>0, <1>5, AllStarts
<1>7. QED
  BY <1>0, <1>6 DEF DamageIsExact

LEMMA EndIsExact ==
  ASSUME Types, ScanInv, ScanEnds
  PROVE  DamageIsExact'
<1>0. /\ pc = "scan" /\ row = Height /\ ~full_frame' /\ last_sent_valid'
      /\ ranges' = ranges /\ Len(ranges) <= MaxRanges /\ Len(ranges) \in Nat
      /\ \A r : Dirty(r)' <=> Dirty(r)
      /\ \A r : InRanges(r)' <=> InRanges(r)
  BY DEF Types, Listed, ScanEnds, ScanInv, Dirty, InRanges
<1>1. Cardinality({r \in Rows : RunStarts(r)'}) = Len(ranges)
  <2>1. Cardinality(Starts(Height)) = Len(ranges)
    BY <1>0 DEF ScanInv
  <2>2. {r \in Rows : RunStarts(r)'} = {r \in Rows : RunStarts(r)}
    BY <1>0 DEF RunStarts
  <2>3. QED
    BY <2>1, <2>2, AllStarts
<1>2. \A r \in Rows : Dirty(r)' <=> InRanges(r)'
  BY <1>0 DEF ScanInv, Rows
<1>3. \A i \in 1..(Len(ranges') - 1) :
        ranges'[i].y_start + ranges'[i].y_count < ranges'[i + 1].y_start
  BY <1>0 DEF ScanInv, Apart, End
<1>4. QED
  BY <1>0, <1>1, <1>2, <1>3 DEF DamageIsExact

LEMMA DamageStep == Types /\ DamageInv /\ [Next]_vars => DamageInv'
<1> SUFFICES ASSUME Types, ScanInv, DamageIsExact, [Next]_vars PROVE DamageInv'
  BY DEF DamageInv
<1>1. ASSUME UNCHANGED <<damage, refs, cursor, pixels, pc>> PROVE DamageInv'
  BY <1>1 DEF DamageInv, ScanInv, DamageIsExact, Starts, RunStarts, Dirty, Apart,
     InRanges, End
<1>2. ASSUME pc' \notin {"scan", "taken"} PROVE DamageInv'
  BY <1>2 DEF DamageInv, ScanInv, DamageIsExact
<1>3. CASE Disable
  BY <1>2, <1>3 DEF Disable
<1>4. CASE Enable \/ MemoryIsLost \/ Suspend
  BY <1>1, <1>4 DEF Enable, MemoryIsLost, Suspend
<1>5. CASE Stage \/ Drop \/ Begin \/ Refresh \/ SendRow \/ SendFlip \/ SendSlot \/ Fail
  BY <1>2, <1>5 DEF Stage, Drop, Begin, Refresh, SendRow, SendFlip, SendSlot, Fail
<1>6. CASE Acknowledge
  BY <1>2, <1>6 DEF Acknowledge
<1>7. CASE ComputeDamage
  <2>1. CASE last_sent_valid
    <3>1. Starts(0) = {}
      BY DEF Starts, Rows
    <3>2. Starts(0)' = {}
      BY DEF Starts, Rows
    <3>3. /\ pc' = "scan" /\ row' = 0 /\ ranges' = << >> /\ in_dirty' = FALSE
          /\ last_sent_valid'
      BY <1>7, <2>1 DEF ComputeDamage
    <3>4. Cardinality(Starts(row))' = Len(ranges')
      BY <3>2, <3>3, FS_EmptySet
    <3>5. \A r \in Rows : ~(r < 0)
      BY DEF Rows
    <3>6. QED
      BY <3>3, <3>4, <3>5 DEF DamageInv, ScanInv, DamageIsExact, Apart
  <2>2. CASE ~last_sent_valid
    BY <1>7, <2>2 DEF ComputeDamage, DamageInv, ScanInv, DamageIsExact
  <2>3. QED
    BY <2>1, <2>2
<1>8. CASE ScanRow
  BY <1>8, ScanStep DEF DamageInv, DamageIsExact, ScanRow
<1>9. CASE ScanOverflows
  BY <1>9, OverflowIsExact DEF DamageInv, ScanInv, ScanOverflows
<1>10. CASE ScanEnds
  BY <1>10, EndIsExact DEF DamageInv, ScanInv, ScanEnds
<1>11. CASE UNCHANGED vars
  BY <1>1, <1>11 DEF vars
<1>12. QED
  BY <1>3, <1>4, <1>5, <1>6, <1>7, <1>8, <1>9, <1>10, <1>11 DEF Next

\* For every height and every limit of the list, the ranges are the rows that
\* differ, and the whole frame is sent only when their runs do not fit.
THEOREM ExactDamage == Spec => []DamageIsExact
<1>1. Init => DamageInv
  BY DEF Init, DamageInv, ScanInv, DamageIsExact
<1>2. DamageInv => DamageIsExact
  BY DEF DamageInv
<1>3. QED
  BY <1>1, <1>2, DamageStep, TypesInit, TypesStep, PTL DEF Spec

-----------------------------------------------------------------------------
(* Memory: between transfers the reference is what the adapter holds; within  *)
(* one, the rows sent so far, and those that needed no sending, are new.      *)

SentSoFar(r) ==
  \/ \E i \in 1..(range - 1) : r \in ranges[i].y_start..(End(ranges[i]) - 1)
  \/ r \in ranges[range].y_start..(ranges[range].y_start + row - 1)

Covers == \A r \in Rows : Dirty(r) => InRanges(r)

MemoryInv ==
  /\ last_sent_valid => lit
  /\ pc \notin {"idle", "failed"} => lit
  /\ last_sent_valid /\ pc \in {"idle", "staged", "scan", "taken"}
       => vram = last_sent_frame
  /\ pc \in {"staged", "scan", "taken", "slot"} => ~refreshing
  /\ refreshing /\ pc \in {"rows", "flip", "sent"}
       => last_sent_valid /\ pixels = last_sent_frame
  /\ pc = "taken" /\ ~full_frame => last_sent_valid
  /\ pc \in {"taken", "rows", "flip", "slot", "sent"} /\ ~full_frame => Covers
  /\ pc = "rows" =>
       \A r \in Rows : SentSoFar(r) \/ ~InRanges(r) => vram[r] = pixels[r]
  /\ pc \in {"flip", "sent"} => vram = pixels
  /\ pc = "flip" => ~full_frame

\* A full frame is in its range.
LEMMA WholeCovers ==
  ASSUME ranges = << Whole >>, NEW r \in Rows PROVE InRanges(r)
<1>1. Len(ranges) = 1 /\ ranges[1].y_start = 0 /\ ranges[1].y_count = Height
  BY WholeRange
<1>2. r \in 0..(0 + Height - 1)
  BY DEF Rows
<1>3. QED
  BY <1>1, <1>2 DEF InRanges

\* At the start of a transfer nothing has been sent.
LEMMA NothingSent ==
  ASSUME range = 1, row = 0, ranges \in Seq(Ranges), Len(ranges) >= 1, NEW r \in Rows
  PROVE  ~SentSoFar(r)
<1>1. ranges[1].y_start \in Int
  BY RangeType DEF Rows
<1>2. QED
  BY <1>1 DEF SentSoFar, Rows

\* A row sent is one more.
LEMMA SendRowMemory ==
  ASSUME Types, MemoryInv, SendRow
  PROVE  MemoryInv'
<1> DEFINE y == ranges[range]
           at == y.y_start + row
<1>0. /\ pc = "rows" /\ range \in 1..Len(ranges) /\ row \in Nat
      /\ ranges \in Seq(Ranges) /\ Len(ranges) \in Nat
      /\ row < y.y_count /\ range \in Nat
      /\ ranges' = ranges /\ pixels' = pixels
      /\ vram' = [vram EXCEPT ![at] = pixels[at]]
      /\ vram \in [Rows -> Pixels \cup {Unknown}] /\ pixels \in [Rows -> Pixels]
      /\ pc' \in {"rows", "flip", "sent"}
      /\ pc' = "flip" => ~full_frame
  BY DEF Types, Typed, Listed, SendRow, Frames
<1>1. /\ y.y_start \in Rows /\ y.y_count \in 1..Height
      /\ End(y) \in Int /\ End(y) = y.y_start + y.y_count
      /\ y.y_start \in Nat /\ y.y_count \in Nat /\ End(y) <= Height
  BY <1>0, RangeType DEF Types, Listed, Rows
<1>2. at \in Rows
  BY <1>0, <1>1 DEF Rows
<1>3. \A r \in Rows :
        vram'[r] = IF r = at THEN pixels[r] ELSE vram[r]
  BY <1>0, <1>2
<1>4. \A r : InRanges(r)' <=> InRanges(r)
  BY <1>0 DEF InRanges
<1>5. \A r \in Rows : SentSoFar(r) \/ r = at \/ ~InRanges(r) => vram'[r] = pixels[r]
  BY <1>0, <1>3 DEF MemoryInv
<1>9. \A r \in Rows : r \in Int
  BY DEF Rows
<1>6. CASE pc' = "rows"
  <2>1. \A r \in Rows : SentSoFar(r)' => SentSoFar(r) \/ r = at
    <3>1. CASE row' = row + 1 /\ range' = range
      <4>1. \A r \in Rows : r \in y.y_start..(y.y_start + row' - 1)
                           => r \in y.y_start..(y.y_start + row - 1) \/ r = at
        BY <1>0, <1>1, <1>9, <3>1
      <4>2. QED
        BY <1>0, <3>1, <4>1 DEF SentSoFar, End
    <3>2. CASE row' = 0 /\ range' = range + 1 /\ ~(row + 1 < y.y_count) /\ range < Len(ranges)
      <4>1. row + 1 = y.y_count
        BY <1>0, <1>1, <3>2
      <4>2. SUFFICES ASSUME NEW r \in Rows, SentSoFar(r)'
                     PROVE  SentSoFar(r) \/ r = at
        OBVIOUS
      <4>3. ranges[range + 1].y_start \in Int
        BY <1>0, <3>2, RangeType DEF Rows
      <4>4. r \notin ranges'[range'].y_start..(ranges'[range'].y_start + row' - 1)
        BY <1>0, <3>2, <4>3
      <4>5. PICK i \in 1..range : r \in ranges[i].y_start..(End(ranges[i]) - 1)
        BY <1>0, <3>2, <4>2, <4>4 DEF SentSoFar, End
      <4>6. CASE i = range
        <5>1. r \in y.y_start..(y.y_start + row - 1) \/ r = at
          BY <1>0, <1>1, <1>9, <4>1, <4>5, <4>6
        <5>2. QED
          BY <5>1 DEF SentSoFar
      <4>7. CASE i # range
        BY <1>0, <4>5, <4>7 DEF SentSoFar
      <4>8. QED
        BY <4>6, <4>7
    <3>3. QED
      BY <1>0, <1>6, <3>1, <3>2 DEF SendRow
  <2>2. \A r \in Rows : (SentSoFar(r) \/ ~InRanges(r) => vram[r] = pixels[r])'
    BY <1>0, <1>4, <1>5, <2>1
  <2>3. QED
    BY <1>0, <1>6, <2>2, <1>4 DEF SendRow, MemoryInv, Covers, Dirty
<1>7. CASE pc' # "rows"
  <2>1. range = Len(ranges) /\ row + 1 = y.y_count
    BY <1>0, <1>1, <1>7 DEF SendRow
  <2>2. \A r \in Rows : InRanges(r) => SentSoFar(r) \/ r = at
    <3> SUFFICES ASSUME NEW r \in Rows, InRanges(r) PROVE SentSoFar(r) \/ r = at
      OBVIOUS
    <3>1. PICK i \in 1..Len(ranges) : r \in ranges[i].y_start..(End(ranges[i]) - 1)
      <4>1. PICK j \in 1..Len(ranges) :
              r \in ranges[j].y_start..(ranges[j].y_start + ranges[j].y_count - 1)
        BY DEF InRanges
      <4>2. /\ End(ranges[j]) = ranges[j].y_start + ranges[j].y_count
            /\ ranges[j].y_start \in Int /\ ranges[j].y_count \in Int
        BY <1>0, RangeType DEF Rows
      <4>3. r \in ranges[j].y_start..(End(ranges[j]) - 1)
        BY <4>1, <4>2
      <4>4. QED
        BY <4>3, Zenon
    <3>2. CASE i = range
      <4>1. r \in y.y_start..(y.y_start + row - 1) \/ r = at
        BY <1>0, <1>1, <1>9, <2>1, <3>1, <3>2
      <4>2. QED
        BY <4>1 DEF SentSoFar
    <3>3. CASE i # range
      BY <1>0, <2>1, <3>1, <3>3 DEF SentSoFar
    <3>4. QED
      BY <3>2, <3>3
  <2>3. \A r \in Rows : vram'[r] = pixels[r]
    BY <1>5, <2>2
  <2>4. vram' = pixels
    BY <1>0, <2>3
  <2>5. QED
    BY <1>0, <1>7, <2>4, <1>4 DEF SendRow, MemoryInv, Covers, Dirty
<1>8. QED
  BY <1>6, <1>7

LEMMA MemoryStep ==
  Types /\ SlotInv /\ DamageInv /\ MemoryInv /\ [Next]_vars => MemoryInv'
<1> SUFFICES ASSUME Types, SlotInv, DamageInv, MemoryInv, [Next]_vars
             PROVE  MemoryInv'
  OBVIOUS
<1>u. ASSUME UNCHANGED <<damage, refs, cursor, pixels, vram>>
      PROVE  /\ Covers' <=> Covers
             /\ \A r : SentSoFar(r)' <=> SentSoFar(r)
             /\ \A r : InRanges(r)' <=> InRanges(r)
  BY <1>u DEF Covers, SentSoFar, InRanges, Dirty, End
<1>1. CASE Disable
  BY <1>1 DEF Disable, MemoryInv
<1>2. CASE Enable
  BY <1>2, <1>u DEF Enable, MemoryInv
<1>3. CASE MemoryIsLost
  BY <1>3 DEF MemoryIsLost, MemoryInv
<1>4. CASE Suspend
  BY <1>4, <1>u DEF Suspend, MemoryInv
<1>5. CASE Stage
  BY <1>5 DEF Stage, MemoryInv
<1>6. CASE ComputeDamage
  BY <1>6 DEF ComputeDamage, MemoryInv
<1>7. CASE ScanRow
  BY <1>7 DEF ScanRow, MemoryInv
<1>8. CASE ScanOverflows
  BY <1>8 DEF ScanOverflows, MemoryInv
<1>9. CASE ScanEnds
  <2>1. Covers' /\ last_sent_valid'
    <3>1. DamageIsExact' /\ pc' = "taken" /\ last_sent_valid'
      BY <1>9, EndIsExact DEF DamageInv, ScanInv, ScanEnds
    <3>2. ~full_frame'
      BY <1>9 DEF ScanEnds, Types, Listed
    <3>3. QED
      BY <3>1, <3>2 DEF DamageIsExact, Covers
  <2>2. QED
    BY <1>9, <2>1 DEF ScanEnds, MemoryInv
<1>10. CASE Drop
  BY <1>10 DEF Drop, MemoryInv
<1>11. CASE Begin
  <2>0. /\ pc = "taken" /\ range = 1 /\ row = 0 /\ ranges \in Seq(Ranges)
        /\ full_frame => ranges = << Whole >>
        /\ UNCHANGED <<damage, refs, cursor, pixels, vram>>
        /\ pc' \in {"rows", "slot"}
    BY <1>11 DEF Begin, Types, Listed
  <2>1. Len(ranges) >= 1
    <3>1. CASE full_frame
      BY <2>0, <3>1, WholeRange
    <3>2. CASE ranges # << >>
      BY <2>0, <3>2
    <3>3. QED
      BY <1>11, <3>1, <3>2 DEF Begin
  <2>2. \A r \in Rows : ~SentSoFar(r)
    BY <2>0, <2>1, NothingSent
  <2>3. \A r \in Rows : ~InRanges(r) => vram[r] = pixels[r]
    <3>1. CASE full_frame
      BY <2>0, <3>1, WholeCovers
    <3>2. CASE ~full_frame
      BY <2>0, <3>2 DEF MemoryInv, Covers, Dirty
    <3>3. QED
      BY <3>1, <3>2
  <2>4. \A r \in Rows : (SentSoFar(r) \/ ~InRanges(r))' => vram'[r] = pixels'[r]
    BY <1>u, <2>0, <2>2, <2>3
  <2>5. Covers' <=> Covers
    BY <1>u, <2>0
  <2>6. QED
    BY <1>11, <2>0, <2>4, <2>5 DEF Begin, MemoryInv
<1>12. CASE Refresh
  <2>1. \A r \in Rows : vram'[r] = pixels'[r]
    BY <1>12 DEF Refresh, MemoryInv
  <2>2. QED
    BY <1>12, <2>1 DEF Refresh, MemoryInv
<1>13. CASE SendRow
  BY <1>13, SendRowMemory
<1>14. CASE SendFlip
  BY <1>14, <1>u DEF SendFlip, MemoryInv
<1>15. CASE SendSlot
  <2>1. /\ ~refreshing /\ pc' = "sent" /\ vram' = pixels
        /\ Covers' <=> Covers
    BY <1>15 DEF SendSlot, MemoryInv, Covers, Dirty, InRanges
  <2>2. QED
    BY <1>15, <2>1 DEF SendSlot, MemoryInv
<1>16. CASE Fail
  BY <1>16 DEF Fail, MemoryInv
<1>17. CASE Acknowledge
  <2>0. /\ pc = "sent" /\ pc' = "idle" /\ vram' = vram /\ vram = pixels
        /\ lit' = lit /\ lit /\ pixels \in [Rows -> Pixels]
        /\ last_sent_frame \in [Rows -> Pixels]
    BY <1>17 DEF Acknowledge, MemoryInv, Types, Typed, Frames
  <2>1. last_sent_frame' = pixels
    <3>1. CASE refreshing
      BY <1>17, <2>0, <3>1 DEF Acknowledge, MemoryInv
    <3>2. CASE ~refreshing
      <4>1. last_sent_frame' = [r \in Rows |-> IF transport = "NV12" \/ InRanges(r)
                                               THEN pixels[r] ELSE last_sent_frame[r]]
        BY <1>17, <3>2 DEF Acknowledge
      <4>2. \A r \in Rows : InRanges(r) \/ pixels[r] = last_sent_frame[r]
        <5>1. CASE full_frame
          BY <2>0, <5>1, WholeCovers DEF Types, Listed
        <5>2. CASE ~full_frame
          BY <2>0, <5>2 DEF MemoryInv, Covers, Dirty
        <5>3. QED
          BY <5>1, <5>2
      <4>3. \A r \in Rows : last_sent_frame'[r] = pixels[r]
        BY <4>1, <4>2
      <4>4. last_sent_frame' \in [Rows -> Pixels]
        BY <2>0, <4>1
      <4>5. QED
        BY <2>0, <4>3, <4>4
    <3>3. QED
      BY <3>1, <3>2
  <2>2. QED
    BY <2>0, <2>1 DEF MemoryInv
<1>18. CASE UNCHANGED vars
  BY <1>18, <1>u DEF vars, MemoryInv
<1>19. QED
  BY <1>1, <1>2, <1>3, <1>4, <1>5, <1>6, <1>7, <1>8, <1>9, <1>10, <1>11, <1>12,
     <1>13, <1>14, <1>15, <1>16, <1>17, <1>18 DEF Next

LEMMA MemoryInit == Init => SlotInv /\ DamageInv /\ MemoryInv
  BY DEF Init, SlotInv, DamageInv, ScanInv, DamageIsExact, MemoryInv

Inv == Types /\ SlotInv /\ DamageInv /\ MemoryInv

LEMMA InvHolds == Spec => []Inv
<1>1. Init => Inv
  BY TypesInit, MemoryInit DEF Inv
<1>2. Inv /\ [Next]_vars => Inv'
  BY TypesStep, SlotStep, DamageStep, MemoryStep DEF Inv
<1>3. QED
  BY <1>1, <1>2, PTL DEF Spec

\* Between transfers the adapter holds the frame the next one is compared with.
THEOREM ReferenceShown == Spec => []ReferenceIsShown
<1>1. Inv => ReferenceIsShown
  BY DEF Inv, Types, Typed, MemoryInv, ReferenceIsShown, Sending
<1>2. QED
  BY <1>1, InvHolds, PTL

-----------------------------------------------------------------------------
(* The stream keeps the promise of T6Screen. *)

LEMMA Values ==
  Lost \notin Frames /\ Mixed \notin Frames /\ Mixed # Lost
<1>1. 0 \in Rows
  BY DEF Rows
<1>2. Lost[0] = Unknown /\ Mixed[0] = "mixed"
  BY <1>1 DEF Lost, Mixed
<1>3. \A f \in Frames : f[0] \in Pixels
  BY <1>1 DEF Frames
<1>4. QED
  BY <1>2, <1>3, PixelsAssumption

LEMMA ScreenInit == Init => Screen!Init
  BY Values DEF Init, Screen!Init, Sending

\* Only the compositor stages a frame.
LEMMA ScreenStage ==
  ASSUME Stage
  PROVE  Screen!Stage /\ pc' = "staged"
  BY DEF Stage, Screen!Stage, Sending

LEMMA ScreenDriver ==
  ASSUME Inv, [Next]_vars, ~Stage
  PROVE  [Screen!Driver]_(Screen!vars)
<1>0. pixels \in Frames /\ last_sent_frame \in Frames
  BY DEF Inv, Types, Typed
<1>1. CASE Disable
  <2>1. Screen!Power
    BY <1>1 DEF Disable, Screen!Power, Sending, Inv, Types, Flags
  <2>2. QED
    BY <2>1 DEF Screen!Driver
<1>2. CASE Enable
  <2>1. Screen!Power
    BY <1>2 DEF Enable, Screen!Power, Sending
  <2>2. QED
    BY <2>1 DEF Screen!Driver
<1>3. CASE MemoryIsLost
  <2>1. Screen!Forget
    BY <1>3, Values DEF MemoryIsLost, Screen!Forget, Sending
  <2>2. QED
    BY <2>1 DEF Screen!Driver
<1>4. CASE Suspend
  <2>1. Screen!Break
    BY <1>4 DEF Suspend, Screen!Break, Sending, Inv, Types, Flags
  <2>2. QED
    BY <2>1 DEF Screen!Driver
<1>5. CASE ComputeDamage
  <2>1. pc = "staged" /\ pc' \in {"scan", "taken"}
    BY <1>5 DEF ComputeDamage
  <2>2. Screen!Take
    BY <1>0, <1>5, <2>1, Values DEF ComputeDamage, Screen!Take, Sending
  <2>3. QED
    BY <2>2 DEF Screen!Driver
<1>6. CASE ScanRow
  BY <1>6 DEF ScanRow, Screen!vars, Sending
<1>7. CASE ScanOverflows
  BY <1>7 DEF ScanOverflows, Screen!vars, Sending
<1>8. CASE ScanEnds
  BY <1>8 DEF ScanEnds, Screen!vars, Sending
<1>9. CASE Drop
  <2>1. CASE io_faulted
    <3>1. Screen!Drop
      BY <1>9, <2>1 DEF Drop, Screen!Drop, Sending
    <3>2. QED
      BY <3>1 DEF Screen!Driver
  <2>2. CASE ~io_faulted
    <3>1. ~full_frame /\ ranges = << >> /\ pc = "taken"
      BY <1>9, <2>2 DEF Drop
    <3>2. last_sent_valid /\ vram = last_sent_frame /\ Covers
      BY <3>1 DEF Inv, MemoryInv
    <3>3. \A r \in Rows : ~InRanges(r)
      BY <3>1 DEF InRanges
    <3>4. \A r \in Rows : pixels[r] = last_sent_frame[r]
      BY <3>2, <3>3 DEF Covers, Dirty
    <3>5. pixels = vram
      BY <1>0, <3>2, <3>4 DEF Frames
    <3>6. Screen!Skip
      BY <1>0, <1>9, <3>5, Values DEF Drop, Screen!Skip, Sending
    <3>7. QED
      BY <3>6 DEF Screen!Driver
  <2>3. QED
    BY <2>1, <2>2
<1>10. CASE Begin
  <2>1. pc = "taken" /\ pc' \in {"rows", "slot"}
    BY <1>10 DEF Begin
  <2>2. Screen!Begin
    BY <1>0, <1>10, <2>1, Values DEF Begin, Screen!Begin, Sending
  <2>3. QED
    BY <2>2 DEF Screen!Driver
<1>11. CASE Refresh
  <2>1. vram = last_sent_frame /\ pc = "idle" /\ pc' = "rows"
    BY <1>11 DEF Refresh, Inv, MemoryInv
  <2>2. Screen!Refresh
    BY <1>0, <1>11, <2>1 DEF Refresh, Screen!Refresh, Sending
  <2>3. QED
    BY <2>2 DEF Screen!Driver
<1>12. CASE SendRow
  <2>0. pc = "rows" /\ pc' \in {"rows", "flip", "sent"} /\ pixels' = pixels
    BY <1>12 DEF SendRow
  <2>1. CASE pc' = "sent"
    <3>1. vram' = pixels
      BY <1>12, <2>0, <2>1, SendRowMemory DEF Inv, MemoryInv
    <3>2. Screen!Finish
      BY <1>0, <1>12, <2>0, <2>1, <3>1, Values DEF SendRow, Screen!Finish, Sending
    <3>3. QED
      BY <3>2 DEF Screen!Driver
  <2>2. CASE pc' # "sent"
    BY <1>12, <2>0, <2>2 DEF SendRow, Screen!vars, Sending
  <2>3. QED
    BY <2>1, <2>2
<1>13. CASE SendFlip
  <2>1. vram = pixels /\ pc = "flip" /\ pc' = "sent"
    BY <1>13 DEF SendFlip, Inv, MemoryInv
  <2>2. Screen!Finish
    BY <1>0, <1>13, <2>1, Values DEF SendFlip, Screen!Finish, Sending
  <2>3. QED
    BY <2>2 DEF Screen!Driver
<1>14. CASE SendSlot
  <2>1. Screen!Finish
    BY <1>0, <1>14, Values DEF SendSlot, Screen!Finish, Sending
  <2>2. QED
    BY <2>1 DEF Screen!Driver
<1>15. CASE Fail
  <2>1. Screen!Break
    BY <1>15 DEF Fail, Screen!Break, Sending, Inv, Types, Flags
  <2>2. QED
    BY <2>1 DEF Screen!Driver
<1>16. CASE Acknowledge
  BY <1>16 DEF Acknowledge, Screen!vars, Sending
<1>17. CASE UNCHANGED vars
  BY <1>17 DEF vars, Screen!vars, Sending
<1>18. QED
  BY <1>1, <1>2, <1>3, <1>4, <1>5, <1>6, <1>7, <1>8, <1>9, <1>10, <1>11,
     <1>12, <1>13, <1>14, <1>15, <1>16, <1>17 DEF Next

LEMMA ScreenStep == Inv /\ [Next]_vars => [Screen!Next]_(Screen!vars)
  BY ScreenStage, ScreenDriver DEF Screen!Next

\* Row by row and write by write, the driver implements the screen: it shows
\* whole frames, in the order they were taken, and loses none over a sound link.
THEOREM Refinement == Spec => ImplementsScreen
<1>1. Spec => []Inv /\ [][Next]_vars /\ Init
  BY InvHolds, PTL DEF Spec
<1>2. QED
  BY <1>1, ScreenInit, ScreenStep, PTL DEF ImplementsScreen, Screen!Spec

-----------------------------------------------------------------------------
(* Nor does it ever go back in time. *)

CONSTANT Age       \* of a frame, in the order of the compositor

VARIABLES
  staged_age,      \* of the newest frame staged so far
  shown_age        \* of the frame the adapter scanned out last

Timed == INSTANCE T6ScreenProofs WITH
  NoFrame <- Lost,
  Torn    <- Mixed,
  staged  <- IF pc = "staged" THEN pixels ELSE Lost,
  taken   <- IF pc \in {"scan", "taken"} \/ Sending THEN pixels ELSE Lost,
  shown   <- IF Sending \/ pc = "failed" THEN Mixed
             ELSE IF vram \in Frames THEN vram ELSE Lost,
  link    <- IF io_faulted THEN "down" ELSE "up"

\* The compositor never stages a frame that is older than one it has staged.
StagesInOrder ==
  IF Stage
  THEN Age[pixels'] >= staged_age /\ staged_age' = Age[pixels']
  ELSE UNCHANGED staged_age

TimesInit == staged_age = 0 /\ shown_age = 0

InOrder ==
  TimesInit /\ [][StagesInOrder /\ Timed!Watch]_<<vars, staged_age, shown_age>>

LEMMA TimedStep ==
  ASSUME Inv, [Next]_vars,
         [StagesInOrder /\ Timed!Watch]_<<vars, staged_age, shown_age>>
  PROVE  [Timed!TimedNext]_(Timed!timed)
<1>1. CASE UNCHANGED <<vars, staged_age, shown_age>>
  <2>1. UNCHANGED Timed!vars
    BY <1>1 DEF vars, Timed!vars, Sending
  <2>2. QED
    BY <1>1, <2>1 DEF Timed!timed
<1>2. CASE StagesInOrder /\ Timed!Watch /\ Stage
  <2>1. Timed!Stage
    BY <1>2, ScreenStage DEF Screen!Stage, Timed!Stage
  <2>2. Timed!StageInOrder
    BY <1>2, <2>1, ScreenStage DEF StagesInOrder, Timed!StageInOrder
  <2>3. QED
    BY <1>2, <2>2 DEF Timed!TimedNext
<1>3. CASE StagesInOrder /\ Timed!Watch /\ ~Stage
  <2>1. Screen!Driver \/ UNCHANGED Screen!vars
    BY <1>3, ScreenDriver
  <2>2. [Timed!Driver]_(Timed!vars)
    <3>1. CASE Screen!Driver
      BY <3>1 DEF Timed!Driver, Screen!Driver,
         Timed!Take, Screen!Take, Timed!PutBack, Screen!PutBack,
         Timed!Skip, Screen!Skip, Timed!Begin, Screen!Begin,
         Timed!Refresh, Screen!Refresh, Timed!Finish, Screen!Finish,
         Timed!Break, Screen!Break, Timed!Drop, Screen!Drop,
         Timed!Power, Screen!Power, Timed!Forget, Screen!Forget
    <3>2. CASE UNCHANGED Screen!vars
      BY <3>2 DEF Screen!vars, Timed!vars
    <3>3. QED
      BY <2>1, <3>1, <3>2
  <2>3. QED
    BY <1>3, <2>2 DEF StagesInOrder, Timed!TimedNext
<1>4. QED
  BY <1>1, <1>2, <1>3

\* If the compositor stages its frames in order, the adapter shows them in
\* order, whatever ranges, slots, refreshes and lost memory lie between.
THEOREM NeverBackInTime ==
  ASSUME Age \in [Frames -> Nat]
  PROVE  Spec /\ InOrder => Timed!NeverBackInTime
<1>1. Timed!Sane
  BY Values DEF Timed!Sane
<1>2. Spec => []Inv /\ [][Next]_vars /\ Init
  BY InvHolds, PTL DEF Spec
<1>3. Init /\ TimesInit => Timed!TimedInit
  BY ScreenInit DEF TimesInit, Timed!TimedInit, Timed!Init, Screen!Init
<1>4. Inv /\ [Next]_vars
        /\ [StagesInOrder /\ Timed!Watch]_<<vars, staged_age, shown_age>>
      => [Timed!TimedNext]_(Timed!timed)
  BY TimedStep
<1>5. Spec /\ InOrder => Timed!TimedSpec
  BY <1>2, <1>3, <1>4, PTL DEF InOrder, Timed!TimedSpec
<1>6. Timed!TimedSpec => Timed!NeverBackInTime
  BY <1>1, Timed!InOrder
<1>7. QED
  BY <1>5, <1>6

=============================================================================
