--------------------------- MODULE T6ProbeProofs ----------------------------
(***************************************************************************)
(* Theorems about T6Probe, for every value of its constants: any set of     *)
(* module parameters, any answers of the firmware.  ProbeInv says what       *)
(* exists at each point of t6_usb_probe; WireInv says what was sent.  Both   *)
(* are inductive, with one step per action.  Booleans are Zenon's, the rest  *)
(* is SMT's.                                                                 *)
(***************************************************************************)
EXTENDS T6Probe, TLAPS

USE DEF module, plug, locals, sink, objects, probe_frame

-----------------------------------------------------------------------------
(* Types *)

Flags ==
  /\ loaded \in BOOLEAN /\ active_probe_used \in BOOLEAN
  /\ connected \in BOOLEAN /\ edid \in BOOLEAN /\ io_faulted \in BOOLEAN
  /\ refusal \in BOOLEAN

Ranges ==
  /\ param \in Loads
  /\ dev \in {"absent", "foreign", "elsewhere", "ours"}
  /\ monitor \in {"off", "on"}
  /\ bound \in {"no", "yes"} /\ intfdata \in {"null", "t6"}
  /\ pc \in {"idle", "ram", "head", "status", "edid", "timings", "table",
             "bind_null", "wq", "buffers", "chip", "drm", "register",
             "err_buffers", "err_put"}
  /\ step \in 1..9 /\ count \in 0..(U32 - 1)
  /\ refs \subseteq {"udev", "dma"} /\ heads \in 0..2
  /\ wq \in {"none", "live"} /\ buffers \in {"none", "some", "all"}
  /\ drm \in {"none", "modeset", "registered"}
  /\ wire \in Requests /\ attempts \in Nat

\* The types of the parameters that decide something.
LEMMA Parameters == param \in Loads =>
  /\ param.manual_only \in BOOLEAN /\ param.query_only \in BOOLEAN
  /\ param.query_timings \in BOOLEAN /\ param.page1 \in BOOLEAN
  /\ param.output_mask \in 0..3
  BY LoadsAssumption DEF AllParams

\* What t6_chip_init sends: OUT requests, of which those that name an output
\* name the selected one, and the seventh switches its monitor on.
LEMMA ChipInitSteps ==
  /\ Len(ChipInit) = 9
  /\ \A i \in 1..9 :
       /\ ChipInit[i] \in Requests
       /\ ChipInit[i].dir = "out"
       /\ ChipInit[i].req \notin {"GET_STATUS", "GET_EDID", "GET_RES_TABLE"}
       /\ ChipInit[i].req = "MONITOR_CTRL" <=> i = 7
       /\ ChipInit[i].req \in {"SET_RESOLUTION", "SET_READY", "MONITOR_CTRL"}
            => ChipInit[i].value = Selected
<1>1. Len(ChipInit) = 9
  BY DEF ChipInit
<1>2. Selected \in Nat
  BY DEF Selected
<1>3. ASSUME NEW i \in 1..9
      PROVE  /\ ChipInit[i] \in Requests
             /\ ChipInit[i].dir = "out"
             /\ ChipInit[i].req \notin {"GET_STATUS", "GET_EDID", "GET_RES_TABLE"}
             /\ ChipInit[i].req = "MONITOR_CTRL" <=> i = 7
             /\ ChipInit[i].req \in {"SET_RESOLUTION", "SET_READY",
                                     "MONITOR_CTRL"}
                  => ChipInit[i].value = Selected
  <2>1. \/ i = 1 \/ i = 2 \/ i = 3 \/ i = 4 \/ i = 5
        \/ i = 6 \/ i = 7 \/ i = 8 \/ i = 9
    BY <1>3
  <2>2. QED
    BY <1>2, <2>1 DEF ChipInit, Out, Requests
<1>4. QED
  BY <1>1, <1>3

\* Whatever the firmware answers, at most a page of the timing table is read.
LEMMA EntriesType ==
  param \in Loads /\ count \in 0..(U32 - 1)
    => Entries \in 0..16 /\ First \in {0, 16}
  BY AnswersAssumption, Parameters DEF Entries, Remaining, First, MaxEntries

\* The Boolean variables stay Boolean.
THEOREM FlagTyping == Spec => []Flags
<1>1. Init => Flags
  BY DEF Init, NothingBuilt, Flags
<1>2. Flags /\ [Next]_vars => Flags'
  <2> SUFFICES ASSUME Flags, [Next]_vars PROVE Flags'
    OBVIOUS
  <2> USE DEF Flags
  <2>1. CASE Insert
    BY <2>1, Zenon DEF Insert
  <2>2. CASE Remove
    BY <2>2, Zenon DEF Remove
  <2>3. CASE Detach
    BY <2>3, Zenon DEF Detach
  <2>4. CASE Attach
    BY <2>4, Zenon DEF Attach
  <2>5. CASE ProbeRefuses
    BY <2>5, Zenon DEF ProbeRefuses, vars
  <2>6. CASE ProbeDescriptorOnly
    BY <2>6, Zenon DEF ProbeDescriptorOnly
  <2>7. CASE ProbeBegins
    BY <2>7, Zenon DEF ProbeBegins
  <2>8. ASSUME NEW r, NEW ok, NEW failed, Request(r, ok, failed)
        PROVE  io_faulted' \in BOOLEAN /\ refusal' \in BOOLEAN
    BY <2>8, Zenon DEF Request
  <2>9. CASE QueryRam
    BY <2>8, <2>9, Zenon DEF QueryRam
  <2>10. CASE HeadDefaults
    BY <2>10, Zenon DEF HeadDefaults
  <2>11. CASE QueryStatus
    BY <2>8, <2>11, Zenon DEF QueryStatus
  <2>12. CASE QueryEdid
    BY <2>8, <2>12, Zenon DEF QueryEdid
  <2>13. CASE HeadsDone
    BY <2>13, Zenon DEF HeadsDone
  <2>14. CASE QueryCount
    BY <2>8, <2>14, Zenon DEF QueryCount
  <2>15. CASE QueryTable
    BY <2>8, <2>15, Zenon DEF QueryTable
  <2>16. CASE AllocQueue
    BY <2>16, Zenon DEF AllocQueue
  <2>17. CASE AllocBuffers
    BY <2>17, Zenon DEF AllocBuffers
  <2>18. CASE InitChip
    BY <2>8, <2>18, Zenon DEF InitChip
  <2>19. CASE BuildDrm
    BY <2>19, Zenon DEF BuildDrm
  <2>20. CASE Register
    BY <2>20, Zenon DEF Register
  <2>21. CASE UnwindActivity
    BY <2>21, Zenon DEF UnwindActivity
  <2>22. CASE UnwindReferences
    BY <2>22, Zenon DEF UnwindReferences
  <2>23. CASE Disconnect
    BY <2>23, Zenon DEF Disconnect
  <2>24. CASE UNCHANGED vars
    BY <2>24, Zenon DEF vars
  <2>25. QED
    BY <2>1, <2>2, <2>3, <2>4, <2>5, <2>6, <2>7, <2>9, <2>10, <2>11, <2>12,
       <2>13, <2>14, <2>15, <2>16, <2>17, <2>18, <2>19, <2>20, <2>21, <2>22,
       <2>23, <2>24 DEF Next, Environment, Probe
<1>3. QED
  BY <1>1, <1>2, PTL DEF Spec

\* One of two outputs is selected.
LEMMA SelectedType == Selected \in {0, 1}
  BY DEF Selected

\* The other variables stay in their ranges.
LEMMA RangeStep == Flags /\ Ranges /\ [Next]_vars => Ranges'
<1> SUFFICES ASSUME Flags, Ranges, [Next]_vars PROVE Ranges'
  OBVIOUS
<1> USE AnswersAssumption DEF Ranges
<1>1. CASE Insert
  BY <1>1 DEF Insert, NoRequest, Requests
<1>2. CASE Remove
  BY <1>2 DEF Remove
<1>3. CASE Detach
  BY <1>3 DEF Detach
<1>4. CASE Attach
  BY <1>4 DEF Attach
<1>5. CASE ProbeRefuses
  BY <1>5 DEF ProbeRefuses, vars, CanProbe
<1>6. CASE ProbeDescriptorOnly
  BY <1>6 DEF ProbeDescriptorOnly, CanProbe
<1>7. CASE ProbeBegins
  <2>1. refs' \subseteq {"udev", "dma"}
    BY <1>7 DEF ProbeBegins
  <2>2. QED
    BY <1>7, <2>1 DEF ProbeBegins
<1>8. CASE QueryRam
  BY <1>8 DEF QueryRam, Request, In, Requests
<1>9. CASE HeadDefaults
  BY <1>9 DEF HeadDefaults
<1>10. CASE QueryStatus
  BY <1>10, SelectedType DEF QueryStatus, Request, In, Requests
<1>11. CASE QueryEdid
  BY <1>11, SelectedType DEF QueryEdid, Request, In, Requests
<1>12. CASE HeadsDone
  BY <1>12 DEF HeadsDone
<1>13. CASE QueryCount
  BY <1>13 DEF QueryCount, Request, In, Requests
<1>14. CASE QueryTable
  BY <1>14, EntriesType DEF QueryTable, Request, In, EntrySize, Requests
<1>15. CASE AllocQueue
  BY <1>15 DEF AllocQueue
<1>16. CASE AllocBuffers
  BY <1>16 DEF AllocBuffers
<1>17. CASE InitChip
  BY <1>17, ChipInitSteps DEF InitChip, Request, Requests
<1>18. CASE BuildDrm
  BY <1>18 DEF BuildDrm
<1>19. CASE Register
  BY <1>19 DEF Register
<1>20. CASE UnwindActivity
  BY <1>20 DEF UnwindActivity
<1>21. CASE UnwindReferences
  BY <1>21 DEF UnwindReferences
<1>22. CASE Disconnect
  <2>1. monitor' \in {"off", "on"}
    BY <1>22 DEF Disconnect
  <2>2. /\ wq' \in {"none", "live"} /\ buffers' \in {"none", "some", "all"}
        /\ drm' \in {"none", "modeset", "registered"}
        /\ refs' \subseteq {"udev", "dma"}
    BY <1>22 DEF Disconnect
  <2>3. QED
    BY <1>22, <2>1, <2>2 DEF Disconnect
<1>23. CASE UNCHANGED vars
  BY <1>23 DEF vars
<1>24. QED
  BY <1>1, <1>2, <1>3, <1>4, <1>5, <1>6, <1>7, <1>8, <1>9, <1>10, <1>11, <1>12,
     <1>13, <1>14, <1>15, <1>16, <1>17, <1>18, <1>19, <1>20, <1>21, <1>22,
     <1>23 DEF Next, Environment, Probe


\* Every variable stays in its range, whatever parameters, answers and failures
\* come.
THEOREM Typing == Spec => []TypeOK
<1>1. Init => Ranges
  BY AnswersAssumption DEF Init, NothingBuilt, Ranges, Requests, NoRequest
<1>2. Flags /\ Ranges => TypeOK
  BY DEF Flags, Ranges, TypeOK
<1>3. QED
  BY FlagTyping, RangeStep, <1>1, <1>2, PTL DEF Spec

\* The same, for every behaviour.
LEMMA RangesAlways == Spec => []Ranges
<1>1. Init => Ranges
  BY AnswersAssumption DEF Init, NothingBuilt, Ranges, Requests, NoRequest
<1>2. QED
  BY FlagTyping, RangeStep, <1>1, PTL DEF Spec

-----------------------------------------------------------------------------
(* How far probe got, and what it has built there *)

Queries  == {"ram", "head", "status", "edid", "timings", "table", "bind_null"}
Building == {"wq", "buffers", "chip", "drm", "register"}
Failing  == {"err_buffers", "err_put"}

Nothing ==
  /\ intfdata = "null" /\ refs = {} /\ heads = 0 /\ step = 1
  /\ ~connected /\ ~edid /\ ~io_faulted
  /\ wq = "none" /\ buffers = "none" /\ drm = "none"

Accepted ==
  loaded /\ ~param.manual_only /\ OptionsAccepted(param)

\* A probe only gets on with the latch taken, its options accepted, and a
\* sound transport.
RunInv ==
  /\ pc # "idle" => /\ Accepted /\ bound = "no" /\ drm # "registered"
                    /\ intfdata = "t6" /\ "udev" \in refs
  /\ pc \in Queries \cup Building => ~io_faulted
  /\ pc \in Building \cup {"err_buffers"} => ~param.query_only
  /\ pc \in {"timings", "table"} => param.query_only /\ param.query_timings

\* What is built when the code is where it is.
BuildInv ==
  /\ pc \in Queries \cup {"wq", "err_put"} => wq = "none" /\ buffers = "none"
  /\ pc = "buffers" => wq = "live" /\ buffers = "none"
  /\ pc \in {"chip", "drm", "register"} => wq = "live" /\ buffers = "all"
  /\ pc \in Queries \cup (Building \ {"register"}) => drm = "none"
  /\ pc \in Queries \cup {"wq", "buffers"} => step = 1
  /\ pc \in Building \cup {"err_buffers"} => heads = 2
  /\ pc = "err_put" /\ param.query_only => drm = "none"

\* What is known of the selected head, and what it was told.
SinkInv ==
  /\ pc = "ram" => heads = 0 /\ ~connected /\ ~edid
  /\ pc = "head" /\ heads <= Selected => ~connected /\ ~edid
  /\ pc = "status" => heads = Selected + 1 /\ ~connected /\ ~edid
  /\ pc = "edid" => heads = Selected + 1 /\ connected /\ ~edid
  /\ pc \in {"head"} \cup Building => (connected <=> edid)
  /\ pc \in {"drm", "register"} => connected
  /\ dev = "ours" /\ (pc \in {"drm", "register"} \/ (pc = "chip" /\ step > 7))
       => monitor = "on"

\* What is left when no callback runs.
IdleInv ==
  /\ bound = "yes" => loaded
  /\ pc = "idle" /\ drm # "registered" => Nothing
  /\ drm = "registered" =>
       /\ Accepted /\ ~param.query_only
       /\ bound = "yes" /\ intfdata = "t6" /\ "udev" \in refs
       /\ heads = 2 /\ wq = "live" /\ buffers = "all"
       /\ connected /\ edid /\ ~io_faulted
       /\ dev = "ours" => monitor = "on"

ProbeInv == RunInv /\ BuildInv /\ SinkInv /\ IdleInv

\* Every step keeps what is known of the progress of probe.
LEMMA ProbeInvStep == Flags /\ Ranges /\ ProbeInv /\ [Next]_vars => ProbeInv'
<1> SUFFICES ASSUME Flags, Ranges, ProbeInv, [Next]_vars PROVE ProbeInv'
  OBVIOUS
<1> USE Parameters
      DEF Flags, Ranges, ProbeInv, RunInv, BuildInv, SinkInv, IdleInv, Accepted,
          Nothing, Queries, Building, Failing, Selected
<1>1. CASE Insert
  BY <1>1 DEF Insert
<1>2. CASE Remove
  BY <1>2 DEF Remove
<1>3. CASE Detach
  BY <1>3 DEF Detach
<1>4. CASE Attach
  BY <1>4 DEF Attach
<1>5. CASE ProbeRefuses
  BY <1>5 DEF ProbeRefuses, vars, CanProbe
<1>6. CASE ProbeDescriptorOnly
  BY <1>6 DEF ProbeDescriptorOnly, CanProbe
<1>7. CASE ProbeBegins
  BY <1>7 DEF ProbeBegins, CanProbe
<1>8. CASE QueryRam
  BY <1>8 DEF QueryRam, Request, In, OptionsAccepted
<1>9. CASE HeadDefaults
  BY <1>9 DEF HeadDefaults, OptionsAccepted
<1>10. CASE QueryStatus
  BY <1>10 DEF QueryStatus, Request, In, OptionsAccepted
<1>11. CASE QueryEdid
  BY <1>11 DEF QueryEdid, Request, In, OptionsAccepted
<1>12. CASE HeadsDone
  BY <1>12 DEF HeadsDone
<1>13. CASE QueryCount
  BY <1>13 DEF QueryCount, Request, In, OptionsAccepted
<1>14. CASE QueryTable
  BY <1>14, EntriesType DEF QueryTable, Request, In, EntrySize, OptionsAccepted
<1>15. CASE AllocQueue
  BY <1>15 DEF AllocQueue
<1>16. CASE AllocBuffers
  BY <1>16 DEF AllocBuffers
<1>17. CASE InitChip
  BY <1>17, ChipInitSteps DEF InitChip, Request
<1>18. CASE BuildDrm
  BY <1>18 DEF BuildDrm
<1>19. CASE Register
  BY <1>19 DEF Register
<1>20. CASE UnwindActivity
  BY <1>20 DEF UnwindActivity
<1>21. CASE UnwindReferences
  BY <1>21 DEF UnwindReferences
<1>22. CASE Disconnect
  BY <1>22 DEF Disconnect
<1>23. CASE UNCHANGED vars
  BY <1>23 DEF vars
<1>24. QED
  BY <1>1, <1>2, <1>3, <1>4, <1>5, <1>6, <1>7, <1>8, <1>9, <1>10, <1>11, <1>12,
     <1>13, <1>14, <1>15, <1>16, <1>17, <1>18, <1>19, <1>20, <1>21, <1>22,
     <1>23 DEF Next, Environment, Probe

\* What exists, and what was accepted, at each point of probe and after it.
THEOREM Invariance == Spec => []ProbeInv
<1>1. Init => ProbeInv
  BY DEF Init, NothingBuilt, ProbeInv, RunInv, BuildInv, SinkInv, IdleInv,
         Nothing, Queries, Building, Failing
<1>2. QED
  BY FlagTyping, RangesAlways, ProbeInvStep, <1>1, PTL DEF Spec

\* Whichever label of t6_usb_probe it leaves by, an interface without a
\* registered device has no data and holds nothing; and err_buffers, which
\* deletes timers and cancels works, is only reached once t6_head_defaults has
\* initialised those of both heads.
THEOREM Unwinding == Spec => []UnwindingIsExact
<1>1. ProbeInv => UnwindingIsExact
  BY DEF ProbeInv, BuildInv, IdleInv, Building, Nothing, UnwindingIsExact
<1>2. QED
  BY Invariance, <1>1, PTL

\* A device that DRM can use is complete, its chip initialised, its transport
\* sound: the initial states of T6Head.
THEOREM HandOver == Spec => []RegisteredIsReady
<1>1. ProbeInv => RegisteredIsReady
  BY DEF ProbeInv, IdleInv, Accepted, OptionsAccepted, Selected,
         RegisteredIsReady
<1>2. QED
  BY Invariance, <1>1, PTL

-----------------------------------------------------------------------------
(* What is sent *)

\* The part of ModesAreRespected that is about requests.
ModeInv ==
  /\ param.manual_only => wire = NoRequest
  /\ param.manual_only \/ param.query_only => wire.dir # "out"
  /\ wire.req \in {"GET_STATUS", "SET_RESOLUTION", "SET_READY",
                   "MONITOR_CTRL"} => wire.value = Selected
  /\ wire.req = "GET_EDID" => wire.index = Selected

WireInv ==
  /\ OneAttemptPerInsertion /\ ModeInv /\ PolicyAdmitsOwnRequests
  /\ TableReadWithinCount

\* Every step keeps what is known of the requests sent.
LEMMA WireInvStep ==
  Flags /\ Ranges /\ ProbeInv /\ WireInv /\ [Next]_vars => WireInv'
<1> SUFFICES ASSUME Flags, Ranges, ProbeInv, WireInv, [Next]_vars
             PROVE  WireInv'
  OBVIOUS
<1> USE Parameters
    DEF Ranges, ProbeInv, RunInv, BuildInv, Accepted, Queries, Building,
        WireInv, OneAttemptPerInsertion, ModeInv, PolicyAdmitsOwnRequests,
        TableReadWithinCount, Selected
<1>1. CASE Insert
  BY <1>1 DEF Insert, NoRequest
<1>2. CASE Remove
  BY <1>2 DEF Remove
<1>3. CASE Detach
  BY <1>3 DEF Detach
<1>4. CASE Attach
  BY <1>4 DEF Attach
<1>5. CASE ProbeRefuses
  BY <1>5 DEF ProbeRefuses, vars
<1>6. CASE ProbeDescriptorOnly
  BY <1>6 DEF ProbeDescriptorOnly
<1>7. CASE ProbeBegins
  BY <1>7 DEF ProbeBegins
<1>8. CASE QueryRam
  BY <1>8
     DEF QueryRam, Request, Policy, In, QueryInAllowed, MaskValid,
         OptionsAccepted
<1>9. CASE HeadDefaults
  BY <1>9 DEF HeadDefaults
<1>10. CASE QueryStatus
  BY <1>10
     DEF QueryStatus, Request, Policy, In, QueryInAllowed, MaskValid,
         OptionsAccepted
<1>11. CASE QueryEdid
  BY <1>11
     DEF QueryEdid, Request, Policy, In, QueryInAllowed, MaskValid,
         OptionsAccepted
<1>12. CASE HeadsDone
  BY <1>12 DEF HeadsDone
<1>13. CASE QueryCount
  BY <1>13
     DEF QueryCount, Request, Policy, In, QueryInAllowed, MaskValid,
         OptionsAccepted
<1>14. CASE QueryTable
  <2> DEFINE r == In("GET_RES_TABLE", 0, First * EntrySize, Entries * EntrySize)
  <2>1. CASE wire' = wire /\ refusal' = refusal
    BY <1>14, <2>1 DEF QueryTable
  <2>2. CASE /\ ~(param.page1 /\ count # 36) /\ Entries # 0
             /\ Request(r, "bind_null", "err_put")
    <3>1. \/ param.page1 /\ First = 16 /\ Entries = 16
          \/ ~param.page1 /\ First = 0 /\ Entries \in 1..16 /\ Entries <= count
      BY <2>2, EntriesType DEF Entries, Remaining, First, MaxEntries
    <3>2. /\ r.dir = "in" /\ r.req = "GET_RES_TABLE" /\ r.value = 0
          /\ r.size \in 1..512 /\ r.index + r.size <= count * 32
      BY <2>2, <3>1 DEF In, EntrySize
    <3>3. ~Policy(r)
      <4>1. QueryInAllowed(r)
        BY <1>14, <3>1
           DEF QueryTable, QueryInAllowed, MaskValid, OptionsAccepted, In,
               EntrySize, MaxEntries
      <4>2. QED
        BY <3>2, <4>1 DEF Policy
    <3>4. wire' \in {wire, r} /\ ~refusal'
      <4> HIDE DEF r
      <4>1. wire' \in {wire, r}
        BY <2>2 DEF Request
      <4>2. ~refusal'
        BY <2>2, <3>3, Zenon DEF Request
      <4>3. QED
        BY <4>1, <4>2
    <3>5. QED
      BY <1>14, <3>2, <3>4 DEF QueryTable, EntrySize, MaxEntries, NoRequest
  <2>3. QED
    BY <1>14, <2>1, <2>2 DEF QueryTable
<1>15. CASE AllocQueue
  BY <1>15 DEF AllocQueue
<1>16. CASE AllocBuffers
  BY <1>16 DEF AllocBuffers
<1>17. CASE InitChip
  BY <1>17, ChipInitSteps DEF InitChip, Request, Policy
<1>18. CASE BuildDrm
  BY <1>18 DEF BuildDrm
<1>19. CASE Register
  BY <1>19 DEF Register
<1>20. CASE UnwindActivity
  BY <1>20 DEF UnwindActivity
<1>21. CASE UnwindReferences
  BY <1>21 DEF UnwindReferences
<1>22. CASE Disconnect
  BY <1>22 DEF Disconnect
<1>23. CASE UNCHANGED vars
  BY <1>23 DEF vars
<1>24. QED
  BY <1>1, <1>2, <1>3, <1>4, <1>5, <1>6, <1>7, <1>8, <1>9, <1>10, <1>11, <1>12,
     <1>13, <1>14, <1>15, <1>16, <1>17, <1>18, <1>19, <1>20, <1>21, <1>22,
     <1>23 DEF Next, Environment, Probe

\* What was sent since the module was inserted.
THEOREM Wire == Spec => []WireInv
<1>1. Init => WireInv
  BY DEF Init, NothingBuilt, WireInv, OneAttemptPerInsertion, ModeInv, NoRequest,
         PolicyAdmitsOwnRequests, TableReadWithinCount
<1>2. QED
  BY FlagTyping, RangesAlways, Invariance, WireInvStep, <1>1, PTL DEF Spec

\* One active probe attempt per insertion, whatever fails, is unplugged, bound
\* again or enumerated again.
THEOREM OneAttempt == Spec => []OneAttemptPerInsertion
<1>1. WireInv => OneAttemptPerInsertion
  BY DEF WireInv
<1>2. QED
  BY Wire, <1>1, PTL

\* Descriptor-only mode sends nothing, query-only mode no OUT request, and
\* neither builds anything, on any path; no request is ever made for the output
\* that was not selected.
THEOREM Modes == Spec => []ModesAreRespected
<1>1. Ranges /\ ProbeInv /\ WireInv => ModesAreRespected
  BY Parameters
     DEF Ranges, ProbeInv, RunInv, BuildInv, IdleInv, Nothing, Accepted, Queries,
         Building, WireInv, ModeInv, ModesAreRespected
<1>2. QED
  BY RangesAlways, Invariance, Wire, <1>1, PTL

\* The query policy refuses none of the driver's own requests.
THEOREM PolicyFits == Spec => []PolicyAdmitsOwnRequests
<1>1. WireInv => PolicyAdmitsOwnRequests
  BY DEF WireInv
<1>2. QED
  BY Wire, <1>1, PTL

\* Whatever count the firmware answers, the table is read within its bounds.
THEOREM TableBounds == Spec => []TableReadWithinCount
<1>1. WireInv => TableReadWithinCount
  BY DEF WireInv
<1>2. QED
  BY Wire, <1>1, PTL

=============================================================================
