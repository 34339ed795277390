------------------------------ MODULE T6Probe -------------------------------
(***************************************************************************)
(* The life of the module and of its binding to an interface: insertion     *)
(* with a choice of parameters, t6_usb_probe with every point where it can   *)
(* fail and what each failure unwinds, query-only and descriptor-only mode,  *)
(* disconnect, removal (kernel/trigger6_drv.c, trigger6_match.h,             *)
(* trigger6_query.h).  What happens while a registered device streams is     *)
(* T6Head.                                                                   *)
(*                                                                          *)
(* The USB core serialises probe and disconnect of an interface; the cable   *)
(* may be pulled at any moment, and a device may be plugged in, probed again *)
(* or unbound whenever no callback runs.  The parameters are read-only after *)
(* insertion (0444).                                                         *)
(***************************************************************************)
EXTENDS Naturals, Sequences

CONSTANTS
  Loads,      \* parameter sets the module is inserted with
  RamSizes,   \* answers of the firmware to GET_RAM, in MB
  Counts,     \* answers of the firmware to GET_RES_COUNT
  U32         \* 2^32; a smaller modulus for TLC

\* The module parameters that t6_usb_probe reads; "inherited" stands for the
\* three inherited options, which it treats alike.
AllParams ==
  [manual_only : BOOLEAN, output_mask : 0..3, inherited : BOOLEAN,
   query_only : BOOLEAN, query_timings : BOOLEAN, page1 : BOOLEAN,
   evdi_name : BOOLEAN, idle_refresh : BOOLEAN, final_off : BOOLEAN]

ASSUME LoadsAssumption == Loads \subseteq AllParams
ASSUME AnswersAssumption ==
  /\ U32 \in Nat /\ U32 > 1024
  /\ Counts \subseteq 0..(U32 - 1) /\ RamSizes \subseteq 0..(U32 - 1)

VARIABLES
  \* the module
  loaded, param, active_probe_used,
  \* the port: "absent"; "foreign", a device t6_profile_matches rejects;
  \* "elsewhere", a matching one at another path; "ours"
  dev,
  monitor,       \* "off" or "on": what the adapter was told last
  \* the interface, and the callback that runs on it
  bound,         \* the driver core's view
  intfdata,      \* "null" or "t6"
  pc, step,      \* step: the next request of t6_chip_init
  count,         \* last answer to GET_RES_COUNT
  \* struct t6_device and its heads
  refs,          \* references held: "udev", "dma"
  heads,         \* heads t6_head_defaults has set up, in order
  connected, edid,    \* of the selected head; the other one is never asked
  io_faulted, wq, buffers, drm,
  \* history
  wire,          \* last request that reached the wire since insertion
  refusal,       \* the query policy refused one of the driver's own requests
  attempts       \* active probes begun since insertion

module  == <<loaded, param>>
plug    == <<dev, monitor>>
locals  == <<step, count>>
sink    == <<connected, edid>>
objects == <<wq, buffers, drm>>
vars == <<module, active_probe_used, plug, bound, intfdata, pc, locals, refs,
          heads, sink, io_faulted, objects, wire, refusal, attempts>>

NoRequest == [dir |-> "none", req |-> "none", value |-> 0, index |-> 0,
              size |-> 0]

In(req, value, index, size) ==
  [dir |-> "in", req |-> req, value |-> value, index |-> index, size |-> size]
Out(req, value, index, size) ==
  [dir |-> "out", req |-> req, value |-> value, index |-> index, size |-> size]

-----------------------------------------------------------------------------
(* The policies *)

\* t6_output_mask_valid
MaskValid(mask) == mask \in {1, 2}

\* The only logical output that is probed and initialised.
Selected == IF param.output_mask = 1 THEN 0 ELSE 1

\* The checks of t6_usb_probe before the latch.
OptionsAccepted(p) ==
  /\ MaskValid(p.output_mask) /\ ~p.inherited
  /\ p.evdi_name \/ p.idle_refresh => p.output_mask = 1
  /\ p.page1 => p.query_timings
  /\ p.final_off => ~p.query_only /\ p.output_mask = 1
  /\ p.query_timings => /\ p.query_only /\ p.output_mask = 1
                        /\ ~p.evdi_name /\ ~p.idle_refresh

EntrySize  == 32
MaxEntries == 16

\* t6_query_in_allowed: the IN requests of query-only mode.
QueryInAllowed_StatusByIndex(r) ==
  /\ MaskValid(param.output_mask)
  /\ param.query_timings => param.output_mask = 1
  /\ param.page1 => param.query_timings
  /\ r.dir = "in"
  /\ \/ r = In("GET_RAM", 0, 0, 4)
     \/ r = In("GET_STATUS", 0, Selected, 1)
     \/ r = In("GET_EDID", 0, Selected, 128)
     \/ param.query_timings /\ r = In("GET_RES_COUNT", 0, 0, 4)
     \/ param.query_timings /\ param.page1
        /\ r = In("GET_RES_TABLE", 0, 512, 512)

QueryInAllowed(r) ==
  /\ MaskValid(param.output_mask)
  /\ param.query_timings => param.output_mask = 1
  /\ param.page1 => param.query_timings
  /\ \/ r = In("GET_RAM", 0, 0, 4)
     \/ r = In("GET_STATUS", Selected, 0, 1)
     \/ r = In("GET_EDID", 0, Selected, 128)
     \/ param.query_timings /\ r = In("GET_RES_COUNT", 0, 0, 4)
     \/ /\ param.query_timings /\ param.page1
        /\ r = In("GET_RES_TABLE", 0, 512, 512)
     \/ /\ param.query_timings /\ ~param.page1
        /\ \E n \in 1..MaxEntries :
             r = In("GET_RES_TABLE", 0, 0, n * EntrySize)

\* t6_timing_query_entries(count - first), in unsigned arithmetic.
First == IF param.page1 THEN MaxEntries ELSE 0

Remaining == IF count >= First THEN count - First ELSE count + U32 - First

Entries == IF Remaining < MaxEntries THEN Remaining ELSE MaxEntries

\* The OUT requests of t6_chip_init, in order.
ChipInit ==
  << Out("RESET_LO", 0, 0, 0), Out("RESET_HI", 256, 0, 0),
     Out("SET_COLOR", 0, 0, 40), Out("SET_TIMING", 0, 0, 16),
     Out("SET_RESOLUTION", Selected, 0, 32), Out("SET_READY", Selected, 0, 0),
     Out("MONITOR_CTRL", Selected, 1, 0),
     Out("SET_TIMING", 0, 0, 16), Out("FINALIZE", 2, 0, 0) >>

-----------------------------------------------------------------------------
(* t6_ctrl_in and t6_ctrl_out *)

Policy(r) == param.query_only /\ (r.dir = "out" \/ ~QueryInAllowed(r))

\* A transfer buffer is only allocated for requests with data.  A request that
\* fails or is short latches the fault; the adapter may have obeyed it.
Request(r, ok, failed) ==
  \/ /\ io_faulted \/ param.manual_only \/ Policy(r)
     /\ refusal' = (refusal \/ Policy(r)) /\ pc' = failed
     /\ UNCHANGED <<wire, io_faulted, monitor>>
  \/ /\ r.size > 0 /\ pc' = failed
     /\ UNCHANGED <<wire, io_faulted, monitor, refusal>>
  \/ /\ ~io_faulted /\ ~param.manual_only /\ ~Policy(r)
     /\ wire' = r
     /\ \/ dev = "ours" /\ pc' = ok /\ UNCHANGED io_faulted
        \/ io_faulted' = TRUE /\ pc' = failed
     /\ monitor' \in IF r.req = "MONITOR_CTRL" /\ dev = "ours"
                     THEN IF pc' = ok THEN {"on"} ELSE {"on", monitor}
                     ELSE {monitor}
     /\ UNCHANGED refusal

-----------------------------------------------------------------------------
(* The module and the cable *)

\* A freshly inserted module, and what rmmod leaves.
NothingBuilt ==
  /\ bound = "no" /\ intfdata = "null" /\ pc = "idle"
  /\ step = 1 /\ count = 0 /\ refs = {} /\ heads = 0
  /\ connected = FALSE /\ edid = FALSE /\ io_faulted = FALSE
  /\ wq = "none" /\ buffers = "none" /\ drm = "none"

Init ==
  /\ loaded = TRUE /\ param \in Loads
  /\ active_probe_used = FALSE
  /\ dev \in {"absent", "foreign", "elsewhere", "ours"} /\ monitor = "off"
  /\ NothingBuilt
  /\ wire = NoRequest /\ refusal = FALSE
  /\ attempts = 0

\* Static data starts anew with every insertion.
Insert ==
  /\ ~loaded /\ loaded' = TRUE
  /\ param' \in Loads
  /\ active_probe_used' = FALSE
  /\ wire' = NoRequest /\ refusal' = FALSE /\ attempts' = 0 /\ count' = 0
  /\ UNCHANGED <<plug, bound, intfdata, pc, step, refs, heads, sink,
                 io_faulted, objects>>

\* usb_deregister unbinds first, by Disconnect.
Remove ==
  /\ loaded /\ pc = "idle" /\ bound = "no"
  /\ loaded' = FALSE
  /\ UNCHANGED <<param, active_probe_used, plug, bound, intfdata, pc, locals,
                 refs, heads, sink, io_faulted, objects, wire, refusal,
                 attempts>>

Detach ==
  /\ dev # "absent" /\ dev' = "absent"
  /\ UNCHANGED <<module, active_probe_used, monitor, bound, intfdata, pc,
                 locals, refs, heads, sink, io_faulted, objects, wire,
                 refusal, attempts>>

\* A device is only enumerated once the last one has been disconnected.
Attach ==
  /\ dev = "absent" /\ pc = "idle" /\ bound = "no"
  /\ dev' \in {"foreign", "elsewhere", "ours"} /\ monitor' = "off"
  /\ UNCHANGED <<module, active_probe_used, bound, intfdata, pc, locals, refs,
                 heads, sink, io_faulted, objects, wire, refusal, attempts>>

-----------------------------------------------------------------------------
(* t6_usb_probe *)

CanProbe == loaded /\ pc = "idle" /\ bound = "no" /\ dev # "absent"

\* Every probe starts from a new t6_device, which devm frees with the binding.
ProbeRefuses ==
  /\ CanProbe
  /\ \/ dev \in {"foreign", "elsewhere"}
     \/ dev = "ours" /\ ~param.manual_only
        /\ (~OptionsAccepted(param) \/ active_probe_used)
  /\ UNCHANGED vars

\* manual_only: bound without data, and nothing sent.
ProbeDescriptorOnly ==
  /\ CanProbe /\ dev = "ours" /\ param.manual_only
  /\ bound' = "yes" /\ intfdata' = "null"
  /\ UNCHANGED <<module, active_probe_used, plug, pc, locals, refs, heads,
                 sink, io_faulted, objects, wire, refusal, attempts>>

\* The latch is taken before anything is allocated and never given back.
ProbeBegins_NoLatch ==
  /\ CanProbe /\ dev = "ours" /\ ~param.manual_only /\ OptionsAccepted(param)
  /\ attempts' = attempts + 1
  /\ \/ UNCHANGED <<pc, refs, intfdata>>
     \/ /\ pc' = "ram" /\ refs' = {"udev", "dma"} /\ intfdata' = "t6"
  /\ UNCHANGED <<module, active_probe_used, plug, bound, locals, heads, sink,
                 io_faulted, objects, wire, refusal>>

\* usb_intf_get_dma_device may find no device that does DMA.
ProbeBegins ==
  /\ CanProbe /\ dev = "ours" /\ ~param.manual_only /\ OptionsAccepted(param)
  /\ ~active_probe_used /\ active_probe_used' = TRUE
  /\ attempts' = attempts + 1
  /\ \/ UNCHANGED <<pc, refs, intfdata>>
     \/ /\ pc' = "ram" /\ intfdata' = "t6"
        /\ refs' \in {{"udev"}, {"udev", "dma"}}
  /\ UNCHANGED <<module, plug, bound, locals, heads, sink, io_faulted,
                 objects, wire, refusal>>

probe_frame == <<module, active_probe_used, dev, bound, intfdata, refs,
                 attempts>>

\* Any RAM size but 58 MB is refused.
QueryRam ==
  /\ pc = "ram"
  /\ \E ram \in RamSizes :
       Request(In("GET_RAM", 0, 0, 4),
               IF ram = 58 THEN "head" ELSE "err_put", "err_put")
  /\ UNCHANGED <<probe_frame, locals, heads, sink, objects>>

\* t6_head_defaults of the next head, whose works and timer exist from here;
\* t6_probe_head goes on only with a selected one.
HeadDefaults_OffByOne ==
  /\ pc = "head" /\ heads <= 2
  /\ heads' = heads + 1
  /\ pc' = IF Selected = heads THEN "status" ELSE "head"
  /\ UNCHANGED <<probe_frame, locals, sink, io_faulted, objects, wire,
                 monitor, refusal>>

HeadDefaults ==
  /\ pc = "head" /\ heads < 2
  /\ heads' = heads + 1
  /\ pc' = IF Selected = heads THEN "status" ELSE "head"
  /\ UNCHANGED <<probe_frame, locals, sink, io_faulted, objects, wire,
                 monitor, refusal>>

\* Only status 1 is a connection; without one the probe of the head ends well.
QueryStatus ==
  /\ pc = "status"
  /\ \E one \in BOOLEAN :
       /\ Request(In("GET_STATUS", Selected, 0, 1),
                  IF one THEN "edid" ELSE "head", "err_put")
       /\ connected' = (pc' = "edid")
  /\ UNCHANGED <<probe_frame, locals, heads, edid, objects>>

\* A base block with a bad header or checksum refuses the test.
QueryEdid ==
  /\ pc = "edid"
  /\ \E valid \in BOOLEAN :
       /\ Request(In("GET_EDID", 0, Selected, 128),
                  IF valid THEN "head" ELSE "err_put", "err_put")
       /\ edid' = (pc' = "head")
  /\ UNCHANGED <<probe_frame, locals, heads, connected, objects>>

HeadsDone_ForgetsMode ==
  /\ pc = "head" /\ heads = 2
  /\ pc' = IF param.query_timings THEN "timings" ELSE "wq"
  /\ UNCHANGED <<probe_frame, locals, heads, sink, io_faulted, objects, wire,
                 monitor, refusal>>

HeadsDone ==
  /\ pc = "head" /\ heads = 2
  /\ pc' = IF ~param.query_only THEN "wq"
           ELSE IF param.query_timings THEN "timings" ELSE "bind_null"
  /\ UNCHANGED <<probe_frame, locals, heads, sink, io_faulted, objects, wire,
                 monitor, refusal>>

\* t6_query_head0_timings
QueryCount ==
  /\ pc = "timings"
  /\ IF connected /\ edid
     THEN \E n \in Counts :
            /\ Request(In("GET_RES_COUNT", 0, 0, 4), "table", "err_put")
            /\ count' = IF pc' = "table" THEN n ELSE count
     ELSE pc' = "err_put" /\ UNCHANGED <<count, wire, io_faulted, monitor,
                                         refusal>>
  /\ UNCHANGED <<probe_frame, step, heads, sink, objects>>

\* The second page is only read of the one table that was measured.
QueryTable_AnyCount ==
  /\ pc = "table"
  /\ \/ Entries = 0 /\ pc' = "err_put"
        /\ UNCHANGED <<wire, io_faulted, monitor, refusal>>
     \/ Entries # 0
        /\ Request(In("GET_RES_TABLE", 0, First * EntrySize,
                      Entries * EntrySize), "bind_null", "err_put")
  /\ UNCHANGED <<probe_frame, locals, heads, sink, objects>>

QueryTable ==
  /\ pc = "table"
  /\ IF (param.page1 /\ count # 36) \/ Entries = 0
     THEN pc' = "err_put" /\ UNCHANGED <<wire, io_faulted, monitor, refusal>>
     ELSE \/ Request(In("GET_RES_TABLE", 0, First * EntrySize,
                        Entries * EntrySize), "bind_null", "err_put")
          \/ pc' = "err_put"      \* no memory for the table
             /\ UNCHANGED <<wire, io_faulted, monitor, refusal>>
  /\ UNCHANGED <<probe_frame, locals, heads, sink, objects>>

\* alloc_workqueue
AllocQueue ==
  /\ pc = "wq"
  /\ \/ wq' = "live" /\ pc' = "buffers"
     \/ pc' = "err_buffers" /\ UNCHANGED wq
  /\ UNCHANGED <<probe_frame, locals, heads, sink, io_faulted, buffers, drm,
                 wire, monitor, refusal>>

\* t6_alloc_head_buffers may fail half way.
AllocBuffers ==
  /\ pc = "buffers"
  /\ \/ buffers' = "all" /\ pc' = "chip"
     \/ buffers' \in {"none", "some"} /\ pc' = "err_buffers"
  /\ UNCHANGED <<probe_frame, locals, heads, sink, io_faulted, wq, drm, wire,
                 monitor, refusal>>

\* t6_chip_init, one request at a time; nothing for an empty dock.
InitChip_IgnoresConnection ==
  /\ pc = "chip"
  /\ Request(ChipInit[step],
             IF step = Len(ChipInit) THEN "drm" ELSE "chip",
             "err_buffers")
  /\ step' = IF pc' = "chip" THEN step + 1 ELSE step
  /\ UNCHANGED <<probe_frame, count, heads, sink, objects>>

InitChip ==
  /\ pc = "chip"
  /\ IF connected
     THEN Request(ChipInit[step],
                  IF step = Len(ChipInit) THEN "drm" ELSE "chip",
                  "err_buffers")
     ELSE pc' = "err_buffers" /\ UNCHANGED <<wire, io_faulted, monitor,
                                             refusal>>
  /\ step' = IF pc' = "chip" THEN step + 1 ELSE step
  /\ UNCHANGED <<probe_frame, count, heads, sink, objects>>

\* Mode configuration, connectors, planes, CRTCs, encoders; the userspace JPEG
\* devices, of which this profile has none; then drm_dev_register.
BuildDrm ==
  /\ pc = "drm"
  /\ \/ drm' = "modeset" /\ pc' = "register"
     \/ pc' = "err_buffers" /\ UNCHANGED drm
  /\ UNCHANGED <<probe_frame, locals, heads, sink, io_faulted, wq, buffers,
                 wire, monitor, refusal>>

Register ==
  /\ pc = "register"
  /\ \/ drm' = "registered" /\ pc' = "idle" /\ bound' = "yes"
     \/ pc' = "err_buffers" /\ UNCHANGED <<drm, bound>>
  /\ UNCHANGED <<module, active_probe_used, plug, intfdata, locals, refs,
                 heads, sink, io_faulted, wq, buffers, wire, refusal, attempts>>

\* err_buffers: t6_cancel_head_activity, destroy_workqueue, the buffers.
UnwindActivity_KeepsEmptyQueue ==
  /\ pc = "err_buffers" /\ pc' = "err_put"
  /\ wq' = IF buffers = "none" THEN wq ELSE "none"
  /\ buffers' = "none"
  /\ UNCHANGED <<probe_frame, locals, heads, sink, io_faulted, drm, wire,
                 monitor, refusal>>

UnwindActivity ==
  /\ pc = "err_buffers" /\ pc' = "err_put"
  /\ wq' = "none" /\ buffers' = "none"
  /\ UNCHANGED <<probe_frame, locals, heads, sink, io_faulted, drm, wire,
                 monitor, refusal>>

\* err_put, after a failure (the driver core frees the t6_device with its DRM
\* objects) or at the end of query-only mode (bound, without data).
UnwindReferences ==
  /\ pc \in {"err_put", "bind_null"} /\ pc' = "idle"
  /\ bound' = IF pc = "bind_null" THEN "yes" ELSE "no"
  /\ intfdata' = "null" /\ refs' = {}
  /\ step' = 1 /\ heads' = 0
  /\ connected' = FALSE /\ edid' = FALSE /\ io_faulted' = FALSE
  /\ drm' = "none"
  /\ UNCHANGED <<module, active_probe_used, plug, count, wq, buffers, wire,
                 refusal, attempts>>

-----------------------------------------------------------------------------
(* t6_usb_disconnect *)

\* A binding without data has nothing to undo.  Otherwise T6Head shows the
\* teardown in detail: whatever it waits for, it releases what probe built; the
\* monitor is off afterwards if it was blanked before or switched off here.
Disconnect ==
  /\ loaded /\ pc = "idle" /\ bound = "yes"
  /\ bound' = "no" /\ intfdata' = "null"
  /\ IF intfdata = "t6"
     THEN /\ wq' = "none" /\ buffers' = "none" /\ drm' = "none"
          /\ refs' = {}
          /\ monitor' \in {"off", monitor}
     ELSE UNCHANGED <<objects, refs, monitor>>
  /\ step' = 1 /\ heads' = 0
  /\ connected' = FALSE /\ edid' = FALSE /\ io_faulted' = FALSE
  /\ UNCHANGED <<module, active_probe_used, dev, pc, count, wire, refusal,
                 attempts>>

-----------------------------------------------------------------------------
Environment == Insert \/ Remove \/ Detach \/ Attach

Probe ==
  \/ ProbeRefuses \/ ProbeDescriptorOnly \/ ProbeBegins
  \/ QueryRam \/ HeadDefaults \/ QueryStatus \/ QueryEdid \/ HeadsDone
  \/ QueryCount \/ QueryTable
  \/ AllocQueue \/ AllocBuffers \/ InitChip \/ BuildDrm \/ Register
  \/ UnwindActivity \/ UnwindReferences

Next == Environment \/ Probe \/ Disconnect

Spec == Init /\ [][Next]_vars

-----------------------------------------------------------------------------
(* Properties *)

Requests ==
  [dir : {"none", "in", "out"},
   req : {"none", "GET_RAM", "GET_STATUS", "GET_EDID", "GET_RES_COUNT",
          "GET_RES_TABLE", "RESET_LO", "RESET_HI", "SET_COLOR", "SET_TIMING",
          "SET_RESOLUTION", "SET_READY", "MONITOR_CTRL", "FINALIZE"},
   value : Nat, index : Nat, size : Nat]

\* Every variable stays in its range.
TypeOK ==
  /\ loaded \in BOOLEAN /\ param \in Loads
  /\ active_probe_used \in BOOLEAN
  /\ dev \in {"absent", "foreign", "elsewhere", "ours"}
  /\ monitor \in {"off", "on"}
  /\ bound \in {"no", "yes"} /\ intfdata \in {"null", "t6"}
  /\ pc \in {"idle", "ram", "head", "status", "edid", "timings", "table",
             "bind_null", "wq", "buffers", "chip", "drm", "register",
             "err_buffers", "err_put"}
  /\ step \in 1..9 /\ count \in 0..(U32 - 1)
  /\ refs \subseteq {"udev", "dma"} /\ heads \in 0..2
  /\ connected \in BOOLEAN /\ edid \in BOOLEAN /\ io_faulted \in BOOLEAN
  /\ wq \in {"none", "live"} /\ buffers \in {"none", "some", "all"}
  /\ drm \in {"none", "modeset", "registered"}
  /\ wire \in Requests /\ refusal \in BOOLEAN /\ attempts \in Nat

\* "Permit only one active probe attempt per insertion, even if that probe
\* fails": re-enumerations, rebinds and failures never start a second one, and
\* no probe that was refused has spent the attempt.
OneAttemptPerInsertion ==
  /\ attempts <= 1
  /\ active_probe_used <=> attempts = 1

\* Descriptor-only mode sends nothing; query-only mode sends no OUT request,
\* and neither builds a queue, buffers or DRM objects, whatever fails; and no
\* mode asks, configures or switches on an output that was not selected.
ModesAreRespected ==
  /\ param.manual_only => wire = NoRequest
  /\ param.manual_only \/ param.query_only =>
       wire.dir # "out" /\ wq = "none" /\ buffers = "none" /\ drm = "none"
  /\ wire.req \in {"GET_STATUS", "SET_RESOLUTION", "SET_READY",
                   "MONITOR_CTRL"} => wire.value = Selected
  /\ wire.req = "GET_EDID" => wire.index = Selected

\* The query policy, kept apart from the code it guards, refuses none of the
\* requests that code makes: query-only mode is never cut short by it.
PolicyAdmitsOwnRequests == ~refusal

\* A read of the timing table stays inside the table the firmware announced,
\* and inside the buffer, whatever count it answers.
TableReadWithinCount ==
  wire.req = "GET_RES_TABLE" =>
    /\ wire.size \in 1..(MaxEntries * EntrySize)
    /\ wire.index + wire.size <= count * EntrySize

\* Unwinding releases what exists, all of it and nothing else.  Whenever no
\* callback runs, an interface that has no registered device has no data, for
\* disconnect and suspend to find or another driver to inherit, and holds no
\* reference, queue, buffer or DRM object, on whichever path probe or disconnect
\* came to its end; and timers are deleted and works cancelled only once
\* t6_head_defaults has set them up, on both heads.
UnwindingIsExact ==
  /\ pc = "idle" /\ drm # "registered" =>
       /\ intfdata = "null" /\ refs = {}
       /\ wq = "none" /\ buffers = "none" /\ drm = "none"
  /\ pc = "err_buffers" => heads = 2

\* What T6Head starts from and assumes of its parameters: a registered device
\* has a sink with a valid EDID, an initialised chip with its monitor on, a
\* sound transport, everything the stream needs, and no RAW option on an NV12
\* head.
RegisteredIsReady ==
  drm = "registered" =>
    /\ bound = "yes" /\ intfdata = "t6" /\ "udev" \in refs
    /\ heads = 2 /\ wq = "live" /\ buffers = "all"
    /\ connected /\ edid /\ ~io_faulted
    /\ dev = "ours" => monitor = "on"
    /\ Selected = 1 => ~param.idle_refresh /\ ~param.final_off

=============================================================================
