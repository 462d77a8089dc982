----------------------------- MODULE UsbReports -----------------------------
(***************************************************************************)
(* What the firmware takes from the host and answers: the parser of        *)
(* ffb_Task, which cuts the bytes of the OUT endpoint into reports, and    *)
(* the control requests, which are served in an interrupt between any two  *)
(* of its steps (lufa-iface.c), with the USB events that start the stream  *)
(* of bytes afresh.                                                        *)
(*                                                                         *)
(* The stream is the reports the host has sent since the last              *)
(* configuration; bytes are positions in it.  Whether the pool has a slot, *)
(* and which, is open (FfbPool, FfbIsr); handlers matter as far as they    *)
(* select another endpoint or change what a control request answers.       *)
(***************************************************************************)
EXTENDS ReportLayout, FiniteSetsExt

CONSTANTS
  Ids,          \* the effect block indices the pool can give out
  Kinds,        \* what this host sends: reports, driver pairs
  MaxReports,   \* bound: reports between two configurations
  EpSize,       \* FFB_EPSIZE, the bytes of one packet
  BufSize       \* sizeof(buf) in ffb_Task

DriverPair == "DriverPair"    \* two bytes that are no report ("funny" commands)
AllKinds == Kinds \cup {DriverPair}

ASSUME UsbAssumption ==
  /\ Ids \subseteq Nat \ {0} /\ Kinds \subseteq ToSet(OutReports) \cup {DriverPair}
  /\ {MaxReports, EpSize} \subseteq Nat \ {0} /\ BufSize \in Nat /\ BufSize > 2

\* How many bytes the host sends, and how many ffb_Task wants behind the id.
SentBytes == [k \in AllKinds |-> IF k = DriverPair THEN 2 ELSE Bytes(Described[k])]

\* Mutant of WaitFor: the id is counted twice.
WaitForAll == [k \in AllKinds |-> IF k = DriverPair THEN 1 ELSE Bytes(Stored[k])]

WaitFor == [k \in AllKinds |-> IF k = DriverPair THEN 1 ELSE Bytes(Stored[k]) - 1]

Overrun == 3      \* error_loop(3) of ffb_Task
PoolFull == 6     \* error_loop(6) of allocEffectBlock

None == [eid |-> 0, status |-> "none"]    \* blockLoadReport after ffb_init

VARIABLES
  usb,          \* USB_DeviceState
  configOnce,   \* usb_configOnce
  connected,    \* devConnected: the wheel has been found
  sent,         \* the reports the host has sent
  written,      \* bytes of them that are or were in the endpoint
  full,         \* the bank of the OUT endpoint holds a packet
  selected,     \* the selected endpoint: "out", "in" or "control"
  place,        \* where ffb_Task is: "idle", "loop" over the packet, "rest" of a report
  at,           \* bytes read
  start,        \* where the report in buf begins
  kind,         \* what its id says it is (start and kind mean nothing outside a report)
  need,         \* wait_for_n: bytes still to read
  total,        \* total_read
  blockLoad,    \* gDevice.blockLoadReport
  halted,       \* the code error_loop blinks, or 0
  done,         \* history: reports of sent that are dealt with
  disturbed,    \* history: the stream was broken inside a report
  outcome       \* history: what the last create led to, while the host may rely on it

device == <<usb, configOnce, connected>>
endpoint == <<written, full, selected>>
parser == <<place, at, start, kind, need, total>>
control == <<blockLoad, outcome>>
vars == <<device, sent, endpoint, parser, control, halted, done, disturbed>>

Init ==
  /\ usb = "off" /\ configOnce = FALSE /\ connected = FALSE
  /\ sent = <<>> /\ written = 0 /\ full = FALSE /\ selected = "in"
  /\ place = "idle" /\ at = 0 /\ start = 0 /\ kind = DriverPair /\ need = 0 /\ total = 0
  /\ blockLoad = None /\ outcome = None
  /\ halted = 0 /\ done = 0 /\ disturbed = FALSE

Running == halted = 0

\* Where report i of the stream begins.
Begin(i) == SumsOf([j \in DOMAIN sent |-> SentBytes[sent[j]]])[i - 1]
Length == Begin(Len(sent) + 1)
Boundaries == {Begin(i) : i \in 1 .. Len(sent) + 1}
Unread == written - at

\* A new configuration, or a reset of the bus, empties the endpoint.  It may
\* come while ffb_Task is in the middle of the old stream.
StreamBegins ==
  /\ sent' = <<>> /\ written' = 0 /\ full' = FALSE
  /\ at' = 0 /\ start' = 0 /\ done' = 0
  /\ disturbed' = (place # "idle")
  /\ outcome' = None

-----------------------------------------------------------------------------
(* The bus, and the wheel at the game port.                                *)

\* EVENT_USB_Device_Connect
Attach ==
  /\ Running /\ usb = "off"
  /\ usb' = "default" /\ configOnce' = FALSE
  /\ UNCHANGED <<connected, sent, endpoint, parser, control, halted, done, disturbed>>

SetConfiguration ==
  /\ Running /\ usb # "off"
  /\ usb' = "configured" /\ StreamBegins
  /\ UNCHANGED <<configOnce, connected, selected, place, kind, need, total, blockLoad,
                 halted>>

\* EVENT_USB_Device_Disconnect only logs; nothing says that a bus reset is none.
LeaveBus ==
  /\ Running /\ usb = "configured"
  /\ usb' \in {"default", "off"} /\ StreamBegins
  /\ UNCHANGED <<configOnce, connected, selected, place, kind, need, total, blockLoad,
                 halted>>

\* connectDevice(1, id); nobody calls it with 0xFF.
WheelFound ==
  /\ Running /\ ~connected
  /\ connected' = TRUE
  /\ UNCHANGED <<usb, configOnce, sent, endpoint, parser, control, halted, done, disturbed>>

-----------------------------------------------------------------------------
(* The host's side of the OUT endpoint.                                    *)

\* A driver puts a report into its queue.  A device control may be a reset,
\* and then the answer to an earlier create is gone.
HostSubmits(k) ==
  /\ Running /\ usb = "configured" /\ Len(sent) < MaxReports
  /\ sent' = Append(sent, k)
  /\ outcome' = IF k = "DeviceControl" THEN None ELSE outcome
  /\ UNCHANGED <<device, endpoint, parser, blockLoad, halted, done, disturbed>>

\* A packet: some whole reports, or as much as the endpoint takes.
HostPacket ==
  /\ Running /\ usb = "configured" /\ ~full /\ written < Length
  /\ written' \in {b \in Boundaries : written < b /\ b <= written + EpSize}
                  \cup IF written + EpSize <= Length THEN {written + EpSize} ELSE {}
  /\ full' = TRUE
  /\ UNCHANGED <<device, sent, selected, parser, control, halted, done, disturbed>>

-----------------------------------------------------------------------------
(* ffb_Task, which taskLoop calls when the wheel has been found.           *)

InTask(p) == Running /\ connected /\ place = p

\* The first pass with a configured device configures it once more, which
\* empties the endpoint: what the host has sent until then is gone.
FirstPass ==
  /\ InTask("idle") /\ usb = "configured" /\ ~configOnce
  /\ configOnce' = TRUE
  /\ full' = FALSE /\ at' = written
  /\ done' \in {i \in 0 .. Len(sent) : Begin(i + 1) <= written
                                       /\ (i < Len(sent) => written < Begin(i + 2))}
  /\ disturbed' = (disturbed \/ written \notin Boundaries)
  /\ UNCHANGED <<usb, connected, sent, written, selected, place, start, kind, need, total,
                 control, halted>>

\* A pass that finds a packet; PidStateChanged comes before it.
TaskPass ==
  /\ InTask("idle") /\ usb = "configured" /\ configOnce
  /\ full
  /\ selected' = "out" /\ place' = "loop"
  /\ UNCHANGED <<device, sent, written, full, at, start, kind, need, total, control, halted,
                 done, disturbed>>

\* The loop over the packet ends, and ClearOUT hands the selected endpoint
\* back.  If a handler has selected the IN endpoint (PidStatus follows what
\* happens there), the packet stays and the next pass goes on with it.
LoopEnd ==
  /\ InTask("loop")
  /\ selected # "out" \/ Unread = 0 \/ total >= BufSize
  /\ place' = "idle" /\ total' = 0
  /\ IF selected = "out" THEN full' = FALSE /\ at' = written ELSE UNCHANGED <<full, at>>
  /\ UNCHANGED <<device, sent, written, selected, start, kind, need, control, halted, done,
                 disturbed>>

\* Mutant of TotalRead: the count goes on from the report before.
TotalReadOn == total + 1

\* total_read behind a report id: reports are stored at the beginning of buf.
TotalRead == 1

\* What the byte at position at is read as.  Inside a report it may be anything.
ReadsAs == IF at \in Boundaries
           THEN {sent[i] : i \in {j \in 1 .. Len(sent) : Begin(j) = at}}
           ELSE AllKinds

ReadId ==
  /\ InTask("loop") /\ selected = "out" /\ Unread > 0 /\ total < BufSize
  /\ start' = at /\ at' = at + 1 /\ kind' \in ReadsAs
  /\ total' = TotalRead
  /\ IF kind' # DriverPair /\ WaitFor[kind'] + total' >= BufSize
     THEN halted' = Overrun /\ UNCHANGED <<place, need>>
     ELSE place' = "rest" /\ need' = WaitFor[kind'] /\ UNCHANGED halted
  /\ UNCHANGED <<device, sent, endpoint, control, done, disturbed>>

\* Mutant of Available: the transfer is taken for complete at the packet's end.
AvailableAll == need

\* How much of the rest of the report one transfer can read.
Available == Min({need, Unread})

ReadRest ==
  /\ InTask("rest") /\ need > 0 /\ full /\ Unread > 0
  /\ at' = at + Available /\ need' = need - Available
  /\ UNCHANGED <<device, sent, endpoint, place, start, kind, total, control, halted, done,
                 disturbed>>

\* The library clears the bank and waits for the next packet ...
NextBank ==
  /\ InTask("rest") /\ need > 0 /\ full /\ Unread = 0
  /\ full' = FALSE
  /\ UNCHANGED <<device, sent, written, selected, parser, control, halted, done, disturbed>>

\* ... and gives up after 100 ms, or when the device is no longer configured.
\* Its error is not looked at: the report is handled with what buf has.
GiveUp ==
  /\ InTask("rest") /\ need > 0 /\ ~full
  /\ need' = 0 /\ disturbed' = TRUE /\ outcome' = None
  /\ UNCHANGED <<device, sent, endpoint, place, at, start, kind, total, blockLoad,
                 halted, done>>

\* A report is there, and is handled.  Effect operations and device controls
\* may start or stop an effect, which selects the IN endpoint.
Handle ==
  /\ InTask("rest") /\ need = 0
  /\ place' = "loop" /\ total' = total + WaitFor[kind]
  /\ done' = IF ~disturbed THEN done + 1 ELSE done
  /\ selected' \in IF kind \in {"EffectOperation", "DeviceControl"} THEN {"in", selected}
                   ELSE {selected}
  /\ \/ UNCHANGED blockLoad
     \/ kind = "DeviceControl" /\ blockLoad' = None
  /\ start' = 0 /\ kind' = DriverPair
  /\ UNCHANGED <<device, sent, written, full, at, need, halted, disturbed, outcome>>

-----------------------------------------------------------------------------
(* The control endpoint: an interrupt between any two steps of the above.  *)

Requested == Running /\ usb = "configured"

\* A reset the host has asked for may still come and take the answer away.
ResetAhead == disturbed \/ \E i \in done + 1 .. Len(sent) : sent[i] = "DeviceControl"

\* What Get Report sends for Block Load, at any time; Create New Effect sends it
\* too, unasked.  The other requests change nothing.
BlockLoadReport == blockLoad

CreateSupported(e) ==
  /\ Requested
  /\ blockLoad' = [eid |-> e, status |-> "success"]
  /\ outcome' = IF ResetAhead THEN None ELSE blockLoad'
  /\ UNCHANGED <<device, sent, endpoint, parser, halted, done, disturbed>>

\* The status Full is never sent: allocEffectBlock does not come back.  (The
\* code blinked is another one, 7, when a parameter block is missing.)
CreateWhenFull ==
  /\ Requested
  /\ halted' = PoolFull
  /\ UNCHANGED <<device, sent, endpoint, parser, control, done, disturbed>>

\* Mutant of Refused: the status is left as it was.
RefusedSilently == blockLoad

\* An effect type that is not supported: the index of the effect before stays.
Refused == [blockLoad EXCEPT !.status = "error"]

CreateUnsupported ==
  /\ Requested
  /\ blockLoad' = Refused
  /\ outcome' = IF ResetAhead THEN None ELSE [eid |-> 0, status |-> "error"]
  /\ UNCHANGED <<device, sent, endpoint, parser, halted, done, disturbed>>

-----------------------------------------------------------------------------

Bus == Attach \/ SetConfiguration \/ LeaveBus \/ WheelFound

Host == HostPacket \/ \E k \in Kinds : HostSubmits(k)

\* A step of ffb_Task.
Step ==
  \/ FirstPass \/ TaskPass \/ LoopEnd
  \/ ReadId \/ ReadRest \/ NextBank \/ GiveUp \/ Handle

ControlRequest ==
  \/ \E e \in Ids : CreateSupported(e)
  \/ CreateWhenFull \/ CreateUnsupported

Next == Bus \/ Host \/ Step \/ ControlRequest

\* loop() comes round, each of its waits ends, and a configured host controller
\* delivers the packets it has at the polling interval of the endpoint.
Spec == Init /\ [][Next]_vars /\ WF_vars(Step) /\ WF_vars(HostPacket)

-----------------------------------------------------------------------------

Loads == [eid : Ids \cup {0}, status : {"none", "success", "error"}]

\* Every variable of the parser, the endpoint and the control requests is in
\* its range; nothing is read that was not written.
TypeOK ==
  /\ usb \in {"off", "default", "configured"}
  /\ configOnce \in BOOLEAN /\ connected \in BOOLEAN
  /\ sent \in Seq(Kinds) /\ Len(sent) <= MaxReports
  /\ written \in 0 .. Length /\ at \in 0 .. written /\ full \in BOOLEAN
  /\ selected \in {"in", "out"} /\ place \in {"idle", "loop", "rest"}
  /\ start \in Nat /\ kind \in AllKinds /\ need \in 0 .. BufSize /\ total \in 0 .. BufSize
  /\ blockLoad \in Loads /\ outcome \in Loads
  /\ halted \in {0, Overrun, PoolFull} /\ done \in 0 .. Len(sent) /\ disturbed \in BOOLEAN

\* A report is given to its handler (ffb_handleSetReport) whole, as what it is,
\* with each field where the handler's structure has it, each report once and
\* in the order the host sent them - however the packets cut them, whatever
\* endpoint the handlers before it left selected, unless the bus was lost or
\* a packet came too late in the middle of a report.
HandledAsWritten ==
  place = "rest" /\ need = 0 /\ ~disturbed =>
    /\ done < Len(sent) /\ kind = sent[done + 1]
    /\ start = Begin(done + 1) /\ at = Begin(done + 2)
    /\ LayoutsAgree

\* The block load report the host is given (sendControlStream) tells of its
\* last create, and of no other: the same status, and on success the index
\* just granted.  Only a Device Control reset takes the answer away.
AnswersLastCreate ==
  outcome # None /\ ~ResetAhead =>
    /\ BlockLoadReport.status = outcome.status
    /\ outcome.status = "success" => BlockLoadReport.eid = outcome.eid

\* With a wheel, on a bus that stays configured, every report is handled in the
\* end: the loop over a packet (lufa-iface.c) loses none, no report overruns
\* the buffer, and a packet left over behind an IN endpoint is taken up again.
\* Excepted are the reports dropped by the second configuration of FirstPass.
EveryReportHandled ==
  <>[](connected /\ usb = "configured" /\ halted # PoolFull) =>
    \A i \in 1 .. MaxReports : []<>(Len(sent) >= i => done >= i \/ disturbed)

=============================================================================
