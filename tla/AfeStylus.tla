------------------------------- MODULE AfeStylus -------------------------------
(***************************************************************************)
(* How the service follows the frequency hopping of an active pen          *)
(* (EGoTouchService/Device/himax/HimaxAfe.cpp).                            *)
(*                                                                         *)
(* The worker drains its command queue, then reads a frame, then drains    *)
(* again.  Pen threads queue commands when the BT MCU reports a pen, the   *)
(* App queues commands of its own, and the newest pressure report is kept.  On every frame       *)
(* ProcessStylusStatus looks at the controller's status table and may      *)
(* request a switch of the frequency point: the request is pending until   *)
(* the controller confirms it or a timeout heals it, and a cooldown keeps  *)
(* requests apart.  All times are frame numbers modulo the counter's width.*)
(***************************************************************************)
EXTENDS Integers, Sequences

CONSTANTS
  Wrap,             \* 2^32 in the code: frame numbers are uint32_t
  Cooldown,         \* kCooldownFrames (120)
  PendingTimeout,   \* kPendingTimeout (360)
  PressureTimeout,  \* kBtPressureTimeout (120)
  HibernateTimeout, \* kBtHibernateTimeout (7200)
  Debounce,         \* kBtMismatchDebounce (4)
  PenTypes,         \* the pen types PenTypeInfo reports
  BtFreqs,          \* the frequencies the BT MCU reports
  TpFreqs,          \* the frequencies the controller reports
  AppTypes,         \* the types of command the App sends
  MaxQueue          \* bound of the model on the command queue

ASSUME ConstantsOK ==
  /\ Wrap \in Nat /\ Cooldown \in Nat /\ PendingTimeout \in Nat
  /\ PressureTimeout \in Nat /\ HibernateTimeout \in Nat /\ Debounce \in Nat
  /\ Cooldown < Wrap
  /\ PendingTimeout + 1 < Wrap
  /\ PenTypes \subseteq 0 .. 255
  /\ BtFreqs \subseteq 1 .. 255
  /\ TpFreqs \subseteq Nat
  /\ MaxQueue \in Nat

VARIABLES
  queue,        \* DeviceRuntime::m_cmdQueue
  phase,        \* the worker: "top", "drain" (m_mu held), "work"
  streaming,    \* m_state is streaming
  conn,         \* Chip::m_connState is Connected
  pen,          \* AfeController::m_stylus
  report,       \* PenPressureReader::m_stats, its frequencies
  sinceSwitch,  \* history: frames since the newest switch ended, up to Cooldown
  silent        \* history: frames of a pen since the newest BT report, capped

runVars == <<phase, streaming, conn>>
history == <<sinceSwitch, silent>>
vars == <<queue, runVars, pen, report, history>>

FrameNumbers == 0 .. Wrap - 1
Freqs        == 0 .. 255

\* StylusState, without the fields nothing depends on: switchPolicy is 2
\* exactly while the pen is connected.
Pens ==
  [connected : BOOLEAN, freq1Cmd : Freqs, freqIdx : {0, 1},
   switchTargetIdx : {0, 1}, switchReqPending : BOOLEAN,
   frameCounter : FrameNumbers, switchReqFrame : FrameNumbers,
   lastSwitchFrame : FrameNumbers, btFreq1 : Freqs, btActive : BOOLEAN,
   btLastSeenFrame : FrameNumbers, btPressureCleared : BOOLEAN,
   btMismatchFrame : FrameNumbers, btMismatchActive : BOOLEAN]

\* StylusState{}
NoPen ==
  [connected |-> FALSE, freq1Cmd |-> 0, freqIdx |-> 0,
   switchTargetIdx |-> 0, switchReqPending |-> FALSE,
   frameCounter |-> 0, switchReqFrame |-> 0,
   lastSwitchFrame |-> 0, btFreq1 |-> 0, btActive |-> FALSE,
   btLastSeenFrame |-> 0, btPressureCleared |-> FALSE,
   btMismatchFrame |-> 0, btMismatchActive |-> FALSE]

\* What the status table says: the shift is done, the frequency the controller
\* scans at (0: unknown), and which frequency point is too noisy.
Statuses == [freqDone : BOOLEAN, tpFreq1 : TpFreqs,
             noisy : {"none", "f0", "f1"}]

\* The commands that change StylusState or switch the frequency, and who queued
\* them: the service itself or the App.
Sources == {"SystemPolicy", "External"}

Commands ==
  [type : {"InitStylus", "DisconnectStylus", "ClearStatus", "EnableFreqShift"},
   param : {0}, source : Sources]
  \union [type : {"SetStylusId"}, param : PenTypes, source : Sources]
  \union [type : {"ForceToFreqPoint"}, param : {0, 1}, source : Sources]

PolicyCmd(type, param) ==
  [type |-> type, param |-> param, source |-> "SystemPolicy"]

\* What a pressure report says: the first frequency, and whether any of the two
\* is there; the second one matters for nothing else.
Reports == {r \in [freq1 : BtFreqs \union {0}, heard : BOOLEAN] :
              r.freq1 # 0 => r.heard}

NoReport == [freq1 |-> 0, heard |-> FALSE]

TypeOK ==
  /\ queue \in Seq(Commands)
  /\ phase \in {"top", "drain", "work"}
  /\ streaming \in BOOLEAN
  /\ conn \in BOOLEAN
  /\ pen \in Pens
  /\ report \in Reports
  /\ sinceSwitch \in 0 .. Cooldown
  /\ silent \in 0 .. HibernateTimeout + 1

Init ==
  /\ queue = <<>>
  /\ phase = "top"
  /\ streaming = FALSE
  /\ conn = FALSE
  /\ pen = NoPen
  /\ report = NoReport
  /\ sinceSwitch = Cooldown
  /\ silent = 0

-----------------------------------------------------------------------------
(* The pen threads: PenEventBridge, PenPressureReader, and the App.        *)

\* DeviceRuntime::SubmitCommand waits for m_mu, which DrainCommands holds.
Submit(c) ==
  /\ phase # "drain"
  /\ Len(queue) < MaxQueue
  /\ queue' = Append(queue, c)
  /\ UNCHANGED <<runVars, pen, report, history>>

\* PenConnStatus, PenTypeInfo and PenFreqJump.
PenEvent ==
  \/ \E type \in {"InitStylus", "DisconnectStylus", "EnableFreqShift"} :
       Submit(PolicyCmd(type, 0))
  \/ \E t \in PenTypes : Submit(PolicyCmd("SetStylusId", t))

\* IpcCommand::AfeCommand queues whatever command the App sends.
AppCommand ==
  \E c \in Commands : c.source = "External" /\ c.type \in AppTypes /\ Submit(c)

\* A 'U' packet: the newest report is kept until the next one.  The MCU may
\* report no frequency at all, or the second one only.
PressureReport(r) ==
  /\ report' = r
  /\ silent' = 0
  /\ UNCHANGED <<queue, runVars, pen, sinceSwitch>>

-----------------------------------------------------------------------------
(* The worker between frames.                                              *)

\* The top of WorkerMain's loop; consuming a stop reason clears the queue
\* and leaves streaming.
BeginDrain ==
  /\ phase = "top"
  /\ phase' = "drain"
  /\ \/ UNCHANGED <<queue, streaming>>
     \/ queue' = <<>> /\ streaming' = FALSE
  /\ UNCHANGED <<conn, pen, report, history>>

\* The frequency table: f1 of pen type id, the default pen's if unknown.
Freq1Cmd(id) == IF id \in 0 .. 3 THEN 24 + id ELSE 24

InitStylus(p) == [p EXCEPT !.connected = TRUE, !.freqIdx = 0,
                           !.switchTargetIdx = 0, !.switchReqPending = FALSE]

\* What a command does to the pen once the controller is connected; the bus
\* write comes first and may fail, ClearStatus and SetStylusId write nothing.
Executed(c, p) ==
  CASE c.type = "InitStylus"       -> {p, InitStylus(p)}
    [] c.type = "DisconnectStylus" -> {NoPen}
    [] c.type = "SetStylusId"      -> {[p EXCEPT !.freq1Cmd = Freq1Cmd(c.param)]}
    [] c.type = "ClearStatus"      -> {[p EXCEPT !.switchReqPending = FALSE]}
    [] OTHER                       -> {p}

\* Fault: disconnecting a pen only clears its connected flag.
DrainKeepsPen ==
  /\ phase = "drain"
  /\ queue # <<>>
  /\ queue' = Tail(queue)
  /\ IF conn /\ Head(queue).type = "DisconnectStylus"
       THEN pen' = [pen EXCEPT !.connected = FALSE]
       ELSE pen' \in IF conn THEN Executed(Head(queue), pen) ELSE {pen}
  /\ UNCHANGED <<runVars, report, history>>

DrainCommand ==
  /\ phase = "drain"
  /\ queue # <<>>
  /\ queue' = Tail(queue)
  /\ pen' \in IF conn THEN Executed(Head(queue), pen) ELSE {pen}
  /\ UNCHANGED <<runVars, report, history>>

\* Fault: one command is executed for each frame.
DrainOne ==
  /\ phase = "drain"
  /\ phase' = "work"
  /\ UNCHANGED <<queue, streaming, conn, pen, report, history>>

DrainDone ==
  /\ phase = "drain"
  /\ queue = <<>>
  /\ phase' = "work"
  /\ UNCHANGED <<queue, streaming, conn, pen, report, history>>

\* OnReady or OnRecover: Chip::Init succeeds, with a fresh StylusState.
InitChip ==
  /\ phase = "work"
  /\ ~streaming
  /\ phase' = "top"
  /\ streaming' = TRUE
  /\ conn' = TRUE
  /\ pen' = NoPen
  /\ UNCHANGED <<queue, report, history>>

\* OnSuspend's HoldReset leaves the StylusState alone.
HoldReset ==
  /\ phase = "work"
  /\ ~streaming
  /\ phase' = "top"
  /\ conn' = FALSE
  /\ UNCHANGED <<queue, streaming, pen, report, history>>

\* GetFrame timed out or failed; the third failure leaves streaming.
FrameFails ==
  /\ phase = "work"
  /\ streaming
  /\ phase' = "top"
  /\ streaming' \in BOOLEAN
  /\ UNCHANGED <<queue, conn, pen, report, history>>

-----------------------------------------------------------------------------
(* A frame: UpdateBtHeartbeat, then ProcessStylusStatus.                   *)

\* uint32_t: the frame after n, and the frames from n to m.
NextFrame(n) == IF n + 1 = Wrap THEN 0 ELSE n + 1
Age(m, n)    == IF m >= n THEN m - n ELSE m - n + Wrap

\* UpdateBtHeartbeat with the newest report, whenever that came in; only a
\* report of no frequency at all does not count.
Heartbeat(p) ==
  IF ~report.heard THEN p
  ELSE [p EXCEPT !.btFreq1 = report.freq1, !.btActive = TRUE,
                 !.btLastSeenFrame = p.frameCounter,
                 !.btPressureCleared = FALSE]

Counted(p) == [p EXCEPT !.frameCounter = NextFrame(p.frameCounter)]

\* The BT heartbeat times out.
SilenceChecked(p) ==
  LET btAge == Age(p.frameCounter, p.btLastSeenFrame) IN
  IF ~p.btActive THEN p
  ELSE [p EXCEPT !.btPressureCleared = @ \/ btAge > PressureTimeout,
                 !.btActive = btAge <= HibernateTimeout]

\* The controller confirms the switch.
Confirmed(p, s) ==
  IF s.freqDone /\ p.switchReqPending
    THEN [p EXCEPT !.freqIdx = p.switchTargetIdx, !.switchReqPending = FALSE,
                   !.lastSwitchFrame = p.frameCounter,
                   !.btMismatchActive = FALSE]
    ELSE p

\* Fault: the age of a pending request is not checked.
NeverExpired(p) == p

\* A pending request heals itself when it is too old.
Expired(p) ==
  IF Age(p.frameCounter, p.switchReqFrame) > PendingTimeout
    THEN [p EXCEPT !.switchReqPending = FALSE,
                   !.lastSwitchFrame = p.frameCounter]
    ELSE p

\* Fault: the cooldown is not looked at.
NeverCooling(p) == FALSE /\ p.connected

Cooling(p) ==
  /\ p.lastSwitchFrame # 0
  /\ Age(p.frameCounter, p.lastSwitchFrame) < Cooldown

\* Fault: the target is the index the pen is at, plus one.
RequestedNext(p, idx) ==
  [p EXCEPT !.switchTargetIdx = p.freqIdx + 1, !.switchReqPending = TRUE,
            !.switchReqFrame = p.frameCounter]

Requested(p, idx) ==
  [p EXCEPT !.switchTargetIdx = idx, !.switchReqPending = TRUE,
            !.switchReqFrame = p.frameCounter]

\* BT and controller disagree on the frequency, and have for long enough.
Comparable(p, s) == p.btActive /\ s.tpFreq1 # 0 /\ p.btFreq1 # 0
Mismatch(p, s)   == Comparable(p, s) /\ s.tpFreq1 # p.btFreq1
MismatchDue(p, s) ==
  /\ Mismatch(p, s)
  /\ p.btMismatchActive
  /\ Age(p.frameCounter, p.btMismatchFrame) > Debounce

\* The debounce otherwise: a mismatch starts it, an agreement ends it.
Debounced(p, s) ==
  CASE Mismatch(p, s) /\ ~p.btMismatchActive ->
         [p EXCEPT !.btMismatchActive = TRUE,
                   !.btMismatchFrame = p.frameCounter]
    [] Comparable(p, s) /\ s.tpFreq1 = p.btFreq1 ->
         [p EXCEPT !.btMismatchActive = FALSE]
    [] OTHER -> p

NoiseDue(p, s) ==
  \/ s.noisy = "f0" /\ p.freqIdx # 1
  \/ s.noisy = "f1" /\ p.freqIdx # 0

MismatchTarget(p) == IF p.btFreq1 = p.freq1Cmd THEN 1 ELSE 0
NoiseTarget(s)    == IF s.noisy = "f0" THEN 1 ELSE 0

\* The pen when the confirmation and the heartbeat have been looked at.
Looked(p, s) == Confirmed(SilenceChecked(Counted(Heartbeat(p))), s)

Processed(p, s) ==
  CASE p.switchReqPending -> Expired(p)
    [] ~p.switchReqPending /\ Cooling(p) -> p
    [] ~p.switchReqPending /\ ~Cooling(p) /\ MismatchDue(p, s) ->
         Requested([p EXCEPT !.btMismatchActive = FALSE], MismatchTarget(p))
    [] ~p.switchReqPending /\ ~Cooling(p) /\ ~MismatchDue(p, s) ->
         IF NoiseDue(p, s) THEN Requested(Debounced(p, s), NoiseTarget(s))
                           ELSE Debounced(p, s)

\* From p to q a switch was requested, or the outstanding one ended.
Requests(p, q) == ~p.switchReqPending /\ q.switchReqPending
Ends(p, q)     == p.switchReqPending /\ ~q.switchReqPending

\* Counting for the histories.
UpTo(limit, n) == IF n < limit THEN n + 1 ELSE limit

\* A frame that finds s in the status table.  The table is the master's: a frame
\* of the slave alone finds what the frame before found.
Frame(s) ==
  LET p == Looked(pen, s)
      q == Processed(p, s)
  IN
  /\ phase = "work"
  /\ streaming
  /\ phase' = "top"
  /\ \/ ~pen.connected /\ UNCHANGED <<pen, queue, history>>
     \/ /\ pen.connected
        /\ silent' = UpTo(HibernateTimeout + 1, silent)
        /\ pen' = q
        /\ queue' = IF Requests(p, q)
                      THEN Append(queue, PolicyCmd("ForceToFreqPoint",
                                                   q.switchTargetIdx))
                      ELSE queue
        /\ sinceSwitch' = IF Ends(pen, p) \/ Ends(p, q)
                            THEN 0 ELSE UpTo(Cooldown, sinceSwitch)
  /\ UNCHANGED <<streaming, conn, report>>

-----------------------------------------------------------------------------

Next ==
  \/ PenEvent \/ AppCommand
  \/ \E r \in Reports : PressureReport(r)
  \/ BeginDrain \/ DrainCommand \/ DrainDone
  \/ InitChip \/ HoldReset \/ FrameFails
  \/ \E s \in Statuses : Frame(s)

Spec == Init /\ [][Next]_vars

-----------------------------------------------------------------------------
(* Properties.                                                             *)

\* Switch requests are at least Cooldown frames behind the end of the switch
\* before ("cooldown = 1000ms", StylusState.h:22), also while the frame counter
\* wraps; frame 0 means that there was none.
RequestsAreSpaced ==
  [][Requests(pen, pen') =>
       sinceSwitch' >= Cooldown \/ pen'.lastSwitchFrame = 0]_vars

\* A request whose command failed or that the controller never confirms does
\* not block later switches: it is healed within the timeout.
PendingHeals ==
  pen.switchReqPending =>
    Age(pen.frameCounter, pen.switchReqFrame) <= PendingTimeout

\* A pen that connects after a disconnection, a suspend or a recovery starts
\* without the switches and timers of the pen before; only the frequency pair
\* may be bound before it connects.
NewPenIsFresh == ~pen.connected => [pen EXCEPT !.freq1Cmd = 0] = NoPen

\* The switch command that ProcessStylusStatus asked for.
OwnSwitch(c) == c.type = "ForceToFreqPoint" /\ c.source = "SystemPolicy"

\* Until a drain begins, the service's own switch command is the only one of its
\* kind in the queue, belongs to the request that is pending, and is for the
\* point that the confirmation will adopt.  The App may queue switch commands
\* too; they belong to no request.
SwitchCommandIsCurrent ==
  phase # "drain" =>
    \A i \in 1 .. Len(queue) :
      OwnSwitch(queue[i]) =>
        /\ phase = "top"
        /\ pen.switchReqPending
        /\ queue[i].param = pen.switchTargetIdx
        /\ \A j \in 1 .. Len(queue) : OwnSwitch(queue[j]) => j = i

\* "BT MCU heartbeat timeout (60s)" (HimaxAfe.cpp:265): a BT MCU that has been
\* silent for longer than the timeout is not taken for active.
SilenceIsNoticed == silent > HibernateTimeout => ~pen.btActive
==============================================================================
