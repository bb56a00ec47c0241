------------------------------ MODULE ChipFrame ------------------------------
(***************************************************************************)
(* The touch controller as the worker drives it (HimaxChip.cpp): bring-up  *)
(* step by step, the frame loop with its interleaving of master and slave  *)
(* and its idle mode, and the ways down, HoldReset and Deinit; against the *)
(* monitor's thread that cancels a pending read to put it to sleep.        *)
(*                                                                         *)
(* Only the worker touches the chip, so an operation is one step unless it *)
(* waits for the device: a read that is pending may be cancelled, and what *)
(* comes between two reads may see a new stop request.  Every access to a  *)
(* device may fail.                                                        *)
(***************************************************************************)
EXTENDS Naturals, Sequences

CONSTANTS
  IdleThreshold,  \* kIdleEntryThreshold (600)
  MaxAttempts     \* how often Ioctl tries (10)

ASSUME ConstantsOK ==
  /\ IdleThreshold \in Nat \ {0}
  /\ MaxAttempts \in Nat \ {0}

VARIABLES
  line,          \* the reset line is high
  selected,      \* devices whose raw output Init selected and started
  open,          \* devices whose frame channel is open
  policy,        \* the read timeout set for each device
  up,            \* Init completed and nothing reset the controller since
  conn,          \* m_connState is Connected
  afeMode,       \* afe_mode
  phase,         \* DeviceRuntime::m_state
  needReset,     \* DeviceRuntime::m_needSuspendDeinit
  pc,            \* where the worker is
  step,          \* how far Init has got
  reading,       \* the device whose frame is being read
  pending,       \* its read is pending
  cancelled,     \* CancelIoEx came while it was
  tries,         \* attempts that failed
  got,           \* devices read so far in this GetFrame
  odd,           \* m_frameCount is odd (2^32 is even: it may wrap)
  stylusActive,  \* m_stylusActive
  zeroFrames,    \* m_zeroFrameCount
  finger,        \* back_data shows a finger
  stylus,        \* back_data shows a pen
  stop,          \* m_stopReason is ScreenOff
  mon,           \* the monitor's thread: "idle", "store"
  masterAge,     \* history: frames since the master part was read, up to 2
  fresh,         \* history: no frame since Init began
  quiet,         \* history: frames without input in a row, up to IdleThreshold
  late           \* history: frames since a stored stop request, up to 2

hwVars    == <<line, selected, open, policy, up>>
readVars  == <<reading, pending, cancelled, tries, got>>
frameVars == <<odd, stylusActive, zeroFrames, finger, stylus>>
history   == <<masterAge, fresh, quiet, late>>
vars == <<hwVars, conn, afeMode, phase, needReset, pc, step, readVars,
          frameVars, stop, mon, history>>

Devs == {"master", "slave"}

\* Chip::Init: the steps that matter here, each with the register accesses
\* before it (the reset comes from hx_hw_reset_ahb_intf and from hx_sense_on).
InitSteps ==
  <<"assertReset", "releaseReset", "assertReset", "releaseReset",
    "selectMaster", "selectSlave", "openMaster", "openSlave",
    "policyMaster", "policySlave", "connect">>

TypeOK ==
  /\ line \in BOOLEAN
  /\ selected \subseteq Devs
  /\ open \subseteq Devs
  /\ policy \in [Devs -> {"none", "normal", "idle"}]
  /\ up \in BOOLEAN
  /\ conn \in BOOLEAN
  /\ afeMode \in {"Normal", "Idle"}
  /\ phase \in {"ready", "streaming", "recover", "suspend", "quit"}
  /\ needReset \in BOOLEAN
  /\ pc \in {"top", "work", "init", "read", "done",
             "hold", "senseOff", "close"}
  /\ step \in 1 .. Len(InitSteps)
  /\ reading \in Devs
  /\ pending \in BOOLEAN
  /\ cancelled \in BOOLEAN
  /\ tries \in 0 .. MaxAttempts - 1
  /\ got \subseteq Devs
  /\ odd \in BOOLEAN
  /\ stylusActive \in BOOLEAN
  /\ zeroFrames \in 0 .. IdleThreshold - 1
  /\ finger \in BOOLEAN
  /\ stylus \in BOOLEAN
  /\ stop \in BOOLEAN
  /\ mon \in {"idle", "store"}
  /\ masterAge \in 0 .. 2
  /\ fresh \in BOOLEAN
  /\ quiet \in 0 .. IdleThreshold
  /\ late \in 0 .. 2

Init ==
  /\ line = TRUE
  /\ selected = {}
  /\ open = {}
  /\ policy = [d \in Devs |-> "none"]
  /\ up = FALSE
  /\ conn = FALSE
  /\ afeMode = "Normal"
  /\ phase = "ready"
  /\ needReset = FALSE
  /\ pc = "top"
  /\ step = 1
  /\ reading = "slave"
  /\ pending = FALSE
  /\ cancelled = FALSE
  /\ tries = 0
  /\ got = {}
  /\ odd = FALSE
  /\ stylusActive = FALSE
  /\ zeroFrames = 0
  /\ finger = TRUE   \* back_data is zero: neither coordinate is 0xFF
  /\ stylus = TRUE
  /\ stop = FALSE
  /\ mon = "idle"
  /\ masterAge = 2
  /\ fresh = TRUE
  /\ quiet = 0
  /\ late = 0

-----------------------------------------------------------------------------
(* The monitor's thread and the rest of the runtime.                       *)

UpTo(limit, n) == IF n < limit THEN n + 1 ELSE limit

\* A display-off event: CancelPendingFrameRead, then the stop reason.
SleepCancel ==
  /\ mon = "idle"
  /\ mon' = "store"
  /\ cancelled' = (cancelled \/ pending)
  /\ UNCHANGED <<hwVars, conn, afeMode, phase, needReset, pc, step, reading,
                 pending, tries, got, frameVars, stop, history>>

SleepStore ==
  /\ mon = "store"
  /\ mon' = "idle"
  /\ stop' = TRUE
  /\ UNCHANGED <<hwVars, conn, afeMode, phase, needReset, pc, step, readVars,
                 frameVars, history>>

\* A display-on event: SetState(ready).
Wake ==
  /\ mon = "idle"
  /\ phase = "suspend"
  /\ phase' = "ready"
  /\ UNCHANGED <<hwVars, conn, afeMode, needReset, pc, step, readVars,
                 frameVars, stop, mon, history>>

\* Start() after the worker returned.
Restart ==
  /\ pc = "top"
  /\ phase = "quit"
  /\ phase' = "ready"
  /\ stop' = FALSE
  /\ late' = 0
  /\ needReset' = FALSE
  /\ UNCHANGED <<hwVars, conn, afeMode, pc, step, readVars, frameVars, mon,
                 masterAge, fresh, quiet>>

-----------------------------------------------------------------------------
(* The worker's loop, as far as the chip sees it.                          *)

Goto(from, to) == pc = from /\ pc' = to

\* Fault: the sleep request does not ask for the reset.
TakeStopNoReset ==
  /\ Goto("top", "work")
  /\ stop
  /\ phase # "quit"
  /\ phase' = "suspend"
  /\ stop' = FALSE
  /\ late' = 0
  /\ UNCHANGED <<hwVars, conn, afeMode, needReset, step, readVars,
                 frameVars, mon, masterAge, fresh, quiet>>

TakeStop ==
  /\ Goto("top", "work")
  /\ stop
  /\ phase # "quit"
  /\ phase' = "suspend"
  /\ needReset' = TRUE
  /\ stop' = FALSE
  /\ late' = 0
  /\ UNCHANGED <<hwVars, conn, afeMode, step, readVars, frameVars, mon,
                 masterAge, fresh, quiet>>

\* Fault: the stop reason is not looked at between two frames.
NoStopWhileStreaming ==
  /\ Goto("top", "work")
  /\ phase # "quit"
  /\ stop => phase = "streaming"
  /\ UNCHANGED <<hwVars, conn, afeMode, phase, needReset, step, readVars,
                 frameVars, stop, mon, history>>

NoStop ==
  /\ Goto("top", "work")
  /\ phase # "quit"
  /\ ~stop
  /\ UNCHANGED <<hwVars, conn, afeMode, phase, needReset, step, readVars,
                 frameVars, stop, mon, history>>

\* AfeController::EnterIdle: the command, the policy of the master, that of
\* the slave, the mode.  A failure leaves it at what was done before.
EnterIdle ==
  \/ UNCHANGED <<policy, afeMode>>
  \/ policy' = [policy EXCEPT !["master"] = "idle"] /\ UNCHANGED afeMode
  \/ policy' = [d \in Devs |-> "idle"] /\ afeMode' = "Idle"

\* Chip::NotifyTouchWakeup, while connected.
NotifyTouchWakeup ==
  \/ UNCHANGED <<policy, afeMode>>
  \/ /\ afeMode = "Idle"
     /\ policy' = [policy EXCEPT !["master"] = "normal"]
     /\ UNCHANGED afeMode
  \/ /\ afeMode = "Idle"
     /\ policy' = [d \in Devs |-> "normal"]
     /\ afeMode' = "Normal"

\* DrainCommands: EnterIdle or ForceExitIdle from the App.
IdleCommand ==
  /\ pc = "work"
  /\ conn
  /\ EnterIdle \/ NotifyTouchWakeup
  /\ UNCHANGED <<line, selected, open, up, conn, phase, needReset, pc, step,
                 readVars, frameVars, stop, mon, history>>

\* OnReady calls Init, OnRecover check_bus and Init.
BeginInit ==
  /\ Goto("work", "init")
  /\ phase \in {"ready", "recover"}
  /\ masterAge' = 2
  /\ fresh' = TRUE
  /\ UNCHANGED <<hwVars, conn, afeMode, phase, needReset, step, readVars,
                 frameVars, stop, mon, quiet, late>>

\* OnRecover: the bus is dead, or the wait ended with a stop request.
RecoverLater ==
  /\ Goto("work", "top")
  /\ phase = "recover"
  /\ UNCHANGED <<hwVars, conn, afeMode, phase, needReset, step, readVars,
                 frameVars, stop, mon, history>>

\* OnRecover gives up.
RecoverGiveUp ==
  /\ Goto("work", "top")
  /\ phase = "recover"
  /\ phase' = "suspend"
  /\ needReset' = TRUE
  /\ UNCHANGED <<hwVars, conn, afeMode, step, readVars, frameVars, stop, mon,
                 history>>

\* Stop(): the worker is told to quit; Deinit begins.
OnQuit ==
  /\ Goto("top", "senseOff")
  /\ phase' = "quit"
  /\ conn' = FALSE
  /\ stop' = FALSE
  /\ late' = 0
  /\ phase # "quit"
  /\ UNCHANGED <<hwVars, afeMode, needReset, step, readVars, frameVars, mon,
                 masterAge, fresh, quiet>>

\* OnSuspend: HoldReset begins if it is due.
OnSuspend ==
  /\ pc = "work"
  /\ phase = "suspend"
  /\ IF needReset THEN pc' = "hold" /\ conn' = FALSE
                  ELSE pc' = "top" /\ UNCHANGED conn
  /\ needReset' = FALSE
  /\ UNCHANGED <<hwVars, afeMode, phase, step, readVars, frameVars, stop, mon,
                 history>>

-----------------------------------------------------------------------------
(* Reset, HoldReset and Deinit.                                            *)

\* SetReset(0) goes through: the controller forgets what it was told.
LineLow == line' = FALSE /\ selected' = {} /\ up' = FALSE

\* HoldReset's SetReset(false); its result is ignored.
HoldLine ==
  /\ Goto("hold", "close")
  /\ LineLow \/ UNCHANGED <<line, selected, up>>
  /\ UNCHANGED <<open, policy, conn, afeMode, phase, needReset, step, readVars,
                 frameVars, stop, mon, history>>

\* Deinit's hx_sense_off: nothing went through, or the firmware stopped, with
\* or without pulses of the reset line of which the last may be cut short.
SenseOff ==
  /\ Goto("senseOff", "close")
  /\ \/ UNCHANGED <<line, selected, up>>
     \/ selected' = {} /\ up' = FALSE /\ UNCHANGED line
     \/ selected' = {} /\ up' = FALSE /\ line' = TRUE
     \/ LineLow
  /\ UNCHANGED <<open, policy, conn, afeMode, phase, needReset, step, readVars,
                 frameVars, stop, mon, history>>

\* IntClose of master and slave; the results are ignored.
CloseChannels ==
  /\ Goto("close", "top")
  /\ open' \in SUBSET open
  /\ UNCHANGED <<line, selected, policy, up, conn, afeMode, phase, needReset,
                 step, readVars, frameVars, stop, mon, history>>

-----------------------------------------------------------------------------
(* Chip::Init.                                                             *)

\* The worker is at step s, and it goes through.
InitStep(s) ==
  /\ pc = "init"
  /\ InitSteps[step] = s
  /\ step' = step + 1
  /\ UNCHANGED <<afeMode, phase, needReset, pc, readVars, frameVars, stop, mon,
                 history>>

InitAssertReset ==
  InitStep("assertReset") /\ LineLow /\ UNCHANGED <<open, policy, conn>>

InitReleaseReset ==
  /\ InitStep("releaseReset")
  /\ line' = TRUE
  /\ UNCHANGED <<selected, open, policy, up, conn>>

Selecting(d) == IF d = "master" THEN "selectMaster" ELSE "selectSlave"
Opening(d)   == IF d = "master" THEN "openMaster" ELSE "openSlave"
Timing(d)    == IF d = "master" THEN "policyMaster" ELSE "policySlave"

InitSelect(d) ==
  /\ InitStep(Selecting(d))
  /\ selected' = selected \union {d}
  /\ UNCHANGED <<line, open, policy, up, conn>>

\* Fault: the chip counts as connected when its channels are open.
InitOpenConnects(d) ==
  /\ InitStep(Opening(d))
  /\ open' = open \union {d}
  /\ conn' = TRUE
  /\ UNCHANGED <<line, selected, policy, up>>

InitOpen(d) ==
  /\ InitStep(Opening(d))
  /\ open' = open \union {d}
  /\ UNCHANGED <<line, selected, policy, up, conn>>

InitPolicy(d) ==
  /\ InitStep(Timing(d))
  /\ policy' = [policy EXCEPT ![d] = "normal"]
  /\ UNCHANGED <<line, selected, open, up, conn>>

\* Connected; the calibration and the scan rate may fail, with no effect here.
InitConnect ==
  /\ Goto("init", "top")
  /\ InitSteps[step] = "connect"
  /\ conn' = TRUE
  /\ up' = TRUE
  /\ phase' = "streaming"
  /\ step' = 1
  /\ UNCHANGED <<line, selected, open, policy, afeMode, needReset, readVars,
                 frameVars, stop, mon, history>>

\* Fault: a recovery goes on to streaming whatever Init returned.
InitFailsStreams ==
  /\ Goto("init", "top")
  /\ InitSteps[step] # "connect"
  /\ phase' = IF phase = "recover" THEN "streaming" ELSE "recover"
  /\ step' = 1
  /\ UNCHANGED <<hwVars, conn, afeMode, needReset, readVars, frameVars, stop,
                 mon, history>>

InitFails ==
  /\ Goto("init", "top")
  /\ InitSteps[step] # "connect"
  /\ phase' = "recover"
  /\ step' = 1
  /\ UNCHANGED <<hwVars, conn, afeMode, needReset, readVars, frameVars, stop,
                 mon, history>>

-----------------------------------------------------------------------------
(* Chip::GetFrame and HalDevice::Ioctl.                                    *)

\* A new read of device d; also what is left when the last one has ended.
ReadOf(d) ==
  /\ reading' = d
  /\ tries' = 0
  /\ pending' = FALSE
  /\ cancelled' = FALSE

\* Idle mode reads the master first, normal mode the slave.
BeginFrame ==
  /\ Goto("work", "read")
  /\ phase = "streaming"
  /\ ReadOf(IF afeMode = "Idle" THEN "master" ELSE "slave")
  /\ UNCHANGED <<hwVars, conn, afeMode, phase, needReset, step, got, frameVars,
                 stop, mon, history>>

\* DeviceIoControl: from here on the read can be cancelled.
ReadIssue ==
  /\ pc = "read"
  /\ ~pending
  /\ pending' = TRUE
  /\ UNCHANGED <<hwVars, conn, afeMode, phase, needReset, pc, step, reading,
                 cancelled, tries, got, frameVars, stop, mon, history>>

\* Fault: with a pen on the panel the master is never read.
SkipAlways == stylusActive

\* 2:1 interleaving: with a pen every odd frame is the slave's alone.
SkipMaster == odd /\ stylusActive

\* What GetFrame reads next after device d.
ReadNext(d) ==
  CASE afeMode = "Idle" /\ d = "master" -> "slave"
    [] afeMode # "Idle" /\ d = "slave" /\ ~SkipMaster -> "master"
    [] OTHER -> "none"

\* The frame of the device is in back_data.
ReadOk ==
  /\ pc = "read"
  /\ pending
  /\ got' = got \union {reading}
  /\ IF reading = "master"
       THEN finger' \in BOOLEAN /\ masterAge' = 0 /\ UNCHANGED stylus
       ELSE stylus' \in BOOLEAN /\ UNCHANGED <<finger, masterAge>>
  /\ IF ReadNext(reading) = "none"
       THEN pc' = "done" /\ ReadOf("slave")
       ELSE ReadOf(ReadNext(reading)) /\ UNCHANGED pc
  /\ UNCHANGED <<hwVars, conn, afeMode, phase, needReset, step, odd,
                 stylusActive, zeroFrames, stop, mon, fresh, quiet, late>>

\* Fault: the attempts are not counted against their limit.
ReadRetryForever ==
  /\ pc = "read"
  /\ pending
  /\ tries' = tries + 1
  /\ pending' = FALSE
  /\ cancelled' = FALSE
  /\ UNCHANGED <<hwVars, conn, afeMode, phase, needReset, pc, step, reading,
                 got, frameVars, stop, mon, history>>

\* Ioctl tries again, unless it was cancelled.
ReadRetry ==
  /\ pc = "read"
  /\ pending
  /\ tries + 1 < MaxAttempts
  /\ tries' = tries + 1
  /\ pending' = FALSE
  /\ cancelled' = FALSE
  /\ UNCHANGED <<hwVars, conn, afeMode, phase, needReset, pc, step, reading,
                 got, frameVars, stop, mon, history>>

\* The last attempt timed out or failed, or the read was cancelled.  Idle mode
\* takes any failure for a timeout; elsewhere an error may be the third one.
ReadFails ==
  /\ pc = "read"
  /\ pending
  /\ cancelled \/ tries + 1 = MaxAttempts
  /\ ReadOf("slave")
  /\ IF afeMode = "Idle" /\ reading = "master"
       THEN UNCHANGED <<pc, phase, got>>
       ELSE /\ pc' = "top"
            /\ phase' \in IF afeMode = "Idle" THEN {phase}
                                              ELSE {phase, "recover"}
            /\ got' = {}
  /\ UNCHANGED <<hwVars, conn, afeMode, needReset, step, frameVars, stop, mon,
                 history>>

\* An idle frame only serves to wake up; it is dropped.
FinishIdle ==
  /\ Goto("done", "top")
  /\ afeMode = "Idle"
  /\ IF got = Devs /\ (finger \/ stylus) /\ conn
       THEN NotifyTouchWakeup
       ELSE UNCHANGED <<policy, afeMode>>
  /\ got' = {}
  /\ UNCHANGED <<line, selected, open, up, conn, phase, needReset, step,
                 reading, pending, cancelled, tries, frameVars, stop, mon,
                 history>>

\* Fault: a frame with input does not start the count again.
ZeroFramesKept == zeroFrames + 1

\* The frames without input, with this one.
ZeroFrames == IF finger \/ stylus THEN 0 ELSE zeroFrames + 1

\* A frame is complete: it goes to the pipelines, m_stylusActive follows the
\* pen, and after IdleThreshold frames without input the chip goes idle.
FinishFrame ==
  /\ Goto("done", "top")
  /\ afeMode = "Normal"
  /\ odd' = ~odd
  /\ got' = {}
  /\ IF ZeroFrames >= IdleThreshold
       THEN /\ EnterIdle
            /\ zeroFrames' = 0
            /\ stylusActive' = FALSE
       ELSE /\ zeroFrames' = ZeroFrames
            /\ stylusActive' = stylus
            /\ UNCHANGED <<policy, afeMode>>
  /\ masterAge' = UpTo(2, masterAge)
  /\ fresh' = FALSE
  /\ quiet' = IF got = Devs /\ ~finger /\ ~stylus
                THEN UpTo(IdleThreshold, quiet) ELSE 0
  /\ late' = IF stop THEN UpTo(2, late) ELSE 0
  /\ UNCHANGED <<line, selected, open, up, conn, phase, needReset, step,
                 reading, pending, cancelled, tries, finger, stylus, stop,
                 mon>>

-----------------------------------------------------------------------------

InitChip ==
  \/ InitAssertReset \/ InitReleaseReset
  \/ \E d \in Devs : InitSelect(d) \/ InitOpen(d) \/ InitPolicy(d)
  \/ InitConnect \/ InitFails

GetFrame ==
  \/ BeginFrame \/ ReadIssue \/ ReadOk \/ ReadRetry \/ ReadFails
  \/ FinishIdle \/ FinishFrame

WorkerStep ==
  \/ TakeStop \/ NoStop \/ IdleCommand
  \/ BeginInit \/ RecoverLater \/ RecoverGiveUp \/ OnQuit \/ OnSuspend
  \/ HoldLine \/ SenseOff \/ CloseChannels
  \/ InitChip \/ GetFrame

Next == WorkerStep \/ SleepCancel \/ SleepStore \/ Wake \/ Restart

Spec == Init /\ [][Next]_vars

\* The worker runs: each read of the device ends, one way or another, and
\* commands and quitting, which are not the worker's own, need never come.
FairSpec ==
  /\ Spec
  /\ WF_vars(WorkerStep /\ ~OnQuit /\ ~IdleCommand)

-----------------------------------------------------------------------------
(* Properties.                                                             *)

\* A frame is only read from a controller that went through all of Init since
\* its last reset: out of reset, both outputs selected, both channels open,
\* a timeout set, and connected.  No failed bring-up or recovery gets there.
ReadsOnlyWhenUp ==
  pc \in {"read", "done"} =>
    /\ line /\ up /\ conn
    /\ selected = Devs
    /\ open = Devs
    /\ \A d \in Devs : policy[d] # "none"

\* The master part of a frame is from this read or from that of the frame
\* before, whatever reads failed in between, with or without a pen; only the
\* first frame after Init may repeat what was there before.
MasterIsRecent ==
  pc = "done" /\ afeMode = "Normal" => masterAge <= 1 \/ fresh

\* GetFrame enters idle mode only after a whole series of frames in which both
\* devices were read and showed no input, whatever failed reads, commands or
\* sleeps came between them; the first may be the slave's alone.
IdleAfterQuiet ==
  [][pc = "done" /\ afeMode = "Normal" /\ afeMode' = "Idle" =>
       quiet' + 1 >= IdleThreshold]_vars

\* Once the sleep request is stored at most one more frame is processed.
SleepIsPrompt == late <= 1

\* A sleep request disconnects the chip, whatever the worker was reading or
\* bringing up.
SleepDisconnects == stop ~> ~conn \/ phase = "ready"

\* The outcomes that DeviceRuntime takes the chip's operations for are all the
\* outcomes there are.
Outcomes == INSTANCE ChipOutcomes WITH
  chip <- IF up THEN "inited" ELSE IF line THEN "raw" ELSE "held"
ImplementsOutcomes == Outcomes!Spec
==============================================================================
