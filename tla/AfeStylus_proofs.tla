--------------------------- MODULE AfeStylus_proofs ---------------------------
(***************************************************************************)
(* Proofs about AfeStylus, for every width of the frame counter and every  *)
(* timeout and debounce that fits in it.                                   *)
(***************************************************************************)
EXTENDS AfeStylusInv, TLAPS

-----------------------------------------------------------------------------
(* The frame counter.                                                      *)

\* Age is a frame number, and 0 for a frame just stamped.
LEMMA AgeType ==
  ASSUME NEW m \in FrameNumbers, NEW n \in FrameNumbers
  PROVE  Age(m, n) \in FrameNumbers /\ Age(m, m) = 0
BY ConstantsOK, SMT DEF Age, FrameNumbers

\* The counter stays within its width.
LEMMA NextType ==
  ASSUME NEW n \in FrameNumbers
  PROVE  NextFrame(n) \in FrameNumbers
BY ConstantsOK, SMT DEF NextFrame, FrameNumbers

\* One frame later every age has grown by one, or wrapped to 0.
LEMMA AgeGrows ==
  ASSUME NEW m \in FrameNumbers, NEW n \in FrameNumbers
  PROVE  Age(NextFrame(m), n) =
           IF Age(m, n) + 1 = Wrap THEN 0 ELSE Age(m, n) + 1
BY ConstantsOK, SMT DEF Age, NextFrame, FrameNumbers

-----------------------------------------------------------------------------
(* ProcessStylusStatus, one part after the other.                          *)

\* The fields of the pen that the parts below do not look at.
SameSwitch(p, q) ==
  /\ q.connected = p.connected
  /\ q.switchReqPending = p.switchReqPending
  /\ q.switchReqFrame = p.switchReqFrame
  /\ q.lastSwitchFrame = p.lastSwitchFrame
  /\ q.switchTargetIdx = p.switchTargetIdx

\* The heartbeat is noted, the frame counted, the BT silence checked: none of
\* this touches the switch in progress.
LEMMA CountedFrame ==
  ASSUME NEW p \in Pens, report \in Reports
  PROVE  LET q == SilenceChecked(Counted(Heartbeat(p)))
         IN  /\ q \in Pens
             /\ SameSwitch(p, q)
             /\ q.frameCounter = NextFrame(p.frameCounter)
<1> DEFINE h == Heartbeat(p)
           c == Counted(h)
           q == SilenceChecked(c)
<1>1. h \in Pens /\ SameSwitch(p, h) /\ h.frameCounter = p.frameCounter
  <2>1. report.freq1 \in Freqs
    <3>1. report.freq1 \in BtFreqs \union {0}
      BY DEF Reports
    <3>2. \A f \in BtFreqs \union {0} : f \in Freqs
      BY ConstantsOK DEF Freqs
    <3> QED
      BY <3>1, <3>2, Zenon
  <2>2. CASE ~report.heard
    BY <2>2 DEF Heartbeat, SameSwitch
  <2>3. CASE report.heard
    BY <2>1, <2>3 DEF Heartbeat, Pens, SameSwitch
  <2> QED
    BY <2>2, <2>3
<1>2. /\ c \in Pens /\ SameSwitch(h, c)
      /\ c.frameCounter = NextFrame(h.frameCounter)
  <2>1. NextFrame(h.frameCounter) \in FrameNumbers
    BY <1>1, NextType DEF Pens
  <2> QED
    BY <1>1, <2>1 DEF Counted, Pens, SameSwitch
<1>3. q \in Pens /\ SameSwitch(c, q) /\ q.frameCounter = c.frameCounter
  <2> DEFINE btAge == Age(c.frameCounter, c.btLastSeenFrame)
             cleared == c.btPressureCleared \/ btAge > PressureTimeout
             active == btAge <= HibernateTimeout
  <2>1. cleared \in BOOLEAN /\ active \in BOOLEAN
    OBVIOUS
  <2>2. CASE ~c.btActive
    <3>1. q = c
      BY <2>2 DEF SilenceChecked
    <3> QED
      BY <1>2, <3>1 DEF SameSwitch
  <2>3. CASE c.btActive
    <3>1. q = [c EXCEPT !.btPressureCleared = cleared, !.btActive = active]
      BY <2>3 DEF SilenceChecked
    <3> HIDE DEF q, c, cleared, active
    <3> QED
      BY <1>2, <2>1, <3>1 DEF Pens, SameSwitch
  <2> QED
    BY <2>2, <2>3
<1> QED
  BY <1>1, <1>2, <1>3 DEF SameSwitch

\* The confirmation leaves the switch alone or ends it in this frame.
LEMMA ConfirmedFrame ==
  ASSUME NEW p \in Pens, NEW s \in Statuses
  PROVE  LET q == Confirmed(p, s)
         IN  /\ q \in Pens
             /\ q.connected = p.connected
             /\ q.frameCounter = p.frameCounter
             /\ \/ SameSwitch(p, q)
                \/ /\ p.switchReqPending /\ ~q.switchReqPending
                   /\ q.lastSwitchFrame = p.frameCounter
BY DEF Confirmed, Pens, SameSwitch, Statuses

\* What the rest of ProcessStylusStatus does to the switch: nothing, end it
\* because it is too old, or request one outside the cooldown.
SwitchStep(p, q) ==
  \/ SameSwitch(p, q) /\ (p.switchReqPending =>
       Age(p.frameCounter, p.switchReqFrame) <= PendingTimeout)
  \/ /\ p.switchReqPending /\ ~q.switchReqPending
     /\ q.lastSwitchFrame = p.frameCounter
  \/ /\ ~p.switchReqPending /\ q.switchReqPending
     /\ ~Cooling(p)
     /\ q.switchReqFrame = p.frameCounter
     /\ q.lastSwitchFrame = p.lastSwitchFrame

\* The BT debounce touches neither the switch nor the frame counter.
LEMMA DebouncedType ==
  ASSUME NEW p \in Pens, NEW s \in Statuses
  PROVE  LET q == Debounced(p, s)
         IN  q \in Pens /\ SameSwitch(p, q) /\ q.frameCounter = p.frameCounter
BY DEF Debounced, Pens, SameSwitch

\* A request is stamped with the frame it is made in and leaves the last switch alone.
LEMMA RequestedFrame ==
  ASSUME NEW p \in Pens, NEW i \in {0, 1}
  PROVE  LET q == Requested(p, i)
         IN  /\ q \in Pens
             /\ q.connected = p.connected
             /\ q.frameCounter = p.frameCounter
             /\ q.switchReqPending
             /\ q.switchReqFrame = p.frameCounter
             /\ q.lastSwitchFrame = p.lastSwitchFrame
BY DEF Requested, Pens

\* ProcessStylusStatus confirms, drops or makes a request, or leaves the switch alone.
LEMMA ProcessedFrame ==
  ASSUME NEW p \in Pens, NEW s \in Statuses
  PROVE  LET q == Processed(p, s)
         IN  /\ q \in Pens
             /\ q.connected = p.connected
             /\ q.frameCounter = p.frameCounter
             /\ SwitchStep(p, q)
<1> DEFINE q == Processed(p, s)
           d == Debounced(p, s)
           m == [p EXCEPT !.btMismatchActive = FALSE]
<1>p. p.switchReqPending \in BOOLEAN /\ p.frameCounter \in FrameNumbers
  BY DEF Pens
<1>1. CASE p.switchReqPending
  <2>1. q = Expired(p)
    BY <1>1 DEF Processed
  <2>2. Age(p.frameCounter, p.switchReqFrame) \in FrameNumbers
    BY AgeType DEF Pens
  <2>3. Age(p.frameCounter, p.switchReqFrame) <= PendingTimeout
          \/ Age(p.frameCounter, p.switchReqFrame) > PendingTimeout
    BY <2>2, ConstantsOK DEF FrameNumbers
  <2>4. CASE Age(p.frameCounter, p.switchReqFrame) > PendingTimeout
    BY <1>1, <2>1, <2>4 DEF Expired, Pens, SwitchStep
  <2>5. CASE ~(Age(p.frameCounter, p.switchReqFrame) > PendingTimeout)
    <3>1. q = p
      BY <2>1, <2>5 DEF Expired
    <3> QED
      BY <2>3, <2>5, <3>1 DEF SwitchStep, SameSwitch
  <2> QED
    BY <2>4, <2>5
<1>2. CASE ~p.switchReqPending /\ Cooling(p)
  <2>1. q = p
    BY <1>2 DEF Processed
  <2> QED
    BY <1>2, <2>1 DEF SwitchStep, SameSwitch
<1>3. CASE ~p.switchReqPending /\ ~Cooling(p) /\ MismatchDue(p, s)
  <2>1. q = Requested(m, MismatchTarget(p))
    BY <1>3 DEF Processed
  <2>2. /\ m \in Pens /\ m.connected = p.connected
        /\ m.frameCounter = p.frameCounter
        /\ m.lastSwitchFrame = p.lastSwitchFrame
    BY DEF Pens
  <2>3. MismatchTarget(p) \in {0, 1}
    BY DEF MismatchTarget
  <2> HIDE DEF m, q
  <2>4. /\ q \in Pens /\ q.connected = m.connected
        /\ q.frameCounter = m.frameCounter
        /\ q.switchReqPending /\ q.switchReqFrame = m.frameCounter
        /\ q.lastSwitchFrame = m.lastSwitchFrame
    BY <2>1, <2>2, <2>3, RequestedFrame
  <2> QED
    BY <1>3, <2>2, <2>4 DEF SwitchStep, q
<1>4. CASE ~p.switchReqPending /\ ~Cooling(p) /\ ~MismatchDue(p, s)
  <2>1. d \in Pens /\ SameSwitch(p, d) /\ d.frameCounter = p.frameCounter
    BY DebouncedType
  <2>2. CASE NoiseDue(p, s)
    <3>1. q = Requested(d, NoiseTarget(s))
      BY <1>4, <2>2 DEF Processed
    <3>2. NoiseTarget(s) \in {0, 1}
      BY DEF NoiseTarget
    <3> QED
      BY <1>4, <2>1, <3>1, <3>2, RequestedFrame DEF SwitchStep, SameSwitch
  <2>3. CASE ~NoiseDue(p, s)
    <3>1. q = d
      BY <1>4, <2>3 DEF Processed
    <3> QED
      BY <1>4, <2>1, <3>1 DEF SwitchStep, SameSwitch
  <2> QED
    BY <2>2, <2>3
<1> QED
  BY <1>p, <1>1, <1>2, <1>3, <1>4

-----------------------------------------------------------------------------
(* A whole frame.                                                          *)

\* What a frame of a connected pen does to the switch, the cooldown and the
\* histories, in one place.
LEMMA PenFrame ==
  ASSUME IInv, NEW s \in Statuses, Frame(s), pen.connected
  PROVE  /\ pen' \in Pens
         /\ pen'.connected
         /\ sinceSwitch' \in 0 .. Cooldown
         /\ CooldownInv'
         /\ PendingHeals'
         /\ Requests(pen, pen') =>
              sinceSwitch' >= Cooldown \/ pen'.lastSwitchFrame = 0
<1> DEFINE c == SilenceChecked(Counted(Heartbeat(pen)))
           p == Looked(pen, s)
           q == Processed(p, s)
           since == IF Ends(pen, p) \/ Ends(p, q)
                      THEN 0 ELSE UpTo(Cooldown, sinceSwitch)
<1>t. pen \in Pens /\ report \in Reports /\ sinceSwitch \in 0 .. Cooldown
  BY DEF IInv, TypeOK
<1>1. c \in Pens /\ SameSwitch(pen, c) /\ c.frameCounter = NextFrame(pen.frameCounter)
  BY <1>t, CountedFrame
<1>2. /\ p \in Pens /\ p.connected = c.connected
      /\ p.frameCounter = c.frameCounter
      /\ \/ SameSwitch(c, p)
         \/ /\ c.switchReqPending /\ ~p.switchReqPending
            /\ p.lastSwitchFrame = c.frameCounter
  BY <1>1, ConfirmedFrame DEF Looked
<1>3. /\ q \in Pens /\ q.connected = p.connected
      /\ q.frameCounter = p.frameCounter /\ SwitchStep(p, q)
  BY <1>2, ProcessedFrame
<1>4. pen' = q /\ sinceSwitch' = since
  BY DEF Frame
<1> HIDE DEF c, p, q
<1>5. /\ pen.frameCounter \in FrameNumbers /\ pen.lastSwitchFrame \in FrameNumbers
      /\ pen.switchReqFrame \in FrameNumbers
      /\ p.frameCounter \in FrameNumbers /\ p.lastSwitchFrame \in FrameNumbers
      /\ p.switchReqFrame \in FrameNumbers
      /\ q.lastSwitchFrame \in FrameNumbers
  BY <1>t, <1>2, <1>3 DEF Pens
<1>6. p.frameCounter = NextFrame(pen.frameCounter)
  BY <1>1, <1>2
<1>7. /\ Cooldown \in Nat /\ Wrap \in Nat /\ Cooldown < Wrap
      /\ PendingTimeout \in Nat
  BY ConstantsOK
<1>8. since \in 0 .. Cooldown
  BY <1>t, <1>7 DEF UpTo
<1>9. /\ pen'.frameCounter = p.frameCounter
      /\ Age(p.frameCounter, p.frameCounter) = 0
      /\ PendingHeals' <=> (q.switchReqPending =>
           Age(p.frameCounter, q.switchReqFrame) <= PendingTimeout)
      /\ CooldownInv' <=> (q.lastSwitchFrame # 0 /\ since < Cooldown =>
           Age(p.frameCounter, q.lastSwitchFrame) <= since)
  BY <1>3, <1>4, <1>5, AgeType DEF PendingHeals, CooldownInv
\* The switch was confirmed in this frame.
<1>10. CASE ~SameSwitch(c, p)
  <2>1. pen.switchReqPending /\ ~p.switchReqPending
    BY <1>1, <1>2, <1>10 DEF SameSwitch
  <2>2. since = 0
    BY <2>1 DEF Ends
  <2>3. q.lastSwitchFrame = p.frameCounter
    BY <1>2, <1>3, <1>10, <2>1 DEF SwitchStep, SameSwitch
  <2>4. q.switchReqPending => q.switchReqFrame = p.frameCounter
    BY <1>3, <2>1 DEF SwitchStep, SameSwitch
  <2> HIDE DEF since
  <2>5. CooldownInv'
    BY <1>9, <2>2, <2>3
  <2>6. PendingHeals'
    BY <1>7, <1>9, <2>4
  <2>7. ~Requests(pen, pen')
    BY <2>1 DEF Requests
  <2> QED
    BY <1>1, <1>2, <1>3, <1>4, <1>8, <2>5, <2>6, <2>7 DEF SameSwitch
\* It was not: no cooldown ends too early by this frame's count.
<1>11. CASE SameSwitch(c, p)
  <2> DEFINE more == UpTo(Cooldown, sinceSwitch)
  <2>1. /\ p.lastSwitchFrame = pen.lastSwitchFrame
        /\ p.switchReqPending = pen.switchReqPending
    BY <1>1, <1>11 DEF SameSwitch
  <2>2. p.lastSwitchFrame # 0 /\ more < Cooldown =>
          Age(p.frameCounter, p.lastSwitchFrame) <= more
    <3>1. pen.lastSwitchFrame # 0 /\ sinceSwitch < Cooldown =>
            Age(pen.frameCounter, pen.lastSwitchFrame) <= sinceSwitch
      BY DEF IInv, CooldownInv
    <3>2. /\ Age(pen.frameCounter, pen.lastSwitchFrame) \in 0 .. Wrap - 1
          /\ Age(p.frameCounter, p.lastSwitchFrame) =
               IF Age(pen.frameCounter, pen.lastSwitchFrame) + 1 = Wrap
                 THEN 0 ELSE Age(pen.frameCounter, pen.lastSwitchFrame) + 1
      <4> DEFINE m == pen.frameCounter
                 n == pen.lastSwitchFrame
      <4>1. Age(m, n) \in FrameNumbers
        BY <1>5, AgeType
      <4>2. Age(NextFrame(m), n) = IF Age(m, n) + 1 = Wrap THEN 0 ELSE Age(m, n) + 1
        BY <1>5, AgeGrows
      <4> QED
        BY <1>6, <2>1, <4>1, <4>2 DEF FrameNumbers
    <3> QED
      BY <1>t, <1>7, <2>1, <3>1, <3>2 DEF UpTo
  <2>3. CASE SameSwitch(p, q) /\ (p.switchReqPending =>
               Age(p.frameCounter, p.switchReqFrame) <= PendingTimeout)
    <3>1. since = more
      BY <2>1, <2>3 DEF Ends, SameSwitch
    <3> HIDE DEF since, more
    <3>2. CooldownInv' /\ PendingHeals'
      BY <1>9, <2>2, <2>3, <3>1 DEF SameSwitch
    <3>3. ~Requests(pen, pen')
      BY <1>4, <2>1, <2>3 DEF Requests, SameSwitch
    <3> QED
      BY <1>1, <1>2, <1>3, <1>4, <1>8, <3>2, <3>3 DEF SameSwitch
  <2>4. CASE /\ p.switchReqPending /\ ~q.switchReqPending
             /\ q.lastSwitchFrame = p.frameCounter
    <3>1. since = 0
      BY <2>4 DEF Ends
    <3> HIDE DEF since
    <3>2. CooldownInv' /\ PendingHeals'
      BY <1>9, <2>4, <3>1
    <3>3. ~Requests(pen, pen')
      BY <1>4, <2>4 DEF Requests
    <3> QED
      BY <1>1, <1>2, <1>3, <1>4, <1>8, <3>2, <3>3 DEF SameSwitch
  <2>5. CASE /\ ~p.switchReqPending /\ q.switchReqPending
             /\ ~Cooling(p)
             /\ q.switchReqFrame = p.frameCounter
             /\ q.lastSwitchFrame = p.lastSwitchFrame
    <3>1. since = more
      BY <2>1, <2>5 DEF Ends
    <3> HIDE DEF since, more
    <3>2. CooldownInv' /\ PendingHeals'
      BY <1>7, <1>9, <2>2, <2>5, <3>1
    <3>3. since >= Cooldown \/ q.lastSwitchFrame = 0
      <4>1. Age(p.frameCounter, p.lastSwitchFrame) \in 0 .. Wrap - 1
        BY <1>5, AgeType DEF FrameNumbers
      <4>2. p.lastSwitchFrame = 0 \/
              ~(Age(p.frameCounter, p.lastSwitchFrame) < Cooldown)
        BY <2>5 DEF Cooling
      <4> QED
        BY <1>7, <1>8, <2>2, <2>5, <3>1, <4>1, <4>2
    <3> QED
      BY <1>1, <1>2, <1>3, <1>4, <1>8, <3>2, <3>3 DEF SameSwitch
  <2> QED
    BY <1>3, <2>3, <2>4, <2>5 DEF SwitchStep
<1> QED
  BY <1>10, <1>11

-----------------------------------------------------------------------------
(* The commands.                                                           *)

\* No command starts a request or moves the cooldown, and what a command
\* leaves of a disconnected pen is a fresh one.
CommandStep(p, q) ==
  /\ q \in Pens
  /\ \/ q = NoPen
     \/ /\ q.frameCounter = p.frameCounter
        /\ q.lastSwitchFrame = p.lastSwitchFrame
        /\ q.switchReqFrame = p.switchReqFrame
        /\ q.switchReqPending => p.switchReqPending
  /\ ~q.connected =>
       \/ [q EXCEPT !.freq1Cmd = 0] = NoPen
       \/ /\ q.connected = p.connected
          /\ [q EXCEPT !.freq1Cmd = 0] = [p EXCEPT !.freq1Cmd = 0]

\* StylusState{} is a pen.
LEMMA NoPenType == NoPen \in Pens /\ [NoPen EXCEPT !.freq1Cmd = 0] = NoPen
BY ConstantsOK DEF NoPen, Pens, FrameNumbers, Freqs

\* What a command that the loop executes may do to the pen.
LEMMA CommandEffect ==
  ASSUME NEW p \in Pens, NEW c \in Commands, NEW q \in Executed(c, p),
         ~p.connected => [p EXCEPT !.freq1Cmd = 0] = NoPen
  PROVE  CommandStep(p, q)
<1>1. CASE q = p
  BY <1>1 DEF CommandStep
<1>2. CASE q = InitStylus(p)
  BY <1>2 DEF CommandStep, InitStylus, Pens
<1>3. CASE q = NoPen
  <2>1. q \in Pens /\ [q EXCEPT !.freq1Cmd = 0] = NoPen
    BY <1>3, NoPenType, Zenon
  <2> QED
    BY <1>3, <2>1 DEF CommandStep
<1>4. CASE q = [p EXCEPT !.freq1Cmd = Freq1Cmd(c.param)]
  <2>1. Freq1Cmd(c.param) \in Freqs
    BY DEF Freq1Cmd, Freqs
  <2> QED
    BY <1>4, <2>1 DEF CommandStep, Pens
<1>5. CASE q = [p EXCEPT !.switchReqPending = FALSE]
  <2>1. CASE p.connected
    BY <1>5, <2>1 DEF CommandStep, Pens
  <2>2. CASE ~p.connected
    <3>1. p.switchReqPending = FALSE
      BY <2>2 DEF Pens, NoPen
    <3>2. q = p
      BY <1>5, <3>1 DEF Pens
    <3> QED
      BY <3>2 DEF CommandStep
  <2> QED
    BY <2>1, <2>2
<1> QED
  BY <1>1, <1>2, <1>3, <1>4, <1>5 DEF Executed

-----------------------------------------------------------------------------
(* The invariant.                                                          *)

\* A controller without a pen satisfies the invariant.
LEMMA InitHolds == Init => IInv
<1> SUFFICES ASSUME Init PROVE IInv
  OBVIOUS
<1>1. TypeOK
  <2>1. queue \in Seq(Commands) /\ phase \in {"top", "drain", "work"}
    BY DEF Init
  <2>2. streaming \in BOOLEAN /\ conn \in BOOLEAN /\ pen \in Pens
    BY NoPenType DEF Init
  <2>3. /\ report \in Reports /\ sinceSwitch \in 0 .. Cooldown
        /\ silent \in 0 .. HibernateTimeout + 1
    BY ConstantsOK DEF Init, Reports, NoReport
  <2> QED
    BY <2>1, <2>2, <2>3 DEF TypeOK
<1> QED
  BY <1>1, NoPenType DEF Init, IInv, CooldownInv, PendingHeals,
     NewPenIsFresh, SwitchCommandIsCurrent, NoPen

\* The pen, its history and the clock of its cooldown are left alone.
Untouched == UNCHANGED <<pen, sinceSwitch>>

\* Steps that leave the pen and its history alone keep what is said of them.
LEMMA UntouchedPen ==
  ASSUME IInv, Untouched
  PROVE  CooldownInv' /\ PendingHeals' /\ NewPenIsFresh' /\ ~Requests(pen, pen')
BY DEF IInv, Untouched, CooldownInv, PendingHeals, NewPenIsFresh, Requests, Age

\* What RequestsAreSpaced asks of a step.
SpacedStep ==
  Requests(pen, pen') => sinceSwitch' >= Cooldown \/ pen'.lastSwitchFrame = 0

\* Every step keeps the invariant, and its requests are spaced.
LEMMA StepHolds == IInv /\ [Next]_vars => IInv' /\ SpacedStep
<1> SUFFICES ASSUME IInv, [Next]_vars PROVE IInv' /\ SpacedStep
  OBVIOUS
<1> USE DEF SpacedStep
<1>1. ASSUME NEW c \in Commands, ~OwnSwitch(c), Submit(c)
      PROVE  IInv' /\ SpacedStep
  <2>1. TypeOK'
    BY <1>1 DEF Submit, IInv, TypeOK, runVars, history
  <2>2. SwitchCommandIsCurrent'
    BY <1>1 DEF Submit, IInv, TypeOK, SwitchCommandIsCurrent, runVars, history
  <2> QED
    BY <1>1, <2>1, <2>2, UntouchedPen DEF Submit, IInv, Untouched, history
<1>2. CASE PenEvent
  <2>1. ASSUME NEW type \in {"InitStylus", "DisconnectStylus",
                             "EnableFreqShift"}
        PROVE  PolicyCmd(type, 0) \in Commands /\ ~OwnSwitch(PolicyCmd(type, 0))
    BY DEF PolicyCmd, Commands, Sources, OwnSwitch
  <2>2. ASSUME NEW t \in PenTypes
        PROVE  /\ PolicyCmd("SetStylusId", t) \in Commands
               /\ ~OwnSwitch(PolicyCmd("SetStylusId", t))
    BY DEF PolicyCmd, Commands, Sources, OwnSwitch
  <2> QED
    BY <1>1, <1>2, <2>1, <2>2 DEF PenEvent
<1>a. CASE AppCommand
  <2>1. PICK c \in Commands : c.source = "External" /\ Submit(c)
    BY <1>a DEF AppCommand
  <2>2. ~OwnSwitch(c)
    BY <2>1 DEF OwnSwitch
  <2> QED
    BY <1>1, <2>1, <2>2
<1>3. ASSUME NEW r \in Reports, PressureReport(r)
      PROVE  IInv' /\ SpacedStep
  <2>1. TypeOK'
    BY <1>3, ConstantsOK DEF PressureReport, IInv, TypeOK, runVars
  <2>2. SwitchCommandIsCurrent'
    BY <1>3 DEF PressureReport, IInv, SwitchCommandIsCurrent, runVars
  <2> QED
    BY <1>3, <2>1, <2>2, UntouchedPen DEF PressureReport, IInv, Untouched
<1>4. CASE BeginDrain \/ DrainDone \/ HoldReset \/ FrameFails
  <2> USE DEF BeginDrain, DrainDone, HoldReset, FrameFails, history
  <2>1. TypeOK'
    <3>1. UNCHANGED <<pen, report, history>>
      BY <1>4
    <3>2. queue' \in Seq(Commands) /\ phase' \in {"top", "drain", "work"}
      <4>1. queue' = queue \/ queue' = <<>>
        BY <1>4, Zenon
      <4>2. queue \in Seq(Commands)
        BY DEF IInv, TypeOK
      <4>3. phase' \in {"top", "drain", "work"}
        BY <1>4
      <4>4. queue' \in Seq(Commands)
        <5>1. CASE queue' = queue
          BY <4>2, <5>1, Zenon
        <5>2. CASE queue' = <<>>
          <6> HIDE DEF BeginDrain, DrainDone, HoldReset, FrameFails
          <6> QED
            BY <5>2
        <5> QED
          BY <4>1, <5>1, <5>2
      <4> QED
        BY <4>3, <4>4
    <3>3. streaming' \in BOOLEAN
      BY <1>4, Zenon DEF IInv, TypeOK
    <3>4. conn' \in BOOLEAN
      BY <1>4, Zenon DEF IInv, TypeOK
    <3> QED
      BY <3>1, <3>2, <3>3, <3>4 DEF IInv, TypeOK
  <2>2. SwitchCommandIsCurrent'
    BY <1>4 DEF IInv, SwitchCommandIsCurrent
  <2> QED
    BY <1>4, <2>1, <2>2, UntouchedPen DEF IInv, Untouched
<1>5. CASE DrainCommand
  <2>1. /\ Head(queue) \in Commands /\ queue' \in Seq(Commands)
        /\ pen \in Pens
        /\ ~pen.connected => [pen EXCEPT !.freq1Cmd = 0] = NoPen
    BY <1>5 DEF DrainCommand, IInv, TypeOK, NewPenIsFresh
  <2>2. pen' = pen \/ pen' \in Executed(Head(queue), pen)
    BY <1>5 DEF DrainCommand
  <2>3. CommandStep(pen, pen')
    <3>1. CASE pen' = pen
      BY <2>1, <3>1 DEF CommandStep
    <3> QED
      BY <2>1, <2>2, <3>1, CommandEffect
  <2>4. UNCHANGED <<runVars, report, history>> /\ phase = "drain"
    BY <1>5 DEF DrainCommand
  <2>5. TypeOK'
    BY <2>1, <2>3, <2>4 DEF IInv, TypeOK, CommandStep, runVars, history
  <2>6. CooldownInv' /\ PendingHeals' /\ ~Requests(pen, pen')
    BY <2>3, <2>4 DEF IInv, CommandStep, CooldownInv, PendingHeals, Requests,
       NoPen, Age, history
  <2>7. NewPenIsFresh'
    BY <2>1, <2>3 DEF CommandStep, NewPenIsFresh
  <2>8. SwitchCommandIsCurrent'
    BY <2>4 DEF SwitchCommandIsCurrent, runVars
  <2> QED
    BY <2>5, <2>6, <2>7, <2>8 DEF IInv
<1>6. CASE InitChip
  <2>1. TypeOK'
    BY <1>6, NoPenType DEF InitChip, IInv, TypeOK, history
  <2>2. SwitchCommandIsCurrent'
    BY <1>6 DEF InitChip, IInv, SwitchCommandIsCurrent
  <2>3. CooldownInv' /\ PendingHeals' /\ NewPenIsFresh' /\ ~Requests(pen, pen')
    BY <1>6, NoPenType DEF InitChip, CooldownInv, PendingHeals, NewPenIsFresh,
       Requests, NoPen
  <2> QED
    BY <2>1, <2>2, <2>3 DEF IInv
<1>7. ASSUME NEW s \in Statuses, Frame(s)
      PROVE  IInv' /\ SpacedStep
  <2>0. /\ phase = "work" /\ phase' = "top"
        /\ UNCHANGED <<streaming, conn, report>>
        /\ silent' \in 0 .. HibernateTimeout + 1
    BY <1>7, ConstantsOK DEF Frame, IInv, TypeOK, UpTo, history
  <2>1. CASE ~pen.connected
    <3>1. UNCHANGED <<pen, queue, sinceSwitch>>
      BY <1>7, <2>1 DEF Frame, history
    <3>2. TypeOK'
      BY <2>0, <3>1 DEF IInv, TypeOK
    <3>3. SwitchCommandIsCurrent'
      BY <2>0, <3>1 DEF IInv, SwitchCommandIsCurrent
    <3> QED
      BY <3>1, <3>2, <3>3, UntouchedPen DEF IInv, Untouched
  <2>2. CASE pen.connected
    <3>1. /\ pen' \in Pens /\ pen'.connected
          /\ sinceSwitch' \in 0 .. Cooldown
          /\ CooldownInv' /\ PendingHeals' /\ SpacedStep
      BY <1>7, <2>2, PenFrame
    <3>2. \/ queue' = queue
          \/ /\ queue' = Append(queue, PolicyCmd("ForceToFreqPoint",
                                                 pen'.switchTargetIdx))
             /\ pen'.switchReqPending
      BY <1>7, <2>2 DEF Frame, Requests
    <3>3. PolicyCmd("ForceToFreqPoint", pen'.switchTargetIdx) \in Commands
      BY <3>1 DEF PolicyCmd, Commands, Sources, Pens
    <3>4. TypeOK'
      BY <2>0, <3>1, <3>2, <3>3 DEF IInv, TypeOK
    <3>5. SwitchCommandIsCurrent'
      <4>1. \A i \in 1 .. Len(queue) : ~OwnSwitch(queue[i])
        BY <2>0 DEF IInv, SwitchCommandIsCurrent
      <4>2. CASE queue' = queue
        BY <4>1, <4>2 DEF SwitchCommandIsCurrent
      <4>3. CASE /\ queue' = Append(queue, PolicyCmd("ForceToFreqPoint",
                                                   pen'.switchTargetIdx))
                 /\ pen'.switchReqPending
        <5>1. queue \in Seq(Commands)
          BY DEF IInv, TypeOK
        <5>2. /\ Len(queue') = Len(queue) + 1 /\ Len(queue) \in Nat
              /\ \A i \in 1 .. Len(queue) : queue'[i] = queue[i]
              /\ queue'[Len(queue) + 1].param = pen'.switchTargetIdx
          BY <4>3, <5>1 DEF PolicyCmd
        <5>3. \A i \in 1 .. Len(queue') : OwnSwitch(queue'[i]) => i = Len(queue')
          BY <4>1, <5>2 DEF OwnSwitch
        <5> QED
          BY <2>0, <4>3, <5>2, <5>3 DEF SwitchCommandIsCurrent
      <4> QED
        BY <3>2, <4>2, <4>3
    <3> QED
      BY <3>1, <3>4, <3>5 DEF IInv, NewPenIsFresh
  <2> QED
    BY <2>1, <2>2
<1>8. CASE UNCHANGED vars
  BY <1>8, UntouchedPen DEF vars, runVars, history, IInv, TypeOK, Untouched,
     SwitchCommandIsCurrent
<1> QED
  BY <1>2, <1>a, <1>3, <1>4, <1>5, <1>6, <1>7, <1>8 DEF Next

\* The invariant holds in every reachable state.
THEOREM Invariance == Spec => []IInv
BY InitHolds, StepHolds, PTL DEF Spec

\* Every field of the pen and every command keeps its type.
THEOREM TypeCorrect == Spec => []TypeOK
<1>1. IInv => TypeOK
  BY DEF IInv
<1> QED
  BY <1>1, Invariance, PTL

\* No request stays pending for longer than the timeout while frames come.
THEOREM RequestsHeal == Spec => []PendingHeals
<1>1. IInv => PendingHeals
  BY DEF IInv
<1> QED
  BY <1>1, Invariance, PTL

\* A pen inherits nothing from the pen before but the bound frequency pair.
THEOREM PensAreFresh == Spec => []NewPenIsFresh
<1>1. IInv => NewPenIsFresh
  BY DEF IInv
<1> QED
  BY <1>1, Invariance, PTL

\* The service's own switch command is the only one in the queue and that of the
\* outstanding request, whatever the App queues beside it.
THEOREM CommandsAreCurrent == Spec => []SwitchCommandIsCurrent
<1>1. IInv => SwitchCommandIsCurrent
  BY DEF IInv
<1> QED
  BY <1>1, Invariance, PTL

\* The cooldown keeps requests apart, also while the frame counter wraps.
THEOREM CooldownHolds == Spec => RequestsAreSpaced
<1>1. IInv /\ [Next]_vars =>
        [Requests(pen, pen') =>
           sinceSwitch' >= Cooldown \/ pen'.lastSwitchFrame = 0]_vars
  BY StepHolds DEF SpacedStep
<1> QED
  BY <1>1, Invariance, PTL DEF Spec, RequestsAreSpaced
==============================================================================
