--------------------------- MODULE Stylus_proofs ----------------------------
(* Types of Stylus, visits that start over, and what its frames inherit from  *)
(* the scan of their windows.  What a located frame does to the filters is    *)
(* shown once for any set of origins that holds "now": with all of them it    *)
(* gives the types, with "now" alone that no register is from an old visit.   *)
EXTENDS StylusInv, StylusWindow_proofs, SequenceTheorems

USE StylusAssumption

----------------------------------------------------------------------------
\* The filters over the origins in X

\* CoorPostProcessor::Process keeps its registers over X.
LEMMA PostOver ==
    ASSUME NEW X, "now" \in X, NEW p \in Posts(SUBSET X), NEW moved \in BOOLEAN
    PROVE  /\ Processed(p, moved) \in SUBSET X
           /\ PostProcess(p, moved) \in Posts(SUBSET X)
<1>1. /\ p.prev0 \in SUBSET X /\ p.prev1 \in SUBSET X /\ p.iir \in SUBSET X
      /\ p.locked \in SUBSET X /\ p.history \in SUBSET X /\ p.frames \in 0 .. 2
  BY DEF Posts
<1>2. Averaged(p) \in SUBSET X
  BY <1>1 DEF Averaged
<1>3. Smoothed(p) \in SUBSET X
  BY <1>1, <1>2 DEF Smoothed
<1>4. Processed(p, moved) \in SUBSET X
  BY <1>1, <1>3 DEF Processed
<1>5. p.history \cup {"now"} \in SUBSET X
  BY <1>1
<1>6. (IF p.frames < 2 THEN p.frames + 1 ELSE 2) \in 0 .. 2
  BY <1>1
<1> QED
  BY <1>1, <1>3, <1>4, <1>5, <1>6 DEF PostProcess, Posts

\* A located frame: the filters stay over X and so does the point.
LEMMA LocatedOver ==
    ASSUME NEW X, "now" \in X, post \in Posts(SUBSET X), Located
    PROVE  /\ post' \in Posts(SUBSET X)
           /\ \E point \in SUBSET X, button \in BOOLEAN :
                 result' = [stage |-> "solved", point |-> point, pressed |-> Pressed,
                            button |-> button, animState |-> lifecycle']
<1>1. PICK moved \in BOOLEAN, pushed \in BOOLEAN :
         /\ post' = PostProcess(post, moved)
         /\ result' = [stage |-> "solved", point |-> Processed(post, moved),
                       pressed |-> Pressed, button |-> pushed \/ Held(pushed),
                       animState |-> lifecycle']
  BY Zenon DEF Located
<1>2. Processed(post, moved) \in SUBSET X /\ PostProcess(post, moved) \in Posts(SUBSET X)
  BY PostOver
<1>3. (pushed \/ Held(pushed)) \in BOOLEAN
  BY Zenon DEF Held
<1> QED
  BY <1>1, <1>2, <1>3, Zenon

----------------------------------------------------------------------------
\* Types

\* A reset leaves every register empty.
LEMMA EmptyRegisters ==
    ASSUME NEW X
    PROVE  FreshPost \in Posts(SUBSET X)
BY DEF FreshPost, Posts

\* A register that ages keeps its type.
LEMMA AgedType ==
    ASSUME NEW p \in Posts(Origins)
    PROVE  AgedPost(p) \in Posts(Origins)
<1>1. \A o \in Origins : Aged(o) \in Origins
  BY DEF Aged, Origins, Visits
<1> QED
  BY <1>1 DEF AgedPost, Posts

\* The life cycle of the pen keeps its type, and lifting ends in time.
LEMMA LifecycleType ==
    ASSUME TypeOK, NEW valid \in BOOLEAN, NEW down \in BOOLEAN, UpdatePenLifecycle(valid, down),
           LiftingInTime
    PROVE  /\ lifecycle' \in Lifecycles /\ liftingFrames' \in 0 .. LiftingTimeout + 1
           /\ LiftingInTime'
  BY DEF TypeOK, UpdatePenLifecycle, Lifecycles, LiftingInTime

\* The pressure history without its old samples is one.
LEMMA SamplesKept ==
    ASSUME samples \in Seq(Samples), Len(samples) <= MaxSamples, DropOld
    PROVE  samples' \in Seq(Samples) /\ Len(samples') <= MaxSamples
<1>1. PICK n \in 0 .. Len(samples) : samples' = SubSeq(samples, n + 1, Len(samples))
  BY DEF DropOld
<1>2. Len(samples) \in Nat
  BY LenProperties
<1>3. samples' \in Seq(Samples)
  BY <1>1, <1>2, SubSeqProperties
<1>4. Len(samples') = IF n + 1 <= Len(samples) THEN Len(samples) - n ELSE 0
  BY <1>1, <1>2, SubSeqProperties
<1> QED
  BY <1>2, <1>3, <1>4

\* The pressure history with one more sample is within its capacity.
LEMMA SamplesGrow ==
    ASSUME samples \in Seq(Samples), Len(samples) <= MaxSamples, NEW s \in Samples
    PROVE  /\ Trimmed(Append(samples, s)) \in Seq(Samples)
           /\ Len(Trimmed(Append(samples, s))) <= MaxSamples
<1>1. /\ Append(samples, s) \in Seq(Samples)
      /\ Append(samples, s) # << >>
      /\ Len(Append(samples, s)) = Len(samples) + 1
  BY AppendProperties
<1>2. /\ Tail(Append(samples, s)) \in Seq(Samples)
      /\ Len(Tail(Append(samples, s))) = Len(samples)
  BY <1>1, HeadTailProperties
<1> QED
  BY <1>1, <1>2 DEF Trimmed

\* The pressure history stays one when time passes.
LEMMA SamplesAge ==
    ASSUME samples \in Seq(Samples), Len(samples) <= MaxSamples, Tick
    PROVE  samples' \in Seq(Samples) /\ Len(samples') <= MaxSamples
<1>1. PICK ages \in [DOMAIN samples -> Ages] :
         samples' = [i \in DOMAIN samples |-> [samples[i] EXCEPT !.age = ages[i]]]
  BY Zenon DEF Tick
<1>2. DOMAIN samples = 1 .. Len(samples) /\ Len(samples) \in Nat
  BY LenProperties
<1>3. \A i \in 1 .. Len(samples) : samples[i] \in Samples
  BY ElementOfSeq
<1>4. \A i \in 1 .. Len(samples) : [samples[i] EXCEPT !.age = ages[i]] \in Samples
  BY <1>1, <1>2, <1>3 DEF Samples
<1>5. samples' = [i \in 1 .. Len(samples) |-> [samples[i] EXCEPT !.age = ages[i]]]
  BY <1>1, <1>2
<1>6. samples' \in Seq(Samples)
  BY <1>2, <1>4, <1>5, IsASeq
<1>7. Len(samples') = Len(samples)
  BY <1>2, <1>5, <1>6, LenProperties
<1> QED
  BY <1>6, <1>7

\* A frame without a point has no position.
LEMMA NoResultType ==
    ASSUME NEW s \in Stages, NEW l \in Lifecycles
    PROVE  /\ NoResult(s) \in Results
           /\ [NoResult(s) EXCEPT !.animState = l] \in Results
           /\ NoResult(s).point = {}
           /\ [NoResult(s) EXCEPT !.animState = l].point = {}
<1>1. NoResult(s) \in Results
  BY DEF NoResult, Results, Origins, Lifecycles
<1>2. [NoResult(s) EXCEPT !.animState = l] \in Results
  BY <1>1 DEF Results
<1> QED
  BY <1>1, <1>2 DEF NoResult

\* A solver that just started has its types.
LEMMA TInvInit == Init => TInv
<1> SUFFICES ASSUME Init PROVE TInv
  OBVIOUS
<1>1. FreshPost \in Posts(Origins)
  BY EmptyRegisters DEF Origins
<1>2. NoResult("absent") \in Results
  BY NoResultType DEF Stages, Lifecycles
<1>3. << >> \in Seq(Samples) /\ Len(<< >>) = 0
  BY EmptySeq
<1>4. prevValid \in BOOLEAN
  BY Zenon DEF Init
<1> QED
  BY <1>1, <1>2, <1>3, <1>4 DEF Init, TInv, TypeOK, LiftingInTime, Lifecycles

\* Every step keeps the types.
LEMMA TInvNext == TInv /\ [Next]_vars => TInv'
<1> SUFFICES ASSUME TInv, [Next]_vars PROVE TInv'
  OBVIOUS
<1>0. TypeOK /\ LiftingInTime /\ prevValid \in BOOLEAN
  BY Zenon DEF TInv, TypeOK
<1>1. CASE ParseFailure
  <2>1. post' \in Posts(Origins)
    BY <1>1, EmptyRegisters DEF ParseFailure, Origins
  <2>2. result' \in Results
    BY <1>1, NoResultType DEF ParseFailure, Stages, Lifecycles
  <2>3. prevValid' \in BOOLEAN
    BY <1>1, Zenon DEF ParseFailure
  <2> QED
    BY <1>0, <1>1, <2>1, <2>2, <2>3 DEF ParseFailure, TInv, TypeOK, LiftingInTime
<1>2. CASE NoPen
  <2>1. post' \in Posts(Origins)
    <3>1. FreshPost \in Posts(Origins)
      BY EmptyRegisters DEF Origins
    <3>2. (IF prevValid THEN post ELSE FreshPost) \in Posts(Origins)
      BY <1>0, <3>1 DEF TypeOK
    <3> QED
      BY <1>2, <3>2, AgedType DEF NoPen
  <2>2. lifecycle' \in Lifecycles /\ liftingFrames' \in 0 .. LiftingTimeout + 1 /\ LiftingInTime'
    BY <1>0, <1>2, LifecycleType DEF NoPen
  <2>3. result' \in Results
    BY <1>2, <2>2, NoResultType DEF NoPen, Stages
  <2>4. prevValid' \in BOOLEAN
    BY <1>2, Zenon DEF NoPen
  <2>5. away' \in 0 .. 2
    BY <1>2 DEF NoPen
  <2> QED
    BY <1>0, <1>2, <2>1, <2>2, <2>3, <2>4, <2>5 DEF NoPen, TInv, TypeOK
<1>3. CASE Unlocated
  <2>1. lifecycle' \in Lifecycles /\ liftingFrames' \in 0 .. LiftingTimeout + 1 /\ LiftingInTime'
    BY <1>0, <1>3, LifecycleType DEF Unlocated
  <2>2. result' \in Results
    BY <1>3, <2>1, NoResultType DEF Unlocated, Stages
  <2>3. prevValid' \in BOOLEAN
    BY <1>3, Zenon DEF Unlocated
  <2> QED
    BY <1>0, <1>3, <2>1, <2>2, <2>3 DEF Unlocated, TInv, TypeOK
<1>4. CASE Located
  <2>1. "now" \in Visits /\ post \in Posts(SUBSET Visits)
    BY <1>0 DEF TypeOK, Origins, Visits
  <2>2. Pressed \in BOOLEAN
    BY Zenon DEF Pressed
  <2>3. lifecycle' \in Lifecycles /\ liftingFrames' \in 0 .. LiftingTimeout + 1 /\ LiftingInTime'
    BY <1>0, <1>4, <2>2, LifecycleType DEF Located
  <2>4. post' \in Posts(Origins)
    BY <1>4, <2>1, LocatedOver DEF Origins
  <2>5. result' \in Results
    <3>1. PICK point \in Origins, button \in BOOLEAN :
             result' = [stage |-> "solved", point |-> point, pressed |-> Pressed,
                        button |-> button, animState |-> lifecycle']
      BY <1>4, <2>1, LocatedOver, Zenon DEF Origins
    <3> HIDE DEF Pressed
    <3> QED
      BY <2>2, <2>3, <3>1 DEF Results, Stages
  <2>6. samples' \in Seq(Samples) /\ Len(samples') <= MaxSamples
    BY <1>0, <1>4, SamplesKept DEF Located, TypeOK
  <2>7. prevValid' \in BOOLEAN
    BY <1>4, Zenon DEF Located
  <2>8. buttonRelease' \in 0 .. ReleaseHold
    <3>1. \E pushed \in BOOLEAN : buttonRelease' = IF pushed THEN ReleaseHold
                                   ELSE IF Held(pushed) THEN buttonRelease - 1 ELSE 0
      BY <1>4, Zenon DEF Located
    <3> QED
      BY <1>0, <3>1 DEF TypeOK, Held
  <2>9. away' \in 0 .. 2
    BY <1>4 DEF Located
  <2> QED
    BY <2>3, <2>4, <2>5, <2>6, <2>7, <2>8, <2>9 DEF TInv, TypeOK
<1>5. CASE SetBtMcuPressure
  <2>1. samples' \in Seq(Samples) /\ Len(samples') <= MaxSamples
    <3>1. PICK down \in BOOLEAN : samples' = Trimmed(Append(samples, [age |-> 0, down |-> down]))
      BY <1>5 DEF SetBtMcuPressure
    <3>2. [age |-> 0, down |-> down] \in Samples
      BY DEF Samples, Ages
    <3> QED
      BY <1>0, <3>1, <3>2, SamplesGrow DEF TypeOK
  <2> QED
    BY <1>0, <1>5, <2>1 DEF SetBtMcuPressure, pen, TInv, TypeOK, LiftingInTime
<1>6. CASE Tick
  <2>1. samples' \in Seq(Samples) /\ Len(samples') <= MaxSamples
    BY <1>0, <1>6, SamplesAge DEF TypeOK
  <2> QED
    BY <1>0, <1>6, <2>1 DEF Tick, pen, TInv, TypeOK, LiftingInTime
<1>7. CASE ScanWindow
  BY <1>0, <1>7 DEF ScanWindow, pen, TInv, TypeOK, LiftingInTime
<1>8. CASE UNCHANGED vars
  BY <1>0, <1>8 DEF vars, pen, TInv, TypeOK, LiftingInTime
<1> QED
  BY <1>1, <1>2, <1>3, <1>4, <1>5, <1>6, <1>7, <1>8 DEF Next

\* The filters, the counters and the result keep their types, for every timeout,
\* hold and length of the history of pressures.
THEOREM Types == Spec => []TypeOK
<1>1. Init => TInv
  BY TInvInit
<1>2. TInv /\ [Next]_vars => TInv'
  BY TInvNext
<1>3. TInv => TypeOK
  BY DEF TInv
<1> QED
  BY <1>1, <1>2, <1>3, PTL DEF Spec

----------------------------------------------------------------------------
\* Visits

\* A solver that just started has no point and no pen.
LEMMA FreshInit == Init => IInv
<1> SUFFICES ASSUME Init PROVE IInv
  OBVIOUS
<1>1. FreshPost \in Posts(SUBSET {"now"})
  BY EmptyRegisters
<1>2. result.point = {}
  BY DEF Init, NoResult
<1> QED
  BY <1>1, <1>2, TInvInit DEF Init, IInv, FiltersAreFresh, AbsentIsOver, VisitStartsOver

\* What was never set is not old.
LEMMA AgedFresh == AgedPost(FreshPost) = FreshPost
BY DEF AgedPost, FreshPost, Aged

\* Every step keeps the values of a visit apart from those of earlier ones, and
\* the life cycle ends with the visit.
LEMMA FreshNext == IInv /\ [Next]_vars => IInv'
<1> SUFFICES ASSUME IInv, [Next]_vars PROVE IInv'
  OBVIOUS
<1>0. /\ TInv' /\ post \in Posts(SUBSET {"now"}) /\ away \in 0 .. 2
      /\ lifecycle \in Lifecycles
      /\ away > 0 => ~prevValid /\ lifecycle \in {"Leave", "Lifting"}
      /\ away = 2 => lifecycle = "Leave"
  BY TInvNext DEF IInv, FiltersAreFresh, TInv, TypeOK, AbsentIsOver, VisitStartsOver
<1> SUFFICES FiltersAreFresh' /\ AbsentIsOver' /\ VisitStartsOver'
  BY <1>0 DEF IInv
<1>1. CASE ParseFailure
  <2>1. post' \in Posts(SUBSET {"now"})
    BY <1>1, EmptyRegisters DEF ParseFailure
  <2>2. result'.point = {}
    BY <1>1 DEF ParseFailure, NoResult
  <2> QED
    BY <1>0, <1>1, <2>1, <2>2 DEF ParseFailure, FiltersAreFresh, AbsentIsOver, VisitStartsOver
<1>2. CASE NoPen
  <2>1. post' \in Posts(SUBSET {"now"})
    <3>1. FreshPost \in Posts(SUBSET {"now"})
      BY EmptyRegisters
    <3>2. CASE away = 0
      BY <1>0, <1>2, <3>1, <3>2 DEF NoPen
    <3>3. CASE away # 0
      <4>1. ~prevValid
        BY <1>0, <3>3
      <4> QED
        BY <1>2, <3>1, <3>3, <4>1, AgedFresh DEF NoPen
    <3> QED
      BY <3>2, <3>3
  <2>2. result'.point = {}
    BY <1>2 DEF NoPen, NoResult
  <2>3. ~prevValid'
    BY <1>2 DEF NoPen
  <2>4. /\ away' = IF away = 0 THEN 1 ELSE 2
        /\ UpdatePenLifecycle(FALSE, FALSE)
    BY <1>2 DEF NoPen
  <2>5. lifecycle' \in {"Leave", "Lifting"}
    BY <1>0, <2>4 DEF UpdatePenLifecycle, Lifecycles
  <2>6. away' = 2 => lifecycle' = "Leave"
    BY <1>0, <2>4 DEF UpdatePenLifecycle, Lifecycles
  <2> QED
    BY <2>1, <2>2, <2>3, <2>5, <2>6 DEF FiltersAreFresh, AbsentIsOver, VisitStartsOver
<1>3. CASE Unlocated
  <2>1. result'.point = {}
    BY <1>3 DEF Unlocated, NoResult
  <2> QED
    BY <1>0, <1>3, <2>1 DEF Unlocated, FiltersAreFresh, AbsentIsOver, VisitStartsOver
<1>4. CASE Located
  <2>1. post' \in Posts(SUBSET {"now"})
    BY <1>0, <1>4, LocatedOver
  <2>2. PICK point \in SUBSET {"now"}, button \in BOOLEAN :
           result' = [stage |-> "solved", point |-> point, pressed |-> Pressed,
                      button |-> button, animState |-> lifecycle']
    BY <1>0, <1>4, LocatedOver, Zenon
  <2>3. result'.point = point
    BY <2>2
  <2>4. away' = 0
    BY <1>4 DEF Located
  <2> QED
    BY <2>1, <2>3, <2>4 DEF FiltersAreFresh, AbsentIsOver, VisitStartsOver
<1>5. CASE SetBtMcuPressure
  BY <1>0, <1>5 DEF SetBtMcuPressure, pen, IInv, FiltersAreFresh, AbsentIsOver, VisitStartsOver
<1>6. CASE Tick
  BY <1>0, <1>6 DEF Tick, pen, IInv, FiltersAreFresh, AbsentIsOver, VisitStartsOver
<1>7. CASE ScanWindow
  BY <1>0, <1>7 DEF ScanWindow, pen, IInv, FiltersAreFresh, AbsentIsOver, VisitStartsOver
<1>8. CASE UNCHANGED vars
  BY <1>0, <1>8 DEF vars, pen, IInv, FiltersAreFresh, AbsentIsOver, VisitStartsOver
<1> QED
  BY <1>1, <1>2, <1>3, <1>4, <1>5, <1>6, <1>7, <1>8 DEF Next

\* Whatever frames could not be read or located: a visit's points come from that
\* visit alone, and two frames without pen end its life cycle.
THEOREM VisitsStartOver == Spec => []VisitStartsOver
<1>1. Init => IInv
  BY FreshInit
<1>2. IInv /\ [Next]_vars => IInv'
  BY FreshNext
<1>3. IInv => VisitStartsOver
  BY DEF IInv
<1> QED
  BY <1>1, <1>2, <1>3, PTL DEF Spec

----------------------------------------------------------------------------
\* The windows of the frames

\* Frame after frame, with the pen thread in between, the pipeline treats its
\* windows as StylusWindow says.
THEOREM FramesScanWindows == Spec => WindowSpec
<1>1. Init => WindowInit
  BY DEF Init
<1>2. [Next]_vars => [WindowNext]_windowVars
  <2> SUFFICES ASSUME [Next]_vars PROVE [WindowNext]_windowVars
    OBVIOUS
  <2>1. CASE ScanWindow
    BY <2>1 DEF ScanWindow, WindowNext
  <2>2. CASE ParseFailure \/ NoPen \/ Unlocated \/ Located
    BY <2>2 DEF ParseFailure, NoPen, Unlocated, Located, WindowNext
  <2>3. CASE SetBtMcuPressure \/ Tick
    BY <2>3 DEF SetBtMcuPressure, Tick
  <2>4. CASE UNCHANGED vars
    BY <2>4 DEF vars
  <2> QED
    BY <2>1, <2>2, <2>3, <2>4 DEF Next
<1> QED
  BY <1>1, <1>2, PTL DEF Spec, WindowSpec

\* So its peaks are found and its coordinates lie where their peaks do.
THEOREM FramesAreSolved == Spec => [](PeakIsFound /\ SolvedInCell)
BY FramesScanWindows, PeaksAreFound, CoordinatesInCell, PTL
=============================================================================
