------------------------- MODULE FrameChannel_proofs -------------------------
(***************************************************************************)
(* Proofs about FrameChannel, for any number of blocks, frames and ring    *)
(* slots: its types, that reading never outruns what was written, that the *)
(* window misses nothing, and that the DVR ring holds the newest frames.   *)
(***************************************************************************)
EXTENDS FrameChannelInv, TLAPS

-----------------------------------------------------------------------------
(* Arithmetic of the ring.                                                 *)

\* A remainder is a slot of the ring.
LEMMA RemainderIsSlot ==
  ASSUME NEW x \in Nat
  PROVE  Slot(x) \in 0 .. Capacity - 1
BY ConstantsOK DEF Slot

\* Within the first lap an index is its own slot.
LEMMA FirstLap ==
  ASSUME NEW x \in Nat, x < Capacity
  PROVE  Slot(x) = x
BY ConstantsOK DEF Slot

\* Within the second lap a slot is the index less one capacity.
LEMMA SecondLap ==
  ASSUME NEW x \in Nat, x >= Capacity, x < Capacity + Capacity
  PROVE  Slot(x) = x - Capacity
BY ConstantsOK DEF Slot

-----------------------------------------------------------------------------
(* Types.                                                                  *)

\* The initial state is typed.
LEMMA InitTyped == Init => TypeOK
<1> SUFFICES ASSUME Init PROVE TypeOK
  OBVIOUS
<1>1. Whole(0) \in Frames
  BY DEF Whole, Frames
<1>2. 0 \in 0 .. Capacity - 1 /\ 0 \in 0 .. Capacity
  BY ConstantsOK
<1>3. buffer \in [0 .. Capacity - 1 -> Frames]
  BY <1>1 DEF Init
<1>4. delivered \in Seq(Frames)
  BY DEF Init
<1>5. QED
  BY <1>1, <1>2, <1>3, <1>4 DEF Init, TypeOK

\* A push keeps the types of the ring.
LEMMA PushTyped ==
  ASSUME TypeOK, PollPush
  PROVE  TypeOK'
<1>1. latest \in Frames
  BY DEF TypeOK
<1>2. buffer' \in [0 .. Capacity - 1 -> Frames]
  BY <1>1 DEF PollPush, PushOverwriting, TypeOK
<1>3. tail' \in 0 .. Capacity - 1
  BY RemainderIsSlot DEF PollPush, PushOverwriting, TypeOK
<1>4. head' \in 0 .. Capacity - 1
  <2>1. head \in 0 .. Capacity - 1 /\ head + 1 \in Nat
    BY ConstantsOK DEF TypeOK
  <2>2. head' = head \/ head' = Slot(head + 1)
    BY DEF PollPush, PushOverwriting
  <2>3. QED
    BY <2>1, <2>2, RemainderIsSlot
<1>5. count' \in 0 .. Capacity
  BY ConstantsOK DEF PollPush, PushOverwriting, TypeOK
<1>6. delivered' \in Seq(Frames)
  BY <1>1 DEF PollPush, TypeOK
<1>7. QED
  BY <1>2, <1>3, <1>4, <1>5, <1>6
     DEF PollPush, TypeOK, shmVars, writerVars, linkVars, frameVars,
         windowVars

\* A step of any thread keeps the types.
LEMMA StepTyped == TypeOK /\ [Next]_vars => TypeOK'
<1> SUFFICES ASSUME TypeOK, [Next]_vars PROVE TypeOK'
  OBVIOUS
<1> USE DEF shmVars, writerVars, linkVars, pollVars, frameVars, windowVars,
            ringVars
<1>1. ASSUME WriteBegin PROVE TypeOK'
  BY <1>1 DEF WriteBegin, TypeOK
<1>2. ASSUME LockVisible PROVE TypeOK'
  <2>1. /\ lockFlag' \in BOOLEAN /\ lockPending' \in BOOLEAN
        /\ UNCHANGED <<block, frameId, frameEvent, writing, wpc, unwritten,
                       idPending, linkVars, pollVars, frameVars, windowVars,
                       ringVars>>
    BY <1>2 DEF LockVisible
  <2>2. QED
    BY <2>1 DEF TypeOK
<1>3. ASSUME NEW b \in BlockSet, BlockVisible(b) PROVE TypeOK'
  <2>1. block' \in Frames
    BY <1>3 DEF BlockVisible, TypeOK, Frames
  <2>2. QED
    BY <1>3, <2>1 DEF BlockVisible, TypeOK
<1>4. ASSUME IdVisible PROVE TypeOK'
  <2>1. /\ idPending' \in BOOLEAN
        /\ UNCHANGED <<block, lockFlag, frameEvent, writing, wpc, unwritten,
                       lockPending, linkVars, pollVars, frameVars, windowVars,
                       ringVars>>
    BY <1>4 DEF IdVisible
  <2>2. frameId' \in Nat
    BY <1>4 DEF IdVisible, TypeOK
  <2>3. QED
    BY <2>1, <2>2 DEF TypeOK
<1>5. ASSUME WriteUnlock PROVE TypeOK'
  BY <1>5 DEF WriteUnlock, TypeOK
<1>6. ASSUME WriteSignal PROVE TypeOK'
  BY <1>6 DEF WriteSignal, TypeOK
<1>7. ASSUME PollExit \/ PollWake \/ PollLock PROVE TypeOK'
  BY <1>7 DEF PollExit, PollWake, PollLock, TypeOK
<1>8. ASSUME ReadSpin PROVE TypeOK'
  BY <1>8 DEF ReadSpin, ReadNothing, TypeOK
<1>9. ASSUME ReadId PROVE TypeOK'
  BY <1>9 DEF ReadId, ReadNothing, TypeOK
<1>10. ASSUME NEW b \in BlockSet, ReadBlock(b) PROVE TypeOK'
  <2>1. latest' \in Frames
    BY <1>10 DEF ReadBlock, TypeOK, Frames
  <2>2. QED
    BY <1>10, <2>1 DEF ReadBlock, TypeOK
<1>11. ASSUME ReadDone PROVE TypeOK'
  BY <1>11 DEF ReadDone, TypeOK
<1>12. ASSUME Connect PROVE TypeOK'
  BY <1>12 DEF Connect, TypeOK
<1>13. ASSUME Disconnect PROVE TypeOK'
  <2>1. /\ polling' \in BOOLEAN
        /\ UNCHANGED <<shmVars, writerVars, debugMode, pollVars, frameVars,
                       windowVars, ringVars>>
    BY <1>13 DEF Disconnect
  <2>2. QED
    BY <2>1 DEF TypeOK
<1>14. ASSUME ExitDebugMode PROVE TypeOK'
  <2>1. /\ debugMode' \in BOOLEAN
        /\ UNCHANGED <<shmVars, writerVars, polling, pollVars, frameVars,
                       windowVars, ringVars>>
    BY <1>14 DEF ExitDebugMode
  <2>2. QED
    BY <2>1 DEF TypeOK
<1>15. ASSUME WindowStep PROVE TypeOK'
  <2>1. ASSUME WindowCheck \/ WindowLock PROVE TypeOK'
    BY <2>1 DEF WindowCheck, WindowLock, TypeOK
  <2>2. ASSUME WindowCopy PROVE TypeOK'
    BY <2>2 DEF WindowCopy, TypeOK
  <2>3. ASSUME WindowClear PROVE TypeOK'
    BY <2>3 DEF WindowClear, TypeOK
  <2>4. QED
    BY <1>15, <2>1, <2>2, <2>3 DEF WindowStep
<1>16. ASSUME UNCHANGED vars PROVE TypeOK'
  BY <1>16 DEF vars, TypeOK
<1>17. QED
  BY PushTyped, <1>1, <1>2, <1>3, <1>4, <1>5, <1>6, <1>7, <1>8, <1>9, <1>10,
     <1>11, <1>12, <1>13, <1>14, <1>15, <1>16
     DEF Next, WriterStep, PollStep, LinkStep

\* Every variable keeps its type: the ring never counts more elements than it
\* has slots, and its indices stay within it.
THEOREM TypeCorrect == Spec => []TypeOK
BY InitTyped, StepTyped, PTL DEF Spec

-----------------------------------------------------------------------------
(* Reading against writing.                                                *)

ReadingInv == IdInv /\ BlockInv /\ ReadInv /\ AtMostOneBehind

\* No step makes what was read more than one frame older than its id.
LEMMA StepKeepsReading ==
  TypeOK /\ ReadingInv /\ [Next]_vars => ReadingInv'
<1> SUFFICES ASSUME TypeOK, ReadingInv, [Next]_vars PROVE ReadingInv'
  OBVIOUS
<1> USE DEF ReadingInv, IdInv, BlockInv, ReadInv, AtMostOneBehind, Reading
<1>typed. /\ frameId \in Nat /\ writing \in Nat /\ currentId \in Nat
          /\ lastReadId \in Nat /\ unwritten \subseteq BlockSet
          /\ block \in [BlockSet -> Nat] /\ latest \in [BlockSet -> Nat]
          /\ idPending \in BOOLEAN
  BY DEF TypeOK, Frames
<1>1. CASE WriteBegin
  BY <1>1, <1>typed DEF WriteBegin, shmVars, pollVars, frameVars
<1>2. ASSUME NEW b \in BlockSet, BlockVisible(b) PROVE ReadingInv'
  BY <1>2, <1>typed DEF BlockVisible, pollVars, frameVars
<1>3. CASE IdVisible
  BY <1>3, <1>typed DEF IdVisible, pollVars, frameVars
<1>4. CASE LockVisible \/ WriteUnlock \/ WriteSignal
  BY <1>4 DEF LockVisible, WriteUnlock, WriteSignal, pollVars, frameVars
<1>5. CASE PollExit \/ PollWake \/ PollLock \/ ReadSpin
  BY <1>5 DEF PollExit, PollWake, PollLock, ReadSpin, ReadNothing, shmVars,
     writerVars, frameVars
<1>6. CASE ReadId
  BY <1>6, <1>typed DEF ReadId, ReadNothing, shmVars, writerVars
<1>7. ASSUME NEW b \in BlockSet, ReadBlock(b) PROVE ReadingInv'
  BY <1>7, <1>typed DEF ReadBlock, shmVars, writerVars
<1>8. CASE ReadDone
  BY <1>8 DEF ReadDone, shmVars, writerVars
<1>9. CASE PollPush
  BY <1>9 DEF PollPush, shmVars, writerVars, frameVars
<1>10. CASE LinkStep
  BY <1>10, <1>typed DEF LinkStep, Connect, Disconnect, ExitDebugMode,
     shmVars, writerVars, pollVars, frameVars
<1>11. CASE WindowStep
  BY <1>11 DEF WindowStep, WindowCheck, WindowLock, WindowCopy, WindowClear,
     shmVars, writerVars, pollVars, frameVars
<1>12. CASE UNCHANGED vars
  BY <1>12 DEF vars, shmVars, writerVars, pollVars, frameVars
<1>13. QED
  BY <1>1, <1>2, <1>3, <1>4, <1>5, <1>6, <1>7, <1>8, <1>9, <1>10, <1>11,
     <1>12 DEF Next, WriterStep, PollStep

\* For frames of any number of blocks and whatever the order in which a Write
\* becomes visible: a read frame is at most one frame older than its id.
THEOREM ReadsKeepUp == Spec => []AtMostOneBehind
<1>1. Init => ReadingInv
  BY DEF Init, ReadingInv, IdInv, BlockInv, ReadInv, AtMostOneBehind,
     Reading, Whole
<1>2. QED
  BY <1>1, TypeCorrect, StepKeepsReading, PTL DEF Spec, ReadingInv

-----------------------------------------------------------------------------
(* The window against the poll thread.                                     *)

\* m_frameMutex keeps Read and GetLatestFrame apart, and what the window
\* does not have yet is flagged.
LEMMA StepKeepsWindow ==
  MutexInv /\ WindowInv /\ [Next]_vars => MutexInv' /\ WindowInv'
<1> SUFFICES ASSUME MutexInv, WindowInv, [Next]_vars
             PROVE  MutexInv' /\ WindowInv'
  OBVIOUS
<1> USE DEF MutexInv, WindowInv, Reading, pollVars, frameVars, windowVars
<1>1. CASE WriterStep
  BY <1>1 DEF WriterStep, WriteBegin, LockVisible, BlockVisible, IdVisible,
     WriteUnlock, WriteSignal
<1>2. CASE PollExit \/ PollWake \/ PollLock
  BY <1>2 DEF PollExit, PollWake, PollLock
<1>3. CASE ReadSpin \/ ReadId
  BY <1>3 DEF ReadSpin, ReadId, ReadNothing
<1>4. CASE (\E b \in BlockSet : ReadBlock(b)) \/ ReadDone \/ PollPush
  BY <1>4 DEF ReadBlock, ReadDone, PollPush
<1>5. CASE LinkStep
  BY <1>5 DEF LinkStep, Connect, Disconnect, ExitDebugMode
<1>6. CASE WindowStep
  BY <1>6 DEF WindowStep, WindowCheck, WindowLock, WindowCopy, WindowClear
<1>7. CASE UNCHANGED vars
  BY <1>7 DEF vars
<1>8. QED
  BY <1>1, <1>2, <1>3, <1>4, <1>5, <1>6, <1>7 DEF Next, PollStep

\* Whenever m_hasNewFrame is clear, the window has the newest frame read.
THEOREM WindowMissesNothing == Spec => []NothingMissed
<1>1. Init => MutexInv /\ WindowInv
  BY DEF Init, MutexInv, WindowInv, Reading
<1>2. MutexInv /\ WindowInv => NothingMissed
  BY DEF MutexInv, WindowInv, NothingMissed, Reading
<1>3. QED
  BY <1>1, <1>2, StepKeepsWindow, PTL DEF Spec

-----------------------------------------------------------------------------
(* The DVR ring.                                                           *)

\* Distinct elements of the ring have distinct slots.
LEMMA SlotsDiffer ==
  ASSUME NEW h \in 0 .. Capacity - 1, NEW i \in Nat, NEW j \in Nat,
         i < j, j < i + Capacity, h + j < Capacity + Capacity
  PROVE  Slot(h + i) # Slot(h + j)
BY ConstantsOK, FirstLap, SecondLap

\* Moving the head by one slot moves every element by one.
LEMMA HeadMoves ==
  ASSUME NEW h \in 0 .. Capacity - 1, NEW i \in 0 .. Capacity - 1
  PROVE  Slot(Slot(h + 1) + i) = Slot(h + i + 1)
<1>1. CASE h + 1 < Capacity
  <2>1. Slot(h + 1) = h + 1
    BY <1>1, FirstLap
  <2>2. QED
    BY <2>1
<1>2. CASE h + 1 = Capacity
  <2>1. Slot(h + 1) = 0
    BY <1>2, SecondLap, ConstantsOK
  <2>2. Slot(i) = i /\ Slot(h + i + 1) = i
    BY <1>2, FirstLap, SecondLap, ConstantsOK
  <2>3. QED
    BY <2>1, <2>2
<1>3. QED
  BY <1>1, <1>2, ConstantsOK

\* A push keeps the ring a window on the newest frames delivered.
LEMMA PushKeepsRing ==
  ASSUME TypeOK, RingInv, PollPush
  PROVE  RingInv'
<1> DEFINE n == Len(delivered)
<1>1. /\ head \in 0 .. Capacity - 1 /\ tail \in 0 .. Capacity - 1
      /\ count \in 0 .. Capacity /\ n \in Nat
      /\ buffer \in [0 .. Capacity - 1 -> Frames]
      /\ delivered \in Seq(Frames) /\ latest \in Frames
      /\ Capacity \in Nat \ {0}
  BY ConstantsOK DEF TypeOK
<1>2. /\ delivered' = Append(delivered, latest)
      /\ buffer' = [buffer EXCEPT ![tail] = latest]
      /\ tail' = Slot(tail + 1)
  BY DEF PollPush, PushOverwriting
<1>3. /\ Len(delivered') = n + 1
      /\ \A k \in 1 .. n : delivered'[k] = delivered[k]
      /\ delivered'[n + 1] = latest
  BY <1>1, <1>2
<1>4. /\ count = IF n < Capacity THEN n ELSE Capacity
      /\ tail = Slot(head + count)
      /\ \A i \in 1 .. count :
           buffer[Slot(head + i - 1)] = delivered[n - count + i]
  BY DEF RingInv
<1>5. CASE count < Capacity
  <2>1. count' = count + 1 /\ head' = head /\ n = count
    BY <1>1, <1>4, <1>5 DEF PollPush, PushOverwriting
  <2>2. tail' = Slot(head' + count')
    <3>1. head + count \in Nat /\ head + count + 1 \in Nat
      BY <1>1
    <3>2. CASE head + count + 1 < Capacity
      BY <1>1, <1>2, <1>4, <2>1, <3>1, <3>2, FirstLap
    <3>3. CASE head + count + 1 = Capacity
      <4>1. Slot(head + count) = head + count
        BY <3>1, <3>3, <1>1, FirstLap
      <4>2. tail + 1 = head' + count'
        BY <1>1, <1>4, <2>1, <4>1
      <4>3. QED
        BY <1>2, <4>2
    <3>4. CASE head + count >= Capacity
      <4>1. /\ head + count + 1 < Capacity + Capacity
            /\ head + count + 1 - Capacity \in Nat
            /\ head + count + 1 - Capacity < Capacity
        BY <1>1, <1>5, <3>4
      <4>2. tail = head + count - Capacity
        BY <1>1, <1>4, <3>1, <3>4, <4>1, SecondLap
      <4>3. tail + 1 = head + count + 1 - Capacity
        BY <1>1, <4>2
      <4>4. Slot(tail + 1) = head + count + 1 - Capacity
        BY <4>1, <4>3, FirstLap
      <4>5. Slot(head + count + 1) = head + count + 1 - Capacity
        BY <1>1, <3>1, <3>4, <4>1, SecondLap
      <4>6. QED
        BY <1>1, <1>2, <2>1, <4>4, <4>5
    <3>5. QED
      BY <1>1, <3>2, <3>3, <3>4
  <2>3. ASSUME NEW i \in 1 .. count'
        PROVE  buffer'[Slot(head' + i - 1)]
                 = delivered'[Len(delivered') - count' + i]
    <3>1. CASE i = count'
      <4>1. /\ head + i - 1 = head + count
            /\ Len(delivered') - count' + i = n + 1
        BY <1>1, <1>3, <2>1, <3>1
      <4>2. buffer'[tail] = latest
        BY <1>1, <1>2
      <4>3. QED
        BY <1>3, <1>4, <2>1, <4>1, <4>2
    <3>2. CASE i \in 1 .. count
      <4>1. /\ i - 1 \in Nat /\ i - 1 < count /\ count < (i - 1) + Capacity
            /\ head + count < Capacity + Capacity
            /\ head + (i - 1) = head + i - 1 /\ head + i - 1 \in Nat
        BY <1>1, <1>5, <3>2
      <4>2. Slot(head + (i - 1)) # Slot(head + count)
        <5>1. \A k \in Nat : k < count /\ count < k + Capacity
                             => Slot(head + k) # Slot(head + count)
          BY <1>1, <4>1, SlotsDiffer
        <5>2. QED
          BY <4>1, <5>1
      <4>3. Slot(head + i - 1) \in 0 .. Capacity - 1
        BY <4>1, RemainderIsSlot
      <4>4. buffer'[Slot(head + i - 1)] = buffer[Slot(head + i - 1)]
        BY <1>1, <1>2, <1>4, <4>1, <4>2, <4>3
      <4>5. /\ n - count + i \in 1 .. n
            /\ Len(delivered') - count' + i = n - count + i
        BY <1>1, <1>3, <2>1, <3>2
      <4>6. QED
        BY <1>3, <1>4, <2>1, <3>2, <4>4, <4>5
    <3>3. QED
      BY <1>1, <2>1, <3>1, <3>2
  <2>4. count' = IF Len(delivered') < Capacity THEN Len(delivered')
                                              ELSE Capacity
    BY <1>1, <1>3, <1>5, <2>1
  <2>5. QED
    BY <2>2, <2>3, <2>4 DEF RingInv
<1>6. CASE count = Capacity
  <2>1. count' = count /\ head' = Slot(head + 1) /\ n >= Capacity
    BY <1>1, <1>4, <1>6 DEF PollPush, PushOverwriting
  <2>2. tail = head
    BY <1>1, <1>4, <1>6, SecondLap
  <2>3. head' \in 0 .. Capacity - 1
    BY <1>1, <2>1, RemainderIsSlot
  <2>4. tail' = Slot(head' + count')
    BY <1>1, <1>2, <1>6, <2>1, <2>2, <2>3, SecondLap
  <2>5. ASSUME NEW i \in 1 .. count'
        PROVE  buffer'[Slot(head' + i - 1)]
                 = delivered'[Len(delivered') - count' + i]
    <3>1. Slot(head' + i - 1) = Slot(head + i)
      <4>1. i - 1 \in 0 .. Capacity - 1
        BY <1>1, <1>6, <2>1
      <4>2. Slot(Slot(head + 1) + (i - 1))
              = Slot(head + (i - 1) + 1)
        BY <1>1, <4>1, HeadMoves
      <4>3. /\ head + (i - 1) + 1 = head + i
            /\ head' + (i - 1) = head' + i - 1
        BY <1>1, <2>3, <4>1
      <4>4. QED
        BY <2>1, <4>2, <4>3
    <3>2. CASE i = Capacity
      <4>1. Slot(head + i) = head
        BY <1>1, <3>2, SecondLap
      <4>2. QED
        BY <1>1, <1>2, <1>3, <1>6, <2>1, <2>2, <3>1, <3>2, <4>1
    <3>3. CASE i \in 1 .. Capacity - 1
      <4>1. Slot(head + i) # head
        BY <1>1, <3>3, FirstLap, SecondLap
      <4>2. Slot(head + i) \in 0 .. Capacity - 1
        <5>1. head + i \in Nat
          BY <1>1, <3>3
        <5>2. QED
          BY <5>1, RemainderIsSlot
      <4>3. buffer'[Slot(head + i)] = buffer[Slot(head + i)]
        BY <1>1, <1>2, <2>2, <4>1, <4>2
      <4>4. buffer[Slot(head + i)] = delivered[n - count + i + 1]
        <5>1. i + 1 \in 1 .. count
          BY <1>1, <1>6, <3>3
        <5>2. buffer[Slot(head + (i + 1) - 1)]
                = delivered[n - count + (i + 1)]
          BY <1>4, <5>1
        <5>3. /\ head + (i + 1) - 1 = head + i
              /\ n - count + (i + 1) = n - count + i + 1
          BY <1>1, <3>3
        <5>4. QED
          BY <5>2, <5>3
      <4>5. QED
        BY <1>1, <1>3, <1>6, <2>1, <3>1, <3>3, <4>3, <4>4
    <3>4. QED
      BY <1>1, <1>6, <2>1, <3>2, <3>3
  <2>6. count' = IF Len(delivered') < Capacity THEN Len(delivered')
                                              ELSE Capacity
    BY <1>1, <1>3, <1>6, <2>1
  <2>7. QED
    BY <2>4, <2>5, <2>6 DEF RingInv
<1>7. QED
  BY <1>1, <1>5, <1>6

\* Only the push touches the ring.
LEMMA StepKeepsRing == TypeOK /\ RingInv /\ [Next]_vars => RingInv'
<1> SUFFICES ASSUME TypeOK, RingInv, [Next]_vars PROVE RingInv'
  OBVIOUS
<1>1. CASE PollPush
  BY <1>1, PushKeepsRing
<1>2. ASSUME UNCHANGED ringVars PROVE RingInv'
  BY <1>2 DEF RingInv, ringVars
<1>3. CASE WriterStep
  BY <1>2, <1>3 DEF WriterStep, WriteBegin, LockVisible, BlockVisible,
     IdVisible, WriteUnlock, WriteSignal
<1>4. CASE PollStep /\ ~PollPush
  BY <1>2, <1>4 DEF PollStep, PollExit, PollWake, PollLock, ReadSpin, ReadId,
     ReadBlock, ReadDone
<1>5. CASE LinkStep
  BY <1>2, <1>5 DEF LinkStep, Connect, Disconnect, ExitDebugMode
<1>6. CASE WindowStep
  BY <1>2, <1>6 DEF WindowStep, WindowCheck, WindowLock, WindowCopy,
     WindowClear
<1>7. CASE UNCHANGED vars
  BY <1>2, <1>7 DEF vars
<1>8. QED
  BY <1>1, <1>3, <1>4, <1>5, <1>6, <1>7 DEF Next

\* For a ring of any capacity and any number of laps: an export holds the
\* newest frames pushed, in order, and as many as fit.
THEOREM RingIsNewest == Spec => []RingKeepsNewest
<1>1. Init => RingInv
  BY ConstantsOK, FirstLap DEF Init, RingInv
<1>2. TypeOK /\ RingInv => RingKeepsNewest
  <2> SUFFICES ASSUME TypeOK, RingInv PROVE RingKeepsNewest
    OBVIOUS
  <2> DEFINE n == Len(delivered)
  <2>1. n \in Nat /\ count \in Nat /\ count <= n /\ delivered \in Seq(Frames)
    BY ConstantsOK DEF TypeOK, RingInv
  <2>2. SubSeq(delivered, n - count + 1, n)
          = [i \in 1 .. count |-> delivered[n - count + i]]
    BY <2>1
  <2>3. QED
    BY <2>2 DEF RingInv, RingKeepsNewest, Snapshot
<1>3. QED
  BY <1>1, <1>2, TypeCorrect, StepKeepsRing, PTL DEF Spec
==============================================================================
