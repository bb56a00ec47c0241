---------------------------- MODULE FrameChannel ----------------------------
(***************************************************************************)
(* The debug frames of the service on their way to the App's window:       *)
(* SharedFrameWriter::Write on the worker's thread fills the shared        *)
(* memory, ServiceProxy::PollLoop wakes on the frame event, reads it into  *)
(* m_latestFrame and pushes that into the DVR ring, and the window takes   *)
(* m_latestFrame with GetLatestFrame.  The App connects and disconnects    *)
(* while the service runs; the event and the memory stay the service's.    *)
(*                                                                         *)
(* A frame is copied block by block (heatmap, contacts, packets, stylus,   *)
(* suffixes), and its content is its number: a block holds the number of   *)
(* the frame it was copied from, 0 before the first.                       *)
(*                                                                         *)
(* The build is for ARM64.  Write's release store of lockFlag = 1 does not *)
(* hold back the plain stores of the blocks and the relaxed increment of   *)
(* frameId behind it: all of these become visible in any order, and only   *)
(* the release store of lockFlag = 0 waits for them.  Read's loads of      *)
(* lockFlag and frameId acquire: they are in order and before the blocks.  *)
(***************************************************************************)
EXTENDS Naturals, Sequences

CONSTANTS
  Blocks,     \* how many blocks a frame is copied in
  Capacity,   \* the capacity of the DVR ring (480 in the code)
  MaxFrames   \* bound of the model on the frames written

ASSUME ConstantsOK ==
  /\ Blocks \in Nat \ {0}
  /\ Capacity \in Nat \ {0}
  /\ MaxFrames \in Nat

VARIABLES
  block,       \* the shared frame, by block
  frameId,     \* SharedFrameData::frameId
  lockFlag,    \* SharedFrameData::lockFlag is 1
  frameEvent,  \* the auto-reset event is signalled
  writing,     \* the number of the newest frame given to Write
  wpc,         \* the writer: "idle", "copy", "signal"
  unwritten,   \* the blocks of this Write whose stores are not visible yet
  idPending,   \* nor is the increment of frameId
  lockPending, \* nor is lockFlag = 1
  debugMode,   \* the worker has a frame callback (EnterDebugMode)
  polling,     \* m_polling: the App has not asked its poll thread to stop
  rpc,         \* the poll thread: "off", "wait", "lock", "spin", "id", "copy",
               \*   "push"
  unread,      \* the blocks this Read has not loaded yet
  currentId,   \* frameId as Read loaded it
  lastReadId,  \* m_lastReadId
  latest,      \* m_latestFrame, by block
  hasNew,      \* m_hasNewFrame
  frameMutex,  \* who holds m_frameMutex: "poll", "window" or nobody ("free")
  gpc,         \* the window: "idle", "lock", "copy", "clear"
  shown,       \* the frame the window shows, by block
  buffer, head, tail, count,  \* the DVR ring
  delivered    \* every frame pushed so far (a history of the ring's input)

shmVars    == <<block, frameId, lockFlag, frameEvent>>
writerVars == <<writing, wpc, unwritten, idPending, lockPending>>
linkVars   == <<debugMode, polling>>
pollVars   == <<rpc, unread, currentId, lastReadId>>
frameVars  == <<latest, hasNew, frameMutex>>
windowVars == <<gpc, shown>>
ringVars   == <<buffer, head, tail, count, delivered>>
vars == <<shmVars, writerVars, linkVars, pollVars, frameVars, windowVars,
          ringVars>>

BlockSet == 1 .. Blocks
Frames   == [BlockSet -> Nat]
Whole(n) == [b \in BlockSet |-> n]

TypeOK ==
  /\ block \in Frames
  /\ frameId \in Nat
  /\ lockFlag \in BOOLEAN
  /\ frameEvent \in BOOLEAN
  /\ writing \in Nat
  /\ wpc \in {"idle", "copy", "signal"}
  /\ unwritten \subseteq BlockSet
  /\ idPending \in BOOLEAN
  /\ lockPending \in BOOLEAN
  /\ debugMode \in BOOLEAN
  /\ polling \in BOOLEAN
  /\ rpc \in {"off", "wait", "lock", "spin", "id", "copy", "push"}
  /\ unread \subseteq BlockSet
  /\ currentId \in Nat
  /\ lastReadId \in Nat
  /\ latest \in Frames
  /\ hasNew \in BOOLEAN
  /\ frameMutex \in {"free", "poll", "window"}
  /\ gpc \in {"idle", "lock", "copy", "clear"}
  /\ shown \in Frames
  /\ buffer \in [0 .. Capacity - 1 -> Frames]
  /\ head \in 0 .. Capacity - 1
  /\ tail \in 0 .. Capacity - 1
  /\ count \in 0 .. Capacity
  /\ delivered \in Seq(Frames)

Init ==
  /\ block = Whole(0)
  /\ frameId = 0
  /\ lockFlag = FALSE
  /\ frameEvent = FALSE
  /\ writing = 0
  /\ wpc = "idle"
  /\ unwritten = {}
  /\ idPending = FALSE
  /\ lockPending = FALSE
  /\ debugMode = FALSE
  /\ polling = FALSE
  /\ rpc = "off"
  /\ unread = {}
  /\ currentId = 0
  /\ lastReadId = 0
  /\ latest = Whole(0)
  /\ hasNew = FALSE
  /\ frameMutex = "free"
  /\ gpc = "idle"
  /\ shown = Whole(0)
  /\ buffer = [i \in 0 .. Capacity - 1 |-> Whole(0)]
  /\ head = 0
  /\ tail = 0
  /\ count = 0
  /\ delivered = <<>>

-----------------------------------------------------------------------------
(* SharedFrameWriter::Write, on the worker's thread.                       *)

WriteBegin ==
  /\ wpc = "idle"
  /\ debugMode
  /\ writing < MaxFrames
  /\ writing' = writing + 1
  /\ unwritten' = BlockSet
  /\ idPending' = TRUE
  /\ lockPending' = TRUE
  /\ wpc' = "copy"
  /\ UNCHANGED <<shmVars, linkVars, pollVars, frameVars, windowVars, ringVars>>

\* lockFlag.store(1) becomes visible.
LockVisible ==
  /\ lockPending
  /\ lockFlag' = TRUE
  /\ lockPending' = FALSE
  /\ UNCHANGED <<block, frameId, frameEvent, writing, wpc, unwritten,
                 idPending, linkVars, pollVars, frameVars, windowVars,
                 ringVars>>

\* The stores of block b become visible.
BlockVisible(b) ==
  /\ b \in unwritten
  /\ block' = [block EXCEPT ![b] = writing]
  /\ unwritten' = unwritten \ {b}
  /\ UNCHANGED <<frameId, lockFlag, frameEvent, writing, wpc, idPending,
                 lockPending, linkVars, pollVars, frameVars, windowVars,
                 ringVars>>

\* frameId.fetch_add(1) becomes visible.
IdVisible ==
  /\ idPending
  /\ frameId' = frameId + 1
  /\ idPending' = FALSE
  /\ UNCHANGED <<block, lockFlag, frameEvent, writing, wpc, unwritten,
                 lockPending, linkVars, pollVars, frameVars, windowVars,
                 ringVars>>

\* lockFlag.store(0, release).
WriteUnlock ==
  /\ wpc = "copy"
  /\ unwritten = {} /\ ~idPending /\ ~lockPending
  /\ lockFlag' = FALSE
  /\ wpc' = "signal"
  /\ UNCHANGED <<block, frameId, frameEvent, writing, unwritten, idPending,
                 lockPending, linkVars, pollVars, frameVars, windowVars,
                 ringVars>>

\* Fault: PulseEvent in the place of SetEvent.
WritePulse ==
  /\ wpc = "signal"
  /\ frameEvent' = (polling /\ rpc = "wait")
  /\ wpc' = "idle"
  /\ UNCHANGED <<block, frameId, lockFlag, writing, unwritten, idPending,
                 lockPending, linkVars, pollVars, frameVars, windowVars,
                 ringVars>>

WriteSignal ==
  /\ wpc = "signal"
  /\ frameEvent' = TRUE
  /\ wpc' = "idle"
  /\ UNCHANGED <<block, frameId, lockFlag, writing, unwritten, idPending,
                 lockPending, linkVars, pollVars, frameVars, windowVars,
                 ringVars>>

-----------------------------------------------------------------------------
(* ServiceProxy::PollLoop and SharedFrameReader::Read, on the poll thread. *)

\* The stop event comes first among the handles of the wait.
PollExit ==
  /\ rpc = "wait"
  /\ ~polling
  /\ rpc' = "off"
  /\ UNCHANGED <<shmVars, writerVars, linkVars, unread, currentId, lastReadId,
                 frameVars, windowVars, ringVars>>

\* The wait consumes the auto-reset event.
PollWake ==
  /\ rpc = "wait"
  /\ polling
  /\ frameEvent
  /\ frameEvent' = FALSE
  /\ rpc' = "lock"
  /\ UNCHANGED <<block, frameId, lockFlag, writerVars, linkVars, unread,
                 currentId, lastReadId, frameVars, windowVars, ringVars>>

\* Read runs under m_frameMutex.
PollLock ==
  /\ rpc = "lock"
  /\ frameMutex = "free"
  /\ frameMutex' = "poll"
  /\ rpc' = "spin"
  /\ UNCHANGED <<shmVars, writerVars, linkVars, unread, currentId, lastReadId,
                 latest, hasNew, windowVars, ringVars>>

\* Read returns false: nothing was copied.
ReadNothing ==
  /\ rpc' = "wait"
  /\ frameMutex' = "free"
  /\ UNCHANGED <<currentId, lastReadId>>

ReadSpin ==
  /\ rpc = "spin"
  /\ \/ /\ ~lockFlag
        /\ rpc' = "id"
        /\ UNCHANGED <<currentId, lastReadId, frameMutex>>
     \/ lockFlag /\ ReadNothing   \* after 10000 spins
  /\ UNCHANGED <<shmVars, writerVars, linkVars, unread, latest, hasNew,
                 windowVars, ringVars>>

ReadId ==
  /\ rpc = "id"
  /\ IF frameId = lastReadId
       THEN ReadNothing /\ UNCHANGED unread
       ELSE /\ currentId' = frameId
            /\ rpc' = "copy"
            /\ unread' = BlockSet
            /\ UNCHANGED <<lastReadId, frameMutex>>
  /\ UNCHANGED <<shmVars, writerVars, linkVars, latest, hasNew, windowVars,
                 ringVars>>

\* A block is what is copied in one piece; every contact may be one of its own.
\* That the loop over the contacts looks up their shared number again each time
\* round is left out: a number that grows below it has no defined outcome.
ReadBlock(b) ==
  /\ rpc = "copy"
  /\ b \in unread
  /\ latest' = [latest EXCEPT ![b] = block[b]]
  /\ unread' = unread \ {b}
  /\ UNCHANGED <<shmVars, writerVars, linkVars, rpc, currentId, lastReadId,
                 hasNew, frameMutex, windowVars, ringVars>>

\* Fault: Read remembers the id it finds after copying.
ReadDoneLateId ==
  /\ rpc = "copy"
  /\ unread = {}
  /\ lastReadId' = frameId
  /\ hasNew' = TRUE
  /\ frameMutex' = "free"
  /\ rpc' = "push"
  /\ UNCHANGED <<shmVars, writerVars, linkVars, unread, currentId, latest,
                 windowVars, ringVars>>

\* Read returns true, m_hasNewFrame is stored, the mutex released.
ReadDone ==
  /\ rpc = "copy"
  /\ unread = {}
  /\ lastReadId' = currentId
  /\ hasNew' = TRUE
  /\ frameMutex' = "free"
  /\ rpc' = "push"
  /\ UNCHANGED <<shmVars, writerVars, linkVars, unread, currentId, latest,
                 windowVars, ringVars>>

\* The ring's indices go round.
Slot(i) == i % Capacity

\* Fault: overwriting the oldest element leaves m_head on it.
PushKeepsHead(f) ==
  /\ buffer' = [buffer EXCEPT ![tail] = f]
  /\ tail' = Slot(tail + 1)
  /\ count' = IF count < Capacity THEN count + 1 ELSE count
  /\ UNCHANGED head

\* Fault: the push counts every element, also one that replaces another.
PushCounts(f) ==
  /\ buffer' = [buffer EXCEPT ![tail] = f]
  /\ tail' = Slot(tail + 1)
  /\ count' = count + 1
  /\ head' = IF count < Capacity THEN head ELSE Slot(head + 1)

\* RingBuffer::PushOverwriting.
PushOverwriting(f) ==
  /\ buffer' = [buffer EXCEPT ![tail] = f]
  /\ tail' = Slot(tail + 1)
  /\ IF count < Capacity
       THEN count' = count + 1 /\ UNCHANGED head
       ELSE head' = Slot(head + 1) /\ UNCHANGED count

PollPush ==
  /\ rpc = "push"
  /\ PushOverwriting(latest)
  /\ delivered' = Append(delivered, latest)
  /\ rpc' = "wait"
  /\ UNCHANGED <<shmVars, writerVars, linkVars, unread, currentId, lastReadId,
                 frameVars, windowVars>>

-----------------------------------------------------------------------------
(* ServiceProxy::Connect and Disconnect.                                   *)

\* SharedFrameReader::Open forgets what was read; the service installs the
\* frame callback, then the poll thread starts.
Connect ==
  /\ rpc = "off"
  /\ ~polling
  /\ ~debugMode
  /\ lastReadId' = 0
  /\ debugMode' = TRUE
  /\ polling' = TRUE
  /\ rpc' = "wait"
  /\ UNCHANGED <<shmVars, writerVars, unread, currentId, frameVars, windowVars,
                 ringVars>>

Disconnect ==
  /\ polling
  /\ polling' = FALSE
  /\ UNCHANGED <<shmVars, writerVars, debugMode, pollVars, frameVars,
                 windowVars, ringVars>>

\* The poll thread is joined; the service drops the callback.
ExitDebugMode ==
  /\ rpc = "off"
  /\ debugMode
  /\ debugMode' = FALSE
  /\ UNCHANGED <<shmVars, writerVars, polling, pollVars, frameVars,
                 windowVars, ringVars>>

-----------------------------------------------------------------------------
(* ServiceProxy::GetLatestFrame, on the window's thread.                   *)

WindowCheck ==
  /\ gpc = "idle"
  /\ hasNew
  /\ gpc' = "lock"
  /\ UNCHANGED <<shmVars, writerVars, linkVars, pollVars, frameVars, shown,
                 ringVars>>

WindowLock ==
  /\ gpc = "lock"
  /\ frameMutex = "free"
  /\ frameMutex' = "window"
  /\ gpc' = "copy"
  /\ UNCHANGED <<shmVars, writerVars, linkVars, pollVars, latest, hasNew,
                 shown, ringVars>>

\* Fault: m_frameMutex is released before m_hasNewFrame is cleared.
WindowCopyUnlocks ==
  /\ gpc = "copy"
  /\ shown' = latest
  /\ frameMutex' = "free"
  /\ gpc' = "clear"
  /\ UNCHANGED <<shmVars, writerVars, linkVars, pollVars, latest, hasNew,
                 ringVars>>

WindowCopy ==
  /\ gpc = "copy"
  /\ shown' = latest
  /\ gpc' = "clear"
  /\ UNCHANGED <<shmVars, writerVars, linkVars, pollVars, frameVars,
                 ringVars>>

WindowClear ==
  /\ gpc = "clear"
  /\ hasNew' = FALSE
  /\ frameMutex' = "free"
  /\ gpc' = "idle"
  /\ UNCHANGED <<shmVars, writerVars, linkVars, pollVars, latest, shown,
                 ringVars>>

-----------------------------------------------------------------------------

WriterStep ==
  \/ WriteBegin
  \/ LockVisible \/ IdVisible \/ \E b \in BlockSet : BlockVisible(b)
  \/ WriteUnlock \/ WriteSignal

PollStep ==
  \/ PollExit \/ PollWake \/ PollLock
  \/ ReadSpin \/ ReadId \/ (\E b \in BlockSet : ReadBlock(b)) \/ ReadDone
  \/ PollPush

WindowStep == WindowCheck \/ WindowLock \/ WindowCopy \/ WindowClear

LinkStep == Connect \/ Disconnect \/ ExitDebugMode

Next == WriterStep \/ PollStep \/ LinkStep \/ WindowStep

Spec == Init /\ [][Next]_vars

\* The threads are scheduled, a Write that began ends, and the mutex is fair
\* enough that the poll thread is not shut out for ever; no frame need come.
FairSpec ==
  /\ Spec
  /\ WF_vars(WriterStep /\ wpc # "idle")
  /\ SF_vars(PollStep)
  /\ SF_vars(WindowStep)

-----------------------------------------------------------------------------
(* Properties.                                                             *)

Reading == rpc = "copy"

\* Whatever the order in which a Write becomes visible, a block of the frame
\* that Read accepted is at most one frame older than the id Read remembers.
AtMostOneBehind ==
  ~Reading => \A b \in BlockSet : latest[b] + 1 >= lastReadId

\* Whenever nobody holds m_frameMutex and m_hasNewFrame is clear, the window
\* has what the poll thread read last.
NothingMissed ==
  frameMutex = "free" /\ ~hasNew => shown = latest

\* GetSnapshot: the ring's elements, oldest first.
Snapshot == [i \in 1 .. count |-> buffer[Slot(head + i - 1)]]

\* The ring holds the newest frames that were pushed, in their order, and as
\* many as fit: an export never mixes laps of the ring.
RingKeepsNewest ==
  LET n == Len(delivered) IN
  /\ count = IF n < Capacity THEN n ELSE Capacity
  /\ Snapshot = SubSeq(delivered, n - count + 1, n)

\* Once the App stays connected, the frame after it makes good every read of
\* frame n that was torn, skipped for the lock or the id, or cut off by a
\* reconnection: no block of the window stays older than n.
NextFrameRepairs ==
  <>[]polling =>
    \A n \in 1 .. MaxFrames :
      writing > n ~> \A b \in BlockSet : shown[b] >= n
==============================================================================
