--------------------------- MODULE FrameChannelInv ---------------------------
(***************************************************************************)
(* The inductive invariant behind the safety properties of FrameChannel.   *)
(* TLC checks that it holds, FrameChannel_proofs that it is inductive.     *)
(***************************************************************************)
EXTENDS FrameChannel

\* Stores are only pending during a Write, and frameId lags the frame being
\* written exactly while its increment is.
IdInv ==
  /\ unwritten # {} \/ idPending \/ lockPending => wpc = "copy"
  /\ writing = IF idPending THEN frameId + 1 ELSE frameId

\* A block is of the frame being written, or of the one before while its
\* stores are pending.
BlockInv ==
  \A b \in BlockSet :
    IF b \in unwritten THEN block[b] + 1 = writing ELSE block[b] = writing

\* The blocks loaded so far, against the id that Read took before them.
ReadInv ==
  Reading =>
    /\ currentId <= frameId
    /\ \A b \in BlockSet \ unread : latest[b] + 1 >= currentId

\* m_frameMutex is held during Read and GetLatestFrame.
MutexInv ==
  /\ rpc \in {"spin", "id", "copy"} <=> frameMutex = "poll"
  /\ gpc \in {"copy", "clear"} <=> frameMutex = "window"

\* The window has the newest frame unless m_hasNewFrame says otherwise or the
\* poll thread is replacing it.
WindowInv ==
  /\ gpc = "clear" => shown = latest
  /\ ~hasNew /\ ~Reading => shown = latest

\* Element i of the ring is the i-th newest-but-count frame pushed, and m_tail
\* is one past the last element.
RingInv ==
  LET n == Len(delivered) IN
  /\ count = IF n < Capacity THEN n ELSE Capacity
  /\ tail = Slot(head + count)
  /\ \A i \in 1 .. count :
       buffer[Slot(head + i - 1)] = delivered[n - count + i]

IInv ==
  /\ TypeOK
  /\ IdInv
  /\ BlockInv
  /\ ReadInv
  /\ AtMostOneBehind
  /\ MutexInv
  /\ WindowInv
  /\ RingInv
==============================================================================
