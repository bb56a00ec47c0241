----------------------------- MODULE ChipFrameInv -----------------------------
(***************************************************************************)
(* The inductive invariant behind the safety properties of ChipFrame, by   *)
(* named parts; the proofs are in ChipFrame_proofs.                        *)
(***************************************************************************)
EXTENDS ChipFrame

\* Out of reset, selected, open, timed and connected.
UpAndOpen ==
  /\ line /\ up /\ conn
  /\ selected = Devs
  /\ open = Devs
  /\ \A d \in Devs : policy[d] # "none"

\* Which phases the worker can find at each of its points.
PhaseInv ==
  /\ pc \in {"read", "done"} => phase = "streaming"
  /\ pc = "init" => phase \in {"ready", "recover"}
  /\ pc \in {"hold", "senseOff", "close"} =>
       phase \in {"suspend", "ready", "quit"}

\* What Init has done when it gets to each of its steps.
StepInv ==
  /\ pc # "init" => step = 1
  /\ pc = "init" =>
       /\ step >= 5 => line
       /\ step >= 6 => "master" \in selected
       /\ step >= 7 => selected = Devs
       /\ step >= 8 => "master" \in open
       /\ step >= 9 => open = Devs
       /\ step >= 10 => policy["master"] # "none"
       /\ step >= 11 => \A d \in Devs : policy[d] # "none"

StreamInv == phase = "streaming" => UpAndOpen

\* The devices read so far in this GetFrame.
GotInv ==
  /\ pc \notin {"read", "done"} => got = {}
  /\ pc = "read" /\ afeMode = "Normal" =>
       got = IF reading = "slave" THEN {} ELSE {"slave"}
  /\ pc = "done" /\ afeMode = "Normal" => got = Devs \/ SkipMaster

\* An even frame has the master's part; so an odd one is at most one behind.
MasterInv ==
  /\ pc = "done" /\ afeMode = "Normal" /\ ~odd => masterAge = 0
  /\ odd => masterAge <= 1 \/ fresh

\* The frames counted as quiet were, but for the first after a pen left.
QuietInv ==
  /\ stylusActive => zeroFrames = 0
  /\ zeroFrames <= quiet + 1

\* A frame that comes after the sleep request is the last.
LateInv == late > 0 => late = 1 /\ stop /\ pc = "top"

Core ==
  /\ PhaseInv
  /\ StepInv
  /\ StreamInv
  /\ GotInv
  /\ MasterInv
  /\ QuietInv
  /\ LateInv

IInv == TypeOK /\ Core
==============================================================================
