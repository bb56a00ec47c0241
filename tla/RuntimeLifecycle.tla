--------------------------- MODULE RuntimeLifecycle ---------------------------
(***************************************************************************)
(* What the runtime promises about its phase and the touch controller,     *)
(* whatever threads drive it.  It starts from the state diagram of         *)
(* docs/architecture_redesign.md (section 2.3), with the edges the diagram *)
(* leaves out: ready and recover also fall asleep on a sleep event.        *)
(*                                                                         *)
(* "up" says that Chip::Init completed and nothing reset the controller    *)
(* since.  Streaming needs it up, and it is never taken down in streaming. *)
(***************************************************************************)
VARIABLES phase, up

Init == phase = "quit" /\ up = FALSE

Launch == phase = "quit" /\ phase' = "ready" /\ UNCHANGED up

BringUp == phase \in {"ready", "recover"} /\ up' = TRUE /\ UNCHANGED phase

\* A bring-up attempt that fails may leave the controller reset.
BringUpFails == phase \in {"ready", "recover"} /\ up' = FALSE /\ UNCHANGED phase

Stream ==
  /\ phase \in {"ready", "recover"}
  /\ up
  /\ phase' = "streaming"
  /\ UNCHANGED up

Fault ==
  /\ phase \in {"ready", "streaming"}
  /\ phase' = "recover"
  /\ UNCHANGED up

Sleep ==
  /\ phase \in {"ready", "streaming", "recover"}
  /\ phase' = "suspend"
  /\ UNCHANGED up

Wake == phase = "suspend" /\ phase' = "ready" /\ UNCHANGED up

Quit == phase # "quit" /\ phase' = "quit" /\ UNCHANGED up

\* HoldReset and Deinit; a wake may already have moved the phase on to ready.
TakeDown ==
  /\ phase \in {"suspend", "quit", "ready"}
  /\ up' = FALSE
  /\ UNCHANGED phase

Next ==
  \/ Launch \/ BringUp \/ BringUpFails \/ Stream \/ Fault
  \/ Sleep \/ Wake \/ Quit \/ TakeDown

Spec == Init /\ [][Next]_<<phase, up>>

\* Frames are only read from a controller that is up.
StreamingNeedsUp == phase = "streaming" => up
==============================================================================
