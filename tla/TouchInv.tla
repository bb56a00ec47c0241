------------------------------ MODULE TouchInv ------------------------------
(* The invariants behind the properties of Touch: TLC finds them to hold,     *)
(* Touch_proofs shows that they are inductive.                                *)
EXTENDS Touch

\* The shipped configuration: a press is reported at once, a release too, and
\* the tracker keeps a lost contact for at least a frame.
Shipped == PressFrames = 1 /\ ReleaseFrames = 0 /\ LiftOffHold >= 1 /\ Stability = {TRUE}

UniqueIds == /\ \A t, u \in tracks : t.id = u.id => t = u
             /\ \A c, d \in contacts : c.id = d.id => c = d

\* A track past the hold has had its Up.
LiftedInTime == \A t \in tracks : t.missed > LiftOffHold => t.upEventEmitted

\* The grace period of a release is over before the tracker gives the id away.
GraceWithinHold == ReleaseFrames <= LiftOffHold + 1

\* An id with a contact has a track that was matched in this frame.
TouchingTracked ==
    pc = "gesture" => \A i \in Touching : \E t \in tracks : t.id = i /\ t.missed = 0

\* A slot in use counts the frames without a contact as its track does, and it
\* does not outlive the track.
Lost(s) == IF s.phase = "ReleasePending" THEN s.missing ELSE 0
SlotsKept ==
    \A i \in {j \in Ids : slots[j].phase # "Idle"} :
        /\ Lost(slots[i]) <= ReleaseFrames
        /\ pc # "gesture" => \E t \in tracks : t.id = i /\ t.missed = Lost(slots[i])
        /\ pc = "gesture" => \/ i \in Touching \/ Lost(slots[i]) + 1 > ReleaseFrames
                             \/ \E t \in tracks : t.id = i /\ t.missed = Lost(slots[i]) + 1

NewIsIdle ==
    pc = "gesture" => \A c \in contacts : c.life = "New" => slots[c.id].phase = "Idle"

\* Between frames a slot in use has a track that was matched in the last frame.
SlotsTracked ==
    pc # "gesture" => \A i \in Ids : slots[i].phase # "Idle" =>
                                        \E t \in tracks : t.id = i /\ t.missed = 0

\* No release waits for a later frame, so that the contact of a slot in use is
\* neither new nor lifted.
SlotsSettled ==
    /\ \A i \in Ids : slots[i].phase # "ReleasePending"
    /\ pc = "gesture" => \A c \in contacts : slots[c.id].phase # "Idle" => c.life = "Mapped"

IInv == TypeOK /\ UniqueIds /\ LiftedInTime /\ TouchingTracked /\ HostContactsRemembered
KInv == IInv /\ SlotsKept /\ NewIsIdle
SInv == IInv /\ SlotsTracked /\ SlotsSettled
=============================================================================
