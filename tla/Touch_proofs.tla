---------------------------- MODULE Touch_proofs ----------------------------
(* Proofs about Touch for any number of fingers and any frame thresholds: its *)
(* types, that a track ends with its Up, that the reporter remembers a held   *)
(* contact; and, for the shipped configuration, that an id names one finger   *)
(* and that the reports implement TouchStrokes.                               *)
EXTENDS TouchInv, TLAPS

-----------------------------------------------------------------------------
(* The slots.                                                                 *)

\* A slot whose fields change within their ranges stays a slot.
LEMMA SlotUpdated ==
  ASSUME NEW s \in Slots, NEW p \in Phases, NEW v \in Phases, NEW b \in 0 .. PressFrames,
         NEW a \in 0 .. LongPressFrames, NEW m \in 0 .. ReleaseFrames + 1
  PROVE  /\ [s EXCEPT !.phase = p] \in Slots
         /\ [s EXCEPT !.missing = m] \in Slots
         /\ [s EXCEPT !.phase = p, !.missing = m] \in Slots
         /\ [s EXCEPT !.phase = p, !.age = a, !.stable = b, !.missing = m] \in Slots
         /\ [s EXCEPT !.phase = p, !.prevPhase = v, !.missing = m] \in Slots
         /\ [s EXCEPT !.age = a, !.missing = m, !.stable = b] \in Slots
BY DEF Slots

\* What the thresholds allow.
LEMMA Ranges ==
  /\ 1 \in 0 .. PressFrames /\ 1 \in 0 .. LongPressFrames /\ 0 \in 0 .. PressFrames
  /\ 0 \in 0 .. ReleaseFrames + 1 /\ 1 \in 0 .. ReleaseFrames + 1
  /\ ReleaseFrames + 1 \in 0 .. ReleaseFrames + 1 /\ ReleaseFrames + 1 >= 1
BY TouchAssumption

\* A slot that starts a press, is released or held stays typed.
LEMMA PressTyped ==
  ASSUME NEW s \in Slots
  PROVE  /\ Press(s) \in Slots
         /\ Press(s).phase = "PressCandidate" /\ Press(s).stable = 1
<1>1. "PressCandidate" \in Phases
  BY DEF Phases
<1>2. Press(s) \in Slots
  BY <1>1, Ranges, SlotUpdated DEF Press
<1>3. Press(s).phase = "PressCandidate" /\ Press(s).stable = 1
  BY DEF Press, Slots
<1>4. QED
  BY <1>2, <1>3

\* A slot that loses its contact stays typed.
LEMMA ReleaseTyped ==
  ASSUME NEW s \in Slots
  PROVE  /\ Release(s) \in Slots
         /\ Release(s).phase = "ReleasePending" /\ Release(s).missing >= 1
<1>1. "ReleasePending" \in Phases /\ s.phase \in Phases
  BY DEF Phases, Slots
<1>2. CASE s.phase = "PressCandidate"
  <2>1. Release(s) = [s EXCEPT !.phase = "ReleasePending", !.prevPhase = s.phase, !.missing = 1]
    BY <1>2 DEF Release
  <2>2. Release(s) \in Slots
    BY <2>1, <1>1, Ranges DEF Slots
  <2>3. QED
    BY <2>1, <2>2 DEF Slots
<1>3. CASE s.phase # "PressCandidate"
  <2>1. Release(s) = [s EXCEPT !.phase = "ReleasePending", !.prevPhase = s.phase,
                               !.missing = ReleaseFrames + 1]
    BY <1>3 DEF Release
  <2>2. Release(s) \in Slots
    BY <2>1, <1>1, Ranges DEF Slots
  <2>3. QED
    BY <2>1, <2>2, Ranges DEF Slots
<1>4. QED
  BY <1>2, <1>3

\* A slot that keeps its contact stays typed.
LEMMA HoldTyped ==
  ASSUME NEW s \in Slots, NEW b \in BOOLEAN
  PROVE  /\ Hold(s, b) \in Slots
         /\ Hold(s, b).phase = s.phase
         /\ PressFrames = 1 /\ b = TRUE /\ s.phase = "PressCandidate" => Hold(s, b).stable = 1
<1> DEFINE a == AtMost(s.age + 1, LongPressFrames)
           m == IF s.phase # "PressCandidate" THEN s.stable
                ELSE IF b THEN AtMost(s.stable + 1, PressFrames) ELSE 0
<1>1. s.age \in 0 .. LongPressFrames /\ s.stable \in 0 .. PressFrames
  BY DEF Slots
<1>2. a \in 0 .. LongPressFrames
  BY <1>1, TouchAssumption DEF AtMost
<1>3. m \in 0 .. PressFrames
  BY <1>1, TouchAssumption DEF AtMost
<1>4. PressFrames = 1 /\ b = TRUE /\ s.phase = "PressCandidate" => m = 1
  BY <1>1 DEF AtMost
<1>5. Hold(s, b) = [s EXCEPT !.age = a, !.missing = 0, !.stable = m]
  BY DEF Hold
<1> HIDE DEF a, m
<1>6. [s EXCEPT !.age = a, !.missing = 0, !.stable = m] \in Slots
  <2>1. "Idle" \in Phases
    BY DEF Phases
  <2>2. QED
    BY <1>2, <1>3, <2>1, Ranges, SlotUpdated
<1>7. /\ [s EXCEPT !.age = a, !.missing = 0, !.stable = m].phase = s.phase
      /\ [s EXCEPT !.age = a, !.missing = 0, !.stable = m].stable = m
  BY DEF Slots
<1>8. QED
  BY <1>4, <1>5, <1>6, <1>7

\* An id without a contact: a slot in use is released, an idle one stays idle.
LEMMA WithoutTyped ==
  ASSUME NEW s \in Slots
  PROVE  /\ Without(s) \in Slots
         /\ s.phase = "Idle" => Without(s).phase = "Idle"
         /\ s.phase \notin {"Idle", "ReleasePending"} =>
               Without(s).phase = "ReleasePending" /\ Without(s).missing >= 1
<1>1. CASE s.phase = "Idle"
  BY <1>1 DEF Without, Slots
<1>2. CASE s.phase = "ReleasePending"
  <2>1. AtMost(s.missing + 1, ReleaseFrames + 1) \in 0 .. ReleaseFrames + 1
    BY TouchAssumption DEF AtMost, Slots
  <2>2. [s EXCEPT !.missing = AtMost(s.missing + 1, ReleaseFrames + 1)] \in Slots
    BY <2>1 DEF Slots
  <2>3. QED
    BY <1>2, <2>2 DEF Without
<1>3. CASE s.phase \notin {"Idle", "ReleasePending"}
  BY <1>3, ReleaseTyped DEF Without
<1>4. QED
  BY <1>1, <1>2, <1>3

\* An id with a contact stays typed.
LEMMA WithTyped ==
  ASSUME NEW s \in Slots, NEW o \in Offsets, NEW b \in BOOLEAN
  PROVE  With(s, o, b) \in Slots
<1>1. CASE s.phase = "Idle"
  <2>1. [s EXCEPT !.upEmitted = FALSE] \in Slots
    BY DEF Slots
  <2>2. QED
    BY <1>1, <2>1, PressTyped DEF With
<1>2. CASE s.phase = "ReleasePending"
  <2>1. s.prevPhase \in Phases
    BY DEF Slots
  <2>2. [s EXCEPT !.phase = s.prevPhase, !.missing = 0] \in Slots
    BY <2>1, Ranges, SlotUpdated
  <2>3. QED
    BY <1>2, <2>2 DEF With
<1>3. CASE s.phase \notin {"Idle", "ReleasePending"}
  <2>1. Hold(s, b) \in Slots
    BY HoldTyped
  <2>2. PICK p \in Phases : With(s, o, b) = [Hold(s, b) EXCEPT !.phase = p]
    <3>1. s.phase \in Phases
      BY DEF Slots
    <3>2. QED
      BY <1>3, <3>1 DEF With, Phases
  <2>3. QED
    BY <2>1, <2>2, Ranges, SlotUpdated
<1>4. QED
  BY <1>1, <1>2, <1>3

\* With the shipped configuration a slot with a contact is reported as pressed,
\* unless it swallows the contact after an Up.
LEMMA WithReported ==
  ASSUME Shipped, NEW s \in Slots, s.phase # "ReleasePending", NEW o \in Offsets
  PROVE  /\ With(s, o, TRUE).phase # "ReleasePending"
         /\ With(s, o, TRUE).phase = "Idle" <=> s.phase = "Idle" /\ s.upEmitted
         /\ With(s, o, TRUE).phase # "Idle" => Reported(With(s, o, TRUE))
<1>1. CASE s.phase = "Idle"
  BY <1>1, PressTyped DEF With, Slots, Shipped, Reported
<1>2. CASE s.phase # "Idle"
  <2> DEFINE h == Hold(s, TRUE)
  <2>1. h \in Slots /\ h.phase = s.phase
    BY HoldTyped
  <2>2. s.phase = "PressCandidate" => h.stable = 1
    BY HoldTyped DEF Shipped
  <2>3. s.phase \in {"PressCandidate", "Dragging", "LongPressHold"}
    BY <1>2 DEF Slots, Phases
  <2>4. PICK p \in {"PressCandidate", "Dragging", "LongPressHold"} :
           /\ With(s, o, TRUE) = [h EXCEPT !.phase = p]
           /\ p = "PressCandidate" => s.phase = "PressCandidate"
    BY <1>2, <2>3 DEF With
  <2>5. /\ [h EXCEPT !.phase = p].phase = p
        /\ [h EXCEPT !.phase = p].stable = h.stable
    BY <2>1 DEF Slots
  <2> DEFINE w == With(s, o, TRUE)
  <2>6. w.phase = p /\ w.stable = h.stable
    BY <2>4, <2>5
  <2> HIDE DEF w, h
  <2>7. /\ w.phase # "ReleasePending" /\ w.phase # "Idle"
        /\ Reported(w)
    BY <2>2, <2>4, <2>6 DEF Reported, Shipped
  <2>8. QED
    BY <1>2, <2>7 DEF w
<1>3. QED
  BY <1>1, <1>2

-----------------------------------------------------------------------------
(* Types.                                                                     *)

\* The ids of tracks and the new ids are ids, and a new id belongs to no track.
LEMMA NewIdsFree ==
  ASSUME NEW n
  PROVE  NewIds(n) \subseteq Ids \ TrackIds(tracks)
BY DEF NewIds, FreeIds

\* The id after an id is an id.
LEMMA IdAfterTyped ==
  ASSUME NEW i \in Ids
  PROVE  IdAfter(i) \in Ids
BY TouchAssumption DEF Ids, IdAfter

\* A track stays a track when it is matched or kept.
LEMMA TrackTyped ==
  ASSUME NEW t \in Tracks
  PROVE  /\ Matched(t) \in Tracks
         /\ Matched(t).id = t.id /\ Matched(t).missed = 0
         /\ t.missed + 1 <= LiftOffHold + 1 => Missed(t) \in Tracks
         /\ Missed(t).id = t.id /\ Missed(t).missed = t.missed + 1
         /\ Missed(t).upEventEmitted = (t.upEventEmitted \/ LiftsNow(t))
<1>1. t.id \in Ids /\ t.missed \in 0 .. LiftOffHold + 1 /\ t.upEventEmitted \in BOOLEAN
  BY DEF Tracks
<1>2. Matched(t) \in Tracks /\ Matched(t).id = t.id /\ Matched(t).missed = 0
  <2>1. 0 \in 0 .. LiftOffHold + 1
    BY TouchAssumption
  <2>2. QED
    BY <2>1 DEF Matched, Tracks
<1> DEFINE up == t.upEventEmitted \/ LiftsNow(t)
<1>3. Missed(t) = [t EXCEPT !.missed = t.missed + 1, !.upEventEmitted = up]
  BY DEF Missed
<1>4. up \in BOOLEAN
  BY <1>1
<1> HIDE DEF up
<1>5. /\ Missed(t).id = t.id /\ Missed(t).missed = t.missed + 1
      /\ Missed(t).upEventEmitted = up
  BY <1>3 DEF Tracks
<1>6. ASSUME t.missed + 1 <= LiftOffHold + 1 PROVE Missed(t) \in Tracks
  <2>1. t.missed + 1 \in 0 .. LiftOffHold + 1
    BY <1>1, <1>6, TouchAssumption
  <2>2. QED
    BY <1>3, <1>4, <2>1 DEF Tracks
<1>7. QED
  BY <1>2, <1>5, <1>6 DEF up

\* The track of a new finger is a track.
LEMMA NewTrackTyped ==
  ASSUME NEW i \in Ids
  PROVE  /\ NewTrack(i) \in Tracks
         /\ NewTrack(i).id = i /\ NewTrack(i).missed = 0
BY TouchAssumption DEF NewTrack, Tracks

\* A frame of the tracker: every track of the next frame was matched, is new or
\* was kept, and every contact comes from a matched, a new or a lifted track.
LEMMA TrackStep ==
  ASSUME TypeOK, Track
  PROVE  \E matched \in SUBSET tracks, new \in SUBSET (Ids \ TrackIds(tracks)) :
           /\ tracks' = {Matched(t) : t \in matched} \cup {NewTrack(i) : i \in new}
                        \cup Kept(tracks \ matched)
           /\ SeedFollows(new)
           /\ contacts' = Contact(TrackIds(matched), "Mapped") \cup Contact(new, "New")
                 \cup Contact(TrackIds({t \in tracks \ matched : LiftsNow(t)}), "LiftOff")
BY NewIdsFree, Zenon DEF Track

\* A frame of the tracker keeps the types.
LEMMA TrackKeepsTypes ==
  ASSUME TypeOK, Track
  PROVE  TypeOK'
<1>1. PICK matched \in SUBSET tracks, new \in SUBSET (Ids \ TrackIds(tracks)) :
           /\ tracks' = {Matched(t) : t \in matched} \cup {NewTrack(i) : i \in new}
                        \cup Kept(tracks \ matched)
           /\ SeedFollows(new)
           /\ contacts' = Contact(TrackIds(matched), "Mapped") \cup Contact(new, "New")
                 \cup Contact(TrackIds({t \in tracks \ matched : LiftsNow(t)}), "LiftOff")
  BY TrackStep
<1>2. tracks \subseteq Tracks /\ nextIdSeed \in Ids
  BY DEF TypeOK
<1>3. tracks' \subseteq Tracks
  <2>1. \A t \in matched : Matched(t) \in Tracks
    BY <1>2, TrackTyped
  <2>2. \A i \in new : NewTrack(i) \in Tracks
    BY NewTrackTyped
  <2>3. Kept(tracks \ matched) \subseteq Tracks
    BY <1>2, TrackTyped DEF Kept
  <2>4. QED
    BY <1>1, <2>1, <2>2, <2>3
<1>4. nextIdSeed' \in Ids
  BY <1>1, <1>2, IdAfterTyped DEF SeedFollows
<1>5. contacts' \subseteq Contacts
  <2>1. \A ts \in SUBSET tracks : TrackIds(ts) \subseteq Ids
    BY <1>2 DEF TrackIds, Tracks
  <2>2. \A ids \in SUBSET Ids, life \in {"New", "Mapped", "LiftOff"} :
           Contact(ids, life) \subseteq Contacts
    BY DEF Contact, Contacts
  <2>3. TrackIds(matched) \subseteq Ids
    BY <2>1
  <2>4. TrackIds({t \in tracks \ matched : LiftsNow(t)}) \subseteq Ids
    BY <2>1
  <2>5. QED
    BY <1>1, <2>2, <2>3, <2>4
<1>6. pc' = "gesture" /\ UNCHANGED <<slots, report, enabled, vhfVars>>
  BY DEF Track
<1>7. QED
  BY <1>3, <1>4, <1>5, <1>6 DEF TypeOK, vhfVars

\* A frame of the gesture machine, with the slots before the lifted ones are reset.
LEMMA GestureStep ==
  ASSUME TypeOK, Gesture
  PROVE  \E offset \in [Touching -> Offsets], stable \in [Touching -> Stability],
            u \in [Ids -> Slots] :
           /\ \A i \in Ids : u[i] = IF i \in Touching THEN With(slots[i], offset[i], stable[i])
                                    ELSE Without(slots[i])
           /\ slots' = [i \in Ids |-> IF Expired(u[i]) THEN [FreshSlot EXCEPT !.upEmitted = TRUE]
                                      ELSE u[i]]
           /\ report' = {[id |-> i, event |-> Event(u[i])] :
                            i \in {c.id : c \in {d \in contacts : Reported(u[d.id])}}}
                        \cup {[id |-> i, event |-> "Up"] : i \in {j \in Ids : Expired(u[j])}}
<1>1. PICK offset \in [Touching -> Offsets], stable \in [Touching -> Stability] :
         LET updated == [i \in Ids |-> IF i \in Touching THEN With(slots[i], offset[i], stable[i])
                                       ELSE Without(slots[i])]
             shown   == {c.id : c \in {d \in contacts : Reported(updated[d.id])}}
             lifted  == {i \in Ids : Expired(updated[i])} IN
         /\ slots' = [i \in Ids |-> IF i \in lifted THEN [FreshSlot EXCEPT !.upEmitted = TRUE]
                                    ELSE updated[i]]
         /\ report' = {[id |-> i, event |-> Event(updated[i])] : i \in shown}
                      \cup {[id |-> i, event |-> "Up"] : i \in lifted}
  BY DEF Gesture
<1> DEFINE u == [i \in Ids |-> IF i \in Touching THEN With(slots[i], offset[i], stable[i])
                               ELSE Without(slots[i])]
<1>2. \A i \in Ids : (IF i \in Touching THEN With(slots[i], offset[i], stable[i])
                      ELSE Without(slots[i])) \in Slots
  <2>1. SUFFICES ASSUME NEW i \in Ids
                 PROVE  (IF i \in Touching THEN With(slots[i], offset[i], stable[i])
                         ELSE Without(slots[i])) \in Slots
    OBVIOUS
  <2>2. slots[i] \in Slots
    BY DEF TypeOK
  <2>3. CASE i \in Touching
    <3>1. offset[i] \in Offsets /\ stable[i] \in BOOLEAN
      BY <2>3, TouchAssumption
    <3>2. QED
      BY <2>2, <2>3, <3>1, WithTyped
  <2>4. CASE i \notin Touching
    BY <2>2, <2>4, WithoutTyped
  <2>5. QED
    BY <2>3, <2>4
<1>3. u \in [Ids -> Slots]
  BY <1>2
<1>4. \A i \in Ids : u[i] = IF i \in Touching THEN With(slots[i], offset[i], stable[i])
                            ELSE Without(slots[i])
  OBVIOUS
<1>5. slots' = [i \in Ids |-> IF Expired(u[i]) THEN [FreshSlot EXCEPT !.upEmitted = TRUE]
                              ELSE u[i]]
  BY <1>1
<1>6. report' = {[id |-> i, event |-> Event(u[i])] :
                    i \in {c.id : c \in {d \in contacts : Reported(u[d.id])}}}
                \cup {[id |-> i, event |-> "Up"] : i \in {j \in Ids : Expired(u[j])}}
  BY <1>1
<1> HIDE DEF u
<1>7. QED
  BY <1>3, <1>4, <1>5, <1>6

\* The slot of an id that is free is a slot.
LEMMA FreshTyped == /\ FreshSlot \in Slots
                    /\ [FreshSlot EXCEPT !.upEmitted = TRUE] \in Slots
                    /\ [FreshSlot EXCEPT !.upEmitted = TRUE].phase = "Idle"
<1>1. FreshSlot \in Slots /\ FreshSlot.phase = "Idle"
  BY TouchAssumption DEF FreshSlot, Slots, Phases
<1>2. QED
  BY <1>1 DEF Slots

\* A frame of the gesture machine keeps the types.
LEMMA GestureKeepsTypes ==
  ASSUME TypeOK, Gesture
  PROVE  TypeOK'
<1>1. PICK u \in [Ids -> Slots] :
           /\ slots' = [i \in Ids |-> IF Expired(u[i]) THEN [FreshSlot EXCEPT !.upEmitted = TRUE]
                                      ELSE u[i]]
           /\ report' = {[id |-> i, event |-> Event(u[i])] :
                            i \in {c.id : c \in {d \in contacts : Reported(u[d.id])}}}
                        \cup {[id |-> i, event |-> "Up"] : i \in {j \in Ids : Expired(u[j])}}
  BY GestureStep
<1>2. slots' \in [Ids -> Slots]
  BY <1>1, FreshTyped
<1>3. report' \subseteq Reports
  <2>1. \A c \in contacts : c.id \in Ids
    BY DEF TypeOK, Contacts
  <2>2. \A s : Event(s) \in {"Down", "Move", "Up"}
    BY DEF Event
  <2>3. QED
    BY <1>1, <2>1, <2>2 DEF Reports
<1>4. pc' = "dispatch" /\ contacts' = {} /\ UNCHANGED <<trackerVars, enabled, vhfVars>>
  BY DEF Gesture
<1>5. QED
  BY <1>2, <1>3, <1>4 DEF TypeOK, trackerVars, vhfVars

\* The host only ever holds ids that were reported.
LEMMA ToldTyped ==
  ASSUME TypeOK, NEW cs \in SUBSET report
  PROVE  Told(cs) \subseteq Ids
BY DEF TypeOK, Told, Reports

\* Every step keeps the types.
LEMMA StepTyped == TypeOK /\ [Next]_vars => TypeOK'
<1> SUFFICES ASSUME TypeOK, [Next]_vars PROVE TypeOK'
  OBVIOUS
<1>1. ASSUME Skip PROVE TypeOK'
  BY <1>1 DEF Skip, TypeOK, trackerVars, vhfVars
<1>2. ASSUME WriteContacts PROVE TypeOK'
  <2>1. host' \subseteq Ids
    <3>1. PICK sent \in SUBSET report :
             \E first \in SUBSET sent :
               \E written \in SUBSET {first, sent \ first} : host' = Told(UNION written)
      BY <1>2 DEF WriteContacts
    <3>2. \A first \in SUBSET sent : \A written \in SUBSET {first, sent \ first} :
             UNION written \in SUBSET report
      BY <3>1
    <3>3. QED
      BY <3>1, <3>2, ToldTyped
  <2>2. /\ pc' = "track" /\ hadTouch' \in BOOLEAN /\ allUpLost' \in BOOLEAN
        /\ UNCHANGED <<trackerVars, contacts, slots, report, enabled>>
    BY <1>2, Zenon DEF WriteContacts
  <2>3. QED
    BY <2>1, <2>2 DEF TypeOK, trackerVars
<1>3. ASSUME WriteAllUp PROVE TypeOK'
  <2>1. host' \subseteq Ids
    BY <1>3 DEF WriteAllUp, TypeOK
  <2>2. hadTouch' \in BOOLEAN /\ allUpLost' \in BOOLEAN
    BY <1>3, Zenon DEF WriteAllUp, TypeOK
  <2>3. pc' = "track" /\ UNCHANGED <<trackerVars, contacts, slots, report, enabled>>
    BY <1>3 DEF WriteAllUp
  <2>4. QED
    BY <2>1, <2>2, <2>3 DEF TypeOK, trackerVars
<1>4. ASSUME SetEnabled PROVE TypeOK'
  <2>1. enabled' \in BOOLEAN
    BY <1>4, Zenon DEF SetEnabled
  <2>2. QED
    BY <1>4, <2>1 DEF SetEnabled, TypeOK, trackerVars, vhfVars
<1>5. CASE UNCHANGED vars
  BY <1>5 DEF vars, TypeOK
<1>6. QED
  BY <1>1, <1>2, <1>3, <1>4, <1>5, TrackKeepsTypes, GestureKeepsTypes DEF Next

\* A touch path that just started has its types.
LEMMA InitTyped == Init => TypeOK
<1> SUFFICES ASSUME Init PROVE TypeOK
  OBVIOUS
<1>1. 1 \in Ids
  BY TouchAssumption DEF Ids
<1>2. slots \in [Ids -> Slots]
  BY FreshTyped DEF Init
<1>3. enabled \in BOOLEAN /\ hadTouch \in BOOLEAN /\ allUpLost \in BOOLEAN
  BY Zenon DEF Init
<1>4. QED
  BY <1>1, <1>2, <1>3 DEF Init, TypeOK

\* Every state of the touch path has its types.
THEOREM Types == Spec => []TypeOK
BY InitTyped, StepTyped, PTL DEF Spec

-----------------------------------------------------------------------------
(* Tracks, their ids and their Ups.                                           *)

\* The tracker keeps ids apart, and a track past the hold has had its Up.
LEMMA TrackKeepsIds ==
  ASSUME IInv, Track
  PROVE  UniqueIds' /\ LiftedInTime'
<1>1. PICK matched \in SUBSET tracks, new \in SUBSET (Ids \ TrackIds(tracks)) :
           /\ tracks' = {Matched(t) : t \in matched} \cup {NewTrack(i) : i \in new}
                        \cup Kept(tracks \ matched)
           /\ contacts' = Contact(TrackIds(matched), "Mapped") \cup Contact(new, "New")
                 \cup Contact(TrackIds({t \in tracks \ matched : LiftsNow(t)}), "LiftOff")
  BY TrackStep DEF IInv
<1>2. /\ tracks \subseteq Tracks
      /\ \A t, u \in tracks : t.id = u.id => t = u
  BY DEF IInv, TypeOK, UniqueIds
<1>3. \A t \in tracks' : \/ \E u \in matched : t = Matched(u)
                         \/ \E i \in new : t = NewTrack(i)
                         \/ \E u \in tracks \ matched : t = Missed(u)
  BY <1>1 DEF Kept
<1>4. \A t \in matched : Matched(t).id = t.id /\ Matched(t).missed = 0
  BY <1>2, TrackTyped
<1>5. \A i \in new : NewTrack(i).id = i /\ NewTrack(i).missed = 0
  BY NewTrackTyped
<1>6. \A t \in tracks \ matched : Missed(t).id = t.id
  BY <1>2, TrackTyped
<1>7. \A i \in new : \A t \in tracks : t.id # i
  BY DEF TrackIds
<1>8. \A t, u \in tracks' : t.id = u.id => t = u
  BY <1>2, <1>3, <1>4, <1>5, <1>6, <1>7
<1>9. \A c, d \in contacts' : c.id = d.id => c = d
  <2>1. \A c \in contacts' :
           \/ \E t \in matched : c = [id |-> t.id, life |-> "Mapped"]
           \/ \E i \in new : c = [id |-> i, life |-> "New"]
           \/ \E t \in tracks \ matched : c = [id |-> t.id, life |-> "LiftOff"]
    BY <1>1 DEF Contact, TrackIds
  <2>2. QED
    BY <1>2, <1>7, <2>1
<1>10. \A t \in tracks' : t.missed > LiftOffHold => t.upEventEmitted
  <2>1. \A t \in tracks \ matched : Missed(t).missed > LiftOffHold => Missed(t).upEventEmitted
    BY <1>2, TrackTyped DEF LiftsNow
  <2>2. QED
    BY <1>3, <1>4, <1>5, <2>1, TouchAssumption
<1>11. QED
  BY <1>8, <1>9, <1>10 DEF UniqueIds, LiftedInTime

\* A contact that touches has a track that was matched or begun in this frame.
LEMMA TouchingAreTracked ==
  ASSUME IInv, Track
  PROVE  TouchingTracked'
<1>1. PICK matched \in SUBSET tracks, new \in SUBSET (Ids \ TrackIds(tracks)) :
           /\ tracks' = {Matched(t) : t \in matched} \cup {NewTrack(i) : i \in new}
                        \cup Kept(tracks \ matched)
           /\ contacts' = Contact(TrackIds(matched), "Mapped") \cup Contact(new, "New")
                 \cup Contact(TrackIds({t \in tracks \ matched : LiftsNow(t)}), "LiftOff")
  BY TrackStep DEF IInv
<1>2. tracks \subseteq Tracks
  BY DEF IInv, TypeOK
<1>3. \A c \in contacts' :
         \/ \E t \in matched : c = [id |-> t.id, life |-> "Mapped"]
         \/ \E i \in new : c = [id |-> i, life |-> "New"]
         \/ \E t \in tracks \ matched : LiftsNow(t) /\ c = [id |-> t.id, life |-> "LiftOff"]
  BY <1>1 DEF Contact, TrackIds
<1>4. ASSUME NEW i \in Touching'
      PROVE  \E t \in tracks' : t.id = i /\ t.missed = 0
  <2>1. PICK c \in contacts' : c.life # "LiftOff" /\ c.id = i
    BY <1>4 DEF Touching
  <2>2. \/ \E t \in matched : t.id = i
        \/ i \in new
    BY <1>3, <2>1
  <2>3. ASSUME NEW t \in matched, t.id = i PROVE \E v \in tracks' : v.id = i /\ v.missed = 0
    <3>1. Matched(t) \in tracks' /\ Matched(t).id = i /\ Matched(t).missed = 0
      BY <1>1, <1>2, <2>3, TrackTyped
    <3>2. QED
      BY <3>1
  <2>4. ASSUME i \in new PROVE \E v \in tracks' : v.id = i /\ v.missed = 0
    <3>1. NewTrack(i) \in tracks' /\ NewTrack(i).id = i /\ NewTrack(i).missed = 0
      BY <1>1, <2>4, NewTrackTyped
    <3>2. QED
      BY <3>1
  <2>5. QED
    BY <2>2, <2>3, <2>4
<1>5. QED
  BY <1>4 DEF TouchingTracked

\* A touch path that just started keeps ids apart.
LEMMA InitIInv == Init => IInv
BY InitTyped DEF Init, IInv, UniqueIds, LiftedInTime, TouchingTracked, HostContactsRemembered

\* Every step keeps ids apart, the Ups in time and the held contacts known.
LEMMA StepIInv == IInv /\ [Next]_vars => IInv'
<1> SUFFICES ASSUME IInv, [Next]_vars PROVE IInv'
  OBVIOUS
<1>1. TypeOK'
  BY StepTyped DEF IInv
<1> SUFFICES UniqueIds' /\ LiftedInTime' /\ TouchingTracked' /\ HostContactsRemembered'
  BY <1>1 DEF IInv
<1> USE DEF IInv
<1>2. CASE Track
  <2>1. HostContactsRemembered'
    BY <1>2 DEF Track, HostContactsRemembered, vhfVars
  <2>2. QED
    BY <1>2, <2>1, TrackKeepsIds, TouchingAreTracked
<1>3. CASE Gesture
  BY <1>3 DEF Gesture, UniqueIds, LiftedInTime, TouchingTracked, Touching,
     HostContactsRemembered, trackerVars, vhfVars
<1>4. CASE Skip
  BY <1>4 DEF Skip, UniqueIds, LiftedInTime, TouchingTracked, Touching,
     HostContactsRemembered, trackerVars, vhfVars
<1>5. CASE WriteContacts
  <2>1. hadTouch' /\ pc' = "track" /\ UNCHANGED <<trackerVars, contacts>>
    BY <1>5 DEF WriteContacts
  <2>2. QED
    BY <2>1 DEF UniqueIds, LiftedInTime, TouchingTracked, HostContactsRemembered, trackerVars
<1>6. CASE WriteAllUp
  <2>1. pc' = "track" /\ UNCHANGED <<trackerVars, contacts>>
    BY <1>6 DEF WriteAllUp
  <2>2. HostContactsRemembered'
    BY <1>6 DEF WriteAllUp, HostContactsRemembered
  <2>3. QED
    BY <2>1, <2>2 DEF UniqueIds, LiftedInTime, TouchingTracked, trackerVars
<1>7. CASE SetEnabled
  BY <1>7 DEF SetEnabled, UniqueIds, LiftedInTime, TouchingTracked, Touching,
     HostContactsRemembered, trackerVars, vhfVars
<1>8. CASE UNCHANGED vars
  BY <1>8 DEF vars, UniqueIds, LiftedInTime, TouchingTracked, Touching, HostContactsRemembered
<1>9. QED
  BY <1>2, <1>3, <1>4, <1>5, <1>6, <1>7, <1>8 DEF Next

\* For any thresholds and number of contacts in a packet, the reporter never
\* forgets that the host holds a contact.
THEOREM HostRemembered == Spec => []HostContactsRemembered
<1>1. IInv => HostContactsRemembered
  BY DEF IInv
<1>2. QED
  BY <1>1, InitIInv, StepIInv, PTL DEF Spec

\* For any hold and number of fingers, no track is forgotten before its Up.
THEOREM TracksEnd == Spec => TrackEndsWithUp
<1>1. IInv /\ [Next]_vars => [\A t \in tracks : t.upEventEmitted \/ t.id \in TrackIds(tracks')]_vars
  <2> SUFFICES ASSUME IInv, Next, NEW t \in tracks, ~t.upEventEmitted
               PROVE  t.id \in TrackIds(tracks')
    BY DEF vars
  <2>1. CASE Track
    <3>1. PICK matched \in SUBSET tracks, new \in SUBSET (Ids \ TrackIds(tracks)) :
             tracks' = {Matched(u) : u \in matched} \cup {NewTrack(i) : i \in new}
                       \cup Kept(tracks \ matched)
      BY <2>1, TrackStep DEF IInv
    <3>2. t \in Tracks
      BY DEF IInv, TypeOK
    <3>3. CASE t \in matched
      <4>1. Matched(t) \in tracks' /\ Matched(t).id = t.id
        BY <3>1, <3>2, <3>3, TrackTyped
      <4>2. QED
        BY <4>1 DEF TrackIds
    <3>4. CASE t \notin matched
      <4>1. t.missed + 1 <= LiftOffHold + 1
        BY <3>2, TouchAssumption DEF IInv, LiftedInTime, Tracks
      <4>2. Missed(t) \in tracks' /\ Missed(t).id = t.id
        BY <3>1, <3>2, <3>4, <4>1, TrackTyped DEF Kept
      <4>3. QED
        BY <4>2 DEF TrackIds
    <3>5. QED
      BY <3>3, <3>4
  <2>2. CASE ~Track
    <3>1. tracks' = tracks
      BY <2>2 DEF Next, Gesture, Skip, WriteContacts, WriteAllUp, SetEnabled, trackerVars
    <3>2. QED
      BY <3>1 DEF TrackIds
  <2>3. QED
    BY <2>1, <2>2
<1>2. QED
  BY <1>1, InitIInv, StepIInv, PTL DEF Spec, TrackEndsWithUp

-----------------------------------------------------------------------------
(* Fingers: a slot does not outlive the id of its finger.                     *)

\* A contact leaves a slot that counts no missing frame.
LEMMA WithIsTouched ==
  ASSUME NEW s \in Slots, NEW o \in Offsets, NEW b \in BOOLEAN
  PROVE  Lost(With(s, o, b)) = 0
<1>1. CASE s.phase = "Idle"
  <2>1. [s EXCEPT !.upEmitted = FALSE].phase # "ReleasePending"
    BY <1>1 DEF Slots
  <2>2. Press(s).phase # "ReleasePending"
    BY DEF Press, Slots
  <2>3. QED
    BY <1>1, <2>1, <2>2 DEF With, Lost
<1>2. CASE s.phase = "ReleasePending"
  <2>1. [s EXCEPT !.phase = s.prevPhase, !.missing = 0].missing = 0
    BY DEF Slots
  <2>2. QED
    BY <1>2, <2>1 DEF With, Lost
<1>3. CASE s.phase \notin {"Idle", "ReleasePending"}
  <2>1. Hold(s, b) \in Slots
    BY HoldTyped
  <2>2. PICK p \in Phases : /\ With(s, o, b) = [Hold(s, b) EXCEPT !.phase = p]
                            /\ p # "ReleasePending"
    <3>1. s.phase \in Phases
      BY DEF Slots
    <3>2. QED
      BY <1>3, <3>1 DEF With, Phases
  <2>3. [Hold(s, b) EXCEPT !.phase = p].phase = p
    BY <2>1 DEF Slots
  <2>4. QED
    BY <2>2, <2>3 DEF Lost
<1>4. QED
  BY <1>1, <1>2, <1>3

\* Without a contact a slot in use counts one more, or its grace is over.
LEMMA WithoutIsLost ==
  ASSUME NEW s \in Slots, s.phase # "Idle", Lost(s) <= ReleaseFrames
  PROVE  \/ Expired(Without(s))
         \/ Lost(Without(s)) = Lost(s) + 1 /\ Lost(s) + 1 <= ReleaseFrames
<1>1. CASE s.phase = "ReleasePending"
  <2>1. /\ Without(s) = [s EXCEPT !.missing = AtMost(s.missing + 1, ReleaseFrames + 1)]
        /\ Lost(s) = s.missing
    BY <1>1 DEF Without, Lost
  <2>2. AtMost(s.missing + 1, ReleaseFrames + 1) = s.missing + 1
    BY <2>1, TouchAssumption DEF AtMost, Slots
  <2>3. Without(s).phase = "ReleasePending" /\ Without(s).missing = s.missing + 1
    BY <1>1, <2>1, <2>2 DEF Slots
  <2>4. s.missing \in Nat
    BY TouchAssumption DEF Slots
  <2>5. QED
    BY <2>1, <2>3, <2>4, TouchAssumption DEF Expired, Lost
<1>2. CASE s.phase # "ReleasePending"
  <2>1. Without(s) = Release(s) /\ Lost(s) = 0
    BY <1>2 DEF Without, Lost
  <2>2. /\ Release(s).phase = "ReleasePending"
        /\ Release(s).missing \in {1, ReleaseFrames + 1}
    BY DEF Release, Slots
  <2>3. QED
    BY <2>1, <2>2, TouchAssumption DEF Expired, Lost
<1>3. QED
  BY <1>1, <1>2

\* The tracker gives no id to a new finger whose slot is in use.
LEMMA TrackKeepsSlots ==
  ASSUME GraceWithinHold, KInv, Track
  PROVE  SlotsKept' /\ NewIsIdle'
<1>1. PICK matched \in SUBSET tracks, new \in SUBSET (Ids \ TrackIds(tracks)) :
           /\ tracks' = {Matched(t) : t \in matched} \cup {NewTrack(i) : i \in new}
                        \cup Kept(tracks \ matched)
           /\ contacts' = Contact(TrackIds(matched), "Mapped") \cup Contact(new, "New")
                 \cup Contact(TrackIds({t \in tracks \ matched : LiftsNow(t)}), "LiftOff")
  BY TrackStep DEF KInv, IInv
<1>2. pc = "track" /\ pc' = "gesture" /\ slots' = slots
  BY DEF Track
<1>3. tracks \subseteq Tracks /\ slots \in [Ids -> Slots]
  BY DEF KInv, IInv, TypeOK
<1>4. ASSUME NEW i \in Ids, slots[i].phase # "Idle"
      PROVE  /\ i \notin new
             /\ Lost(slots[i]) <= ReleaseFrames
             /\ \/ i \in Touching' \/ Lost(slots[i]) + 1 > ReleaseFrames
                \/ \E t \in tracks' : t.id = i /\ t.missed = Lost(slots[i]) + 1
  <2>1. PICK t \in tracks : t.id = i /\ t.missed = Lost(slots[i])
    BY <1>2, <1>4 DEF KInv, SlotsKept
  <2>2. i \notin new /\ Lost(slots[i]) <= ReleaseFrames
    BY <1>4, <2>1 DEF TrackIds, KInv, SlotsKept
  <2>3. CASE t \in matched
    <3>1. [id |-> i, life |-> "Mapped"] \in contacts'
      BY <1>1, <2>1, <2>3 DEF Contact, TrackIds
    <3>2. i \in Touching'
      BY <3>1 DEF Touching
    <3>3. QED
      BY <2>2, <3>2
  <2>4. CASE t \notin matched /\ t.missed + 1 <= LiftOffHold + 1
    <3>1. Missed(t) \in tracks'
      BY <1>1, <2>4 DEF Kept
    <3>2. Missed(t).id = i /\ Missed(t).missed = Lost(slots[i]) + 1
      BY <1>3, <2>1 DEF Missed, Tracks
    <3>3. QED
      BY <2>2, <3>1, <3>2
  <2>5. CASE t.missed + 1 > LiftOffHold + 1
    <3>1. t.missed \in Nat
      BY <1>3, TouchAssumption DEF Tracks
    <3>2. Lost(slots[i]) + 1 > ReleaseFrames
      BY <2>1, <2>5, <3>1, TouchAssumption DEF GraceWithinHold
    <3>3. QED
      BY <2>2, <3>2
  <2>6. t.missed \in Nat
    BY <1>3, TouchAssumption DEF Tracks
  <2>7. QED
    BY <2>3, <2>4, <2>5, <2>6, TouchAssumption
<1>5. SlotsKept'
  BY <1>2, <1>4 DEF SlotsKept
<1>6. \A c \in contacts' : c.life = "New" => c.id \in new
  <2>1. \A c \in contacts' :
           \/ \E t \in matched : c = [id |-> t.id, life |-> "Mapped"]
           \/ \E i \in new : c = [id |-> i, life |-> "New"]
           \/ \E t \in tracks \ matched : LiftsNow(t) /\ c = [id |-> t.id, life |-> "LiftOff"]
    BY <1>1 DEF Contact, TrackIds
  <2>2. QED
    BY <2>1
<1>7. NewIsIdle'
  BY <1>2, <1>4, <1>6 DEF NewIsIdle
<1>8. QED
  BY <1>5, <1>7

\* After a frame of gestures every slot in use still has its track.
LEMMA GestureKeepsSlots ==
  ASSUME KInv, Gesture
  PROVE  SlotsKept' /\ NewIsIdle'
<1>1. PICK offset \in [Touching -> Offsets], stable \in [Touching -> Stability],
            u \in [Ids -> Slots] :
           /\ \A i \in Ids : u[i] = IF i \in Touching THEN With(slots[i], offset[i], stable[i])
                                    ELSE Without(slots[i])
           /\ slots' = [i \in Ids |-> IF Expired(u[i]) THEN [FreshSlot EXCEPT !.upEmitted = TRUE]
                                      ELSE u[i]]
  BY GestureStep, Zenon DEF KInv, IInv
<1>2. pc = "gesture" /\ pc' = "dispatch" /\ tracks' = tracks
  BY DEF Gesture, trackerVars
<1>3. slots \in [Ids -> Slots]
  BY DEF KInv, IInv, TypeOK
<1>4. ASSUME NEW i \in Ids, slots'[i].phase # "Idle"
      PROVE  /\ Lost(slots'[i]) <= ReleaseFrames
             /\ \E t \in tracks : t.id = i /\ t.missed = Lost(slots'[i])
  <2>1. slots'[i] = u[i] /\ ~Expired(u[i])
    BY <1>1, <1>4, FreshTyped
  <2>2. CASE i \in Touching
    <3>1. offset[i] \in Offsets /\ stable[i] \in BOOLEAN
      BY <1>1, <2>2, TouchAssumption
    <3>2. u[i] = With(slots[i], offset[i], stable[i])
      BY <1>1, <2>2
    <3>3. slots[i] \in Slots
      BY <1>3
    <3>4. Lost(u[i]) = 0
      BY <3>1, <3>2, <3>3, WithIsTouched
    <3>5. \E t \in tracks : t.id = i /\ t.missed = 0
      BY <1>2, <2>2 DEF KInv, IInv, TouchingTracked
    <3>6. QED
      BY <2>1, <3>4, <3>5, TouchAssumption
  <2>3. CASE i \notin Touching
    <3>1. u[i] = Without(slots[i]) /\ slots[i] \in Slots
      BY <1>1, <1>3, <2>3
    <3>2. slots[i].phase # "Idle"
      BY <1>4, <2>1, <3>1, WithoutTyped
    <3>3. Lost(slots[i]) <= ReleaseFrames
      BY <3>2 DEF KInv, SlotsKept
    <3>4. Lost(u[i]) = Lost(slots[i]) + 1 /\ Lost(slots[i]) + 1 <= ReleaseFrames
      BY <2>1, <3>1, <3>2, <3>3, WithoutIsLost
    <3>5. Lost(slots[i]) \in Nat
      BY <3>1, TouchAssumption DEF Lost, Slots
    <3>6. \E t \in tracks : t.id = i /\ t.missed = Lost(slots[i]) + 1
      BY <1>2, <2>3, <3>2, <3>4, <3>5, TouchAssumption DEF KInv, SlotsKept
    <3>7. QED
      BY <2>1, <3>4, <3>6
  <2>4. QED
    BY <2>2, <2>3
<1>5. QED
  BY <1>2, <1>4 DEF SlotsKept, NewIsIdle

\* A touch path that just started has no slot in use.
LEMMA InitKInv == Init => KInv
<1> SUFFICES ASSUME Init PROVE KInv
  OBVIOUS
<1>1. \A i \in Ids : slots[i].phase = "Idle"
  BY DEF Init, FreshSlot
<1>2. QED
  BY <1>1, InitIInv DEF Init, KInv, SlotsKept, NewIsIdle

\* Every step keeps the slots no longer than their tracks.
LEMMA StepKInv == ASSUME GraceWithinHold PROVE KInv /\ [Next]_vars => KInv'
<1> SUFFICES ASSUME KInv, [Next]_vars PROVE KInv'
  OBVIOUS
<1>1. IInv'
  BY StepIInv DEF KInv
<1> SUFFICES SlotsKept' /\ NewIsIdle'
  BY <1>1 DEF KInv
<1>2. CASE Track
  BY <1>2, TrackKeepsSlots
<1>3. CASE Gesture
  BY <1>3, GestureKeepsSlots
<1>4. CASE Skip \/ WriteContacts \/ WriteAllUp
  <2>1. pc = "dispatch" /\ pc' = "track" /\ UNCHANGED <<trackerVars, contacts, slots>>
    BY <1>4 DEF Skip, WriteContacts, WriteAllUp
  <2>2. QED
    BY <2>1 DEF KInv, SlotsKept, NewIsIdle, trackerVars
<1>5. CASE SetEnabled \/ UNCHANGED vars
  <2>1. UNCHANGED <<pc, trackerVars, contacts, slots>>
    BY <1>5 DEF SetEnabled, vars, trackerVars
  <2>2. QED
    BY <2>1 DEF KInv, SlotsKept, NewIsIdle, trackerVars, Touching
<1>6. QED
  BY <1>2, <1>3, <1>4, <1>5 DEF Next

\* For any number of fingers, thresholds of presses and checks of stability: an
\* id names one finger, and a new finger never continues the gesture of an
\* earlier one, if the grace period ends before the tracker drops the id
\* (ReleasePendingFrames and LiftOffHoldFrames).
THEOREM Identities == ASSUME GraceWithinHold PROVE Spec => []OneFingerPerId
<1>1. KInv => OneFingerPerId
  BY DEF KInv, IInv, UniqueIds, NewIsIdle, OneFingerPerId
<1>2. QED
  BY <1>1, InitKInv, StepKInv, PTL DEF Spec

-----------------------------------------------------------------------------
(* The shipped configuration: strokes.                                        *)

\* The slots of a frame with the shipped configuration: only touched ids stay in
\* use, and exactly those not swallowed are reported with the tip on.
LEMMA ShippedGesture ==
  ASSUME Shipped, SInv, Gesture
  PROVE  \E u \in [Ids -> Slots] :
           /\ \A i \in Touching : /\ u[i].phase # "ReleasePending"
                                  /\ u[i].phase = "Idle" =>
                                        slots[i].phase = "Idle" /\ slots[i].upEmitted
                                  /\ u[i].phase # "Idle" => Reported(u[i])
           /\ \A i \in Ids \ Touching :
                 IF slots[i].phase = "Idle" THEN u[i].phase = "Idle" ELSE Expired(u[i])
           /\ slots' = [i \in Ids |-> IF Expired(u[i]) THEN [FreshSlot EXCEPT !.upEmitted = TRUE]
                                      ELSE u[i]]
           /\ report' = {[id |-> i, event |-> Event(u[i])] :
                            i \in {c.id : c \in {d \in contacts : Reported(u[d.id])}}}
                        \cup {[id |-> i, event |-> "Up"] : i \in {j \in Ids : Expired(u[j])}}
<1>1. PICK offset \in [Touching -> Offsets], stable \in [Touching -> Stability],
            u \in [Ids -> Slots] :
           /\ \A i \in Ids : u[i] = IF i \in Touching THEN With(slots[i], offset[i], stable[i])
                                    ELSE Without(slots[i])
           /\ slots' = [i \in Ids |-> IF Expired(u[i]) THEN [FreshSlot EXCEPT !.upEmitted = TRUE]
                                      ELSE u[i]]
           /\ report' = {[id |-> i, event |-> Event(u[i])] :
                            i \in {c.id : c \in {d \in contacts : Reported(u[d.id])}}}
                        \cup {[id |-> i, event |-> "Up"] : i \in {j \in Ids : Expired(u[j])}}
  BY GestureStep, Zenon DEF SInv, IInv
<1>2. \A i \in Ids : slots[i] \in Slots /\ slots[i].phase # "ReleasePending"
  BY DEF SInv, IInv, TypeOK, SlotsSettled
<1>3. Touching \subseteq Ids
  BY DEF SInv, IInv, TypeOK, Touching, Contacts
<1>4. ASSUME NEW i \in Touching
      PROVE  /\ u[i].phase # "ReleasePending"
             /\ u[i].phase = "Idle" => slots[i].phase = "Idle" /\ slots[i].upEmitted
             /\ u[i].phase # "Idle" => Reported(u[i])
  <2>1. offset[i] \in Offsets /\ stable[i] = TRUE
    BY <1>4 DEF Shipped
  <2>2. u[i] = With(slots[i], offset[i], TRUE)
    BY <1>1, <1>3, <2>1
  <2> DEFINE s == slots[i]
             w == With(s, offset[i], TRUE)
  <2>3. s \in Slots /\ s.phase # "ReleasePending"
    BY <1>2, <1>3
  <2> HIDE DEF s
  <2>4. /\ w.phase # "ReleasePending"
        /\ w.phase = "Idle" <=> s.phase = "Idle" /\ s.upEmitted
        /\ w.phase # "Idle" => Reported(w)
    BY <2>1, <2>3, WithReported
  <2>5. u[i] = w
    BY <2>2 DEF s
  <2> HIDE DEF w
  <2>6. QED
    BY <2>4, <2>5 DEF s
<1>5. ASSUME NEW i \in Ids \ Touching
      PROVE  IF slots[i].phase = "Idle" THEN u[i].phase = "Idle" ELSE Expired(u[i])
  <2>1. u[i] = Without(slots[i])
    BY <1>1
  <2>2. QED
    BY <1>2, <2>1, WithoutTyped DEF Expired, Shipped, Slots
<1>6. QED
  BY <1>1, <1>4, <1>5

\* With the shipped configuration a frame of the tracker keeps the slots settled.
LEMMA TrackKeepsSInv ==
  ASSUME Shipped, SInv, Track
  PROVE  SlotsTracked' /\ SlotsSettled'
<1>1. PICK matched \in SUBSET tracks, new \in SUBSET (Ids \ TrackIds(tracks)) :
           /\ tracks' = {Matched(t) : t \in matched} \cup {NewTrack(i) : i \in new}
                        \cup Kept(tracks \ matched)
           /\ contacts' = Contact(TrackIds(matched), "Mapped") \cup Contact(new, "New")
                 \cup Contact(TrackIds({t \in tracks \ matched : LiftsNow(t)}), "LiftOff")
  BY TrackStep DEF SInv, IInv
<1>2. pc = "track" /\ pc' = "gesture" /\ slots' = slots
  BY DEF Track
<1>3. /\ tracks \subseteq Tracks
      /\ \A t, u \in tracks : t.id = u.id => t = u
  BY DEF SInv, IInv, TypeOK, UniqueIds
<1>4. \A c \in contacts' :
         \/ \E t \in matched : c = [id |-> t.id, life |-> "Mapped"]
         \/ \E i \in new : c = [id |-> i, life |-> "New"]
         \/ \E t \in tracks \ matched : LiftsNow(t) /\ c = [id |-> t.id, life |-> "LiftOff"]
  BY <1>1 DEF Contact, TrackIds
<1>5. ASSUME NEW c \in contacts', slots[c.id].phase # "Idle"
      PROVE  c.life = "Mapped"
  <2>1. c.id \in Ids
    BY <1>5, TrackKeepsTypes DEF SInv, IInv, TypeOK, Contacts
  <2>2. PICK t \in tracks : t.id = c.id /\ t.missed = 0
    BY <1>2, <1>5, <2>1 DEF SInv, SlotsTracked
  <2>3. ~LiftsNow(t)
    BY <2>2, TouchAssumption DEF LiftsNow, Shipped
  <2>4. \A i \in new : i # c.id
    BY <2>2 DEF TrackIds
  <2>5. QED
    BY <1>3, <1>4, <1>5, <2>2, <2>3, <2>4
<1>6. QED
  BY <1>2, <1>5 DEF SInv, SlotsTracked, SlotsSettled

\* With the shipped configuration a frame of gestures leaves no release pending.
LEMMA GestureKeepsSInv ==
  ASSUME Shipped, SInv, Gesture
  PROVE  SlotsTracked' /\ SlotsSettled'
<1>1. PICK u \in [Ids -> Slots] :
           /\ \A i \in Touching : u[i].phase # "ReleasePending"
           /\ \A i \in Ids \ Touching :
                 IF slots[i].phase = "Idle" THEN u[i].phase = "Idle" ELSE Expired(u[i])
           /\ slots' = [i \in Ids |-> IF Expired(u[i]) THEN [FreshSlot EXCEPT !.upEmitted = TRUE]
                                      ELSE u[i]]
  BY ShippedGesture
<1>2. pc = "gesture" /\ pc' = "dispatch" /\ tracks' = tracks
  BY DEF Gesture, trackerVars
<1>3. \A i \in Ids : slots'[i].phase # "Idle" => i \in Touching
  BY <1>1, FreshTyped
<1>4. \A i \in Ids : slots'[i].phase # "ReleasePending"
  BY <1>1, FreshTyped
<1>5. \A i \in Touching : \E t \in tracks : t.id = i /\ t.missed = 0
  BY <1>2 DEF SInv, IInv, TouchingTracked
<1>6. QED
  BY <1>2, <1>3, <1>4, <1>5 DEF SlotsTracked, SlotsSettled

\* Every step keeps the slots tracked and settled.
LEMMA StepSInv == ASSUME Shipped PROVE SInv /\ [Next]_vars => SInv'
<1> SUFFICES ASSUME SInv, [Next]_vars PROVE SInv'
  OBVIOUS
<1>1. IInv'
  BY StepIInv DEF SInv
<1> SUFFICES SlotsTracked' /\ SlotsSettled'
  BY <1>1 DEF SInv
<1>2. CASE Track
  BY <1>2, TrackKeepsSInv
<1>3. CASE Gesture
  BY <1>3, GestureKeepsSInv
<1>4. CASE Skip \/ WriteContacts \/ WriteAllUp
  <2>1. pc = "dispatch" /\ pc' = "track" /\ UNCHANGED <<trackerVars, contacts, slots>>
    BY <1>4 DEF Skip, WriteContacts, WriteAllUp
  <2>2. QED
    BY <2>1 DEF SInv, SlotsTracked, SlotsSettled, trackerVars
<1>5. CASE SetEnabled \/ UNCHANGED vars
  <2>1. UNCHANGED <<pc, trackerVars, contacts, slots>>
    BY <1>5 DEF SetEnabled, vars, trackerVars
  <2>2. QED
    BY <2>1 DEF SInv, SlotsTracked, SlotsSettled, trackerVars, Touching
<1>6. QED
  BY <1>2, <1>3, <1>4, <1>5 DEF Next

\* A touch path that just started has no stroke.
LEMMA InitSInv == Init => SInv
<1> SUFFICES ASSUME Init PROVE SInv
  OBVIOUS
<1>1. \A i \in Ids : slots[i].phase = "Idle"
  BY DEF Init, FreshSlot
<1>2. QED
  BY <1>1, InitIInv DEF Init, SInv, SlotsTracked, SlotsSettled

\* A frame of the gesture machine is a frame of strokes.
LEMMA GestureIsFrame ==
  ASSUME Shipped, SInv, Gesture
  PROVE  Strokes!Frame
<1>1. PICK u \in [Ids -> Slots] :
           /\ \A i \in Touching : /\ u[i].phase # "ReleasePending"
                                  /\ u[i].phase = "Idle" => slots[i].phase = "Idle"
                                  /\ u[i].phase # "Idle" => Reported(u[i])
           /\ \A i \in Ids \ Touching :
                 IF slots[i].phase = "Idle" THEN u[i].phase = "Idle" ELSE Expired(u[i])
           /\ slots' = [i \in Ids |-> IF Expired(u[i]) THEN [FreshSlot EXCEPT !.upEmitted = TRUE]
                                      ELSE u[i]]
           /\ report' = {[id |-> i, event |-> Event(u[i])] :
                            i \in {c.id : c \in {d \in contacts : Reported(u[d.id])}}}
                        \cup {[id |-> i, event |-> "Up"] : i \in {j \in Ids : Expired(u[j])}}
  BY ShippedGesture
<1> DEFINE down   == {i \in Ids : slots[i].phase # "Idle"}
           still  == {i \in Touching : u[i].phase # "Idle"}
           lifted == {i \in Ids \ Touching : slots[i].phase # "Idle"}
<1>2. Touching \subseteq Ids
  BY DEF SInv, IInv, TypeOK, Touching, Contacts
<1>3. {j \in Ids : Expired(u[j])} = lifted
  BY <1>1, <1>2 DEF Expired
<1>4. {c.id : c \in {d \in contacts : Reported(u[d.id])}} = still
  <2>1. \A c \in contacts : c.id \in Ids
    BY DEF SInv, IInv, TypeOK, Contacts
  <2>2. \A c \in contacts : Reported(u[c.id]) => c.id \in still
    <3>1. SUFFICES ASSUME NEW c \in contacts, Reported(u[c.id]) PROVE c.id \in Touching
      BY DEF Reported
    <3>2. CASE slots[c.id].phase # "Idle"
      <4>1. c.life = "Mapped"
        BY <3>2 DEF SInv, SlotsSettled, Gesture
      <4>2. QED
        BY <4>1 DEF Touching
    <3>3. CASE slots[c.id].phase = "Idle"
      BY <1>1, <2>1, <3>1, <3>3 DEF Reported
    <3>4. QED
      BY <3>2, <3>3
  <2>3. \A i \in still : \E c \in contacts : c.id = i /\ Reported(u[c.id])
    BY <1>1 DEF Touching
  <2>4. QED
    BY <2>2, <2>3
<1>5. \A s : Event(s) # "Up"
  BY DEF Event
<1> DEFINE tipOn  == {[id |-> i, event |-> Event(u[i])] : i \in still}
           tipOff == {[id |-> i, event |-> "Up"] : i \in lifted}
<1>a. report' = tipOn \cup tipOff
  BY <1>1, <1>3, <1>4
<1> HIDE DEF still, lifted
<1>b. \A r \in tipOn : r.event # "Up" /\ r.id \in still
  <2>1. \A i \in still : /\ [id |-> i, event |-> Event(u[i])].id = i
                         /\ [id |-> i, event |-> Event(u[i])].event = Event(u[i])
    OBVIOUS
  <2>2. QED
    BY <1>5, <2>1
<1>c. \A i \in still : \E r \in tipOn : r.id = i
  <2>1. SUFFICES ASSUME NEW i \in still PROVE \E r \in tipOn : r.id = i
    OBVIOUS
  <2>2. [id |-> i, event |-> Event(u[i])] \in tipOn /\ [id |-> i, event |-> Event(u[i])].id = i
    OBVIOUS
  <2>3. QED
    BY <2>2
<1>d. \A r \in tipOff : r.event = "Up" /\ r.id \in lifted
  OBVIOUS
<1>e. \A i \in lifted : \E r \in tipOff : r.id = i
  <2>1. SUFFICES ASSUME NEW i \in lifted PROVE \E r \in tipOff : r.id = i
    OBVIOUS
  <2>2. [id |-> i, event |-> "Up"] \in tipOff /\ [id |-> i, event |-> "Up"].id = i
    OBVIOUS
  <2>3. QED
    BY <2>2
<1> HIDE DEF tipOn, tipOff
<1>6. {r.id : r \in {q \in report' : q.event # "Up"}} = still
  BY <1>a, <1>b, <1>c, <1>d, <1>e
<1>7. {r.id : r \in {q \in report' : q.event = "Up"}} = lifted
  BY <1>a, <1>b, <1>c, <1>d, <1>e
<1> USE DEF still, lifted
<1>8. {i \in Ids : slots'[i].phase # "Idle"} = still
  BY <1>1, <1>2, <1>3, FreshTyped
<1> DEFINE pressed == still \ down
<1>9. pressed \in SUBSET (Ids \ down) /\ lifted \in SUBSET down
  BY <1>2
<1>10. still = (down \cup pressed) \ lifted
  BY <1>1, <1>2
<1>11. /\ down = {i \in Ids : slots[i].phase # "Idle"}
       /\ {i \in Ids : slots'[i].phase # "Idle"} = (down \cup pressed) \ lifted
       /\ {r.id : r \in {q \in report' : q.event # "Up"}}
             = {i \in Ids : slots'[i].phase # "Idle"}
       /\ {r.id : r \in {q \in report' : q.event = "Up"}} = lifted
  BY <1>6, <1>7, <1>8, <1>10
<1> HIDE DEF down, still, lifted, pressed
<1>12. QED
  BY <1>9, <1>11 DEF Strokes!Frame

\* With the shipped configuration and any number of fingers the reports of the
\* gesture machine are the strokes that TouchStrokes promises.
THEOREM StrokesHold == ASSUME Shipped PROVE Spec => ImplementsStrokes
<1>1. Init => Strokes!Init
  <2> SUFFICES ASSUME Init PROVE Strokes!Init
    OBVIOUS
  <2>1. \A i \in Ids : slots[i].phase = "Idle"
    BY DEF Init, FreshSlot
  <2>2. QED
    BY <2>1 DEF Init, Strokes!Init
<1>2. SInv /\ [Next]_vars => [Strokes!Frame]_(Strokes!vars)
  <2> SUFFICES ASSUME SInv, [Next]_vars PROVE [Strokes!Frame]_(Strokes!vars)
    OBVIOUS
  <2>1. CASE Gesture
    BY <2>1, GestureIsFrame
  <2>2. CASE ~Gesture
    <3>1. UNCHANGED <<slots, report>>
      BY <2>2 DEF Next, Track, Skip, WriteContacts, WriteAllUp, SetEnabled, vars
    <3>2. QED
      BY <3>1 DEF Strokes!vars
  <2>3. QED
    BY <2>1, <2>2
<1>3. QED
  BY <1>1, <1>2, InitSInv, StepSInv, PTL DEF Spec, ImplementsStrokes, Strokes!Spec
=============================================================================
