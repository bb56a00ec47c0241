------------------------------- MODULE Touch --------------------------------
(* Contacts from identity to HID report, one frame of the worker thread:      *)
(* TouchTracker gives ids to the contacts of a frame, TouchGestureStateMachine*)
(* decides what is reported of each id, VhfReporter writes the reports to the *)
(* virtual HID device.  Coordinates are left out: which contact continues     *)
(* which track, and how far it is from the anchor, are choices.               *)
EXTENDS Integers, FiniteSets

CONSTANTS MaxTouch,           \* m_maxTouchCount, kMaxSlots
          LiftOffHold,        \* m_liftOffHoldFrames
          PressFrames,        \* m_pressCandidateFrames
          LongPressFrames,    \* m_longPressFrames
          ReleaseFrames,      \* m_releasePendingFrames
          Stability,          \* outcomes of the check that a press is stable
          PerPacket           \* contacts in one HID packet

ASSUME TouchAssumption ==
    /\ MaxTouch \in Nat \ {0}
    /\ LiftOffHold \in Nat
    /\ PressFrames \in Nat \ {0}
    /\ LongPressFrames \in Nat \ {0}
    /\ ReleaseFrames \in Nat
    /\ Stability \in SUBSET BOOLEAN
    /\ PerPacket \in Nat \ {0}

Ids     == 1 .. MaxTouch
Phases  == {"Idle", "PressCandidate", "Dragging", "LongPressHold", "ReleasePending"}
Offsets == {"near", "between", "far"}   \* within the long press tolerance, in between, beyond the drag threshold
Tracks  == [id : Ids, missed : 0 .. LiftOffHold + 1, upEventEmitted : BOOLEAN]
Contacts == [id : Ids, life : {"New", "Mapped", "LiftOff"}]
Slots   == [phase : Phases, prevPhase : Phases, missing : 0 .. ReleaseFrames + 1,
            stable : 0 .. PressFrames, age : 0 .. LongPressFrames, upEmitted : BOOLEAN]
Reports == [id : Ids, event : {"Down", "Move", "Up"}]

VARIABLES pc,                 \* next step of the worker: "track", "gesture", "dispatch"
          tracks,             \* TouchTracker::m_tracks
          nextIdSeed,         \* TouchTracker::m_nextIdSeed
          contacts,           \* frame.contacts from the tracker to the gestures
          slots,              \* TouchGestureStateMachine::m_slots
          report,             \* the contacts with isReported
          enabled,            \* VhfReporter::m_enabled
          hadTouch,           \* VhfReporter::m_hadTouchLastFrame
          host,               \* ids whose tip is on, as the HID host was told
          allUpLost           \* the last all-up packet was not written

vars == <<pc, tracks, nextIdSeed, contacts, slots, report, enabled, hadTouch, host, allUpLost>>
trackerVars == <<tracks, nextIdSeed>>
vhfVars     == <<hadTouch, host, allUpLost>>

FreshSlot == [phase |-> "Idle", prevPhase |-> "Idle", missing |-> 0,
              stable |-> 0, age |-> 0, upEmitted |-> FALSE]

Init == /\ pc = "track"
        /\ tracks = {} /\ nextIdSeed = 1 /\ contacts = {}
        /\ slots = [i \in Ids |-> FreshSlot] /\ report = {}
        /\ enabled = TRUE /\ hadTouch = FALSE
        /\ host = {} /\ allUpLost = FALSE

----------------------------------------------------------------------------
\* TouchTracker

TrackIds(ts) == {t.id : t \in ts}
\* Fault: an id whose finger is missing counts as free.
FreeIdsOfMissed == Ids \ {t.id : t \in {u \in tracks : u.missed = 0}}
FreeIds      == Ids \ TrackIds(tracks)

\* AllocateId tries the ids in a cycle that begins at the seed, and the seed
\* follows the id it gave.
ScanRank(i)  == IF i >= nextIdSeed THEN i - nextIdSeed ELSE i + MaxTouch - nextIdSeed
NewIds(n)    == {i \in FreeIds : Cardinality({j \in FreeIds : ScanRank(j) < ScanRank(i)}) < n}
\* Fault: the seed does not wrap.
IdAfterNoWrap(i) == i + 1
IdAfter(i)   == IF i = MaxTouch THEN 1 ELSE i + 1
SeedFollows(new) ==
    \/ new = {} /\ nextIdSeed' = nextIdSeed
    \/ \E last \in new : /\ \A i \in new : ScanRank(i) <= ScanRank(last)
                         /\ nextIdSeed' = IdAfter(last)

LiftsNow(t)  == ~t.upEventEmitted /\ t.missed + 1 > LiftOffHold
Matched(t)   == [t EXCEPT !.missed = 0, !.upEventEmitted = FALSE]
Missed(t)    == [t EXCEPT !.missed = @ + 1, !.upEventEmitted = @ \/ LiftsNow(t)]
NewTrack(i)  == [id |-> i, missed |-> 0, upEventEmitted |-> FALSE]
\* Fault: a track is dropped one frame early, before its Up.
KeptShort(lost) == {Missed(t) : t \in {u \in lost : u.missed + 1 <= LiftOffHold}}
Kept(lost)   == {Missed(t) : t \in {u \in lost : u.missed + 1 <= LiftOffHold + 1}}

Contact(ids, life) == {[id |-> i, life |-> life] : i \in ids}

\* Process: the matched tracks go on, n contacts that were not rejected begin
\* new tracks while ids last, the tracks without a contact age and are lifted.
Track == /\ pc = "track" /\ pc' = "gesture"
         /\ \E matched \in SUBSET tracks, n \in 0 .. MaxTouch :
               /\ Cardinality(matched) + n <= MaxTouch
               /\ LET lost == tracks \ matched
                      new  == NewIds(n) IN
                  /\ tracks' = {Matched(t) : t \in matched} \cup {NewTrack(i) : i \in new}
                               \cup Kept(lost)
                  /\ SeedFollows(new)
                  /\ contacts' = Contact(TrackIds(matched), "Mapped") \cup Contact(new, "New")
                                 \cup Contact(TrackIds({t \in lost : LiftsNow(t)}), "LiftOff")
         /\ UNCHANGED <<slots, report, enabled, vhfVars>>

----------------------------------------------------------------------------
\* TouchGestureStateMachine

Touching == {c.id : c \in {d \in contacts : d.life # "LiftOff"}}
AtMost(n, bound) == IF n > bound THEN bound ELSE n

Press(s)   == [s EXCEPT !.phase = "PressCandidate", !.age = 1, !.stable = 1, !.missing = 0]
Release(s) == [s EXCEPT !.phase = "ReleasePending", !.prevPhase = s.phase,
                        !.missing = IF s.phase = "PressCandidate" THEN 1 ELSE ReleaseFrames + 1]
Hold(s, stable) ==
    [s EXCEPT !.age = AtMost(@ + 1, LongPressFrames), !.missing = 0,
              !.stable = IF s.phase # "PressCandidate" THEN @
                         ELSE IF stable THEN AtMost(@ + 1, PressFrames) ELSE 0]

\* UpdateSlot for an id without a contact in this frame.
Without(s) ==
    IF s.phase = "Idle" THEN [s EXCEPT !.upEmitted = FALSE]
    ELSE IF s.phase = "ReleasePending" THEN [s EXCEPT !.missing = AtMost(@ + 1, ReleaseFrames + 1)]
    ELSE Release(s)

\* UpdateSlot for an id with a contact at this offset from its anchor; the
\* first contact after an Up is swallowed.
With(s, offset, stable) ==
    IF s.phase = "Idle" THEN IF s.upEmitted THEN [s EXCEPT !.upEmitted = FALSE] ELSE Press(s)
    ELSE IF s.phase = "ReleasePending" THEN [s EXCEPT !.phase = s.prevPhase, !.missing = 0]
    ELSE LET held == Hold(s, stable)
             goes == IF s.phase = "Dragging" \/ offset = "far" THEN "Dragging"
                     ELSE IF s.phase = "PressCandidate" /\ held.age >= LongPressFrames
                             /\ offset = "near" THEN "LongPressHold"
                     ELSE s.phase
         IN [held EXCEPT !.phase = goes]

\* Process, phase 2: what is reported of a contact whose slot is s.
Reported(s) == s.phase # "Idle" /\ (s.phase = "PressCandidate" => s.stable >= PressFrames)
Event(s)    == IF s.phase = "PressCandidate" THEN "Down" ELSE "Move"
\* Phase 3: the grace period is over.
\* Fault: the grace period is a frame longer than it counts.
ExpiredLate(s) == s.phase = "ReleasePending" /\ s.missing > ReleaseFrames + 1
Expired(s)  == s.phase = "ReleasePending" /\ s.missing > ReleaseFrames

Gesture ==
    /\ pc = "gesture" /\ pc' = "dispatch"
    /\ \E offset \in [Touching -> Offsets], stable \in [Touching -> Stability] :
         LET updated == [i \in Ids |-> IF i \in Touching THEN With(slots[i], offset[i], stable[i])
                                       ELSE Without(slots[i])]
             shown   == {c.id : c \in {d \in contacts : Reported(updated[d.id])}}
             lifted  == {i \in Ids : Expired(updated[i])} IN
         /\ slots' = [i \in Ids |-> IF i \in lifted THEN [FreshSlot EXCEPT !.upEmitted = TRUE]
                                    ELSE updated[i]]
         /\ report' = {[id |-> i, event |-> Event(updated[i])] : i \in shown}
                      \cup {[id |-> i, event |-> "Up"] : i \in lifted}
    /\ contacts' = {}
    /\ UNCHANGED <<trackerVars, enabled, vhfVars>>

----------------------------------------------------------------------------
\* VhfReporter

\* The Ups were appended last, in the order of their slots: a list of n that
\* BuildTouchReports takes from the front.
Front(part, all, n) ==
    /\ Cardinality(part) = AtMost(Cardinality(all), n)
    /\ \A c \in part, d \in all : c.event = "Up" /\ (d.event # "Up" \/ d.id < c.id) => d \in part

\* The host keeps a tip that no later packet lifts.
Told(cs) == (host \cup {c.id : c \in {d \in cs : d.event # "Up"}})
            \ {c.id : c \in {d \in cs : d.event = "Up"}}

\* Fault: disabling the reports also forgets the touch.
SkipForgets == /\ pc = "dispatch" /\ ~enabled
               /\ pc' = "track" /\ hadTouch' = FALSE
               /\ UNCHANGED <<trackerVars, contacts, slots, report, enabled, host, allUpLost>>
Skip == /\ pc = "dispatch" /\ ~enabled
        /\ pc' = "track"
        /\ UNCHANGED <<trackerVars, contacts, slots, report, enabled, vhfVars>>

\* DispatchTouch with contacts: two packets of PerPacket, each of which may fail.
WriteContacts ==
    /\ pc = "dispatch" /\ enabled /\ report # {}
    /\ pc' = "track"
    /\ hadTouch' = TRUE /\ allUpLost' = FALSE
    /\ \E sent \in SUBSET report : \E first \in SUBSET sent :
         /\ Front(sent, report, 2 * PerPacket)
         /\ Front(first, sent, PerPacket)
         /\ \E written \in SUBSET {first, sent \ first} : host' = Told(UNION written)
    /\ UNCHANGED <<trackerVars, contacts, slots, report, enabled>>

\* DispatchTouch without contacts: one all-up packet after the last touch.
WriteAllUp ==
    /\ pc = "dispatch" /\ enabled /\ report = {}
    /\ pc' = "track"
    /\ hadTouch' = FALSE
    /\ \/ ~hadTouch /\ UNCHANGED <<host, allUpLost>>
       \/ hadTouch /\ host' = {} /\ allUpLost' = FALSE
       \/ hadTouch /\ host' = host /\ allUpLost' = TRUE
    /\ UNCHANGED <<trackerVars, contacts, slots, report, enabled>>

\* SetVhfEnabled, from the pipe's thread at any point of the frame.
SetEnabled == /\ enabled' = ~enabled
              /\ UNCHANGED <<pc, trackerVars, contacts, slots, report, vhfVars>>

Next == Track \/ Gesture \/ Skip \/ WriteContacts \/ WriteAllUp \/ SetEnabled

Spec == Init /\ [][Next]_vars

----------------------------------------------------------------------------
\* Properties

TypeOK == /\ pc \in {"track", "gesture", "dispatch"}
          /\ tracks \subseteq Tracks /\ nextIdSeed \in Ids /\ contacts \subseteq Contacts
          /\ slots \in [Ids -> Slots] /\ report \subseteq Reports
          /\ enabled \in BOOLEAN /\ hadTouch \in BOOLEAN /\ allUpLost \in BOOLEAN
          /\ host \subseteq Ids

\* An id names one finger (TouchTracker.cpp:98): no two tracks or contacts of a
\* frame share an id, held and lifted tracks included, so that the caps on their
\* lists never cut one; and a new finger does not take over the gesture of an
\* earlier one.
OneFingerPerId ==
    /\ \A t, u \in tracks : t.id = u.id => t = u
    /\ \A c, d \in contacts : c.id = d.id => c = d
    /\ pc = "gesture" => \A c \in contacts : c.life = "New" => slots[c.id].phase = "Idle"

\* The tracker forgets a track only after it emitted its Up
\* (TouchTracker.cpp:354-374), however often the finger came back in between.
TrackEndsWithUp ==
    [][\A t \in tracks : t.upEventEmitted \/ t.id \in TrackIds(tracks')]_vars

\* As long as the host holds a contact, whatever reports were disabled, cut at
\* the ten of a frame or lost, the reporter remembers to send an all-up, unless
\* the write of that all-up itself failed (VhfReporter.cpp:118-128).
HostContactsRemembered == host # {} => hadTouch \/ allUpLost

\* With the shipped configuration the reports are strokes: whatever the tracker
\* holds, loses and finds again, no contact moves or is lifted without having
\* been pressed, and none drops out of the reports without being lifted.
Strokes == INSTANCE TouchStrokes WITH
    down <- {i \in Ids : slots[i].phase # "Idle"},
    on   <- {r.id : r \in {q \in report : q.event # "Up"}},
    off  <- {r.id : r \in {q \in report : q.event = "Up"}}
ImplementsStrokes == Strokes!Spec
=============================================================================
