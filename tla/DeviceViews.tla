----------------------------- MODULE DeviceViews -----------------------------
(***************************************************************************)
(* Two things a client is shown of a device, each a component of its own.  *)
(*                                                                         *)
(* Its location: registration puts it into the columns of the row and into *)
(* the event, and every handler that changes something else loads it from  *)
(* the columns and saves it again, by conversions that tell a value from a *)
(* missing one by its truth: zero and the empty text are false.            *)
(*                                                                         *)
(* Its health: a device that reports, late and out of order too, and is    *)
(* activated, deactivated and maintained, while time passes; and a client  *)
(* that was given it as it was then.  The thresholds of the score, of      *)
(* being online and of being stale are code of their own.                  *)
(***************************************************************************)
EXTENDS Naturals

CONSTANTS
    Missing, Empty, Given,   \* None; 0 or the empty text; any other value
    NoLocation

NumberFields == {"latitude", "longitude", "altitude"}
TextFields == {"address", "building", "floor"}     \* room is kept as floor is
Fields == NumberFields \cup TextFields
Location == [Fields -> {Missing, Empty, Given}]

ASSUME RowAssumption ==
    /\ Missing # Empty /\ Missing # Given /\ Empty # Given
    /\ NoLocation \notin Location

VARIABLES
    placed,     \* the location a device was registered with
    place,      \* the columns of its row, once there is one
    told        \* the location in its registration event

deviceRowVars == <<placed, place, told>>

DeviceRowsInit == placed = NoLocation /\ place = NoLocation /\ told = NoLocation

-----------------------------------------------------------------------------
(* The conversions *)

\* A number that is zero becomes none.
WithoutZeros(l) == [f \in Fields |-> IF f \in NumberFields /\ l[f] = Empty THEN Missing ELSE l[f]]

\* A location is read only if one of four columns has a value that is not false.
IsRead(l) == \E f \in {"latitude", "longitude", "address", "building"} : l[f] = Given
ReadLocation(l) == IF IsRead(l) THEN WithoutZeros(l) ELSE NoLocation

\* A location that is none leaves the columns of a row as they are.
WriteLocation(l, old) == IF l = NoLocation THEN old ELSE l

NewColumns(l) == IF l = NoLocation THEN [f \in Fields |-> Missing] ELSE l

ToldLocation(l) == IF l = NoLocation THEN NoLocation ELSE WithoutZeros(l)

-----------------------------------------------------------------------------
(* Commands *)

RegisterDeviceAt(l) ==
    /\ place = NoLocation
    /\ placed' = l /\ place' = NewColumns(l) /\ told' = ToldLocation(l)

\* A change of the name or the status, or a measurement.
SaveAgain ==
    /\ place # NoLocation
    /\ place' = WriteLocation(ReadLocation(place), place)
    /\ UNCHANGED <<placed, told>>

\* A change of the location raises before it is saved: its event cannot be made.
ChangeLocation ==
    /\ place # NoLocation
    /\ UNCHANGED deviceRowVars

DeviceRowsNext ==
    \/ \E l \in Location \cup {NoLocation} : RegisterDeviceAt(l)
    \/ SaveAgain \/ ChangeLocation

-----------------------------------------------------------------------------
(* Properties *)

\* However often a device is loaded and saved, the location it was registered with stays in its
\* row, except for numbers that are zero.
PlaceIsKept ==
    place # NoLocation => WithoutZeros(place) = WithoutZeros(NewColumns(placed))

\* Who loads the device always gets the location its registration told, or none where the only
\* values are zeros, empty texts, a floor or an altitude.
ReadAsTold ==
    place # NoLocation =>
        LET l == ReadLocation(place) IN
        /\ l # NoLocation => l = told
        /\ l = NoLocation <=>
               told = NoLocation \/ \A f \in Fields : told[f] = Given => f \in {"altitude", "floor"}

DeviceRowInv == PlaceIsKept /\ ReadAsTold

-----------------------------------------------------------------------------
(* Health *)

CONSTANTS
    Unseen,
    OnlineFor,              \* 300 seconds
    Recent, Old, Ancient,   \* the ages of the score: 6, 12 and 24 hours
    StaleAfter,             \* 24 hours
    MaxTime                 \* bound: how far time passes

ASSUME HealthAssumption ==
    /\ Unseen \notin Nat /\ {OnlineFor, Recent, Old, Ancient, StaleAfter, MaxTime} \subseteq Nat
    /\ OnlineFor <= Recent /\ Recent < Old /\ Old < Ancient /\ StaleAfter = Ancient

VARIABLES
    lifeStatus, lastSeen,   \* the device
    clock,
    shown,                  \* what the client was given, or Unseen
    newest,                 \* history: the latest time of all reports
    changedSince            \* history: whether the device has changed since it was shown

healthVars == <<lifeStatus, lastSeen, clock, shown, newest, changedSince>>

\* Nothing decommissions a device, but its row may say so.
LifeStatuses == {"active", "inactive", "maintenance", "decommissioned"}

DeviceHealthInit ==
    /\ lifeStatus \in LifeStatuses /\ lastSeen = Unseen /\ clock = 0
    /\ shown = Unseen /\ newest = Unseen /\ changedSince = FALSE

-----------------------------------------------------------------------------
(* What is computed from a device *)

Age(seen, now) == now - seen

IsOnline(seen, now) == seen # Unseen /\ Age(seen, now) <= OnlineFor

IsStale(seen, now) == seen = Unseen \/ Age(seen, now) > StaleAfter

\* Factors are in tenths, a score in hundredths.
OfStatus(status) == CASE status = "active" -> 10 [] status = "inactive" -> 5 [] status = "maintenance" -> 7 [] OTHER -> 0
OfAge(seen, now) ==
    CASE seen = Unseen -> 2
      [] seen # Unseen /\ Age(seen, now) > Ancient -> 3
      [] seen # Unseen /\ Age(seen, now) \in (Old + 1)..Ancient -> 6
      [] seen # Unseen /\ Age(seen, now) \in (Recent + 1)..Old -> 8
      [] OTHER -> 10

Score(status, seen, now) == OfStatus(status) * OfAge(seen, now)

Dto(status, seen, now) == [health |-> Score(status, seen, now), online |-> IsOnline(seen, now)]

-----------------------------------------------------------------------------
(* The device, its client, and time *)

Becomes(status) ==
    /\ lifeStatus' = status /\ changedSince' = TRUE
    /\ UNCHANGED <<lastSeen, clock, shown, newest>>

ActivateAgain == lifeStatus \notin {"decommissioned", "active"} /\ Becomes("active")
DeactivateAgain == lifeStatus \notin {"decommissioned", "inactive"} /\ Becomes("inactive")
Maintain == lifeStatus \notin {"decommissioned", "maintenance"} /\ Becomes("maintenance")

\* Metrics have the time they were taken at; the device was seen then, whatever was heard before.
Report(time) ==
    /\ time <= clock
    /\ lastSeen' = time /\ changedSince' = TRUE
    /\ newest' = IF newest = Unseen \/ time > newest THEN time ELSE newest
    /\ UNCHANGED <<lifeStatus, clock, shown>>

GetDevice ==
    /\ shown' = Dto(lifeStatus, lastSeen, clock) /\ changedSince' = FALSE
    /\ UNCHANGED <<lifeStatus, lastSeen, clock, newest>>

TimePasses ==
    /\ clock < MaxTime /\ clock' = clock + 1
    /\ UNCHANGED <<lifeStatus, lastSeen, shown, newest, changedSince>>

DeviceHealthNext ==
    \/ ActivateAgain \/ DeactivateAgain \/ Maintain
    \/ \E time \in 0..MaxTime : Report(time)
    \/ GetDevice \/ TimePasses

-----------------------------------------------------------------------------
(* Properties *)

Healthy == Score(lifeStatus, lastSeen, clock)
Online == IsOnline(lastSeen, clock)
Stale == IsStale(lastSeen, clock)

\* The scores and the list of stale devices agree: a stale device scores 0.3 at most, an active one
\* that is not stale scores more; and only a decommissioned device scores nothing.
ScoreFollowsStaleness ==
    /\ Stale => Healthy <= 30
    /\ lifeStatus = "active" /\ ~Stale => Healthy > 30
    /\ Healthy = 0 <=> lifeStatus = "decommissioned"

\* However late reports come, a device that is shown online has been heard of lately, is not stale,
\* and loses no health for its age.
OnlineIsHeard ==
    Online => /\ newest # Unseen /\ clock - newest <= OnlineFor
              /\ ~Stale
              /\ Healthy = OfStatus(lifeStatus) * 10

\* What a client was given flatters a device that has not changed since, and never wrongs it: its
\* health only falls, and it only goes offline.
ShownIsTheBest ==
    shown # Unseen /\ ~changedSince => Healthy <= shown.health /\ (Online => shown.online)

HealthToldInv == ScoreFollowsStaleness /\ OnlineIsHeard /\ ShownIsTheBest

=============================================================================
