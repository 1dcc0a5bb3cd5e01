--------------------------------- MODULE Yard ---------------------------------
(***************************************************************************)
(* Dock appointments, transportation units and yard tasks.  An appointment *)
(* books a door for a slot and follows the truck; a unit is one delivery   *)
(* or shipment on that truck and says where it stands; a yard task moves   *)
(* one unit.  A slot is one step of the clock.  Checkpoints, seals,        *)
(* payload limits and names are left out: they only refuse.                *)
(*                                                                         *)
(* A request locks the row it changes, but decides from plain reads of the *)
(* other bookings, units and tasks, and those are the ones of the moment   *)
(* it first read.  So an operation takes the tables it reads, v: the ones  *)
(* that stand, or those a desk has read before.                            *)
(***************************************************************************)
EXTENDS Integers, SequencesExt, FiniteSetsExt

CONSTANTS
  Appointments,    \* 1..n, the names appointments may get
  Units,           \* 1..n, the names transportation units may get
  Deliveries, Shipments,   \* documents a truck brings, documents it collects
  Doors, Spots,    \* 1..n, the doors in bin sequence; yard spots
  DoorsAsked,      \* doors a caller names; None: the program finds one
  PreferredDoors,  \* the doors the determination rules name
  CarrierOf,       \* [Appointments -> carriers]
  TrucksPerDay,    \* Carrier Capacity
  SlotsPerDay, Changeover, NoShowAfter,   \* warehouse settings, in slots
  AppointmentCheck, GateCheck,            \* "Allow" / "Block"; "Off" / "Block"
  Desks,           \* requests that may be under way while others are served
  None,
  MaxSlot, MaxWork \* bounds

YardAssumption ==
  /\ Appointments = 1..Cardinality(Appointments) /\ Units = 1..Cardinality(Units)
  /\ Doors = 1..Cardinality(Doors) /\ PreferredDoors \subseteq Doors
  /\ DoorsAsked \subseteq Doors \cup {None}
  /\ Doors \cap Spots = {} /\ Deliveries \cap Shipments = {}
  /\ \A S \in {Appointments, Units, Doors, Deliveries, Shipments} : IsFiniteSet(S)
  /\ None \notin Appointments \cup Deliveries \cup Shipments \cup Doors \cup Spots
  /\ SlotsPerDay \in Nat \ {0} /\ {Changeover, NoShowAfter, TrucksPerDay, MaxSlot, MaxWork} \subseteq Nat

VARIABLES
  appointment,   \* [Appointments -> WMS Dock Appointment]
  transport,     \* [Units -> WMS Transportation Unit]
  yardTask,      \* open WMS Yard Tasks
  announced,     \* [Deliveries \cup Shipments -> what the yard knows of it]
  looked,        \* [Desks -> the tables a request under way has read, or None]
  missed,        \* history: <<a, b>>, a was written by a request that had not
                 \* seen what became of b
  clock, yardWork

yardVars == <<appointment, transport, yardTask, announced, looked, missed, clock, yardWork>>

Documents == Deliveries \cup Shipments
LastTick == MaxSlot + NoShowAfter + 1
ACTIVE == {"Planned", "Checked In", "At Door"}
LIVE == {"Planned", "In Yard", "At Door", "Loading", "Unloading"}
Present == LIVE \ {"Planned"}

NoAppointment == [status |-> "None", slot |-> 0, door |-> None, spot |-> None,
                  walk_in |-> FALSE, direction |-> None, ref |-> None]
NoUnit == [status |-> "None", of |-> None, ref |-> None, door |-> None, spot |-> None]

BookingRow ==
  [status : ACTIVE \cup {"None", "Completed", "Checked Out", "No Show", "Cancelled"},
   slot : 0..LastTick, door : Doors \cup {None}, spot : Spots \cup {None}, walk_in : BOOLEAN,
   direction : {"Inbound", "Outbound", None}, ref : Documents \cup {None}]
UnitRow ==
  [status : LIVE \cup {"None", "Departed"}, of : Appointments \cup {None},
   ref : Documents \cup {None}, door : Doors \cup {None}, spot : Spots \cup {None}]
DocumentRow ==
  [yard : {"None", "Expected", "In Yard", "At Door", "Departed"}, door : Doors \cup {None},
   work : {"Open", "Started", "Departed"}]

YardInit ==
  /\ appointment = [a \in Appointments |-> NoAppointment]
  /\ transport = [u \in Units |-> NoUnit]
  /\ yardTask = {}
  /\ announced = [d \in Documents |-> [yard |-> "None", door |-> None, work |-> "Open"]]
  /\ looked = [k \in Desks |-> None]
  /\ missed = {}
  /\ clock = 0
  /\ yardWork = 0

Standing == [appointment |-> appointment, transport |-> transport,
             yardTask |-> yardTask, announced |-> announced]

-----------------------------------------------------------------------------
(* Doors and slots, as the bookings bs say. *)

Larger(a, b) == IF a > b THEN a ELSE b
DirectionOf(d) == IF d \in Shipments THEN "Outbound" ELSE "Inbound"
NextAppointment(bs) == Min({a \in Appointments : bs[a].status = "None"})
FreeUnits == {u \in Units : transport[u].status = "None"}

ClashesOfPlans(bs, door, first, last, self) ==
  {a \in Appointments \ {self} :
     /\ bs[a].door = door /\ bs[a].status = "Planned"
     /\ bs[a].slot <= last + Changeover
     /\ bs[a].slot + Changeover >= first}

Clashes(bs, door, first, last, self) ==
  {a \in Appointments \ {self} :
     /\ bs[a].door = door /\ bs[a].status \in ACTIVE
     /\ bs[a].slot <= last + Changeover
     /\ bs[a].slot + Changeover >= first}

Occupied(bs, door, self) ==
  \E a \in Appointments \ {self} :
    bs[a].door = door /\ bs[a].status = "At Door"

(* Preferred doors first, then in sequence; now: also empty right now. *)
FreeDoor(bs, first, last, self, now) ==
  LET free == {d \in Doors : /\ Clashes(bs, d, first, last, self) = {}
                             /\ ~(now /\ Occupied(bs, d, self))}
      ranked == IF free \cap PreferredDoors # {} THEN free \cap PreferredDoors ELSE free
  IN  IF free = {} THEN None ELSE Min(ranked)

Day(slot) == slot \div SlotsPerDay
BookedNow(bs, a, slot) ==
  {b \in Appointments \ {a} :
     /\ bs[b].status \in ACTIVE
     /\ ~bs[b].walk_in /\ CarrierOf[b] = CarrierOf[a]
     /\ Day(bs[b].slot) = Day(slot)}
Booked(bs, a, slot) ==
  {b \in Appointments \ {a} :
     /\ bs[b].status \notin {"None", "Cancelled", "No Show"}
     /\ ~bs[b].walk_in /\ CarrierOf[b] = CarrierOf[a]
     /\ Day(bs[b].slot) = Day(slot)}
HasCapacity(bs, a, doc) == doc.walk_in \/ Cardinality(Booked(bs, a, doc.slot)) < TrucksPerDay

DoorOfShipment(docs, d) == IF d \in Shipments THEN docs[d].door ELSE None

(* validate(): the door the appointment is saved with, and whether it may. *)
ValidDoor(v, a, doc) ==
  IF doc.door # None \/ doc.status \notin ACTIVE \/ (doc.walk_in /\ doc.status = "Checked In")
  THEN doc.door
  ELSE IF DoorOfShipment(v.announced, doc.ref) # None THEN DoorOfShipment(v.announced, doc.ref)
  ELSE FreeDoor(v.appointment, doc.slot, doc.slot, a, FALSE)

Valid(v, a, doc) ==
  doc.status \in ACTIVE =>
    /\ HasCapacity(v.appointment, a, doc)
    /\ \/ doc.walk_in /\ doc.status = "Checked In" /\ doc.door = None
       \/ /\ ValidDoor(v, a, doc) # None
          /\ doc.status # "At Door" => Clashes(v.appointment, ValidDoor(v, a, doc), doc.slot, doc.slot, a) = {}

Saved(v, bs, a, doc) == [bs EXCEPT ![a] = [doc EXCEPT !.door = ValidDoor(v, a, doc)]]

-----------------------------------------------------------------------------
(* The units and the documents follow the appointment. *)

UnitsOf(us, a) == {u \in Units : us[u].of = a}
Carried(v, a) ==
  ({v.appointment[a].ref} \cup {v.transport[u].ref : u \in UnitsOf(v.transport, a)}) \ {None}

UnitStatus(status) ==
  CASE status = "Checked In" -> "In Yard" [] status = "At Door" -> "At Door"
    [] status = "Checked Out" -> "Departed"

(* The state sync_from_appointment gives every unit of the truck.          *)
Following(v, a, doc, u) ==
  [status |-> UnitStatus(doc.status), of |-> a,
   ref |-> IF u \in UnitsOf(v.transport, a) THEN transport[u].ref ELSE doc.ref,
   spot |-> IF doc.status = "Checked In" THEN doc.spot ELSE None,
   door |-> IF doc.status = "At Door" THEN doc.door ELSE None]

Followers(v, a) == IF UnitsOf(v.transport, a) # {} THEN UnitsOf(v.transport, a) ELSE {Min(FreeUnits)}
CanFollow(v, a) == UnitsOf(v.transport, a) # {} \/ FreeUnits # {}    \* bound: a name is left
Synced(v, a, doc) ==
  [u \in Units |-> IF u \in Followers(v, a) THEN Following(v, a, doc, u) ELSE transport[u]]

Told(v, docs, a, status) ==
  [d \in Documents |-> IF d \in Carried(v, a) THEN [docs[d] EXCEPT !.yard = status] ELSE docs[d]]

YardStatusOf(status) ==
  CASE status \in {"None", "Planned"} -> "Expected" [] status = "In Yard" -> "In Yard"
    [] OTHER -> "At Door"

(* A new unit for document d on truck a, in the state of unit 'like'.      *)
WithUnit(a, d, like) ==
  [transport EXCEPT ![Min(FreeUnits)] =
     [status |-> IF like.status = "None" THEN "Planned" ELSE like.status, of |-> a, ref |-> d,
      door |-> like.door, spot |-> like.spot]]

-----------------------------------------------------------------------------
(* Scheduling. *)

Booking(slot, door, dir, d) ==
  [NoAppointment EXCEPT !.status = "Planned", !.slot = slot, !.door = door,
                        !.direction = dir, !.ref = d]
NameLeft == \E a \in Appointments : appointment[a].status = "None"

CreateAppointment(v, slot, door, d) ==
  /\ NameLeft
  /\ LET a == NextAppointment(appointment)
         doc == Booking(slot, door, DirectionOf(d), d)
     IN  Valid(v, a, doc) /\ appointment' = Saved(v, appointment, a, doc)
  /\ UNCHANGED <<transport, yardTask, announced>>

(* The same slot every day, one booking after the other; days that do not *)
(* fit are skipped.  The second one sees the first.                        *)
BookedIfValid(v, bs, doc) ==
  IF doc.slot <= MaxSlot /\ Valid(v, NextAppointment(bs), doc)
  THEN Saved(v, bs, NextAppointment(bs), doc) ELSE bs
CreateRecurring(v, slot, door) ==
  LET doc(k) == Booking(slot + k * SlotsPerDay, door, "Inbound", None)
      days == IF slot + SlotsPerDay <= MaxSlot THEN 2 ELSE 1
      a == NextAppointment(appointment)
      first == BookedIfValid(v, appointment, doc(0))
      then == [v EXCEPT !.appointment = [v.appointment EXCEPT ![a] = first[a]]]
  IN  /\ Cardinality({b \in Appointments : appointment[b].status = "None"}) >= days
      /\ appointment' = BookedIfValid(then, first, doc(1))
      /\ appointment' # appointment
      /\ UNCHANGED <<transport, yardTask, announced>>

(* A unit for each document, under the first free names.                   *)
Order(u) == Cardinality({v \in FreeUnits : v <= u})
UnitsPlanned(a, refs) ==
  [u \in Units |-> IF u \in FreeUnits /\ Order(u) <= Cardinality(refs)
                  THEN [NoUnit EXCEPT !.status = "Planned", !.of = a, !.ref = SetToSeq(refs)[Order(u)]]
                  ELSE transport[u]]
PlanTruck(v, slot, door, refs) ==
  /\ NameLeft /\ Cardinality(FreeUnits) >= Cardinality(refs)
  /\ LET a == NextAppointment(appointment)
     IN  /\ \E first \in refs :
              LET doc == Booking(slot, door, DirectionOf(first), first)
              IN  Valid(v, a, doc) /\ appointment' = Saved(v, appointment, a, doc)
         /\ transport' = UnitsPlanned(a, refs)
         /\ announced' = [d \in Documents |-> IF d \in refs
                           THEN [announced[d] EXCEPT !.yard = "Expected"] ELSE announced[d]]
  /\ UNCHANGED yardTask

(* add_to_truck(): the new unit copies the state of a sibling. *)
AddToTruck(v, a, d) ==
  /\ v.appointment[a].status \in ACTIVE
  /\ DirectionOf(d) = v.appointment[a].direction
  /\ d \notin Carried(v, a)
  /\ FreeUnits # {}
  /\ \E like \in IF UnitsOf(v.transport, a) = {} THEN {NoUnit}
                 ELSE {v.transport[u] : u \in UnitsOf(v.transport, a)} :
       /\ transport' = WithUnit(a, d, like)
       /\ announced' = [announced EXCEPT ![d].yard =
            IF like.status \in {"Departed", "Cancelled"} THEN "Expected" ELSE YardStatusOf(like.status)]
  /\ UNCHANGED <<appointment, yardTask>>

CreateTransportUnit(a, d) ==
  /\ FreeUnits # {}
  /\ a # None => appointment[a].status # "None"
  /\ transport' = WithUnit(a, d, NoUnit)
  /\ UNCHANGED <<appointment, yardTask, announced>>

-----------------------------------------------------------------------------
(* The appointment's way through the yard. *)

(* check_in() of a planned truck: saving checks its door again. *)
CheckIn(v, a, spot) ==
  /\ appointment[a].status = "Planned"
  /\ CanFollow(v, a)
  /\ LET doc == [appointment[a] EXCEPT !.status = "Checked In", !.spot = spot]
     IN  /\ Valid(v, a, doc)
         /\ appointment' = Saved(v, appointment, a, doc)
         /\ transport' = Synced(v, a, doc)
  /\ announced' = Told(v, announced, a, "In Yard")
  /\ UNCHANGED yardTask

CheckInWalkIn(v, dir, spot) ==
  /\ AppointmentCheck # "Block"
  /\ NameLeft /\ FreeUnits # {}
  /\ LET a == NextAppointment(appointment)
         doc == [NoAppointment EXCEPT !.status = "Checked In", !.slot = clock, !.walk_in = TRUE,
                                      !.direction = dir, !.spot = spot]
     IN  /\ appointment' = Saved(v, appointment, a, doc)
         /\ transport' = Synced(v, a, doc)
  /\ UNCHANGED <<yardTask, announced>>

DockedAt(a, door) == [appointment[a] EXCEPT !.status = "At Door", !.door = door]
DoorFor(v, a, door) ==
  IF door # None THEN door
  ELSE IF appointment[a].door # None THEN appointment[a].door
  ELSE FreeDoor(v.appointment, clock, Larger(appointment[a].slot, clock), a, TRUE)

MayDock(v, a, door) ==
  /\ appointment[a].status \in {"Planned", "Checked In"}
  /\ DoorFor(v, a, door) # None
  /\ ~Occupied(v.appointment, DoorFor(v, a, door), a)
  /\ Valid(v, a, DockedAt(a, DoorFor(v, a, door)))
  /\ CanFollow(v, a)

WithShipmentDoor(docs, a, door) ==
  LET d == appointment[a].ref
  IN  IF d \in Shipments /\ docs[d].work # "Departed"
      THEN [docs EXCEPT ![d].door = door] ELSE docs

ToDoor(v, a, door) ==
  /\ MayDock(v, a, door)
  /\ LET doc == DockedAt(a, DoorFor(v, a, door))
     IN  /\ appointment' = Saved(v, appointment, a, doc)
         /\ transport' = Synced(v, a, doc)
         /\ announced' = Told(v, WithShipmentDoor(announced, a, doc.door), a, "At Door")
  /\ UNCHANGED yardTask

Complete(a) ==
  /\ appointment[a].status = "At Door"
  /\ appointment' = [appointment EXCEPT ![a].status = "Completed"]
  /\ UNCHANGED <<transport, yardTask, announced>>

InTheYard(a) == appointment[a].status \in {"Checked In", "At Door", "Completed"}
CheckedOut(a) == [appointment[a] EXCEPT !.status = "Checked Out"]

CheckOut(v, a) ==
  /\ InTheYard(a)
  /\ CanFollow(v, a)
  /\ appointment' = [appointment EXCEPT ![a] = CheckedOut(a)]
  /\ transport' = Synced(v, a, CheckedOut(a))
  /\ announced' = Told(v, announced, a, "Departed")
  /\ UNCHANGED yardTask

CancelAppointment(a) ==
  /\ appointment[a].status = "Planned"
  /\ appointment' = [appointment EXCEPT ![a].status = "Cancelled"]
  /\ UNCHANGED <<transport, yardTask, announced>>

(* Scheduler: planned trucks that never came free their door; with no     *)
(* minutes set a truck is never too late.                                  *)
OverdueToday(a) ==
  /\ NoShowAfter > 0
  /\ appointment[a].status = "Planned" /\ appointment[a].slot < clock - NoShowAfter
  /\ Day(appointment[a].slot) = Day(clock)
Overdue(a) ==
  /\ NoShowAfter > 0
  /\ appointment[a].status = "Planned" /\ appointment[a].slot < clock - NoShowAfter
MarkNoShows ==
  /\ \E a \in Appointments : Overdue(a)
  /\ appointment' = [a \in Appointments |->
       IF Overdue(a) THEN [appointment[a] EXCEPT !.status = "No Show"] ELSE appointment[a]]
  /\ UNCHANGED <<transport, yardTask, announced, looked, missed, clock, yardWork>>

-----------------------------------------------------------------------------
(* The units' own way through the yard. *)

UnitAt(us, bin, self) ==
  \E u \in Units \ {self} : us[u].status \in LIVE /\ bin \in {us[u].spot, us[u].door}
FreeSpots(us) == {s \in Spots : ~UnitAt(us, s, None)}

Arrive(v, u, spot) ==
  /\ transport[u].status = "Planned"
  /\ \/ spot \in Spots /\ ~UnitAt(v.transport, spot, u)
     \/ spot = None /\ FreeSpots(v.transport) = {}
  /\ transport' = [transport EXCEPT ![u].status = "In Yard", ![u].spot = spot]
  /\ UNCHANGED <<appointment, yardTask, announced>>

RequestYardMove(v, u, bin) ==
  /\ v.transport[u].status \in Present
  /\ ~UnitAt(v.transport, bin, u)
  /\ ~\E t \in v.yardTask : t.unit = u
  /\ yardTask' = yardTask \cup {[unit |-> u, to_bin |-> bin]}
  /\ UNCHANGED <<appointment, transport, announced>>

MovedTo(u, bin) ==
  IF bin \in Doors THEN [u EXCEPT !.door = bin, !.spot = None, !.status = "At Door"]
  ELSE [u EXCEPT !.spot = bin, !.door = None, !.status = "In Yard"]

(* confirm_yard_move(): a door is booked on the appointment too, which     *)
(* moves its other units.                                                  *)
ConfirmYardMove(v, t) ==
  LET a == transport[t.unit].of
      docks == t.to_bin \in Doors /\ a # None
                 /\ v.appointment[a].status \in {"Planned", "Checked In"}
  IN  /\ t \in yardTask
      /\ ~UnitAt(v.transport, t.to_bin, t.unit)
      /\ IF docks THEN /\ MayDock(v, a, t.to_bin)
                       /\ LET doc == DockedAt(a, t.to_bin)
                              moved == Synced(v, a, doc)
                          IN  /\ appointment' = Saved(v, appointment, a, doc)
                              /\ transport' = [moved EXCEPT ![t.unit] = MovedTo(@, t.to_bin)]
                              /\ announced' = Told(v, WithShipmentDoor(announced, a, t.to_bin), a, "At Door")
         ELSE /\ transport' = [transport EXCEPT ![t.unit] = MovedTo(@, t.to_bin)]
              /\ UNCHANGED <<appointment, announced>>
      /\ yardTask' = yardTask \ {t}

StartWork(u, kind) ==
  /\ transport[u].status = "At Door"
  /\ transport' = [transport EXCEPT ![u].status = kind]
  /\ UNCHANGED <<appointment, yardTask, announced>>

(* depart(): the appointment is checked out with it, and all its units.    *)
Depart(v, u) ==
  /\ transport[u].status \in Present
  /\ ~\E t \in v.yardTask : t.unit = u
  /\ LET a == transport[u].of
         left == [transport EXCEPT ![u] = [@ EXCEPT !.status = "Departed", !.spot = None, !.door = None]]
     IN  IF a # None /\ v.appointment[a].status \in {"Checked In", "At Door", "Completed"}
         THEN /\ InTheYard(a)
              /\ appointment' = [appointment EXCEPT ![a] = CheckedOut(a)]
              /\ transport' = [Synced(v, a, CheckedOut(a)) EXCEPT ![u] = left[u]]
              /\ announced' = Told(v, announced, a, "Departed")
         ELSE transport' = left /\ UNCHANGED <<appointment, announced>>
  /\ UNCHANGED yardTask

-----------------------------------------------------------------------------
(* Receiving, loading and departing at the door. *)

TrucksOf(v, d) ==
  {a \in Appointments : v.appointment[a].ref = d}
    \cup ({v.transport[u].of : u \in {w \in Units : v.transport[w].ref = d}} \ {None})
GateOpen(v, d) ==
  GateCheck = "Block" =>
    \A a \in TrucksOf(v, d) : v.appointment[a].status \notin {"Planned", "Checked In"}

WorkOnDocument(v, d) ==
  /\ announced[d].work = "Open"
  /\ GateOpen(v, d)
  /\ announced' = [announced EXCEPT ![d].work = "Started"]
  /\ UNCHANGED <<appointment, transport, yardTask>>

DepartShipment(v, d) ==
  /\ d \in Shipments /\ announced[d].work = "Started"
  /\ announced' = [announced EXCEPT ![d].work = "Departed"]
  /\ appointment' = [a \in Appointments |->
       IF v.appointment[a].ref = d /\ v.appointment[a].status \in {"Checked In", "At Door"}
       THEN [appointment[a] EXCEPT !.status = "Completed"] ELSE appointment[a]]
  /\ UNCHANGED <<transport, yardTask>>

Tick ==
  /\ clock < LastTick
  /\ clock' = clock + 1
  /\ UNCHANGED <<appointment, transport, yardTask, announced, looked, missed, yardWork>>

-----------------------------------------------------------------------------
(* Requests. *)

Operation(v) ==
  \/ \E slot \in clock..MaxSlot, door \in DoorsAsked, d \in Documents :
       CreateAppointment(v, slot, door, d)
  \/ \E slot \in clock..MaxSlot, door \in DoorsAsked : CreateRecurring(v, slot, door)
  \/ \E slot \in clock..MaxSlot, door \in DoorsAsked,
        refs \in ((SUBSET Deliveries) \cup (SUBSET Shipments)) \ {{}} : PlanTruck(v, slot, door, refs)
  \/ \E dir \in {"Inbound", "Outbound"}, spot \in Spots \cup {None} : CheckInWalkIn(v, dir, spot)
  \/ \E a \in Appointments :
       \/ \E d \in Documents : AddToTruck(v, a, d)
       \/ \E spot \in Spots \cup {None} : CheckIn(v, a, spot)
       \/ \E door \in DoorsAsked : ToDoor(v, a, door)
       \/ Complete(a) \/ CheckOut(v, a) \/ CancelAppointment(a)
  \/ \E a \in Appointments \cup {None}, d \in Documents : CreateTransportUnit(a, d)
  \/ \E u \in Units :
       \/ \E spot \in Spots \cup {None} : Arrive(v, u, spot)
       \/ \E bin \in Doors \cup Spots : RequestYardMove(v, u, bin)
       \/ StartWork(u, "Loading") \/ StartWork(u, "Unloading")
       \/ Depart(v, u)
  \/ \E t \in yardTask : ConfirmYardMove(v, t)
  \/ \E d \in Documents : WorkOnDocument(v, d) \/ DepartShipment(v, d)

(* Snapshot isolation: a row that has changed since it was read is not     *)
(* written over, the request fails instead.                                *)
WritesWhatItSaw(v) ==
  /\ \A a \in Appointments : appointment'[a] = appointment[a] \/ appointment[a] = v.appointment[a]
  /\ \A u \in Units : transport'[u] = transport[u] \/ transport[u] = v.transport[u]
  /\ \A d \in Documents : announced'[d] = announced[d] \/ announced[d] = v.announced[d]

(* History: the bookings that changed behind the back of a request that    *)
(* wrote another one.                                                      *)
Missed(v) ==
  {a \in Appointments : appointment'[a] # appointment[a]}
    \X {b \in Appointments : appointment[b] # v.appointment[b]}

Request(v) == Operation(v) /\ WritesWhatItSaw(v) /\ missed' = missed \cup Missed(v)

Look(k) ==
  /\ looked[k] = None
  /\ looked' = [looked EXCEPT ![k] = Standing]
  /\ UNCHANGED <<appointment, transport, yardTask, announced, missed, clock, yardWork>>

YardNext ==
  \/ /\ yardWork < MaxWork /\ yardWork' = yardWork + 1 /\ clock' = clock
     /\ \/ Request(Standing) /\ UNCHANGED looked
        \/ \E k \in Desks : looked[k] # None /\ Request(looked[k]) /\ looked' = [looked EXCEPT ![k] = None]
  \/ \E k \in Desks : yardWork < MaxWork /\ Look(k)
  \/ MarkNoShows \/ Tick

YardSpec == YardInit /\ [][YardNext]_yardVars

(* The scheduler runs hourly and time passes; people need not do anything. *)
FairYardSpec == YardSpec /\ WF_yardVars(MarkNoShows) /\ WF_yardVars(Tick)

-----------------------------------------------------------------------------
(* Properties. *)

Views ==
  [appointment : [Appointments -> BookingRow], transport : [Units -> UnitRow],
   yardTask : SUBSET [unit : Units, to_bin : Doors \cup Spots], announced : [Documents -> DocumentRow]]
YardTypes ==
  /\ Standing \in Views
  /\ looked \in [Desks -> Views \cup {None}]
  /\ missed \subseteq Appointments \X Appointments
  /\ clock \in 0..LastTick /\ yardWork \in 0..MaxWork

(* Active appointments whose slots and changeover overlap do not share a   *)
(* door, except with the one truck that stands there: no booking, check-in *)
(* or move to a door puts a second booking or a second truck on it, unless *)
(* one of the two was written by a request that had not seen what became   *)
(* of the other (yard.py:71-83, 118-140, 250-262).                         *)
Overlap(doc, other) ==
  doc.slot <= other.slot + Changeover /\ other.slot <= doc.slot + Changeover
Apart(doc, other) ==
  LET both == {doc.status, other.status}
  IN  both \subseteq ACTIVE /\ doc.door = other.door =>
        /\ doc.door # None /\ Overlap(doc, other) => "At Door" \in both
        /\ both # {"At Door"}
BookingsDisjoint ==
  \A a \in Appointments : \A b \in Appointments \ {a} :
    <<a, b>> \notin missed /\ <<b, a>> \notin missed => Apart(appointment[a], appointment[b])

(* A carrier never has more booked trucks on a day than it may: a truck    *)
(* that is completed or checked out still counts, one that never came does *)
(* not.  Of bookings that missed one another any one counts                *)
(* (yard.py:106-115).                                                      *)
BookedFor(a) ==
  {b \in Appointments :
     /\ appointment[b].status \notin {"None", "Cancelled", "No Show"}
     /\ ~appointment[b].walk_in /\ CarrierOf[b] = CarrierOf[a]
     /\ Day(appointment[b].slot) = Day(appointment[a].slot)}
WithinCarrierCapacity ==
  \A a \in Appointments : \A trucks \in SUBSET BookedFor(a) :
    (trucks \X trucks) \cap missed = {} => Cardinality(trucks) <= TrucksPerDay

(* A unit stands at a door or on a spot, never both, as its status says,   *)
(* and a departed unit holds neither, whichever of appointment, yard task, *)
(* arrival, sibling or departure moved it (transport_unit.py:78-163).      *)
PlaceMatchesStatus ==
  \A u \in Units :
    /\ transport[u].status \in {"None", "Planned", "Departed"} =>
         transport[u].door = None /\ transport[u].spot = None
    /\ transport[u].status = "In Yard" => transport[u].door = None
    /\ transport[u].status \in {"At Door", "Loading", "Unloading"} =>
         transport[u].door # None /\ transport[u].spot = None

(* Bookings of a door that overlap are of one truck, or one of them stands *)
(* there, or missed the other; and a unit is where its status says,        *)
(* whoever moved it.                                                       *)
TrucksHaveTheirPlace == YardTypes /\ BookingsDisjoint /\ PlaceMatchesStatus

(* A truck that never comes does not hold its door for ever: with a time   *)
(* for no-shows set, every planned appointment is checked in, sent to a    *)
(* door, cancelled or marked as a no-show (yard.py:307-314).               *)
PlansEnd ==
  \A a \in Appointments :
    appointment[a].status = "Planned" ~> appointment[a].status # "Planned"
===============================================================================
