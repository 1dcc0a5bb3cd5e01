--------------------------- MODULE MCQueueAndYard ---------------------------
(***************************************************************************)
(* Small instances of ErpSyncQueue and of Yard for TLC, with what the      *)
(* scheduler guarantees.  The two share no state: a behaviour runs the one *)
(* its focus names, and the other one stays as it was at first.            *)
(***************************************************************************)
EXTENDS ErpSyncQueue, Yard, TLC

CONSTANTS
  adj1, psc1, w1, w2, c1,             \* of the posting queue
  truckload, collection, spot, desk   \* of the yard

VARIABLE focus
allVars == <<focus, vars, yardVars>>

\* Two doors, one yard spot, two trucks of a carrier that may send one a day.
TwoNames == 1..2
ThreeNames == 1..3
OneCarrier == [a \in ThreeNames |-> "Carrier"]
ASSUME YardAssumption

\* The first truck is planned for an inbound delivery on the second day.
PlannedTruck == [NoAppointment EXCEPT !.status = "Planned", !.slot = 1, !.door = 1,
                                              !.direction = "Inbound", !.ref = truckload]
OneTruckPlanned ==
  /\ appointment = [a \in Appointments |-> IF a = 1 THEN PlannedTruck ELSE NoAppointment]
  /\ transport = <<[NoUnit EXCEPT !.status = "Planned", !.of = 1, !.ref = truckload], NoUnit>>
  /\ yardTask = {}
  /\ announced = [d \in {truckload, collection} |->
                    [door |-> None, work |-> "Open", yard |-> IF d = truckload THEN "Expected" ELSE "None"]]
  /\ looked = [k \in Desks |-> None] /\ missed = {}
  /\ clock = 0

Hourly == focus # "Queue" /\ MarkNoShows /\ UNCHANGED <<focus, vars>>
TimePasses == focus # "Queue" /\ Tick /\ UNCHANGED <<focus, vars>>

\* Four requests in turn, or three of which one may have read before another.
MCInit ==
  /\ Init
  /\ \/ focus = "Queue" /\ YardInit
     \/ focus = "Yard" /\ OneTruckPlanned /\ yardWork = 0
     \/ focus = "Desks" /\ OneTruckPlanned /\ yardWork = MaxWork - 3
MCNext ==
  /\ UNCHANGED focus
  /\ \/ focus = "Queue" /\ (RunQueue \/ Attend) /\ UNCHANGED yardVars
     \/ focus = "Yard" /\ UNCHANGED <<looked, vars>> /\ YardNext
     \/ focus = "Desks" /\ YardNext /\ UNCHANGED vars
MCFairness ==
  \/ focus = "Queue" /\ Fairness
  \/ focus # "Queue" /\ WF_allVars(Hourly) /\ WF_allVars(TimePasses)
MCSpec == MCInit /\ [][MCNext]_allVars /\ MCFairness
=============================================================================
