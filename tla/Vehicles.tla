------------------------------ MODULE Vehicles ------------------------------
(***************************************************************************)
(* The vehicles of one driver, of which one is his default, and the        *)
(* booking that names one.  The database keeps a vehicle that a booking    *)
(* names, whatever has become of the booking.                              *)
(*                                                                         *)
(* A row that is added in a transaction is not seen by another that is     *)
(* under way, so every handler reads first and writes in a second step.    *)
(***************************************************************************)
EXTENDS Integers, FiniteSets

CONSTANTS
  Requests,   \* handlers of the server
  NVehicles   \* bound on vehicles ever added

Vehicles == 1..NVehicles

VARIABLES
  load,     \* the workload of this behaviour: [ops, crew, vehicles, ...]
  trip,     \* the booking's row: [st, vehicle, ...]
  reqs,     \* reqs[r]: what handler r has read and has still to do
  vehicle,  \* vehicle[v]: its row, in the order they were added
  unset     \* history: the driver has asked for a vehicle not to be his default

garage == <<vehicle, unset>>

-----------------------------------------------------------------------------
Idle == [op |-> "idle"]
New  == [row |-> "none", default |-> FALSE]

Owned    == {v \in Vehicles : vehicle[v].row = "live"}
Defaults == {v \in Owned : vehicle[v].default}
First(S) == {v \in S : \A w \in S : v <= w}
Named(v) == trip.st # "none" /\ trip.vehicle = v

Starts(r, op) == op \in load.ops /\ r \in load.crew /\ reqs[r] = Idle
At(r, step)   == reqs[r].op = step
Goto(r, rec)  == reqs' = [reqs EXCEPT ![r] = rec]
Done(r)       == Goto(r, Idle)

\* vehicle' when the rows in S are no longer the default.
Without(S) == [v \in Vehicles |-> IF v \in S THEN [vehicle[v] EXCEPT !.default = FALSE] ELSE vehicle[v]]

-----------------------------------------------------------------------------
\* The first vehicle is the default, asked for or not.
CreateVehicle(r, default) ==
  /\ Starts(r, "vehicle")
  /\ Goto(r, [op |-> "vehicleAdd", clear |-> IF default THEN Defaults ELSE {},
              default |-> default \/ Owned = {}])
  /\ UNCHANGED <<load, trip, garage>>

VehicleAdd(r) ==
  /\ At(r, "vehicleAdd")
  /\ LET unused == First({v \in Vehicles : vehicle[v].row = "none"}) IN
     \/ unused = {} /\ UNCHANGED vehicle
     \/ \E v \in unused :
          vehicle' = [Without(reqs[r].clear) EXCEPT ![v] = [row |-> "live", default |-> reqs[r].default]]
  /\ Done(r)
  /\ UNCHANGED <<load, trip, unset>>

\* is_default may be left out of the request.
UpdateVehicle(r, v, ask) ==
  /\ Starts(r, "vehicle") /\ v \in Owned
  /\ Goto(r, [op |-> "vehicleSet", v |-> v, ask |-> ask,
              clear |-> IF ask = "yes" THEN Defaults \ {v} ELSE {}])
  /\ UNCHANGED <<load, trip, garage>>

\* Mutant: the vehicle that was the default stays one.
VehicleSetBeside(r) ==
  /\ At(r, "vehicleSet")
  /\ LET q == reqs[r] IN
     /\ vehicle' = IF q.ask = "yes" THEN [vehicle EXCEPT ![q.v].default = TRUE] ELSE vehicle
     /\ unset' = (unset \/ q.ask = "no")
  /\ Done(r)
  /\ UNCHANGED <<load, trip>>

\* A vehicle that has gone meanwhile is an error.
VehicleSet(r) ==
  /\ At(r, "vehicleSet")
  /\ LET q == reqs[r] IN
     IF q.v \notin Owned THEN UNCHANGED garage
     ELSE /\ vehicle' = [Without(q.clear) EXCEPT
                           ![q.v].default = IF q.ask = "leave" THEN @ ELSE q.ask = "yes"]
          /\ unset' = (unset \/ q.ask = "no")
  /\ Done(r)
  /\ UNCHANGED <<load, trip>>

DeleteVehicle(r, v) ==
  /\ Starts(r, "vehicle") /\ v \in Owned
  /\ ~(Named(v) /\ trip.st \in {"pending", "confirmed", "active"})
  /\ Goto(r, [op |-> "vehicleDrop", v |-> v, default |-> vehicle[v].default])
  /\ UNCHANGED <<load, trip, garage>>

\* The database refuses while any booking names the vehicle, past ones included.
VehicleDrop(r) ==
  /\ At(r, "vehicleDrop")
  /\ LET v == reqs[r].v
         next == First(Owned \ {v})
     IN IF v \notin Owned \/ Named(v) THEN UNCHANGED vehicle
        ELSE vehicle' = [w \in Vehicles |->
               CASE w = v -> [row |-> "deleted", default |-> FALSE]
                 [] w # v /\ reqs[r].default /\ w \in next -> [vehicle[w] EXCEPT !.default = TRUE]
                 [] OTHER -> vehicle[w]]
  /\ Done(r)
  /\ UNCHANGED <<load, trip, unset>>

-----------------------------------------------------------------------------
Init ==
  /\ vehicle = [v \in Vehicles |-> IF v <= load.vehicles THEN [row |-> "live", default |-> v = 1] ELSE New]
  /\ unset = FALSE

Step ==
  \E r \in Requests :
    \/ \E default \in BOOLEAN : CreateVehicle(r, default)
    \/ \E v \in Vehicles : \/ DeleteVehicle(r, v)
                           \/ \E ask \in {"yes", "no", "leave"} : UpdateVehicle(r, v, ask)
    \/ VehicleAdd(r) \/ VehicleSet(r) \/ VehicleDrop(r)

-----------------------------------------------------------------------------
\* The rows; and a booking's vehicle is there.
TypeOK ==
  /\ vehicle \in [Vehicles -> [row : {"none", "live", "deleted"}, default : BOOLEAN]]
  /\ unset \in BOOLEAN
  /\ trip.st # "none" => trip.vehicle \in Owned

\* Requests that come one at a time leave one default at most, and one as long as the driver
\* has a vehicle and has not himself asked for none, whichever vehicles he adds, marks and
\* deletes (createVehicle, updateVehicle, deleteVehicle).
DefaultVehicle ==
  Cardinality(load.crew) = 1 =>
    /\ Cardinality(Defaults) <= 1
    /\ Owned # {} /\ ~unset => Defaults # {}
=============================================================================
