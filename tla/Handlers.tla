------------------------------ MODULE Handlers ------------------------------
(***************************************************************************)
(* The request handlers of the server, as the host's modules see them.  A  *)
(* handler is idle or holds, in a record, what it has read and the step it *)
(* goes on with; between two of its steps any other handler may run.  A    *)
(* process that stops takes with it what a handler held.                   *)
(***************************************************************************)
EXTENDS Integers, FiniteSets

CONSTANTS
  Requests,   \* handlers, each with what it goes on to do after its answer
  Workloads,  \* what a behaviour may do, one chosen at the start: [ops, crew, crashes, ...]
  MaxCrashes  \* bound on handlers that stop half-way

ASSUME HandlersAssumption ==
  /\ IsFiniteSet(Requests) /\ MaxCrashes \in Nat
  /\ \A w \in Workloads : w.crew \subseteq Requests /\ w.crashes \in 0..MaxCrashes

VARIABLES
  load,     \* the workload of this behaviour
  reqs,     \* reqs[r]: what handler r has read and has still to do
  crashes   \* handlers that stopped half-way

Idle == [op |-> "idle"]

Starts(r, op) == op \in load.ops /\ r \in load.crew /\ reqs[r] = Idle
At(r, step)   == reqs[r].op = step
Goto(r, rec)  == reqs' = [reqs EXCEPT ![r] = rec]
Done(r)       == Goto(r, Idle)

Stops(r) ==
  /\ crashes < load.crashes /\ reqs[r] # Idle
  /\ crashes' = crashes + 1
  /\ Done(r)

OneAtATime == Cardinality(load.crew) = 1
Quiet      == \A r \in Requests : reqs[r] = Idle
=============================================================================
