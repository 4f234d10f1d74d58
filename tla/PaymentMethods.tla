--------------------------- MODULE PaymentMethods ---------------------------
(***************************************************************************)
(* The payment methods one driver has saved, of which one may be his       *)
(* default.  Unlike a first vehicle, a first method is the default only    *)
(* when asked for.  A method is saved in one transaction; it is deleted,   *)
(* and the next one made the default, by statements of their own.          *)
(***************************************************************************)
EXTENDS Integers, FiniteSets

CONSTANTS
  Requests,   \* handlers of the server
  NMethods    \* bound on methods ever saved

Methods == 1..NMethods

VARIABLES
  load,     \* the workload of this behaviour: [ops, crew, faults, ...]
  reqs,     \* reqs[r]: what handler r has read and has still to do
  faults,   \* handlers that stopped half-way, wherever they were
  method,   \* method[k]: its row, in the order they were saved
  chosen    \* history: a method was made the default, and the driver has had one ever since

methods == <<method, chosen>>

-----------------------------------------------------------------------------
Idle == [op |-> "idle"]
New  == [row |-> "none", default |-> FALSE]

Saved    == {k \in Methods : method[k].row = "live"}
Defaults == {k \in Saved : method[k].default}
Oldest   == {k \in Saved : \A w \in Saved : k <= w}

Starts(r, op) == op \in load.ops /\ r \in load.crew /\ reqs[r] = Idle
At(r, step)   == reqs[r].op = step
Goto(r, rec)  == reqs' = [reqs EXCEPT ![r] = rec]
Done(r)       == Goto(r, Idle)

-----------------------------------------------------------------------------
SavePaymentMethod(r, default) ==
  /\ Starts(r, "method")
  /\ Goto(r, [op |-> "methodAdd", default |-> default, clear |-> IF default THEN Defaults ELSE {}])
  /\ UNCHANGED <<load, faults, methods>>

MethodAdd(r) ==
  /\ At(r, "methodAdd")
  /\ \E k \in Methods :
       /\ \A w \in Methods : w < k <=> method[w].row # "none"
       /\ method' = [w \in Methods |->
            IF w = k THEN [row |-> "live", default |-> reqs[r].default]
            ELSE [method[w] EXCEPT !.default = @ /\ w \notin reqs[r].clear]]
  /\ chosen' = (chosen \/ reqs[r].default)
  /\ Done(r)
  /\ UNCHANGED <<load, faults>>

DeletePaymentMethod(r, k) ==
  /\ Starts(r, "method") /\ k \in Saved
  /\ Goto(r, [op |-> "methodDrop", k |-> k, default |-> method[k].default])
  /\ UNCHANGED <<load, faults, methods>>

\* A method that has gone meanwhile is an error.
MethodDrop(r) ==
  /\ At(r, "methodDrop")
  /\ LET q == reqs[r] IN
     IF q.k \notin Saved THEN Done(r) /\ UNCHANGED methods
     ELSE /\ method' = [method EXCEPT ![q.k] = [row |-> "deleted", default |-> FALSE]]
          /\ chosen' = (chosen /\ Saved # {q.k})
          /\ IF q.default THEN Goto(r, [op |-> "methodNext"]) ELSE Done(r)
  /\ UNCHANGED <<load, faults>>

MethodNext(r) ==
  /\ At(r, "methodNext")
  /\ IF Oldest = {} THEN Done(r) ELSE \E k \in Oldest : Goto(r, [op |-> "methodPromote", k |-> k])
  /\ UNCHANGED <<load, faults, methods>>

MethodPromote(r) ==
  /\ At(r, "methodPromote")
  /\ LET k == reqs[r].k IN
     method' = IF k \in Saved THEN [method EXCEPT ![k].default = TRUE] ELSE method
  /\ Done(r)
  /\ UNCHANGED <<load, faults, chosen>>

-----------------------------------------------------------------------------
Init ==
  /\ method = [k \in Methods |-> New]
  /\ chosen = FALSE

Step ==
  \E r \in Requests :
    \/ \E default \in BOOLEAN : SavePaymentMethod(r, default)
    \/ \E k \in Methods : DeletePaymentMethod(r, k)
    \/ MethodAdd(r) \/ MethodDrop(r) \/ MethodNext(r) \/ MethodPromote(r)

-----------------------------------------------------------------------------
\* The rows.
TypeOK ==
  /\ method \in [Methods -> [row : {"none", "live", "deleted"}, default : BOOLEAN]]
  /\ chosen \in BOOLEAN

\* Requests that come one at a time, of which none stops half-way, leave one default at most,
\* and one as long as the driver has a method since he first chose a default
\* (savePaymentMethod, deletePaymentMethod).
DefaultMethod ==
  Cardinality(load.crew) = 1 =>
    /\ Cardinality(Defaults) <= 1
    /\ (chosen /\ faults = 0 /\ \A r \in Requests : reqs[r] = Idle) => Defaults # {}
=============================================================================
