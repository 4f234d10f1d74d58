------------------------ MODULE SlotReservation_proofs ------------------------
(***************************************************************************)
(* Proofs about SlotReservation, for all drivers, slots, windows, bookings *)
(* and numbers of concurrent handlers.                                     *)
(*                                                                         *)
(* NoDoubleBooking is not inductive together with TypeOK alone: a handler  *)
(* in flight, or an extension order, names the booking it is going to      *)
(* write, and the row has to exist by then.  IInv adds that, and that the  *)
(* new window they carry starts where the booking starts: rows are never   *)
(* deleted, and no operation moves a booking to another slot or start.     *)
(* Then follow the refinement of the abstract calendar, the calendar's own *)
(* promise, and what the locks decide while they last.                     *)
(***************************************************************************)
EXTENDS SlotReservation, FiniteSetTheorems, TLAPS

\* The bookings a handler is going to write.
Targets(rec) ==
  IF rec.op \in {"modifyWrite", "confirmWrite", "approveWrite", "cancelWrite"} THEN {rec.bk}
  ELSE IF rec.op \in {"sweepCancel", "sweepComplete"} THEN rec.todo
  ELSE {}

LocksOK    == /\ now \in 0..LastTick /\ instant \in BOOLEAN
              /\ locks \in [LockKeys -> Drivers \cup {NoDriver}]
TableOK    == bk \in [Bookings -> Booking \cup {NoBooking}] /\ NoDoubleBooking
OrdersOK   == /\ orders \subseteq [bk : Bookings, win : Windows]
              /\ \A o \in orders : /\ bk[o.bk] # NoBooking
                                   /\ o.win.start = bk[o.bk].win.start
HandlersOK == /\ reqs \in [Requests -> Request]
              /\ \A r \in Requests : \A b \in Targets(reqs[r]) :
                    /\ bk[b] # NoBooking
                    /\ At(r, "modifyWrite") => reqs[r].win.start = bk[b].win.start

IInv == LocksOK /\ TableOK /\ OrdersOK /\ HandlersOK

LEMMA IInvImplies == IInv => TypeOK /\ NoDoubleBooking
  BY DEF IInv, LocksOK, TableOK, OrdersOK, HandlersOK, TypeOK

\* Rows stay, once inserted, and keep their slot and start.
RowsStay ==
  \A b \in Bookings :
    bk[b] # NoBooking => /\ bk'[b] # NoBooking
                         /\ bk'[b].slot = bk[b].slot
                         /\ bk'[b].win.start = bk[b].win.start

\* The row that replaces b's keeps slot and start.
InPlace(b, row) ==
  bk[b] # NoBooking => row.slot = bk[b].slot /\ row.win.start = bk[b].win.start

-----------------------------------------------------------------------------
\* Lemmas on the helpers.

\* The number of slots checkAvailability may still offer is an integer.
LEMMA QuotaType == \A w \in Windows : Quota(w) \in Int
<1> SUFFICES ASSUME NEW w \in Windows PROVE Quota(w) \in Int
  OBVIOUS
<1>1. BookedIn(w) \subseteq Bookings
  BY DEF BookedIn
<1>2. Cardinality(BookedIn(w)) \in Nat
  BY <1>1, FS_Subset, FS_CardinalityType, ConstantsAssumption DEF ConstantsAssumption
<1> QED
  BY <1>2, ConstantsAssumption DEF Quota

\* One row saved under the constraint keeps the table well-typed and free of
\* double bookings.
LEMMA SaveKeepsTable ==
  ASSUME TableOK, NEW b \in Bookings, NEW row \in Booking, Save(b, row), InPlace(b, row)
  PROVE  TableOK' /\ RowsStay
<1> USE DEF TableOK, RowsStay
<1>1. CASE ~ExcludeHolds(b, row)
  BY <1>1 DEF NoDoubleBooking, Save
<1>2. CASE ExcludeHolds(b, row)
  <2>1. bk' = [bk EXCEPT ![b] = row]
    BY <1>2 DEF Save
  <2>2. bk' \in [Bookings -> Booking \cup {NoBooking}]
    BY <2>1
  <2>3. ASSUME NEW c \in Bookings, c # b, row.status \in ExcludeStatuses, IsFirm(c),
               bk[c].slot = row.slot
        PROVE  bk[c].win.end <= row.win.start \/ row.win.end <= bk[c].win.start
    <3>1. bk[c] \in Booking
      BY <2>3 DEF IsFirm, NoBooking, ExcludeStatuses
    <3>2. /\ bk[c].win.start \in Nat /\ bk[c].win.end \in Nat
          /\ row.win.start \in Nat /\ row.win.end \in Nat
      BY <3>1, ConstantsAssumption DEF Booking
    <3> QED
      BY <1>2, <2>3, <3>2 DEF ExcludeHolds, Overlap
  <2>4. NoDoubleBooking'
    <3> SUFFICES ASSUME NEW c \in Bookings, NEW d \in Bookings, c # d,
                        bk'[c].status \in {"confirmed", "active"},
                        bk'[d].status \in {"confirmed", "active"},
                        bk'[c].slot = bk'[d].slot
                 PROVE  \/ bk'[c].win.end <= bk'[d].win.start
                        \/ bk'[d].win.end <= bk'[c].win.start
      BY DEF NoDoubleBooking
    <3>1. CASE c # b /\ d # b
      BY <2>1, <3>1 DEF NoDoubleBooking
    <3>2. CASE c = b
      BY <2>1, <2>3, <3>2 DEF IsFirm, ExcludeStatuses
    <3>3. CASE d = b
      BY <2>1, <2>3, <3>3 DEF IsFirm, ExcludeStatuses
    <3> QED
      BY <3>1, <3>2, <3>3
  <2>5. RowsStay
    BY <2>1 DEF Booking, NoBooking, Statuses, InPlace
  <2> QED
    BY <2>2, <2>4, <2>5
<1> QED
  BY <1>1, <1>2

\* Writes that make no booking firm and move none cannot create a clash.
Retreat ==
  \A b \in Bookings :
    \/ bk'[b] = bk[b]
    \/ /\ bk[b] \in Booking /\ bk'[b] \in Booking
       /\ bk'[b].slot = bk[b].slot /\ bk'[b].win = bk[b].win
       /\ IsFirm(b) \/ bk'[b].status \notin ExcludeStatuses

LEMMA RetreatKeepsTable ==
  ASSUME TableOK, Retreat, bk' = [b \in Bookings |-> bk'[b]]
  PROVE  TableOK' /\ RowsStay
<1>1. bk' \in [Bookings -> Booking \cup {NoBooking}]
  BY DEF TableOK, Retreat
<1>2. NoDoubleBooking'
  BY DEF TableOK, Retreat, NoDoubleBooking, IsFirm, ExcludeStatuses
<1>3. RowsStay
  BY DEF Retreat, RowsStay, Booking, NoBooking, Statuses
<1> QED
  BY <1>1, <1>2, <1>3 DEF TableOK

\* Every operation changes the table in one of these ways.
TableStep ==
  \/ UNCHANGED bk
  \/ bk' = [b \in Bookings |-> bk'[b]] /\ Retreat
  \/ \E b \in Bookings, row \in Booking : Save(b, row) /\ InPlace(b, row)

LEMMA TableStepKeepsTable ==
  ASSUME TableOK, TableStep
  PROVE  TableOK' /\ RowsStay
<1>1. CASE UNCHANGED bk
  BY <1>1 DEF TableOK, RowsStay, NoDoubleBooking
<1>2. CASE bk' = [b \in Bookings |-> bk'[b]] /\ Retreat
  BY <1>2, RetreatKeepsTable
<1>3. CASE \E b \in Bookings, row \in Booking : Save(b, row) /\ InPlace(b, row)
  BY <1>3, SaveKeepsTable
<1> QED
  BY <1>1, <1>2, <1>3 DEF TableStep

\* What a handler carries at each of its steps.
LEMMA RequestShape ==
  ASSUME HandlersOK, NEW r \in Requests
  PROVE  /\ At(r, "lockScan") =>
              reqs[r] \in [op : {"lockScan"}, drv : Drivers, win : Windows,
                          want : SUBSET Slots, free : SUBSET Slots, quota : Int]
         /\ At(r, "lockSet") =>
              reqs[r] \in [op : {"lockSet"}, drv : Drivers, win : Windows, cand : SUBSET Slots]
         /\ reqs[r].op \in {"createCheck", "createInsert", "releaseDel"} =>
              reqs[r] \in [op : {"createCheck", "createInsert", "releaseDel"},
                          drv : Drivers, slot : Slots, win : Windows]
         /\ At(r, "modifyWrite") =>
              reqs[r] \in [op : {"modifyWrite"}, bk : Bookings, win : Windows]
         /\ At(r, "confirmWrite") =>
              reqs[r] \in [op : {"confirmWrite"}, bk : Bookings, firm : BOOLEAN]
         /\ reqs[r].op \in {"approveWrite", "cancelWrite"} =>
              reqs[r] \in [op : {"approveWrite", "cancelWrite"}, bk : Bookings]
         /\ reqs[r].op \in {"sweepCancel", "sweepComplete"} =>
              reqs[r] \in [op : {"sweepCancel", "sweepComplete"}, todo : SUBSET Bookings]
<1>1. reqs[r] \in Request
  BY DEF HandlersOK
<1> QED
  BY <1>1 DEF Request, Idle, At

\* A booking a handler is about to write is a row of the table.
LEMMA TargetRow ==
  ASSUME HandlersOK, TableOK, NEW r \in Requests, NEW b \in Targets(reqs[r]) \cap Bookings
  PROVE  bk[b] \in Booking
  BY DEF HandlersOK, TableOK

LEMMA GotoKeepsHandlers ==
  ASSUME HandlersOK, RowsStay, NEW r \in Requests, NEW rec \in Request, Goto(r, rec),
         \A b \in Targets(rec) : /\ bk'[b] # NoBooking
                                 /\ rec.op = "modifyWrite" => rec.win.start = bk'[b].win.start
  PROVE  HandlersOK'
<1>1. reqs' \in [Requests -> Request]
  BY DEF HandlersOK, Goto
<1>2. ASSUME NEW q \in Requests, NEW b \in Targets(reqs'[q])
      PROVE  /\ bk'[b] # NoBooking
             /\ reqs'[q].op = "modifyWrite" => reqs'[q].win.start = bk'[b].win.start
  <2>1. CASE q = r
    <3>1. reqs'[q] = rec
      BY <2>1 DEF Goto, HandlersOK
    <3> QED
      BY <1>2, <3>1
  <2>2. CASE q # r
    <3>1. reqs'[q] = reqs[q] /\ reqs[q] \in Request
      BY <2>2 DEF Goto, HandlersOK
    <3>2. b \in Bookings
      BY <1>2, <3>1 DEF Targets, Request, Idle
    <3>3. /\ bk[b] # NoBooking
          /\ reqs[q].op = "modifyWrite" => reqs[q].win.start = bk[b].win.start
      BY <1>2, <3>1 DEF HandlersOK, At
    <3> QED
      BY <3>1, <3>2, <3>3 DEF RowsStay
  <2> QED
    BY <2>1, <2>2
<1>3. \A q \in Requests : \A b \in Targets(reqs[q])' :
         /\ bk'[b] # NoBooking
         /\ At(q, "modifyWrite")' => reqs'[q].win.start = bk'[b].win.start
  BY <1>2 DEF Targets, At
<1> QED
  BY <1>1, <1>3 DEF HandlersOK

LEMMA DoneKeepsHandlers ==
  ASSUME HandlersOK, RowsStay, NEW r \in Requests, Done(r)
  PROVE  HandlersOK'
<1>1. Idle \in Request /\ Targets(Idle) = {}
  BY DEF Request, Targets, Idle
<1> QED
  BY <1>1, GotoKeepsHandlers DEF Done

LEMMA SameHandlers ==
  ASSUME HandlersOK, RowsStay, UNCHANGED reqs
  PROVE  HandlersOK'
<1>1. ASSUME NEW q \in Requests, NEW b \in Targets(reqs[q])
      PROVE  /\ bk'[b] # NoBooking
             /\ At(q, "modifyWrite") => reqs[q].win.start = bk'[b].win.start
  <2>1. b \in Bookings
    BY <1>1 DEF HandlersOK, Targets, Request, Idle
  <2> QED
    BY <1>1, <2>1 DEF HandlersOK, RowsStay
<1>2. reqs' \in [Requests -> Request]
  BY DEF HandlersOK
<1> QED
  BY <1>1, <1>2 DEF HandlersOK, Targets, At

LEMMA SameOrders ==
  ASSUME OrdersOK, RowsStay, orders' \subseteq orders
  PROVE  OrdersOK'
<1>1. ASSUME NEW o \in orders'
      PROVE  bk'[o.bk] # NoBooking /\ o.win.start = bk'[o.bk].win.start
  BY DEF OrdersOK, RowsStay
<1> QED
  BY <1>1 DEF OrdersOK

-----------------------------------------------------------------------------
\* Locking and releasing: only keys and handlers change.
LEMMA LockStepKeepsInv ==
  ASSUME IInv, NEW r \in Requests, LockStep(r)
  PROVE  IInv' /\ UNCHANGED bk
<1> USE DEF IInv
<1> DEFINE Locks == locks' \in [LockKeys -> Drivers \cup {NoDriver}]
<1>1. UNCHANGED <<now, instant, bk, orders>>
  BY DEF LockStep, LockQuery, LockScan, LockSet, ReleaseGet, ReleaseDel
<1>2. TableOK' /\ RowsStay /\ OrdersOK'
  BY <1>1, TableStepKeepsTable, SameOrders DEF TableStep
<1>3. Locks /\ HandlersOK'
  <2>1. ASSUME NEW d \in Drivers, NEW w \in Windows,
               NEW want \in {{s} : s \in Slots} \cup {Slots}, LockQuery(r, d, w, want)
        PROVE  Locks /\ HandlersOK'
    <3> DEFINE rec == [op |-> "lockScan", drv |-> d, win |-> w, want |-> want,
                       free |-> UnbookedSlots(w), quota |-> Quota(w)]
    <3>1. UnbookedSlots(w) \in SUBSET Slots /\ want \in SUBSET Slots /\ Quota(w) \in Int
      BY QuotaType DEF UnbookedSlots
    <3>2. rec \in Request /\ Targets(rec) = {}
      BY <3>1 DEF Request, Targets
    <3>3. Goto(r, rec) /\ UNCHANGED locks
      BY <2>1 DEF LockQuery
    <3> QED
      BY <1>2, <3>2, <3>3, GotoKeepsHandlers DEF LocksOK
  <2>2. CASE LockScan(r)
    <3>1. PICK T \in Slices(reqs[r].free \ LockedSlots(reqs[r].win), reqs[r].quota) :
            Goto(r, IF T \cap reqs[r].want = {} THEN Idle
                    ELSE [op |-> "lockSet", drv |-> reqs[r].drv, win |-> reqs[r].win,
                          cand |-> T \cap reqs[r].want])
      BY <2>2 DEF LockScan
    <3> DEFINE rec == IF T \cap reqs[r].want = {} THEN Idle
                      ELSE [op |-> "lockSet", drv |-> reqs[r].drv, win |-> reqs[r].win,
                            cand |-> T \cap reqs[r].want]
    <3>2. rec \in Request /\ Targets(rec) = {}
      BY <2>2, RequestShape DEF LockScan, Request, Slices, Targets, Idle
    <3> QED
      BY <1>2, <2>2, <3>1, <3>2, GotoKeepsHandlers DEF LockScan, LocksOK
  <2>3. CASE LockSet(r)
    <3>1. reqs[r] \in [op : {"lockSet"}, drv : Drivers, win : Windows, cand : SUBSET Slots]
      BY <2>3, RequestShape DEF LockSet
    <3>2. PICK s \in reqs[r].cand :
            \/ /\ locks[<<s, reqs[r].win>>] = NoDriver
               /\ locks' = [locks EXCEPT ![<<s, reqs[r].win>>] = reqs[r].drv]
               /\ Done(r)
            \/ /\ locks[<<s, reqs[r].win>>] # NoDriver
               /\ Goto(r, IF reqs[r].cand = {s} THEN Idle
                          ELSE [reqs[r] EXCEPT !.cand = @ \ {s}])
               /\ UNCHANGED locks
      BY <2>3 DEF LockSet
    <3> DEFINE rec == IF reqs[r].cand = {s} THEN Idle ELSE [reqs[r] EXCEPT !.cand = @ \ {s}]
    <3>3. rec \in Request /\ Targets(rec) = {}
      BY <3>1 DEF Request, Targets, Idle
    <3>4. Locks
      BY <3>1, <3>2 DEF LocksOK, LockKeys
    <3>5. HandlersOK'
      BY <1>2, <3>2, <3>3, GotoKeepsHandlers, DoneKeepsHandlers
    <3> QED
      BY <3>4, <3>5
  <2>4. ASSUME NEW d \in Drivers, NEW s \in Slots, NEW w \in Windows, ReleaseGet(r, d, s, w)
        PROVE  Locks /\ HandlersOK'
    <3> DEFINE rec == [op |-> "releaseDel", drv |-> d, slot |-> s, win |-> w]
    <3>1. rec \in Request /\ Targets(rec) = {}
      BY DEF Request, Targets
    <3>2. Goto(r, rec) /\ UNCHANGED locks
      BY <2>4 DEF ReleaseGet
    <3> QED
      BY <1>2, <3>1, <3>2, GotoKeepsHandlers DEF LocksOK
  <2>5. CASE ReleaseDel(r)
    BY <1>2, <2>5, DoneKeepsHandlers DEF ReleaseDel, LocksOK, LockKeys
  <2> QED
    BY <2>1, <2>2, <2>3, <2>4, <2>5 DEF LockStep
<1> QED
  BY <1>1, <1>2, <1>3 DEF LocksOK

\* Creating and modifying a booking.
LEMMA CreateModifyKeepsInv ==
  ASSUME IInv, NEW r \in Requests,
         \/ \E d \in Drivers, s \in Slots, w \in Windows : CreateOwner(r, d, s, w)
         \/ CreateCheck(r)
         \/ \E b \in Bookings : CreateInsert(r, b)
         \/ \E b \in Bookings, w \in Windows : ModifyRead(r, b, w)
         \/ ModifyWrite(r)
  PROVE  TableStep /\ HandlersOK' /\ UNCHANGED <<now, instant, locks, orders>>
<1> USE DEF IInv
<1> DEFINE Good == TableStep /\ HandlersOK' /\ UNCHANGED <<now, instant, locks, orders>>
<1>1. ASSUME NEW d \in Drivers, NEW s \in Slots, NEW w \in Windows, CreateOwner(r, d, s, w)
      PROVE  Good
  <2> DEFINE rec == [op |-> "createCheck", drv |-> d, slot |-> s, win |-> w]
  <2>1. rec \in Request /\ Targets(rec) = {}
    BY DEF Request, Targets
  <2>2. Goto(r, rec) /\ UNCHANGED <<now, instant, locks, bk, orders>>
    BY <1>1 DEF CreateOwner
  <2> QED
    BY <2>1, <2>2, TableStepKeepsTable, GotoKeepsHandlers DEF TableStep
<1>2. CASE CreateCheck(r)
  <2>1. PICK rec \in {[reqs[r] EXCEPT !.op = "createInsert"], Idle} : Goto(r, rec)
    BY <1>2 DEF CreateCheck
  <2>2. reqs[r] \in [op : {"createCheck", "createInsert", "releaseDel"},
                    drv : Drivers, slot : Slots, win : Windows]
    BY <1>2, RequestShape DEF CreateCheck, At
  <2>3. rec \in Request /\ Targets(rec) = {}
    BY <2>1, <2>2 DEF Request, Targets, Idle
  <2> QED
    BY <1>2, <2>1, <2>3, TableStepKeepsTable, GotoKeepsHandlers DEF CreateCheck, TableStep
<1>3. ASSUME NEW b \in Bookings, CreateInsert(r, b)
      PROVE  Good
  <2> DEFINE row == [status |-> "pending", drv |-> reqs[r].drv, slot |-> reqs[r].slot,
                     win |-> reqs[r].win, pay |-> "none"]
  <2>1. row \in Booking
    BY <1>3, RequestShape DEF CreateInsert, At, Booking, Statuses
  <2>2. Save(b, row) /\ Done(r) /\ UNCHANGED <<now, instant, locks, orders>>
    BY <1>3 DEF CreateInsert
  <2>3. TableStep
    BY <1>3, <2>1, <2>2 DEF CreateInsert, InPlace, TableStep
  <2> QED
    BY <2>2, <2>3, TableStepKeepsTable, DoneKeepsHandlers
<1>4. ASSUME NEW b \in Bookings, NEW w \in Windows, ModifyRead(r, b, w)
      PROVE  Good
  <2> DEFINE rec == [op |-> "modifyWrite", bk |-> b, win |-> w]
  <2>1. rec \in Request /\ Targets(rec) = {b}
    BY DEF Request, Targets
  <2>2. bk[b] # NoBooking /\ w.start = bk[b].win.start /\ UNCHANGED bk
    BY <1>4 DEF ModifyRead, NoBooking
  <2>3. Goto(r, rec) /\ UNCHANGED <<now, instant, locks, orders>>
    BY <1>4 DEF ModifyRead
  <2> QED
    BY <2>1, <2>2, <2>3, TableStepKeepsTable, GotoKeepsHandlers DEF TableStep
<1>5. CASE ModifyWrite(r)
  <2> DEFINE b   == reqs[r].bk
             row == [bk[b] EXCEPT !.win = reqs[r].win]
  <2>1. b \in Bookings /\ reqs[r].win \in Windows /\ b \in Targets(reqs[r])
    BY <1>5, RequestShape DEF ModifyWrite, Targets, At
  <2>2. bk[b] \in Booking
    BY <2>1, TargetRow
  <2>3. row \in Booking /\ InPlace(b, row)
    <3>1. reqs[r].win.start = bk[b].win.start
      BY <1>5, <2>1 DEF HandlersOK, ModifyWrite
    <3> QED
      BY <2>1, <2>2, <3>1 DEF Booking, InPlace
  <2>4. Save(b, row) /\ Done(r) /\ UNCHANGED <<now, instant, locks, orders>>
    BY <1>5 DEF ModifyWrite
  <2>5. TableStep
    BY <2>1, <2>3, <2>4 DEF TableStep
  <2> QED
    BY <2>4, <2>5, TableStepKeepsTable, DoneKeepsHandlers
<1> QED
  BY <1>1, <1>2, <1>3, <1>4, <1>5

\* Payment and approval.
LEMMA PaymentKeepsInv ==
  ASSUME IInv, NEW r \in Requests,
         \/ \E b \in Bookings : InitiatePayment(r, b) \/ ConfirmRead(r, b) \/ ApproveRead(r, b)
         \/ ConfirmWrite(r)
         \/ ApproveWrite(r)
  PROVE  TableStep /\ HandlersOK' /\ UNCHANGED <<now, instant, locks, orders>>
<1> USE DEF IInv
<1> DEFINE Good == TableStep /\ HandlersOK' /\ UNCHANGED <<now, instant, locks, orders>>
<1>1. ASSUME NEW b \in Bookings, InitiatePayment(r, b)
      PROVE  Good
  <2> DEFINE row == [bk[b] EXCEPT !.pay = "initiated"]
  <2>1. bk[b] \in Booking /\ bk[b].status = "pending"
    BY <1>1 DEF InitiatePayment, TableOK, NoBooking
  <2>2. /\ row \in Booking /\ row.slot = bk[b].slot /\ row.win = bk[b].win
        /\ row.status \notin ExcludeStatuses
    BY <2>1 DEF Booking, ExcludeStatuses
  <2>3. bk' = [bk EXCEPT ![b] = row] /\ UNCHANGED <<now, instant, locks, orders, reqs>>
    BY <1>1 DEF InitiatePayment
  <2>4. TableStep
    BY <2>1, <2>2, <2>3 DEF TableStep, Retreat, TableOK
  <2> QED
    BY <2>3, <2>4, TableStepKeepsTable, SameHandlers
<1>2. ASSUME NEW b \in Bookings, ConfirmRead(r, b)
      PROVE  Good
  <2> DEFINE rec == [op |-> "confirmWrite", bk |-> b,
                     firm |-> bk[b].status = "pending" /\ instant]
  <2>1. bk[b] \in Booking
    BY <1>2 DEF ConfirmRead, TableOK
  <2>2. rec \in Request /\ Targets(rec) = {b}
    BY <2>1 DEF Request, Targets, Booking
  <2>3. Goto(r, rec) /\ UNCHANGED <<now, instant, locks, bk, orders>> /\ bk[b] # NoBooking
    BY <1>2 DEF ConfirmRead
  <2> QED
    BY <2>2, <2>3, TableStepKeepsTable, GotoKeepsHandlers DEF TableStep
<1>3. ASSUME NEW b \in Bookings, ApproveRead(r, b)
      PROVE  Good
  <2> DEFINE rec == [op |-> "approveWrite", bk |-> b]
  <2>1. rec \in Request /\ Targets(rec) = {b}
    BY DEF Request, Targets
  <2>2. Goto(r, rec) /\ UNCHANGED <<now, instant, locks, bk, orders>> /\ bk[b] # NoBooking
    BY <1>3 DEF ApproveRead, NoBooking
  <2> QED
    BY <2>1, <2>2, TableStepKeepsTable, GotoKeepsHandlers DEF TableStep
<1>4. CASE ConfirmWrite(r)
  <2> DEFINE b   == reqs[r].bk
             row == [bk[b] EXCEPT !.pay = "completed",
                                  !.status = IF reqs[r].firm THEN "confirmed" ELSE @]
  <2>1. b \in Bookings /\ b \in Targets(reqs[r])
    BY <1>4, RequestShape DEF ConfirmWrite, Targets, At
  <2>2. bk[b] \in Booking
    BY <2>1, TargetRow
  <2>3. row \in Booking /\ InPlace(b, row)
    BY <2>2 DEF Booking, InPlace, Statuses
  <2>4. Save(b, row) /\ Done(r) /\ UNCHANGED <<now, instant, locks, orders>>
    BY <1>4 DEF ConfirmWrite
  <2>5. TableStep
    BY <2>1, <2>3, <2>4 DEF TableStep
  <2> QED
    BY <2>4, <2>5, TableStepKeepsTable, DoneKeepsHandlers
<1>5. CASE ApproveWrite(r)
  <2> DEFINE b   == reqs[r].bk
             row == [bk[b] EXCEPT !.status = "confirmed"]
  <2>1. b \in Bookings /\ b \in Targets(reqs[r])
    BY <1>5, RequestShape DEF ApproveWrite, Targets, At
  <2>2. bk[b] \in Booking
    BY <2>1, TargetRow
  <2>3. row \in Booking /\ InPlace(b, row)
    BY <2>2 DEF Booking, InPlace, Statuses
  <2>4. Save(b, row) /\ Done(r) /\ UNCHANGED <<now, instant, locks, orders>>
    BY <1>5 DEF ApproveWrite
  <2>5. TableStep
    BY <2>1, <2>3, <2>4 DEF TableStep
  <2> QED
    BY <2>4, <2>5, TableStepKeepsTable, DoneKeepsHandlers
<1> QED
  BY <1>1, <1>2, <1>3, <1>4, <1>5

\* Cancellation never asks for room in the calendar.
LEMMA CancelKeepsInv ==
  ASSUME IInv, NEW r \in Requests,
         \/ \E b \in Bookings : CancelByDriver(r, b) \/ RejectRead(r, b) \/ HostCancelRead(r, b)
         \/ CancelWrite(r)
  PROVE  TableStep /\ HandlersOK' /\ UNCHANGED <<now, instant, locks, orders>>
<1> USE DEF IInv
<1> DEFINE Good == TableStep /\ HandlersOK' /\ UNCHANGED <<now, instant, locks, orders>>
<1>0. ASSUME NEW b \in Bookings, bk[b] \in Booking,
             bk' = [bk EXCEPT ![b].status = "cancelled"]
      PROVE  TableStep
  <2> DEFINE row == [bk[b] EXCEPT !.status = "cancelled"]
  <2>1. /\ row \in Booking /\ row.slot = bk[b].slot /\ row.win = bk[b].win
        /\ row.status \notin ExcludeStatuses
    BY <1>0 DEF Booking, Statuses, ExcludeStatuses
  <2>2. bk' = [bk EXCEPT ![b] = row]
    BY <1>0
  <2> QED
    BY <1>0, <2>1, <2>2 DEF TableStep, Retreat, TableOK
<1>1. ASSUME NEW b \in Bookings, CancelByDriver(r, b)
      PROVE  Good
  <2>1. bk[b] \in Booking
    BY <1>1 DEF CancelByDriver, TableOK, NoBooking
  <2> QED
    BY <1>0, <1>1, <2>1, TableStepKeepsTable, SameHandlers DEF CancelByDriver
<1>2. ASSUME NEW b \in Bookings, RejectRead(r, b) \/ HostCancelRead(r, b)
      PROVE  Good
  <2> DEFINE rec == [op |-> "cancelWrite", bk |-> b]
  <2>1. rec \in Request /\ Targets(rec) = {b}
    BY DEF Request, Targets
  <2>2. Goto(r, rec) /\ UNCHANGED <<now, instant, locks, bk, orders>> /\ bk[b] # NoBooking
    BY <1>2 DEF RejectRead, HostCancelRead, NoBooking
  <2> QED
    BY <2>1, <2>2, TableStepKeepsTable, GotoKeepsHandlers DEF TableStep
<1>3. CASE CancelWrite(r)
  <2>1. reqs[r].bk \in Bookings /\ reqs[r].bk \in Targets(reqs[r])
    BY <1>3, RequestShape DEF CancelWrite, Targets, At
  <2>2. bk[reqs[r].bk] \in Booking
    BY <2>1, TargetRow
  <2>3. TableStep
    BY <1>0, <1>3, <2>1, <2>2 DEF CancelWrite
  <2> QED
    BY <1>3, <2>3, TableStepKeepsTable, DoneKeepsHandlers DEF CancelWrite
<1> QED
  BY <1>1, <1>2, <1>3

\* An extension order carries the start of its booking; its verification saves
\* under the constraint.
LEMMA ExtensionKeepsInv ==
  ASSUME IInv, NEW r \in Requests,
         \/ \E b \in Bookings, w \in Windows : ExtendOrder(r, b, w)
         \/ \E o \in orders : ExtendVerify(r, o)
  PROVE  TableStep /\ HandlersOK' /\ OrdersOK' /\ UNCHANGED <<now, instant, locks>>
<1> USE DEF IInv
<1> DEFINE Good == TableStep /\ HandlersOK' /\ OrdersOK' /\ UNCHANGED <<now, instant, locks>>
<1>1. ASSUME NEW b \in Bookings, NEW w \in Windows, ExtendOrder(r, b, w)
      PROVE  Good
  <2>1. /\ orders' = orders \cup {[bk |-> b, win |-> w]}
        /\ UNCHANGED <<now, instant, locks, bk, reqs>>
        /\ bk[b] # NoBooking /\ w.start = bk[b].win.start
    BY <1>1 DEF ExtendOrder, NoBooking
  <2>2. OrdersOK'
    BY <2>1 DEF OrdersOK
  <2> QED
    BY <2>1, <2>2, TableStepKeepsTable, SameHandlers DEF TableStep
<1>2. ASSUME NEW o \in orders, ExtendVerify(r, o)
      PROVE  Good
  <2> DEFINE row == [bk[o.bk] EXCEPT !.win = o.win]
  <2>1. /\ o.bk \in Bookings /\ o.win \in Windows
        /\ bk[o.bk] \in Booking /\ o.win.start = bk[o.bk].win.start
    BY DEF OrdersOK, TableOK
  <2>2. row \in Booking /\ InPlace(o.bk, row)
    BY <2>1 DEF Booking, InPlace
  <2>3. Save(o.bk, row) /\ orders' \subseteq orders /\ UNCHANGED <<now, instant, locks, reqs>>
    BY <1>2 DEF ExtendVerify
  <2>4. TableStep
    BY <2>1, <2>2, <2>3 DEF TableStep
  <2> QED
    BY <2>3, <2>4, TableStepKeepsTable, SameHandlers, SameOrders
<1> QED
  BY <1>1, <1>2

\* The cron jobs cancel, complete, activate and miss bookings; none of it makes
\* a booking firm that was not.
LEMMA CronStepKeepsInv ==
  ASSUME IInv, NEW r \in Requests, CronStep(r)
  PROVE  TableStep /\ HandlersOK' /\ UNCHANGED <<now, instant, locks, orders>>
<1> USE DEF IInv
<1> DEFINE Good == TableStep /\ HandlersOK' /\ UNCHANGED <<now, instant, locks, orders>>
<1>1. ASSUME NEW B \in SUBSET Bookings, SweepCancelFind(r, B)
      PROVE  Good
  <2> DEFINE rec == [op |-> "sweepCancel", todo |-> B]
  <2>1. rec \in Request /\ Targets(rec) = B
    BY DEF Request, Targets
  <2>2. Goto(r, rec) /\ UNCHANGED <<now, instant, locks, bk, orders>> /\ \A b \in B : bk[b] # NoBooking
    BY <1>1 DEF SweepCancelFind, NoBooking
  <2> QED
    BY <2>1, <2>2, TableStepKeepsTable, GotoKeepsHandlers DEF TableStep
<1>2. CASE CompleteFind(r)
  <2> DEFINE B   == {b \in Bookings : bk[b].status = "active" /\ bk[b].win.end < now}
             rec == [op |-> "sweepComplete", todo |-> B]
  <2>1. rec \in Request /\ Targets(rec) = B
    BY DEF Request, Targets
  <2>2. Goto(r, rec) /\ UNCHANGED <<now, instant, locks, bk, orders>> /\ \A b \in B : bk[b] # NoBooking
    BY <1>2 DEF CompleteFind, NoBooking
  <2> HIDE DEF B
  <2> QED
    BY <2>1, <2>2, TableStepKeepsTable, GotoKeepsHandlers DEF TableStep
<1>3. ASSUME NEW b \in Bookings, SweepCancelOne(r, b) \/ CompleteOne(r, b)
      PROVE  Good
  <2>1. /\ reqs[r] \in [op : {"sweepCancel", "sweepComplete"}, todo : SUBSET Bookings]
        /\ b \in Targets(reqs[r])
        /\ UNCHANGED <<now, instant, locks, orders>>
        /\ SweepNext(r, b)
    BY <1>3, RequestShape DEF SweepCancelOne, CompleteOne, Targets, At
  <2>2. bk[b] \in Booking
    BY <2>1, TargetRow
  <2>3. TableStep
    <3>1. CASE SweepCancelOne(r, b)
      <4> DEFINE row == [bk[b] EXCEPT !.status = "cancelled",
                                      !.pay = IF @ = "initiated" THEN "failed" ELSE @]
      <4>1. bk' = [bk EXCEPT ![b] = row]
        BY <3>1 DEF SweepCancelOne
      <4>2. /\ row \in Booking /\ row.slot = bk[b].slot /\ row.win = bk[b].win
            /\ row.status \notin ExcludeStatuses
        BY <2>2 DEF Booking, Statuses, ExcludeStatuses
      <4> QED
        BY <2>2, <4>1, <4>2 DEF TableStep, Retreat, TableOK
    <3>2. CASE CompleteOne(r, b)
      <4> DEFINE row == [bk[b] EXCEPT !.status = "completed"]
      <4>1. bk' = [bk EXCEPT ![b] = row]
        BY <3>2 DEF CompleteOne
      <4>2. /\ row \in Booking /\ row.slot = bk[b].slot /\ row.win = bk[b].win
            /\ row.status \notin ExcludeStatuses
        BY <2>2 DEF Booking, Statuses, ExcludeStatuses
      <4> QED
        BY <2>2, <4>1, <4>2 DEF TableStep, Retreat, TableOK
    <3> QED
      BY <1>3, <3>1, <3>2
  <2>4. HandlersOK'
    <3> DEFINE rec == IF reqs[r].todo = {b} THEN Idle ELSE [reqs[r] EXCEPT !.todo = @ \ {b}]
    <3>1. rec \in Request /\ Targets(rec) \subseteq reqs[r].todo /\ rec.op # "modifyWrite"
      BY <2>1 DEF Request, Targets, Idle
    <3>2. \A c \in Targets(rec) : bk'[c] # NoBooking
      BY <2>1, <2>3, <3>1, TableStepKeepsTable DEF HandlersOK, RowsStay, Targets
    <3>3. Goto(r, rec)
      BY <2>1 DEF SweepNext
    <3> QED
      BY <2>3, <3>1, <3>2, <3>3, TableStepKeepsTable, GotoKeepsHandlers
  <2> QED
    BY <2>1, <2>3, <2>4
<1>4. CASE Activate(r)
  <2> DEFINE B == {b \in Bookings : bk[b].status = "confirmed" /\ bk[b].win.start <= now}
  <2>1. /\ bk' = [b \in Bookings |-> IF b \in B THEN [bk[b] EXCEPT !.status = "active"] ELSE bk[b]]
        /\ UNCHANGED <<now, instant, locks, orders, reqs>>
    BY <1>4 DEF Activate
  <2>2. ASSUME NEW b \in B
        PROVE  /\ bk[b] \in Booking /\ bk'[b] \in Booking /\ IsFirm(b)
               /\ bk'[b].slot = bk[b].slot /\ bk'[b].win = bk[b].win
    BY <2>1, <2>2 DEF TableOK, NoBooking, Booking, Statuses, IsFirm, ExcludeStatuses
  <2>3. \A b \in Bookings \ B : bk'[b] = bk[b]
    BY <2>1
  <2> HIDE DEF B
  <2>4. TableStep
    BY <2>1, <2>2, <2>3 DEF TableStep, Retreat
  <2> QED
    BY <2>1, <2>4, TableStepKeepsTable, SameHandlers
<1>5. CASE DetectNoShows(r)
  <2> DEFINE B == {b \in Bookings : bk[b].status = "confirmed" /\ bk[b].win.start < now - NoShowGrace}
  <2>1. /\ bk' = [b \in Bookings |-> IF b \in B THEN [bk[b] EXCEPT !.status = "no_show"] ELSE bk[b]]
        /\ UNCHANGED <<now, instant, locks, orders, reqs>>
    BY <1>5 DEF DetectNoShows
  <2>2. ASSUME NEW b \in B
        PROVE  /\ bk[b] \in Booking /\ bk'[b] \in Booking /\ IsFirm(b)
               /\ bk'[b].slot = bk[b].slot /\ bk'[b].win = bk[b].win
    BY <2>1, <2>2 DEF TableOK, NoBooking, Booking, Statuses, IsFirm, ExcludeStatuses
  <2>3. \A b \in Bookings \ B : bk'[b] = bk[b]
    BY <2>1
  <2> HIDE DEF B
  <2>4. TableStep
    BY <2>1, <2>2, <2>3 DEF TableStep, Retreat
  <2> QED
    BY <2>1, <2>4, TableStepKeepsTable, SameHandlers
<1> QED
  BY <1>1, <1>2, <1>3, <1>4, <1>5 DEF CronStep

-----------------------------------------------------------------------------
\* The invariant.

LEMMA InitEstablishesInv == Init => IInv
<1> SUFFICES ASSUME Init PROVE IInv
  OBVIOUS
<1>1. LocksOK
  BY ConstantsAssumption DEF Init, LocksOK, ConstantsAssumption
<1>2. TableOK
  BY DEF Init, TableOK, NoDoubleBooking, NoBooking
<1>3. OrdersOK
  BY DEF Init, OrdersOK
<1>4. HandlersOK
  BY DEF Init, HandlersOK, Request, Idle, Targets
<1> QED
  BY <1>1, <1>2, <1>3, <1>4 DEF IInv

\* A booking handler or a cron job.
LEMMA BookingStepKeepsInv ==
  ASSUME IInv, NEW r \in Requests, BookingStep(r) \/ CronStep(r)
  PROVE  IInv' /\ TableStep
<1>1. TableStep /\ HandlersOK' /\ UNCHANGED <<now, instant, locks>> /\ (OrdersOK' \/ UNCHANGED orders)
  BY CreateModifyKeepsInv, PaymentKeepsInv, CancelKeepsInv, ExtensionKeepsInv,
     CronStepKeepsInv DEF BookingStep
<1>2. TableOK' /\ RowsStay
  BY <1>1, TableStepKeepsTable DEF IInv
<1>3. OrdersOK'
  BY <1>1, <1>2, SameOrders DEF IInv
<1>4. LocksOK'
  BY <1>1 DEF IInv, LocksOK
<1> QED
  BY <1>1, <1>2, <1>3, <1>4 DEF IInv

LEMMA NextKeepsInv ==
  ASSUME IInv, [Next]_vars
  PROVE  IInv' /\ TableStep
<1>1. ASSUME NEW r \in Requests, LockStep(r) \/ BookingStep(r) \/ CronStep(r)
      PROVE  IInv' /\ TableStep
  BY <1>1, LockStepKeepsInv, BookingStepKeepsInv DEF TableStep
<1>2. ASSUME UNCHANGED <<bk, orders, reqs>>, LocksOK'
      PROVE  IInv' /\ TableStep
  <2>1. TableStep
    BY <1>2 DEF TableStep
  <2> QED
    BY <1>2, <2>1, TableStepKeepsTable, SameHandlers, SameOrders DEF IInv
<1>3. ASSUME NEW k \in LockKeys, Expire(k)
      PROVE  IInv' /\ TableStep
  BY <1>2, <1>3 DEF Expire, IInv, LocksOK
<1>4. CASE Tick
  BY <1>2, <1>4, ConstantsAssumption DEF Tick, IInv, LocksOK, ConstantsAssumption
<1>5. CASE ToggleInstant
  BY <1>2, <1>5 DEF ToggleInstant, IInv, LocksOK
<1>6. CASE UNCHANGED vars
  BY <1>2, <1>6 DEF vars, IInv, LocksOK
<1> QED
  BY <1>1, <1>3, <1>4, <1>5, <1>6 DEF Next

\* Every reachable state satisfies the invariant.
THEOREM InvariantHolds == Spec => []IInv
<1>1. IInv /\ [Next]_vars => IInv'
  BY NextKeepsInv
<1> QED
  BY <1>1, InitEstablishesInv, PTL DEF Spec

\* The rows, locks, orders and handlers keep their shape.
THEOREM TypeCorrect == Spec => []TypeOK
  BY InvariantHolds, IInvImplies, PTL

\* No two firm bookings of a slot ever share an instant, however many handlers
\* interleave their reads and writes: what the EXCLUDE constraint is for.
THEOREM FirmBookingsDisjoint == Spec => []NoDoubleBooking
  BY InvariantHolds, IInvImplies, PTL

-----------------------------------------------------------------------------
\* Refinement.

Entry(row) == [slot |-> row.slot, win |-> row.win]

\* A row saved under the constraint is free in everybody else's calendar.
LEMMA SavedRowIsFree ==
  ASSUME TableOK, NEW b \in Bookings, NEW row \in Booking,
         ExcludeHolds(b, row), row.status \in ExcludeStatuses
  PROVE  Calendar!FreeFor(b, Entry(row)) /\ Entry(row) \in Calendar!Reservation
<1>1. Entry(row) \in Calendar!Reservation
  BY DEF Calendar!Reservation, Entry, Booking
<1>2. ASSUME NEW c \in Bookings \ {b}, NEW q \in Firm(c)
      PROVE  ~Calendar!Clash(Entry(row), q)
  <2>1. IsFirm(c) /\ q = [slot |-> bk[c].slot, win |-> bk[c].win]
    BY <1>2 DEF Firm
  <2>2. ~(bk[c].slot = row.slot /\ Overlap(bk[c].win, row.win))
    BY <2>1 DEF ExcludeHolds
  <2> QED
    BY <2>1, <2>2 DEF Calendar!Clash, Calendar!Overlap, Overlap, Entry
<1> QED
  BY <1>1, <1>2 DEF Calendar!FreeFor

\* A step of the table is a step of the calendar, or leaves it as it is.
LEMMA TableStepRefines ==
  ASSUME TableOK, TableStep
  PROVE  [Calendar!CalNext]_([b \in Bookings |-> Firm(b)])
<1> DEFINE cal == [b \in Bookings |-> Firm(b)]
<1>1. CASE UNCHANGED bk
  BY <1>1 DEF Firm, IsFirm
<1>2. CASE bk' = [b \in Bookings |-> bk'[b]] /\ Retreat
  <2> DEFINE B == {b \in Bookings : IsFirm(b) /\ bk'[b].status \notin ExcludeStatuses}
  <2>1. ASSUME NEW b \in Bookings
        PROVE  Firm(b)' = IF b \in B THEN {} ELSE Firm(b)
    BY <1>2 DEF Retreat, Firm, IsFirm
  <2>2. cal' = [b \in Bookings |-> IF b \in B THEN {} ELSE cal[b]]
    BY <2>1
  <2>3. Calendar!Release(B)
    BY <2>2 DEF Calendar!Release
  <2> HIDE DEF B
  <2>4. B \in SUBSET Bookings
    BY DEF B
  <2> QED
    BY <2>3, <2>4 DEF Calendar!CalNext
<1>3. ASSUME NEW b \in Bookings, NEW row \in Booking, Save(b, row), InPlace(b, row)
      PROVE  [Calendar!CalNext]_cal
  <2>1. CASE ~ExcludeHolds(b, row)
    BY <1>1, <1>3, <2>1 DEF Save
  <2>2. CASE ExcludeHolds(b, row)
    <3>1. bk' = [bk EXCEPT ![b] = row]
      BY <1>3, <2>2 DEF Save
    <3>2. /\ \A c \in Bookings \ {b} : Firm(c)' = Firm(c)
          /\ Firm(b)' = IF row.status \in ExcludeStatuses THEN {Entry(row)} ELSE {}
      BY <3>1 DEF TableOK, Firm, IsFirm, Entry
    <3>3. cal' = [cal EXCEPT ![b] = IF row.status \in ExcludeStatuses THEN {Entry(row)} ELSE {}]
      BY <3>2
    <3>4. CASE row.status \notin ExcludeStatuses
      <4>1. cal' = [c \in Bookings |-> IF c \in {b} THEN {} ELSE cal[c]]
        BY <3>3, <3>4
      <4> QED
        BY <4>1 DEF Calendar!CalNext, Calendar!Release
    <3>5. CASE row.status \in ExcludeStatuses /\ ~IsFirm(b)
      <4>1. cal[b] = {} /\ cal' = [cal EXCEPT ![b] = {Entry(row)}]
        BY <3>3, <3>5 DEF Firm
      <4>2. Calendar!Reserve(b)
        BY <1>3, <2>2, <3>5, <4>1, SavedRowIsFree DEF Calendar!Reserve
      <4> QED
        BY <4>2 DEF Calendar!CalNext
    <3>6. CASE row.status \in ExcludeStatuses /\ IsFirm(b)
      <4>1. cal[b] = {Entry(bk[b])} /\ cal' = [cal EXCEPT ![b] = {Entry(row)}]
        BY <3>3, <3>6 DEF Firm, Entry
      <4>2. row.slot = bk[b].slot /\ row.win.start = bk[b].win.start
        BY <1>3, <3>6 DEF InPlace, IsFirm, NoBooking, ExcludeStatuses
      <4>3. /\ Entry(row).slot = Entry(bk[b]).slot
            /\ Entry(row).win.start = Entry(bk[b]).win.start
        BY <4>2 DEF Entry
      <4>4. Calendar!Resize(b)
        BY <1>3, <2>2, <3>6, <4>1, <4>3, SavedRowIsFree DEF Calendar!Resize
      <4> QED
        BY <4>4 DEF Calendar!CalNext
    <3> QED
      BY <3>4, <3>5, <3>6
  <2> QED
    BY <2>1, <2>2
<1> QED
  BY <1>1, <1>2, <1>3 DEF TableStep

\* The reservation code, with all its interleavings, implements the abstract
\* calendar of firm reservations.
THEOREM Refinement == Spec => ImplementsCalendar
<1>1. Init => Calendar!CalInit
  BY DEF Init, Calendar!CalInit, Firm, IsFirm, NoBooking, ExcludeStatuses
<1>2. IInv /\ [Next]_vars => [Calendar!CalNext]_([b \in Bookings |-> Firm(b)])
  BY NextKeepsInv, TableStepRefines DEF IInv
<1> QED
  BY <1>1, <1>2, InvariantHolds, PTL DEF Spec, ImplementsCalendar, Calendar!CalSpec


-----------------------------------------------------------------------------
\* The abstract calendar keeps its promise.  With the refinement, so do the firm
\* bookings of the backend.
VARIABLE calendar
Abstract == INSTANCE SlotCalendar

\* A booking is in the calendar with reservations only, and those are exclusive.
CalInv == /\ calendar \in [Bookings -> SUBSET Abstract!Reservation]
          /\ Abstract!Exclusive

\* Whoever clashes with a reservation is clashed with by it.
LEMMA ClashIsMutual == \A p, q : Abstract!Clash(p, q) <=> Abstract!Clash(q, p)
  BY Zenon DEF Abstract!Clash, Abstract!Overlap

\* Giving one booking a reservation that is free for it keeps the calendar exclusive.
LEMMA FreeKeepsExclusive ==
  ASSUME CalInv, NEW b \in Bookings, NEW p \in Abstract!Reservation, Abstract!FreeFor(b, p),
         calendar' = [calendar EXCEPT ![b] = {p}]
  PROVE  CalInv'
<1>1. (calendar \in [Bookings -> SUBSET Abstract!Reservation])'
  BY DEF CalInv
<1>2. \A c \in Bookings : calendar'[c] = IF c = b THEN {p} ELSE calendar[c]
  BY DEF CalInv
<1>3. ASSUME NEW c \in Bookings, NEW d \in Bookings, c # d,
             NEW r \in calendar'[c], NEW q \in calendar'[d]
      PROVE  ~Abstract!Clash(r, q)
  <2>1. CASE c = b
    <3>1. r = p /\ q \in calendar[d] /\ d # b
      BY <1>2, <1>3, <2>1
    <3> QED
      BY <1>3, <3>1 DEF Abstract!FreeFor
  <2>2. CASE d = b
    <3>1. q = p /\ r \in calendar[c] /\ c # b
      BY <1>2, <1>3, <2>2
    <3>2. ~Abstract!Clash(q, r)
      BY <1>3, <3>1 DEF Abstract!FreeFor
    <3> QED
      BY <3>2, ClashIsMutual
  <2>3. CASE c # b /\ d # b
    <3>1. r \in calendar[c] /\ q \in calendar[d]
      BY <1>2, <1>3, <2>3
    <3> QED
      BY <1>3, <3>1 DEF CalInv, Abstract!Exclusive
  <2> QED
    BY <2>1, <2>2, <2>3
<1>4. Abstract!Exclusive'
  BY <1>3, Zenon DEF Abstract!Exclusive, Abstract!Clash, Abstract!Overlap
<1> QED
  BY <1>1, <1>4 DEF CalInv

\* In every behaviour of the abstract calendar no slot is given to two bookings
\* for the same instant: what the EXCLUDE constraint on bookings is there to keep.
THEOREM CalendarIsExclusive == Abstract!CalSpec => []Abstract!Exclusive
<1>1. Abstract!CalInit => CalInv
  BY DEF Abstract!CalInit, CalInv, Abstract!Exclusive
<1>2. CalInv /\ [Abstract!CalNext]_calendar => CalInv'
  <2> SUFFICES ASSUME CalInv, [Abstract!CalNext]_calendar PROVE CalInv'
    OBVIOUS
  <2>1. ASSUME NEW b \in Bookings, Abstract!Reserve(b) PROVE CalInv'
    BY <2>1, FreeKeepsExclusive DEF Abstract!Reserve
  <2>2. ASSUME NEW b \in Bookings, Abstract!Resize(b) PROVE CalInv'
    BY <2>2, FreeKeepsExclusive DEF Abstract!Resize
  <2>3. ASSUME NEW B \in SUBSET Bookings, Abstract!Release(B) PROVE CalInv'
    BY <2>3 DEF Abstract!Release, CalInv, Abstract!Exclusive, Abstract!Clash, Abstract!Overlap
  <2>4. CASE UNCHANGED calendar
    BY <2>4 DEF CalInv, Abstract!Exclusive, Abstract!Clash, Abstract!Overlap
  <2> QED
    BY <2>1, <2>2, <2>3, <2>4 DEF Abstract!CalNext
<1>3. CalInv => Abstract!Exclusive
  BY DEF CalInv
<1> QED
  BY <1>1, <1>2, <1>3, PTL DEF Abstract!CalSpec

-----------------------------------------------------------------------------
\* One driver for a window.

\* Locks outlive the handlers that read them, nobody gives his lock back, and no
\* confirmation in flight brings a cancelled booking back.
LocksDecide == /\ LockOutlivesHandler
               /\ Ops \cap {"release", "extend", "pay", "approve"} = {}

\* Nothing that is excluded is under way.
Absent  == /\ orders = {}
           /\ \A r \in Requests : reqs[r].op \notin {"releaseDel", "confirmWrite", "approveWrite"}

\* Whoever creates a booking has the lock of its window.
Holds   == \A r \in Requests :
             reqs[r].op \in {"createCheck", "createInsert"} =>
               locks[<<reqs[r].slot, reqs[r].win>>] = reqs[r].drv

\* Once checked, the window is free of other drivers until the insert.
Theirs(b, rec) == /\ IsLive(b) /\ bk[b].slot = rec.slot /\ bk[b].win = rec.win
                  /\ bk[b].drv # rec.drv
Cleared == \A r \in Requests : At(r, "createInsert") => \A b \in Bookings : ~Theirs(b, reqs[r])

\* While booking b lives, no other starts where it starts, nor is about to.
Sole(b) == IsLive(b) =>
  /\ \A c \in Bookings \ {b} :
       IsLive(c) /\ bk[c].slot = bk[b].slot => bk[c].win.start # bk[b].win.start
  /\ \A q \in Requests :
       At(q, "createInsert") /\ reqs[q].slot = bk[b].slot => reqs[q].win.start # bk[b].win.start

\* A booking is given a new end only if it has its start for itself.
Grows   == \A r \in Requests, b \in Bookings : At(r, "modifyWrite") /\ reqs[r].bk = b => Sole(b)

OneInv  == IInv /\ Absent /\ Holds /\ Cleared /\ Grows /\ OneDriverPerWindow

\* No booking becomes live, changes window or changes hands.
Fades == \A b \in Bookings :
           IsLive(b)' => /\ IsLive(b)
                         /\ bk'[b].slot = bk[b].slot /\ bk'[b].win = bk[b].win /\ bk'[b].drv = bk[b].drv

\* A booking that has its start for itself keeps it while others fade.
LEMMA SoleStays ==
  ASSUME IInv, Fades, NEW b \in Bookings, Sole(b),
         \A q \in Requests : At(q, "createInsert")' =>
            \/ reqs'[q] = reqs[q]
            \/ IsLive(b) /\ bk[b].slot = reqs'[q].slot => bk[b].win.start # reqs'[q].win.start
  PROVE  Sole(b)'
<1> SUFFICES ASSUME IsLive(b)'
             PROVE  /\ \A c \in Bookings \ {b} :
                         IsLive(c)' /\ bk'[c].slot = bk'[b].slot => bk'[c].win.start # bk'[b].win.start
                    /\ \A q \in Requests :
                         At(q, "createInsert")' /\ reqs'[q].slot = bk'[b].slot
                           => reqs'[q].win.start # bk'[b].win.start
  BY DEF Sole
<1>1. IsLive(b) /\ bk'[b].slot = bk[b].slot /\ bk'[b].win = bk[b].win
  BY DEF Fades
<1> QED
  BY <1>1 DEF Sole, Fades, At

\* A handler goes on to rec, which has the lock it needs, and bookings only fade.
LEMMA FadingKeepsOne ==
  ASSUME OneInv, IInv', Fades, UNCHANGED orders, NEW r \in Requests, NEW rec \in Request, Goto(r, rec),
         rec.op \notin {"releaseDel", "confirmWrite", "approveWrite"},
         rec.op = "modifyWrite" => rec.bk \in Bookings /\ Sole(rec.bk),
         \A q \in Requests : reqs[q].op \in {"createCheck", "createInsert"} =>
            locks'[<<reqs[q].slot, reqs[q].win>>] = locks[<<reqs[q].slot, reqs[q].win>>],
         rec.op \in {"createCheck", "createInsert"} => locks'[<<rec.slot, rec.win>>] = rec.drv,
         rec.op = "createInsert" => \A b \in Bookings :
            IsLive(b) /\ bk[b].slot = rec.slot => bk[b].win.start # rec.win.start
  PROVE  OneInv'
<1>1. /\ reqs'[r] = rec
      /\ \A q \in Requests \ {r} : reqs'[q] = reqs[q]
  BY DEF OneInv, IInv, HandlersOK, Goto
<1>2. Absent'
  BY <1>1 DEF OneInv, Absent
<1>3. Holds'
  <2>1. ASSUME NEW q \in Requests, reqs'[q].op \in {"createCheck", "createInsert"}
        PROVE  locks'[<<reqs'[q].slot, reqs'[q].win>>] = reqs'[q].drv
    BY <1>1, <2>1 DEF OneInv, Holds
  <2> QED
    BY <2>1 DEF Holds
<1>4. Cleared'
  <2>1. ASSUME NEW q \in Requests, reqs'[q].op = "createInsert", NEW b \in Bookings,
               IsLive(b)', bk'[b].slot = reqs'[q].slot, bk'[b].win = reqs'[q].win
        PROVE  bk'[b].drv = reqs'[q].drv
    <3>1. /\ IsLive(b) /\ bk[b].slot = reqs'[q].slot /\ bk[b].win = reqs'[q].win
          /\ bk'[b].drv = bk[b].drv
      BY <2>1 DEF Fades
    <3> QED
      BY <1>1, <2>1, <3>1 DEF OneInv, Cleared, Theirs, At
  <2> QED
    BY <2>1 DEF Cleared, Theirs, At
<1>5. OneDriverPerWindow'
  BY DEF OneInv, OneDriverPerWindow, Fades
<1>6. ASSUME NEW q \in Requests, NEW b \in Bookings, reqs'[q].op = "modifyWrite", reqs'[q].bk = b
      PROVE  Sole(b)'
  <2>2. Sole(b)
    <3>1. CASE q = r
      BY <1>1, <1>6, <3>1
    <3>2. CASE q # r
      BY <1>1, <1>6, <3>2 DEF OneInv, Grows, At
    <3> QED
      BY <3>1, <3>2
  <2>3. \A p \in Requests : At(p, "createInsert")' =>
            \/ reqs'[p] = reqs[p]
            \/ IsLive(b) /\ bk[b].slot = reqs'[p].slot => bk[b].win.start # reqs'[p].win.start
    BY <1>1, <2>2 DEF At
  <2> QED
    BY <2>2, <2>3, SoleStays DEF OneInv
<1>7. Grows'
  BY <1>6 DEF Grows, At
<1> QED
  BY <1>2, <1>3, <1>4, <1>5, <1>7 DEF OneInv

\* The same, where no handler goes anywhere.
LEMMA FadingAloneKeepsOne ==
  ASSUME OneInv, IInv', Fades, UNCHANGED <<orders, reqs>>,
         \A q \in Requests : reqs[q].op \in {"createCheck", "createInsert"} =>
            locks'[<<reqs[q].slot, reqs[q].win>>] = locks[<<reqs[q].slot, reqs[q].win>>]
  PROVE  OneInv'
<1>1. Absent' /\ Holds'
  BY DEF OneInv, Absent, Holds
<1>2. Cleared'
  BY DEF OneInv, Cleared, Theirs, Fades, At
<1>3. OneDriverPerWindow'
  BY DEF OneInv, OneDriverPerWindow, Fades
<1>4. Grows'
  <2>1. \A b \in Bookings : Sole(b) => Sole(b)'
    BY SoleStays DEF OneInv, At
  <2> QED
    BY <2>1 DEF OneInv, Grows, At
<1> QED
  BY <1>1, <1>2, <1>3, <1>4 DEF OneInv

LEMMA IdleRequest == Idle \in Request
  BY DEF Request

\* Whoever has the lock of a window is a driver.
LEMMA HolderIsDriver ==
  ASSUME OneInv, NEW q \in Requests, reqs[q].op \in {"createCheck", "createInsert"}
  PROVE  locks[<<reqs[q].slot, reqs[q].win>>] = reqs[q].drv /\ reqs[q].drv # NoDriver
<1>1. reqs[q].drv \in Drivers
  BY RequestShape DEF OneInv, IInv
<1> QED
  BY <1>1, ConstantsAssumption DEF OneInv, Holds, ConstantsAssumption

LEMMA UntouchedFades == ASSUME UNCHANGED bk PROVE Fades
  BY DEF Fades, IsLive

\* Locking.
LEMMA LockStepKeepsOne ==
  ASSUME LocksDecide, OneInv, IInv', NEW r \in Requests, LockStep(r)
  PROVE  OneInv'
<1>1. Fades /\ UNCHANGED orders
  BY UntouchedFades DEF LockStep, LockQuery, LockScan, LockSet, ReleaseGet, ReleaseDel
<1>2. ASSUME NEW rec \in Request, rec.op \in {"idle", "lockScan", "lockSet"}, Goto(r, rec),
             \A q \in Requests : reqs[q].op \in {"createCheck", "createInsert"} =>
               locks'[<<reqs[q].slot, reqs[q].win>>] = locks[<<reqs[q].slot, reqs[q].win>>]
      PROVE  OneInv'
  BY <1>1, <1>2, FadingKeepsOne
<1>3. reqs' \in [Requests -> Request] /\ reqs \in [Requests -> Request]
  BY DEF OneInv, IInv, HandlersOK
<1>4. ASSUME NEW rec, Goto(r, rec) PROVE rec \in Request
  BY <1>3, <1>4 DEF Goto
<1>5. ASSUME NEW d \in Drivers, NEW w \in Windows,
             NEW want \in {{s} : s \in Slots} \cup {Slots}, LockQuery(r, d, w, want)
      PROVE  OneInv'
  <2> DEFINE rec == [op |-> "lockScan", drv |-> d, win |-> w, want |-> want,
                     free |-> UnbookedSlots(w), quota |-> Quota(w)]
  <2>1. Goto(r, rec) /\ UNCHANGED locks
    BY <1>5 DEF LockQuery
  <2>2. rec.op = "lockScan"
    OBVIOUS
  <2> HIDE DEF rec
  <2> QED
    BY <1>2, <1>4, <2>1, <2>2
<1>6. CASE LockScan(r)
  <2>1. PICK rec : Goto(r, rec) /\ rec.op \in {"idle", "lockSet"}
    BY <1>6 DEF LockScan, Idle
  <2> QED
    BY <1>2, <1>4, <1>6, <2>1 DEF LockScan
<1>7. CASE LockSet(r)
  <2>1. reqs[r] \in [op : {"lockSet"}, drv : Drivers, win : Windows, cand : SUBSET Slots]
    BY <1>7, RequestShape DEF LockSet, OneInv, IInv
  <2>2. PICK rec : Goto(r, rec) /\ rec.op \in {"idle", "lockSet"}
    BY <1>7, <2>1 DEF LockSet, Idle, Done
  <2>3. ASSUME NEW q \in Requests, reqs[q].op \in {"createCheck", "createInsert"}
        PROVE  locks'[<<reqs[q].slot, reqs[q].win>>] = locks[<<reqs[q].slot, reqs[q].win>>]
    <3>1. locks[<<reqs[q].slot, reqs[q].win>>] # NoDriver
      BY <2>3, HolderIsDriver
    <3>2. <<reqs[q].slot, reqs[q].win>> \in LockKeys
      BY <2>3, RequestShape DEF OneInv, IInv, LockKeys
    <3>3. \/ UNCHANGED locks
          \/ \E k \in LockKeys : locks[k] = NoDriver /\ locks' = [locks EXCEPT ![k] = reqs[r].drv]
      BY <1>7, <2>1 DEF LockSet, LockKeys
    <3> QED
      BY <3>1, <3>2, <3>3 DEF OneInv, IInv, LocksOK
  <2> QED
    BY <1>2, <1>4, <2>2, <2>3
<1>8. ASSUME NEW d \in Drivers, NEW s \in Slots, NEW w \in Windows, ReleaseGet(r, d, s, w)
      PROVE  FALSE
  BY <1>8 DEF ReleaseGet, Starts, LocksDecide
<1>9. ~ReleaseDel(r)
  BY DEF ReleaseDel, At, OneInv, Absent
<1> QED
  BY <1>5, <1>6, <1>7, <1>8, <1>9 DEF LockStep

\* A live booking has a window.
LEMMA LiveWindow ==
  ASSUME OneInv, NEW b \in Bookings, IsLive(b)
  PROVE  bk[b] \in Booking /\ bk[b].win \in Windows
  BY DEF OneInv, IInv, TableOK, IsLive, LiveStatuses, NoBooking, Booking

\* Creating a booking.
LEMMA CreateKeepsOne ==
  ASSUME OneInv, IInv', NEW r \in Requests,
         \/ \E d \in Drivers, s \in Slots, w \in Windows : CreateOwner(r, d, s, w)
         \/ CreateCheck(r)
         \/ \E b \in Bookings : CreateInsert(r, b)
  PROVE  OneInv'
<1>1. reqs' \in [Requests -> Request] /\ reqs \in [Requests -> Request]
  BY DEF OneInv, IInv, HandlersOK
<1>2. ASSUME NEW rec, Goto(r, rec) PROVE rec \in Request
  BY <1>1, <1>2 DEF Goto
<1>3. ASSUME NEW d \in Drivers, NEW s \in Slots, NEW w \in Windows, CreateOwner(r, d, s, w)
      PROVE  OneInv'
  <2> DEFINE rec == [op |-> "createCheck", drv |-> d, slot |-> s, win |-> w]
  <2>1. Goto(r, rec) /\ UNCHANGED <<locks, bk, orders>> /\ locks[<<s, w>>] = d
    BY <1>3 DEF CreateOwner
  <2>2. rec.op = "createCheck" /\ rec.slot = s /\ rec.win = w /\ rec.drv = d
    OBVIOUS
  <2> HIDE DEF rec
  <2> QED
    BY <1>2, <2>1, <2>2, UntouchedFades, FadingKeepsOne
<1>4. CASE CreateCheck(r)
  <2>1. PICK rec : /\ Goto(r, rec)
                   /\ rec = IF \A c \in BookedIn(reqs[r].win) : bk[c].slot # reqs[r].slot
                            THEN [reqs[r] EXCEPT !.op = "createInsert"] ELSE Idle
    BY <1>4 DEF CreateCheck
  <2>2. reqs[r] \in [op : {"createCheck", "createInsert", "releaseDel"},
                     drv : Drivers, slot : Slots, win : Windows]
    BY <1>4, RequestShape DEF CreateCheck, At, OneInv, IInv
  <2>3. CASE rec = Idle
    BY <1>2, <1>4, <2>1, <2>3, UntouchedFades, FadingKeepsOne DEF CreateCheck, Idle
  <2>4. CASE /\ \A c \in BookedIn(reqs[r].win) : bk[c].slot # reqs[r].slot
             /\ rec = [reqs[r] EXCEPT !.op = "createInsert"]
    <3>1. /\ rec.op = "createInsert" /\ rec.slot = reqs[r].slot /\ rec.win = reqs[r].win
          /\ rec.drv = reqs[r].drv
      BY <2>2, <2>4
    <3>2. ASSUME NEW b \in Bookings, IsLive(b), bk[b].slot = rec.slot,
                 bk[b].win.start = rec.win.start
          PROVE  FALSE
      <4>1. IsLive(b) /\ bk[b].slot = reqs[r].slot /\ bk[b].win.start = reqs[r].win.start
        BY <3>1, <3>2
      <4>2. \A w \in {bk[b].win, reqs[r].win} :
              w.start \in Nat /\ w.end \in Nat /\ w.start < w.end /\ Buffer \in Nat
        BY <2>2, <4>1, LiveWindow, ConstantsAssumption DEF ConstantsAssumption
      <4>3. Overlap(bk[b].win, Buffered(reqs[r].win))
        BY <4>1, <4>2 DEF Overlap, Buffered
      <4> QED
        BY <2>4, <4>1, <4>3 DEF BookedIn
    <3>3. locks[<<rec.slot, rec.win>>] = rec.drv
      BY <1>4, <3>1, HolderIsDriver DEF CreateCheck, At
    <3> QED
      BY <1>2, <1>4, <2>1, <3>1, <3>2, <3>3, UntouchedFades, FadingKeepsOne DEF CreateCheck
  <2> QED
    BY <2>1, <2>3, <2>4
<1>5. ASSUME NEW b \in Bookings, CreateInsert(r, b) PROVE OneInv'
  <2> DEFINE row == [status |-> "pending", drv |-> reqs[r].drv, slot |-> reqs[r].slot,
                     win |-> reqs[r].win, pay |-> "none"]
  <2>1. /\ bk' = [bk EXCEPT ![b] = row]
        /\ At(r, "createInsert")
        /\ reqs' = [reqs EXCEPT ![r] = Idle]
        /\ UNCHANGED <<locks, orders>>
    BY <1>5 DEF CreateInsert, Save, ExcludeHolds, ExcludeStatuses, Done, Goto
  <2>2. /\ bk'[b] = row /\ \A c \in Bookings \ {b} : bk'[c] = bk[c]
        /\ reqs'[r] = Idle /\ \A q \in Requests \ {r} : reqs'[q] = reqs[q]
    BY <2>1 DEF OneInv, IInv, HandlersOK, TableOK
  <2>3. Absent' /\ Holds'
    BY <2>1, <2>2 DEF OneInv, Absent, Holds, Idle
  <2>4. row.drv = reqs[r].drv /\ row.slot = reqs[r].slot /\ row.win = reqs[r].win
    OBVIOUS
  <2> HIDE DEF row
  <2>5. Cleared'
    <3>1. ASSUME NEW q \in Requests, reqs'[q].op = "createInsert", NEW c \in Bookings,
                 IsLive(c)', bk'[c].slot = reqs'[q].slot, bk'[c].win = reqs'[q].win
          PROVE  bk'[c].drv = reqs'[q].drv
      <4>1. q # r /\ reqs'[q] = reqs[q] /\ reqs[q].op = "createInsert"
        BY <2>2, <3>1 DEF Idle
      <4>2. CASE c = b
        <5>1. reqs[q].slot = reqs[r].slot /\ reqs[q].win = reqs[r].win
          BY <2>2, <2>4, <3>1, <4>1, <4>2
        <5>2. reqs[q].drv = reqs[r].drv
          BY <2>1, <4>1, <5>1, HolderIsDriver DEF At
        <5> QED
          BY <2>2, <2>4, <4>1, <4>2, <5>2
      <4>3. CASE c # b
        <5>1. bk'[c] = bk[c] /\ IsLive(c)
          BY <2>2, <3>1, <4>3 DEF IsLive
        <5> QED
          BY <3>1, <4>1, <5>1 DEF OneInv, Cleared, Theirs, At
      <4> QED
        BY <4>2, <4>3
    <3> QED
      BY <3>1 DEF Cleared, Theirs, At
  <2>6. ASSUME NEW c \in Bookings \ {b}, IsLive(c), bk[c].slot = row.slot, bk[c].win = row.win
        PROVE  bk[c].drv = row.drv
    BY <2>1, <2>4, <2>6 DEF OneInv, Cleared, Theirs
  <2>7. OneDriverPerWindow'
    BY <2>2, <2>6 DEF OneInv, OneDriverPerWindow, IsLive
  <2>8. ASSUME NEW q \in Requests, NEW c \in Bookings, reqs'[q].op = "modifyWrite", reqs'[q].bk = c
        PROVE  Sole(c)'
    <3>2. q # r /\ reqs'[q] = reqs[q]
      BY <2>2, <2>8 DEF Idle
    <3>3. Sole(c) /\ bk[c] # NoBooking
      BY <2>8, <3>2 DEF OneInv, IInv, Grows, At, HandlersOK, Targets
    <3>4. c # b /\ bk'[c] = bk[c]
      BY <1>5, <2>2, <3>3 DEF CreateInsert
    <3>5. IsLive(c) /\ row.slot = bk[c].slot => row.win.start # bk[c].win.start
      BY <2>1, <2>4, <3>3 DEF Sole
    <3>6. \A p \in Requests : At(p, "createInsert")' => At(p, "createInsert") /\ reqs'[p] = reqs[p]
      BY <2>2 DEF At, Idle
    <3> QED
      BY <2>2, <3>3, <3>4, <3>5, <3>6 DEF Sole, IsLive
  <2>9. Grows'
    BY <2>8 DEF Grows, At
  <2> QED
    BY <2>3, <2>5, <2>7, <2>9 DEF OneInv
<1> QED
  BY <1>3, <1>4, <1>5

\* Changing the end of a booking.
LEMMA ModifyKeepsOne ==
  ASSUME OneInv, IInv', NEW r \in Requests,
         (\E b \in Bookings, w \in Windows : ModifyRead(r, b, w)) \/ ModifyWrite(r)
  PROVE  OneInv'
<1>1. reqs' \in [Requests -> Request] /\ reqs \in [Requests -> Request]
  BY DEF OneInv, IInv, HandlersOK
<1>2. ASSUME NEW b \in Bookings, NEW w \in Windows, ModifyRead(r, b, w)
      PROVE  OneInv'
  <2> DEFINE rec == [op |-> "modifyWrite", bk |-> b, win |-> w]
  <2>1. Goto(r, rec) /\ UNCHANGED <<locks, bk, orders>>
    BY <1>2 DEF ModifyRead
  <2>2. rec.op = "modifyWrite" /\ rec.bk = b /\ rec \in Request
    BY DEF Request
  <2>3. ASSUME NEW v \in Windows, v.start = w.start
        PROVE  Overlap(v, Buffered(w)) /\ Overlap(w, v)
    <3>1. /\ v.start \in Nat /\ v.end \in Nat /\ v.start < v.end
          /\ w.start \in Nat /\ w.end \in Nat /\ w.start < w.end /\ Buffer \in Nat
      BY ConstantsAssumption DEF ConstantsAssumption
    <3> QED
      BY <2>3, <3>1 DEF Overlap, Buffered
  <2>4. IsLive(b) /\ w.start = bk[b].win.start /\ SlotCheck(bk[b].slot, w, b)
    BY <1>2 DEF ModifyRead, IsLive, LiveStatuses
  <2>5. ASSUME NEW c \in Bookings \ {b}, IsLive(c), bk[c].slot = bk[b].slot,
               bk[c].win.start = bk[b].win.start
        PROVE  FALSE
    <3>1. c \in BookedIn(w)
      BY <2>3, <2>4, <2>5, LiveWindow DEF BookedIn
    <3> QED
      BY <2>4, <2>5, <3>1 DEF SlotCheck, SlotUnbooked
  <2>6. ASSUME NEW q \in Requests, At(q, "createInsert"), reqs[q].slot = bk[b].slot,
               reqs[q].win.start = bk[b].win.start
        PROVE  FALSE
    <3>1. reqs[q].slot \in Slots /\ reqs[q].win \in Windows
      BY <2>6, RequestShape DEF OneInv, IInv, At
    <3>2. locks[<<reqs[q].slot, reqs[q].win>>] # NoDriver
      BY <2>6, HolderIsDriver DEF At
    <3>3. bk[b].slot \in LockedSlots(w)
      BY <2>3, <2>4, <2>6, <3>1, <3>2 DEF LockedSlots
    <3> QED
      BY <2>4, <3>3 DEF SlotCheck
  <2>7. Sole(b)
    BY <2>5, <2>6 DEF Sole
  <2> HIDE DEF rec
  <2> QED
    BY <2>1, <2>2, <2>7, UntouchedFades, FadingKeepsOne
<1>3. CASE ModifyWrite(r)
  <2>1. PICK b : b = reqs[r].bk
    OBVIOUS
  <2>2. PICK w : w = reqs[r].win
    OBVIOUS
  <2>3. reqs[r] \in [op : {"modifyWrite"}, bk : Bookings, win : Windows]
    BY <1>3, RequestShape DEF ModifyWrite, OneInv, IInv
  <2>4. /\ b \in Bookings /\ w \in Windows /\ Sole(b)
        /\ bk[b] \in Booking /\ w.start = bk[b].win.start
    BY <1>3, <2>1, <2>2, <2>3 DEF ModifyWrite, At, OneInv, Grows, IInv, HandlersOK, TableOK, Targets
  <2>5. /\ Save(b, [bk[b] EXCEPT !.win = w])
        /\ reqs' = [reqs EXCEPT ![r] = Idle]
        /\ UNCHANGED <<locks, orders>>
    BY <1>3, <2>1, <2>2 DEF ModifyWrite, Done, Goto
  <2>6. CASE UNCHANGED bk
    BY <1>1, <2>5, <2>6, UntouchedFades, FadingKeepsOne, IdleRequest DEF Goto, Idle
  <2>7. CASE bk' = [bk EXCEPT ![b] = [bk[b] EXCEPT !.win = w]]
    <3>1. /\ bk'[b].status = bk[b].status /\ bk'[b].slot = bk[b].slot /\ bk'[b].drv = bk[b].drv
          /\ bk'[b].win.start = bk[b].win.start /\ bk'[b].win = w
      BY <2>4, <2>7 DEF Booking, OneInv, IInv, TableOK
    <3>2. \A c \in Bookings \ {b} : bk'[c] = bk[c]
      BY <2>4, <2>7 DEF OneInv, IInv, TableOK
    <3>3. /\ reqs'[r] = Idle /\ \A q \in Requests \ {r} : reqs'[q] = reqs[q]
      BY <2>5 DEF OneInv, IInv, HandlersOK
    <3>4. \A q \in Requests : reqs'[q].op # "idle" => reqs'[q] = reqs[q]
      BY <3>3 DEF Idle
    <3>5. Absent' /\ Holds'
      BY <2>5, <3>3, <3>4 DEF OneInv, Absent, Holds, Idle
    <3>6. \A c \in Bookings : /\ IsLive(c)' = IsLive(c) /\ bk'[c].slot = bk[c].slot
                              /\ bk'[c].drv = bk[c].drv /\ bk'[c].win.start = bk[c].win.start
      BY <3>1, <3>2 DEF IsLive
    <3>7. Cleared'
      <4>1. ASSUME NEW q \in Requests, reqs'[q].op = "createInsert", NEW c \in Bookings,
                   IsLive(c)', bk'[c].slot = reqs'[q].slot, bk'[c].win = reqs'[q].win
            PROVE  bk'[c].drv = reqs'[q].drv
        <5>1. reqs'[q] = reqs[q] /\ At(q, "createInsert") /\ IsLive(c)
          BY <3>4, <3>6, <4>1 DEF At
        <5>2. CASE c = b
          BY <2>4, <3>1, <4>1, <5>1, <5>2 DEF Sole
        <5>3. CASE c # b
          BY <3>2, <4>1, <5>1, <5>3 DEF OneInv, Cleared, Theirs
        <5> QED
          BY <5>2, <5>3
      <4> QED
        BY <4>1 DEF Cleared, Theirs, At
    <3>8. OneDriverPerWindow'
      BY <2>4, <3>2, <3>6 DEF OneInv, OneDriverPerWindow, Sole
    <3>9. Grows'
      <4>1. ASSUME NEW q \in Requests, NEW c \in Bookings, reqs'[q].op = "modifyWrite", reqs'[q].bk = c
            PROVE  Sole(c)'
        <5>2. reqs'[q] = reqs[q] /\ Sole(c)
          BY <3>4, <4>1 DEF OneInv, Grows, At
        <5>3. \A p \in Requests : At(p, "createInsert")' => At(p, "createInsert") /\ reqs'[p] = reqs[p]
          BY <3>4 DEF At
        <5> QED
          BY <3>6, <5>2, <5>3 DEF Sole
      <4> QED
        BY <4>1 DEF Grows, At
    <3> QED
      BY <3>5, <3>7, <3>8, <3>9 DEF OneInv
  <2> QED
    BY <2>5, <2>6, <2>7 DEF Save
<1> QED
  BY <1>2, <1>3

\* A cancellation, by whomever, only makes a booking fade.
LEMMA CancelFades ==
  ASSUME IInv, IInv', NEW r \in Requests,
         \/ \E b \in Bookings : CancelByDriver(r, b) \/ RejectRead(r, b) \/ HostCancelRead(r, b)
         \/ CancelWrite(r)
  PROVE  /\ Fades /\ UNCHANGED <<locks, orders>>
         /\ \E rec \in Request : Goto(r, rec) /\ rec.op \in {"idle", "cancelWrite"}
<1>1. reqs' \in [Requests -> Request] /\ reqs \in [Requests -> Request]
  BY DEF IInv, HandlersOK
<1>2. ASSUME NEW rec, Goto(r, rec) PROVE rec \in Request
  BY <1>1, <1>2 DEF Goto
<1>3. ASSUME NEW b, bk' = [bk EXCEPT ![b].status = "cancelled"] PROVE Fades
  BY <1>3 DEF Fades, IsLive, LiveStatuses, IInv, TableOK, Booking, NoBooking
<1>4. ASSUME NEW b \in Bookings, CancelByDriver(r, b)
      PROVE  Goto(r, Idle) /\ Fades /\ UNCHANGED <<locks, orders>>
  BY <1>1, <1>3, <1>4 DEF CancelByDriver, Starts, Goto
<1>5. ASSUME NEW b \in Bookings, RejectRead(r, b) \/ HostCancelRead(r, b)
      PROVE  Goto(r, [op |-> "cancelWrite", bk |-> b]) /\ Fades /\ UNCHANGED <<locks, orders>>
  BY <1>5, UntouchedFades DEF RejectRead, HostCancelRead
<1>6. ASSUME CancelWrite(r)
      PROVE  Goto(r, Idle) /\ Fades /\ UNCHANGED <<locks, orders>>
  BY <1>3, <1>6 DEF CancelWrite, Done
<1>7. ASSUME NEW b \in Bookings
      PROVE  [op |-> "cancelWrite", bk |-> b] \in Request /\ Idle \in Request
  BY DEF Request
<1>8. Idle.op = "idle"
  BY DEF Idle
<1>9. CASE \E b \in Bookings : CancelByDriver(r, b)
  BY <1>4, <1>7, <1>8, <1>9
<1>10. ASSUME NEW b \in Bookings, RejectRead(r, b) \/ HostCancelRead(r, b)
       PROVE  /\ Fades /\ UNCHANGED <<locks, orders>>
              /\ \E rec \in Request : Goto(r, rec) /\ rec.op \in {"idle", "cancelWrite"}
  <2> DEFINE rec == [op |-> "cancelWrite", bk |-> b]
  <2>1. rec \in Request /\ rec.op = "cancelWrite"
    BY <1>7
  <2>2. Goto(r, rec) /\ Fades /\ UNCHANGED <<locks, orders>>
    BY <1>5, <1>10
  <2> HIDE DEF rec
  <2> QED
    BY <2>1, <2>2
<1>11. CASE CancelWrite(r)
  <2>1. Idle \in Request
    BY DEF Request
  <2> QED
    BY <1>6, <1>8, <1>11, <2>1
<1> QED
  BY <1>9, <1>10, <1>11

\* What is excluded does not happen.
LEMMA NothingElse ==
  ASSUME LocksDecide, OneInv, NEW r \in Requests
  PROVE  /\ \A b \in Bookings, w \in Windows : ~ExtendOrder(r, b, w)
         /\ \A b \in Bookings : ~InitiatePayment(r, b) /\ ~ConfirmRead(r, b) /\ ~ApproveRead(r, b)
         /\ ~ConfirmWrite(r) /\ ~ApproveWrite(r)
         /\ \A o \in orders : ~ExtendVerify(r, o)
<1>1. Ops \cap {"extend", "pay", "approve"} = {}
  BY DEF LocksDecide
<1>2. orders = {} /\ reqs[r].op \notin {"confirmWrite", "approveWrite"}
  BY DEF OneInv, Absent
<1> QED
  BY <1>1, <1>2 DEF ExtendOrder, InitiatePayment, ConfirmRead, ApproveRead, ConfirmWrite,
     ApproveWrite, Starts, At

\* So do the cron jobs.
LEMMA CronStepFades ==
  ASSUME IInv, IInv', NEW r \in Requests, CronStep(r)
  PROVE  /\ Fades /\ UNCHANGED <<locks, orders>>
         /\ \E rec \in Request : Goto(r, rec) /\ rec.op \in {"idle", "sweepCancel", "sweepComplete"}
<1> DEFINE Good == /\ Fades /\ UNCHANGED <<locks, orders>>
                   /\ \E rec \in Request : Goto(r, rec) /\ rec.op \in {"idle", "sweepCancel", "sweepComplete"}
<1>1. reqs' \in [Requests -> Request] /\ reqs \in [Requests -> Request]
  BY DEF IInv, HandlersOK
<1>2. ASSUME NEW rec, Goto(r, rec) PROVE rec \in Request
  BY <1>1, <1>2 DEF Goto
<1>3. bk \in [Bookings -> Booking \cup {NoBooking}]
  BY DEF IInv, TableOK
<1>4. ASSUME reqs[r] = Idle, UNCHANGED reqs PROVE Goto(r, Idle)
  BY <1>1, <1>4 DEF Goto
<1>5. ASSUME NEW B \in SUBSET Bookings, SweepCancelFind(r, B) PROVE Good
  <2> DEFINE rec == [op |-> "sweepCancel", todo |-> B]
  <2>1. Goto(r, rec) /\ UNCHANGED <<locks, bk, orders>> /\ rec.op = "sweepCancel"
    BY <1>5 DEF SweepCancelFind
  <2> HIDE DEF rec
  <2> QED
    BY <1>2, <2>1, UntouchedFades
<1>6. CASE CompleteFind(r)
  <2>1. PICK rec : Goto(r, rec) /\ rec.op = "sweepComplete"
    BY <1>6 DEF CompleteFind
  <2> QED
    BY <1>2, <1>6, <2>1, UntouchedFades DEF CompleteFind
<1>7. ASSUME NEW b \in Bookings, SweepCancelOne(r, b) \/ CompleteOne(r, b) PROVE Good
  <2>1. PICK row : bk' = [bk EXCEPT ![b] = row] /\ row.status \in {"cancelled", "completed"}
    <3>1. bk[b] \in Booking
      <4>1. b \in Targets(reqs[r])
        BY <1>7 DEF SweepCancelOne, CompleteOne, Targets, At
      <4> QED
        BY <4>1, TargetRow DEF IInv
    <3>2. CASE SweepCancelOne(r, b)
      <4> DEFINE row == [bk[b] EXCEPT !.status = "cancelled",
                                      !.pay = IF @ = "initiated" THEN "failed" ELSE @]
      <4>1. bk' = [bk EXCEPT ![b] = row] /\ row.status = "cancelled"
        BY <3>1, <3>2 DEF SweepCancelOne, Booking
      <4> HIDE DEF row
      <4> QED
        BY <4>1
    <3>3. CASE CompleteOne(r, b)
      <4> DEFINE row == [bk[b] EXCEPT !.status = "completed"]
      <4>1. bk' = [bk EXCEPT ![b] = row] /\ row.status = "completed"
        BY <3>1, <3>3 DEF CompleteOne, Booking
      <4> HIDE DEF row
      <4> QED
        BY <4>1
    <3> QED
      BY <1>7, <3>2, <3>3
  <2>2. Fades
    BY <1>3, <2>1 DEF Fades, IsLive, LiveStatuses
  <2>3. reqs[r] \in [op : {"sweepCancel", "sweepComplete"}, todo : SUBSET Bookings]
    BY <1>7, RequestShape DEF SweepCancelOne, CompleteOne, At, IInv
  <2>4. PICK rec : Goto(r, rec) /\ rec.op \in {"idle", "sweepCancel", "sweepComplete"}
    BY <1>7, <2>3 DEF SweepCancelOne, CompleteOne, SweepNext, Idle
  <2> QED
    BY <1>2, <1>7, <2>2, <2>4 DEF SweepCancelOne, CompleteOne
<1>8. CASE Activate(r)
  <2>1. Fades
    <3> DEFINE B == {b \in Bookings : bk[b].status = "confirmed" /\ bk[b].win.start <= now}
    <3>1. bk' = [b \in Bookings |-> IF b \in B THEN [bk[b] EXCEPT !.status = "active"] ELSE bk[b]]
      BY <1>8 DEF Activate
    <3>2. \A b \in B : bk[b] \in Booking /\ IsLive(b)
      BY <1>3 DEF NoBooking, IsLive, LiveStatuses
    <3> HIDE DEF B
    <3> QED
      BY <3>1, <3>2 DEF Fades, IsLive, Booking
  <2> QED
    BY <1>2, <1>4, <1>8, <2>1 DEF Activate, Starts, Idle
<1>9. CASE DetectNoShows(r)
  <2>1. Fades
    <3> DEFINE B == {b \in Bookings : bk[b].status = "confirmed" /\ bk[b].win.start < now - NoShowGrace}
    <3>1. bk' = [b \in Bookings |-> IF b \in B THEN [bk[b] EXCEPT !.status = "no_show"] ELSE bk[b]]
      BY <1>9 DEF DetectNoShows
    <3>2. \A b \in B : bk[b] \in Booking
      BY <1>3 DEF NoBooking
    <3> HIDE DEF B
    <3> QED
      BY <3>1, <3>2 DEF Fades, IsLive, Booking, LiveStatuses
  <2> QED
    BY <1>2, <1>4, <1>9, <2>1 DEF DetectNoShows, Starts, Idle
<1> QED
  BY <1>5, <1>6, <1>7, <1>8, <1>9 DEF CronStep

LEMMA CancelAndCronKeepOne ==
  ASSUME OneInv, IInv', NEW r \in Requests,
         \/ \E b \in Bookings : CancelByDriver(r, b) \/ RejectRead(r, b) \/ HostCancelRead(r, b)
         \/ CancelWrite(r) \/ CronStep(r)
  PROVE  OneInv'
<1>1. PICK rec \in Request :
        /\ Goto(r, rec) /\ rec.op \in {"idle", "cancelWrite", "sweepCancel", "sweepComplete"}
        /\ Fades /\ UNCHANGED <<locks, orders>>
  BY CancelFades, CronStepFades DEF OneInv
<1> QED
  BY <1>1, FadingKeepsOne

\* A lock that runs out was nobody's who is creating a booking.
LEMMA ExpireKeepsOne ==
  ASSUME LocksDecide, OneInv, IInv', NEW k \in LockKeys, Expire(k)
  PROVE  OneInv'
<1>1. ASSUME NEW q \in Requests, reqs[q].op \in {"createCheck", "createInsert"}
      PROVE  locks'[<<reqs[q].slot, reqs[q].win>>] = locks[<<reqs[q].slot, reqs[q].win>>]
  BY <1>1 DEF Expire, LocksDecide
<1> QED
  BY <1>1, UntouchedFades, FadingAloneKeepsOne DEF Expire

\* As long as locks outlive the handlers that read them, and before anybody
\* releases one or pays, they give a slot's window to one driver only, however many
\* handlers that lock, create, modify and cancel, and cron jobs, interleave.
THEOREM LockGivesOneDriver ==
  ASSUME LocksDecide PROVE Spec => []OneDriverPerWindow
<1>1. Init => OneInv
  <2> SUFFICES ASSUME Init PROVE OneInv
    OBVIOUS
  <2>1. Absent /\ Holds /\ Cleared /\ Grows
    BY DEF Init, Absent, Holds, Cleared, Grows, At, Idle
  <2>2. OneDriverPerWindow
    BY DEF Init, OneDriverPerWindow, IsLive, LiveStatuses, NoBooking
  <2> QED
    BY <2>1, <2>2, InitEstablishesInv DEF OneInv
<1>2. OneInv /\ [Next]_vars => OneInv'
  <2> SUFFICES ASSUME OneInv, [Next]_vars PROVE OneInv'
    OBVIOUS
  <2>1. IInv'
    BY NextKeepsInv DEF OneInv
  <2>2. ASSUME NEW r \in Requests, BookingStep(r) PROVE OneInv'
    BY <2>1, <2>2, CreateKeepsOne, ModifyKeepsOne, CancelAndCronKeepOne,
       NothingElse DEF BookingStep
  <2>3. ASSUME UNCHANGED <<locks, bk, orders, reqs>> PROVE OneInv'
    BY <2>1, <2>3, UntouchedFades, FadingAloneKeepsOne
  <2> QED
    BY <2>1, <2>2, <2>3, LockStepKeepsOne, CancelAndCronKeepOne, ExpireKeepsOne
       DEF Next, ToggleInstant, Tick, vars
<1>3. OneInv => OneDriverPerWindow
  BY DEF OneInv
<1> QED
  BY <1>1, <1>2, <1>3, PTL DEF Spec

-----------------------------------------------------------------------------
\* Live bookings keep their distance, where handlers come one at a time and nobody
\* extends: an extension is written without a second look at the availability.
InTurn == (\A q, r \in Requests : q = r) /\ "extend" \notin Ops

\* No booking but b that lives on slot s comes closer to window w than the buffer.
Clear(s, w, b) == \A c \in Bookings \ {b} :
                    IsLive(c) /\ bk[c].slot = s => ~Overlap(bk[c].win, Buffered(w))

\* What the one handler in flight has established.
Established(rec) ==
  /\ rec.op = "createInsert" => \A b \in Bookings : Clear(rec.slot, rec.win, b)
  /\ rec.op = "modifyWrite"  => Clear(bk[rec.bk].slot, rec.win, rec.bk)
  /\ (rec.op = "confirmWrite" /\ rec.firm) \/ rec.op = "approveWrite" => IsLive(rec.bk)

ApartInv == /\ IInv /\ LiveApart /\ orders = {}
            /\ \A r \in Requests : Established(reqs[r])

LEMMA InTurnGoto ==
  ASSUME InTurn, ApartInv, IInv', LiveApart', UNCHANGED orders,
         NEW r \in Requests, NEW rec, Goto(r, rec), Established(rec)'
  PROVE  ApartInv'
<1>1. reqs'[r] = rec /\ \A q \in Requests : q = r
  BY DEF InTurn, ApartInv, IInv, HandlersOK, Goto
<1>2. (\A q \in Requests : Established(reqs[q]))'
  BY <1>1 DEF Established, Clear
<1> QED
  BY <1>2 DEF ApartInv

LEMMA FadingKeepsApart ==
  ASSUME LiveApart, Fades PROVE LiveApart'
  BY DEF LiveApart, Fades, Overlap, Buffered

\* Distance is mutual.
LEMMA ApartIsMutual ==
  \A v, w \in Windows : Overlap(v, Buffered(w)) <=> Overlap(w, Buffered(v))
<1> SUFFICES ASSUME NEW v \in Windows, NEW w \in Windows
             PROVE  Overlap(v, Buffered(w)) <=> Overlap(w, Buffered(v))
  OBVIOUS
<1>1. /\ v.start \in Nat /\ v.end \in Nat /\ w.start \in Nat /\ w.end \in Nat /\ Buffer \in Nat
  BY ConstantsAssumption DEF ConstantsAssumption
<1> QED
  BY <1>1 DEF Overlap, Buffered

\* A row is put where it is clear of the others.
LEMMA ClearKeepsApart ==
  ASSUME ApartInv, NEW b \in Bookings, NEW row \in Booking,
         bk' = [bk EXCEPT ![b] = row], Clear(row.slot, row.win, b)
  PROVE  LiveApart'
<1>1. bk'[b] = row /\ \A c \in Bookings \ {b} : bk'[c] = bk[c]
  BY DEF ApartInv, IInv, TableOK
<1>2. \A c \in Bookings : IsLive(c) => bk[c].win \in Windows
  BY DEF ApartInv, IInv, TableOK, IsLive, LiveStatuses, NoBooking, Booking
<1>3. row.win \in Windows
  BY DEF Booking
<1>4. ASSUME NEW c \in Bookings, NEW d \in Bookings, c # d, IsLive(c)', IsLive(d)',
             bk'[c].slot = bk'[d].slot
      PROVE  ~Overlap(bk'[c].win, Buffered(bk'[d].win))
  <2>1. CASE c # b /\ d # b
    BY <1>1, <1>4, <2>1 DEF ApartInv, LiveApart, IsLive
  <2>2. CASE d = b
    <3>1. IsLive(c) /\ bk[c].slot = row.slot /\ bk'[c] = bk[c] /\ bk'[d] = row
      BY <1>1, <1>4, <2>2 DEF IsLive
    <3> QED
      BY <1>4, <2>2, <3>1 DEF Clear
  <2>3. CASE c = b
    <3>1. IsLive(d) /\ bk[d].slot = row.slot /\ bk'[d] = bk[d] /\ bk'[c] = row
      BY <1>1, <1>4, <2>3 DEF IsLive
    <3>2. ~Overlap(bk[d].win, Buffered(row.win))
      BY <1>4, <2>3, <3>1 DEF Clear
    <3> QED
      BY <1>2, <1>3, <3>1, <3>2, ApartIsMutual
  <2> QED
    BY <2>1, <2>2, <2>3
<1> QED
  BY <1>4 DEF LiveApart, IsLive, Overlap, Buffered

\* A handler that only reads, or makes bookings fade.
LEMMA FadingInTurn ==
  ASSUME InTurn, ApartInv, IInv', Fades, UNCHANGED orders,
         NEW r \in Requests, NEW rec, Goto(r, rec), Established(rec)'
  PROVE  ApartInv'
  BY FadingKeepsApart, InTurnGoto DEF ApartInv

LEMMA CreateModifyInTurn ==
  ASSUME InTurn, ApartInv, IInv', NEW r \in Requests,
         \/ \E d \in Drivers, s \in Slots, w \in Windows : CreateOwner(r, d, s, w)
         \/ CreateCheck(r)
         \/ \E b \in Bookings : CreateInsert(r, b)
         \/ \E b \in Bookings, w \in Windows : ModifyRead(r, b, w)
         \/ ModifyWrite(r)
  PROVE  ApartInv'
<1>0. /\ Established(reqs[r]) /\ reqs[r] \in Request
      /\ bk \in [Bookings -> Booking \cup {NoBooking}]
  BY DEF ApartInv, IInv, HandlersOK, TableOK
<1>1. ASSUME NEW d \in Drivers, NEW s \in Slots, NEW w \in Windows, CreateOwner(r, d, s, w)
      PROVE  ApartInv'
  <2>1. PICK rec : Goto(r, rec) /\ rec.op = "createCheck"
    BY <1>1 DEF CreateOwner
  <2>2. Established(rec)'
    BY <2>1 DEF Established
  <2> QED
    BY <1>1, <2>1, <2>2, UntouchedFades, FadingInTurn DEF CreateOwner
<1>2. CASE CreateCheck(r)
  <2>1. reqs[r] \in [op : {"createCheck", "createInsert", "releaseDel"},
                     drv : Drivers, slot : Slots, win : Windows]
    BY <1>2, RequestShape DEF CreateCheck, At, ApartInv, IInv
  <2>2. PICK rec : /\ Goto(r, rec)
                   /\ rec = IF \A c \in BookedIn(reqs[r].win) : bk[c].slot # reqs[r].slot
                            THEN [reqs[r] EXCEPT !.op = "createInsert"] ELSE Idle
    BY <1>2 DEF CreateCheck
  <2>3. UNCHANGED <<bk, orders>>
    BY <1>2 DEF CreateCheck
  <2>4. Established(rec)'
    <3>1. CASE rec = Idle
      BY <3>1 DEF Established, Idle
    <3>2. CASE /\ \A c \in BookedIn(reqs[r].win) : bk[c].slot # reqs[r].slot
               /\ rec = [reqs[r] EXCEPT !.op = "createInsert"]
      <4>1. rec.op = "createInsert" /\ rec.slot = reqs[r].slot /\ rec.win = reqs[r].win
        BY <2>1, <3>2
      <4>2. \A b \in Bookings : Clear(rec.slot, rec.win, b)
        BY <3>2, <4>1 DEF Clear, BookedIn
      <4>3. \A b \in Bookings : Clear(rec.slot, rec.win, b)'
        BY <2>3, <4>2 DEF Clear, IsLive
      <4> QED
        BY <4>1, <4>3 DEF Established
    <3> QED
      BY <2>2, <3>1, <3>2
  <2> QED
    BY <2>2, <2>3, <2>4, UntouchedFades, FadingInTurn
<1>3. ASSUME NEW b \in Bookings, CreateInsert(r, b)
      PROVE  ApartInv'
  <2> DEFINE row == [status |-> "pending", drv |-> reqs[r].drv, slot |-> reqs[r].slot,
                     win |-> reqs[r].win, pay |-> "none"]
  <2>1. reqs[r] \in [op : {"createCheck", "createInsert", "releaseDel"},
                     drv : Drivers, slot : Slots, win : Windows]
    BY <1>3, RequestShape DEF CreateInsert, At, ApartInv, IInv
  <2>2. bk' = [bk EXCEPT ![b] = row] /\ Goto(r, Idle) /\ UNCHANGED orders
    BY <1>3 DEF CreateInsert, Save, ExcludeHolds, ExcludeStatuses, Done
  <2>3. row \in Booking /\ row.slot = reqs[r].slot /\ row.win = reqs[r].win
    BY <2>1 DEF Booking, Statuses
  <2>4. Clear(row.slot, row.win, b)
    BY <1>0, <1>3, <2>3 DEF CreateInsert, At, Established
  <2> HIDE DEF row
  <2>5. LiveApart' /\ Established(Idle)'
    BY <2>2, <2>3, <2>4, ClearKeepsApart DEF Established, Idle
  <2> QED
    BY <2>2, <2>5, InTurnGoto
<1>4. ASSUME NEW b \in Bookings, NEW w \in Windows, ModifyRead(r, b, w)
      PROVE  ApartInv'
  <2> DEFINE rec == [op |-> "modifyWrite", bk |-> b, win |-> w]
  <2>1. Goto(r, rec) /\ UNCHANGED <<bk, orders>>
    BY <1>4 DEF ModifyRead
  <2>2. rec.op = "modifyWrite" /\ rec.bk = b /\ rec.win = w
    OBVIOUS
  <2>3. Clear(bk[b].slot, w, b)
    BY <1>4 DEF ModifyRead, SlotCheck, SlotUnbooked, BookedIn, Clear
  <2>4. Clear(bk[b].slot, w, b)'
    BY <2>1, <2>3 DEF Clear, IsLive
  <2> HIDE DEF rec
  <2>5. Established(rec)'
    BY <2>2, <2>4 DEF Established, Clear, IsLive
  <2> QED
    BY <2>1, <2>5, UntouchedFades, FadingInTurn
<1>5. CASE ModifyWrite(r)
  <2>1. PICK b : b = reqs[r].bk
    OBVIOUS
  <2>2. PICK w : w = reqs[r].win
    OBVIOUS
  <2>3. /\ b \in Bookings /\ w \in Windows /\ bk[b] \in Booking
    BY <1>0, <1>5, <2>1, <2>2, RequestShape DEF ModifyWrite, At, ApartInv, IInv, HandlersOK, Targets
  <2>4. PICK row : row = [bk[b] EXCEPT !.win = w]
    OBVIOUS
  <2>5. Save(b, row) /\ Goto(r, Idle) /\ UNCHANGED orders
    BY <1>5, <2>1, <2>2, <2>4 DEF ModifyWrite, Done
  <2>6. row \in Booking /\ row.slot = bk[b].slot /\ row.win = w
    BY <2>3, <2>4 DEF Booking
  <2>7. Clear(row.slot, row.win, b)
    BY <1>0, <1>5, <2>1, <2>2, <2>6 DEF ModifyWrite, At, Established
  <2>8. LiveApart'
    BY <2>3, <2>5, <2>6, <2>7, ClearKeepsApart, UntouchedFades, FadingKeepsApart DEF Save, ApartInv
  <2>9. Established(Idle)'
    BY DEF Established, Idle
  <2> QED
    BY <2>5, <2>8, <2>9, InTurnGoto
<1> QED
  BY <1>1, <1>2, <1>3, <1>4, <1>5

\* Payment and approval change the status of live bookings only.
LEMMA PaymentInTurn ==
  ASSUME InTurn, ApartInv, IInv', NEW r \in Requests,
         \/ \E b \in Bookings : InitiatePayment(r, b) \/ ConfirmRead(r, b) \/ ApproveRead(r, b)
         \/ ConfirmWrite(r) \/ ApproveWrite(r)
  PROVE  ApartInv'
<1>0. /\ Established(reqs[r]) /\ reqs[r] \in Request /\ reqs \in [Requests -> Request]
      /\ bk \in [Bookings -> Booking \cup {NoBooking}]
  BY DEF ApartInv, IInv, HandlersOK, TableOK
<1>1. ASSUME NEW b \in Bookings, InitiatePayment(r, b)
      PROVE  ApartInv'
  <2>1. bk[b] \in Booking /\ IsLive(b)
    BY <1>0, <1>1 DEF InitiatePayment, NoBooking, IsLive, LiveStatuses
  <2>2. Goto(r, Idle) /\ bk' = [bk EXCEPT ![b].pay = "initiated"] /\ UNCHANGED orders
    BY <1>0, <1>1 DEF InitiatePayment, Starts, Goto
  <2>3. Fades
    BY <1>0, <2>1, <2>2 DEF Fades, IsLive, Booking
  <2>4. Established(Idle)'
    BY DEF Established, Idle
  <2> QED
    BY <2>2, <2>3, <2>4, FadingInTurn
<1>2. ASSUME NEW b \in Bookings, ConfirmRead(r, b)
      PROVE  ApartInv'
  <2>1. PICK f \in BOOLEAN : f <=> bk[b].status = "pending" /\ instant
    OBVIOUS
  <2> DEFINE rec == [op |-> "confirmWrite", bk |-> b, firm |-> f]
  <2>2. Goto(r, rec) /\ UNCHANGED <<bk, orders>>
    BY <1>2, <2>1 DEF ConfirmRead, ApartInv, IInv, LocksOK
  <2>3. rec.op = "confirmWrite" /\ rec.bk = b /\ (rec.firm <=> f)
    OBVIOUS
  <2> HIDE DEF rec
  <2>4. rec.firm => bk[b].status = "pending"
    BY <2>1, <2>3
  <2>5. Established(rec)'
    BY <2>2, <2>3, <2>4 DEF Established, IsLive, LiveStatuses
  <2> QED
    BY <2>2, <2>5, UntouchedFades, FadingInTurn
<1>3. ASSUME NEW b \in Bookings, ApproveRead(r, b)
      PROVE  ApartInv'
  <2> DEFINE rec == [op |-> "approveWrite", bk |-> b]
  <2>1. Goto(r, rec) /\ UNCHANGED <<bk, orders>> /\ bk[b].status = "pending"
    BY <1>3 DEF ApproveRead
  <2>2. rec.op = "approveWrite" /\ rec.bk = b
    OBVIOUS
  <2> HIDE DEF rec
  <2>3. Established(rec)'
    BY <2>1, <2>2 DEF Established, IsLive, LiveStatuses
  <2> QED
    BY <2>1, <2>3, UntouchedFades, FadingInTurn
<1>4. CASE ConfirmWrite(r) \/ ApproveWrite(r)
  <2>1. PICK b : b = reqs[r].bk
    OBVIOUS
  <2>2. b \in Bookings /\ bk[b] \in Booking
    BY <1>0, <1>4, <2>1, RequestShape DEF ConfirmWrite, ApproveWrite, At, ApartInv, IInv, HandlersOK, Targets
  <2>3. /\ Goto(r, Idle) /\ UNCHANGED orders
        /\ \/ UNCHANGED bk
           \/ \E row : /\ bk' = [bk EXCEPT ![b] = row]
                       /\ row.slot = bk[b].slot /\ row.win = bk[b].win /\ row.drv = bk[b].drv
                       /\ IsLive(b) \/ row.status = bk[b].status
    <3>1. CASE ApproveWrite(r)
      <4>1. PICK row : row = [bk[b] EXCEPT !.status = "confirmed"]
        OBVIOUS
      <4>2. row.slot = bk[b].slot /\ row.win = bk[b].win /\ row.drv = bk[b].drv
        BY <2>2, <4>1 DEF Booking
      <4>3. IsLive(b)
        BY <1>0, <2>1, <3>1 DEF ApproveWrite, At, Established
      <4> QED
        BY <2>1, <3>1, <4>1, <4>2, <4>3 DEF ApproveWrite, Save, Done
    <3>2. CASE ConfirmWrite(r)
      <4>1. PICK row : row = [bk[b] EXCEPT !.pay = "completed",
                                           !.status = IF reqs[r].firm THEN "confirmed" ELSE @]
        OBVIOUS
      <4>2. /\ row.slot = bk[b].slot /\ row.win = bk[b].win /\ row.drv = bk[b].drv
            /\ row.status = IF reqs[r].firm THEN "confirmed" ELSE bk[b].status
        BY <2>2, <4>1 DEF Booking
      <4>3. reqs[r].firm => IsLive(b)
        BY <1>0, <2>1, <3>2 DEF ConfirmWrite, At, Established
      <4> QED
        BY <2>1, <3>2, <4>1, <4>2, <4>3 DEF ConfirmWrite, Save, Done
    <3> QED
      BY <1>4, <3>1, <3>2
  <2>4. Fades
    BY <1>0, <2>2, <2>3, UntouchedFades DEF Fades, IsLive
  <2>5. Established(Idle)'
    BY DEF Established, Idle
  <2> QED
    BY <2>3, <2>4, <2>5, FadingInTurn
<1> QED
  BY <1>1, <1>2, <1>3, <1>4

LEMMA OthersInTurn ==
  ASSUME InTurn, ApartInv, IInv', NEW r \in Requests,
         \/ LockStep(r) \/ CronStep(r)
         \/ \E b \in Bookings : CancelByDriver(r, b) \/ RejectRead(r, b) \/ HostCancelRead(r, b)
         \/ CancelWrite(r)
  PROVE  ApartInv'
<1>1. CASE LockStep(r)
  <2>1. UNCHANGED <<bk, orders>>
    BY <1>1 DEF LockStep, LockQuery, LockScan, LockSet, ReleaseGet, ReleaseDel
  <2>2. PICK rec : Goto(r, rec) /\ rec.op \in {"idle", "lockScan", "lockSet", "releaseDel"}
    <3>1. At(r, "lockSet") =>
            reqs[r] \in [op : {"lockSet"}, drv : Drivers, win : Windows, cand : SUBSET Slots]
      BY RequestShape DEF ApartInv, IInv
    <3>2. CASE \E d \in Drivers, w \in Windows, want \in {{s} : s \in Slots} \cup {Slots} : LockQuery(r, d, w, want)
      BY <3>2 DEF LockQuery
    <3>3. CASE LockScan(r)
      BY <3>3 DEF LockScan, Idle
    <3>4. CASE LockSet(r)
      BY <3>1, <3>4 DEF LockSet, Done, Idle
    <3>5. CASE \E d \in Drivers, s \in Slots, w \in Windows : ReleaseGet(r, d, s, w)
      BY <3>5 DEF ReleaseGet
    <3>6. CASE ReleaseDel(r)
      BY <3>6 DEF ReleaseDel, Done, Idle
    <3> QED
      BY <1>1, <3>2, <3>3, <3>4, <3>5, <3>6 DEF LockStep
  <2>3. Established(rec)'
    BY <2>2 DEF Established
  <2> QED
    BY <2>1, <2>2, <2>3, UntouchedFades, FadingInTurn
<1>2. CASE ~LockStep(r)
  <2>1. PICK rec \in Request :
          /\ Goto(r, rec) /\ rec.op \in {"idle", "cancelWrite", "sweepCancel", "sweepComplete"}
          /\ Fades /\ UNCHANGED orders
    BY <1>2, CancelFades, CronStepFades DEF ApartInv
  <2>2. Established(rec)'
    BY <2>1 DEF Established
  <2> QED
    BY <2>1, <2>2, FadingInTurn
<1> QED
  BY <1>1, <1>2

\* Where handlers come one at a time, and nobody extends, all live bookings of a slot
\* keep the buffer between them, those that nobody has paid for yet included: what the
\* availability checks promise, which the constraint knows nothing of.
THEOREM LiveBookingsApart == ASSUME InTurn PROVE Spec => []LiveApart
<1>1. Init => ApartInv
  <2> SUFFICES ASSUME Init PROVE ApartInv
    OBVIOUS
  <2>1. LiveApart /\ orders = {}
    BY DEF Init, LiveApart, IsLive, LiveStatuses, NoBooking
  <2>2. \A r \in Requests : Established(reqs[r])
    BY DEF Init, Established, Idle
  <2> QED
    BY <2>1, <2>2, InitEstablishesInv DEF ApartInv
<1>2. ApartInv /\ [Next]_vars => ApartInv'
  <2> SUFFICES ASSUME ApartInv, [Next]_vars PROVE ApartInv'
    OBVIOUS
  <2>1. IInv'
    BY NextKeepsInv DEF ApartInv
  <2>2. ASSUME NEW r \in Requests, BookingStep(r) PROVE ApartInv'
    <3>1. /\ \A b \in Bookings, w \in Windows : ~ExtendOrder(r, b, w)
          /\ \A o \in orders : ~ExtendVerify(r, o)
      BY DEF ExtendOrder, ExtendVerify, Starts, InTurn
    <3> QED
      BY <2>1, <2>2, <3>1, CreateModifyInTurn, PaymentInTurn, OthersInTurn DEF BookingStep
  <2>3. ASSUME UNCHANGED <<bk, orders, reqs>> PROVE ApartInv'
    BY <2>1, <2>3 DEF ApartInv, LiveApart, IsLive, Established, Clear, Overlap, Buffered
  <2> QED
    BY <2>1, <2>2, <2>3, OthersInTurn DEF Next, Expire, ToggleInstant, Tick, vars
<1>3. ApartInv => LiveApart
  BY DEF ApartInv
<1> QED
  BY <1>1, <1>2, <1>3, PTL DEF Spec

=============================================================================
