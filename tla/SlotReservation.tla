--------------------------- MODULE SlotReservation ---------------------------
(***************************************************************************)
(* Slot locks, availability checks and booking rows of one parking space.  *)
(*                                                                         *)
(* A driver locks a slot for an exact window in Redis (SET NX EX), creates *)
(* a pending booking while the lock is his, pays, and the booking becomes  *)
(* firm ("confirmed", later "active").  Handlers read, decide and write in *)
(* separate steps; the database runs READ COMMITTED, so anything may happen *)
(* between them.  Only the EXCLUDE constraint on the bookings table is     *)
(* evaluated at the very moment of a write.                                *)
(*                                                                         *)
(* Each element of Requests is a server-side execution slot: an HTTP       *)
(* request, a webhook delivery or a cron job in flight.                    *)
(***************************************************************************)
EXTENDS Integers, FiniteSets

CONSTANTS
  Drivers, Slots, Bookings, Windows,
  Requests,             \* handlers that may be in flight at once
  Ops,                  \* the operations the environment issues
  NoDriver,             \* value of an absent lock key
  Capacity,             \* parking_spaces.total_capacity
  Buffer,               \* parking_spaces.buffer_minutes
  NoShowGrace,          \* GRACE_PERIOD_MS of detectNoShows
  LastTick,             \* bound on the clock
  MaxOrders,            \* bound on unverified extension orders
  LockOutlivesHandler   \* TRUE: no lock expires under a handler that read it

AllOps == { "lock", "create", "release", "modify", "pay", "approve", "reject",
            "hostCancel", "cancel", "extend", "sweepCancel", "complete",
            "activate", "noShow", "toggle" }

ASSUME ConstantsAssumption ==
  /\ NoDriver \notin Drivers
  /\ IsFiniteSet(Bookings)
  /\ Windows \subseteq {w \in [start : Nat, end : Nat] : w.start < w.end}
  /\ Ops \subseteq AllOps
  /\ Capacity \in Nat /\ Buffer \in Nat /\ NoShowGrace \in Nat
  /\ LastTick \in Nat /\ MaxOrders \in Nat
  /\ LockOutlivesHandler \in BOOLEAN

VARIABLES
  now,      \* wall clock, in the unit of the windows
  instant,  \* parking_spaces.instant_book
  locks,    \* locks[<<s, w>>]: holder of Redis key lock:slot:s:w, or NoDriver
  bk,       \* rows of the bookings table
  orders,   \* unverified extension orders: [bk, win]
  reqs      \* reqs[r]: what handler r has read and has still to do

vars == <<now, instant, locks, bk, orders, reqs>>

-----------------------------------------------------------------------------
\* Shapes of the state.

Statuses == {"pending", "confirmed", "active", "completed", "cancelled", "no_show"}

\* A booking whose window an availability check treats as taken.
LiveStatuses == {"pending", "confirmed", "active"}

\* Mutant: the constraint forgets bookings that have begun.
ExcludeConfirmedOnly == {"confirmed"}

\* A booking the EXCLUDE constraint looks at.
ExcludeStatuses == {"confirmed", "active"}

NoBooking == [status |-> "none"]
Booking   == [status : Statuses, drv : Drivers, slot : Slots, win : Windows,
              pay : {"none", "initiated", "failed", "completed"}]

LockKeys == Slots \X Windows

Idle    == [op |-> "idle"]
Request ==
  {Idle}
    \cup [op : {"lockScan"}, drv : Drivers, win : Windows, want : SUBSET Slots,
          free : SUBSET Slots, quota : Int]
    \cup [op : {"lockSet"}, drv : Drivers, win : Windows, cand : SUBSET Slots]
    \cup [op : {"createCheck", "createInsert", "releaseDel"},
          drv : Drivers, slot : Slots, win : Windows]
    \cup [op : {"modifyWrite"}, bk : Bookings, win : Windows]
    \cup [op : {"confirmWrite"}, bk : Bookings, firm : BOOLEAN]
    \cup [op : {"approveWrite", "cancelWrite"}, bk : Bookings]
    \cup [op : {"sweepCancel", "sweepComplete"}, todo : SUBSET Bookings]

TypeOK ==
  /\ now \in 0..LastTick /\ instant \in BOOLEAN
  /\ locks \in [LockKeys -> Drivers \cup {NoDriver}]
  /\ bk \in [Bookings -> Booking \cup {NoBooking}]
  /\ orders \subseteq [bk : Bookings, win : Windows]
  /\ reqs \in [Requests -> Request]

-----------------------------------------------------------------------------
\* Availability.

Overlap(v, w) == v.start < w.end /\ w.start < v.end

Buffered(w) == [start |-> w.start - Buffer, end |-> w.end + Buffer]

IsLive(b) == bk[b].status \in LiveStatuses
IsFirm(b) == bk[b].status \in ExcludeStatuses

\* Mutant: the buffer is forgotten.
BookedInUnbuffered(w) == {b \in Bookings : IsLive(b) /\ Overlap(bk[b].win, w)}

\* Live bookings whose range meets the window stretched by the buffer.
BookedIn(w) == {b \in Bookings : IsLive(b) /\ Overlap(bk[b].win, Buffered(w))}

\* Slots with a Redis lock on an overlapping window (no buffer here).
LockedSlots(w) ==
  {s \in Slots : \E v \in Windows : locks[<<s, v>>] # NoDriver /\ Overlap(w, v)}

\* Slots no live booking takes, and how many of them the space may still give.
UnbookedSlots(w) == Slots \ {bk[b].slot : b \in BookedIn(w)}
Quota(w)         == Capacity - Cardinality(BookedIn(w))

\* availableSlots.slice(0, quota): the rows come in no particular order.
Slices(S, n) ==
  {T \in SUBSET S : Cardinality(T) = IF n < Cardinality(S) THEN n ELSE Cardinality(S)}

\* checkSlotAvailability for one slot, ignoring booking b itself.
SlotUnbooked(s, w, b) == \A c \in BookedIn(w) \ {b} : bk[c].slot # s
SlotCheck(s, w, b)    == SlotUnbooked(s, w, b) /\ s \notin LockedSlots(w)

\* EXCLUDE USING GIST (slot_id WITH =, range WITH &&) WHERE firm.
ExcludeHolds(b, row) ==
  row.status \in ExcludeStatuses =>
    \A c \in Bookings \ {b} :
      IsFirm(c) => ~(bk[c].slot = row.slot /\ Overlap(bk[c].win, row.win))

\* Mutant: there is no constraint.
SaveUnchecked(b, row) == bk' = [bk EXCEPT ![b] = row]

\* Write one row; the statement fails as a whole when the constraint objects.
Save(b, row) == bk' = IF ExcludeHolds(b, row) THEN [bk EXCEPT ![b] = row] ELSE bk

-----------------------------------------------------------------------------
\* Request bookkeeping.  A handler whose effect is one statement needs a free
\* execution slot but does not stay in it.

Starts(r, op) == op \in Ops /\ reqs[r] = Idle
At(r, step)   == reqs[r].op = step
Goto(r, rec)  == reqs' = [reqs EXCEPT ![r] = rec]
Done(r)       == Goto(r, Idle)

-----------------------------------------------------------------------------
\* POST /bookings/lock

\* want is one slot when the client names it, all of them for auto-select.  A
\* named key that exists ends the call here (refreshed or refused).
LockQuery(r, d, w, want) ==
  /\ Starts(r, "lock")
  /\ want # Slots => \A s \in want : locks[<<s, w>>] = NoDriver
  /\ Quota(w) > 0
  /\ Goto(r, [op |-> "lockScan", drv |-> d, win |-> w, want |-> want,
              free |-> UnbookedSlots(w), quota |-> Quota(w)])
  /\ UNCHANGED <<now, instant, locks, bk, orders>>

LockScan(r) ==
  /\ At(r, "lockScan")
  /\ LET q == reqs[r] IN
       \E T \in Slices(q.free \ LockedSlots(q.win), q.quota) :
         Goto(r, IF T \cap q.want = {} THEN Idle
                 ELSE [op |-> "lockSet", drv |-> q.drv, win |-> q.win, cand |-> T \cap q.want])
  /\ UNCHANGED <<now, instant, locks, bk, orders>>

\* Mutant: SET without NX.
LockSetOverwrites(r) ==
  /\ At(r, "lockSet")
  /\ \E s \in reqs[r].cand : locks' = [locks EXCEPT ![<<s, reqs[r].win>>] = reqs[r].drv]
  /\ Done(r)
  /\ UNCHANGED <<now, instant, bk, orders>>

\* SET NX: on failure auto-select tries the next candidate.
LockSet(r) ==
  /\ At(r, "lockSet")
  /\ LET q == reqs[r] IN
       \E s \in q.cand :
         \/ /\ locks[<<s, q.win>>] = NoDriver
            /\ locks' = [locks EXCEPT ![<<s, q.win>>] = q.drv]
            /\ Done(r)
         \/ /\ locks[<<s, q.win>>] # NoDriver
            /\ Goto(r, IF q.cand = {s} THEN Idle ELSE [q EXCEPT !.cand = @ \ {s}])
            /\ UNCHANGED locks
  /\ UNCHANGED <<now, instant, bk, orders>>

\* The TTL of a key runs out (a refresh only postpones this).
Expire(k) ==
  /\ locks[k] # NoDriver
  /\ LockOutlivesHandler =>
       ~ \E r \in Requests : /\ reqs[r].op \in {"createCheck", "createInsert", "releaseDel"}
                             /\ <<reqs[r].slot, reqs[r].win>> = k
  /\ locks' = [locks EXCEPT ![k] = NoDriver]
  /\ UNCHANGED <<now, instant, bk, orders, reqs>>

-----------------------------------------------------------------------------
\* DELETE /bookings/lock: GET and owner check, then DEL.

ReleaseGet(r, d, s, w) ==
  /\ Starts(r, "release")
  /\ locks[<<s, w>>] = d
  /\ Goto(r, [op |-> "releaseDel", drv |-> d, slot |-> s, win |-> w])
  /\ UNCHANGED <<now, instant, locks, bk, orders>>

ReleaseDel(r) ==
  /\ At(r, "releaseDel")
  /\ locks' = [locks EXCEPT ![<<reqs[r].slot, reqs[r].win>>] = NoDriver]
  /\ Done(r)
  /\ UNCHANGED <<now, instant, bk, orders>>

-----------------------------------------------------------------------------
\* POST /bookings: lock owner, availability without lock scan, insert.

CreateOwner(r, d, s, w) ==
  /\ Starts(r, "create")
  /\ locks[<<s, w>>] = d
  /\ Goto(r, [op |-> "createCheck", drv |-> d, slot |-> s, win |-> w])
  /\ UNCHANGED <<now, instant, locks, bk, orders>>

CreateCheck(r) ==
  /\ At(r, "createCheck")
  /\ LET q == reqs[r] IN
       Goto(r, IF \A c \in BookedIn(q.win) : bk[c].slot # q.slot
               THEN [q EXCEPT !.op = "createInsert"] ELSE Idle)
  /\ UNCHANGED <<now, instant, locks, bk, orders>>

CreateInsert(r, b) ==
  /\ At(r, "createInsert")
  /\ bk[b] = NoBooking
  /\ LET q == reqs[r] IN
       Save(b, [status |-> "pending", drv |-> q.drv, slot |-> q.slot,
                win |-> q.win, pay |-> "none"])
  /\ Done(r)
  /\ UNCHANGED <<now, instant, locks, orders>>

-----------------------------------------------------------------------------
\* PATCH /bookings/:id: a new end for a pending booking nobody has paid for.

ModifyRead(r, b, w) ==
  /\ Starts(r, "modify")
  /\ bk[b].status = "pending"
  /\ bk[b].pay \in {"none", "failed"}
  /\ w.start = bk[b].win.start
  /\ SlotCheck(bk[b].slot, w, b)
  /\ Goto(r, [op |-> "modifyWrite", bk |-> b, win |-> w])
  /\ UNCHANGED <<now, instant, locks, bk, orders>>

ModifyWrite(r) ==
  /\ At(r, "modifyWrite")
  /\ LET b == reqs[r].bk IN Save(b, [bk[b] EXCEPT !.win = reqs[r].win])
  /\ Done(r)
  /\ UNCHANGED <<now, instant, locks, orders>>

-----------------------------------------------------------------------------
\* Payment, as far as the calendar is concerned.

InitiatePayment(r, b) ==
  /\ Starts(r, "pay")
  /\ bk[b].status = "pending" /\ bk[b].pay \in {"none", "failed"}
  /\ bk' = [bk EXCEPT ![b].pay = "initiated"]
  /\ UNCHANGED <<now, instant, locks, orders, reqs>>

\* The gateway reports the charge: the booking and its space are read ...
ConfirmRead(r, b) ==
  /\ Starts(r, "pay")
  /\ bk[b] # NoBooking /\ bk[b].pay # "none"
  /\ Goto(r, [op |-> "confirmWrite", bk |-> b,
              firm |-> bk[b].status = "pending" /\ instant])
  /\ UNCHANGED <<now, instant, locks, bk, orders>>

\* ... and written on the strength of what was read, in one transaction.
ConfirmWrite(r) ==
  /\ At(r, "confirmWrite")
  /\ LET q == reqs[r] IN
       Save(q.bk, [bk[q.bk] EXCEPT !.pay = "completed",
                                   !.status = IF q.firm THEN "confirmed" ELSE @])
  /\ Done(r)
  /\ UNCHANGED <<now, instant, locks, orders>>

\* PATCH /host/bookings/:id/approve
ApproveRead(r, b) ==
  /\ Starts(r, "approve")
  /\ bk[b].status = "pending" /\ ~instant
  /\ bk[b].pay = "completed"
  /\ Goto(r, [op |-> "approveWrite", bk |-> b])
  /\ UNCHANGED <<now, instant, locks, bk, orders>>

ApproveWrite(r) ==
  /\ At(r, "approveWrite")
  /\ LET b == reqs[r].bk IN Save(b, [bk[b] EXCEPT !.status = "confirmed"])
  /\ Done(r)
  /\ UNCHANGED <<now, instant, locks, orders>>

-----------------------------------------------------------------------------
\* Cancellation.

\* Mutant: the update does not test the status.
CancelByDriverAnything(r, b) ==
  /\ Starts(r, "cancel")
  /\ bk' = [bk EXCEPT ![b].status = "cancelled"]
  /\ UNCHANGED <<now, instant, locks, orders, reqs>>

\* POST /bookings/:id/cancel: the status is tested again by the update itself.
CancelByDriver(r, b) ==
  /\ Starts(r, "cancel")
  /\ bk[b].status \in {"pending", "confirmed", "active"}
  /\ bk' = [bk EXCEPT ![b].status = "cancelled"]
  /\ UNCHANGED <<now, instant, locks, orders, reqs>>

\* PATCH /host/bookings/:id/reject and POST /host/bookings/:id/cancel test the
\* status they read and then write unconditionally.
RejectRead(r, b) ==
  /\ Starts(r, "reject")
  /\ bk[b].status = "pending" /\ ~instant
  /\ Goto(r, [op |-> "cancelWrite", bk |-> b])
  /\ UNCHANGED <<now, instant, locks, bk, orders>>

HostCancelRead(r, b) ==
  /\ Starts(r, "hostCancel")
  /\ bk[b].status \in {"confirmed", "active"}
  /\ Goto(r, [op |-> "cancelWrite", bk |-> b])
  /\ UNCHANGED <<now, instant, locks, bk, orders>>

CancelWrite(r) ==
  /\ At(r, "cancelWrite")
  /\ bk' = [bk EXCEPT ![reqs[r].bk].status = "cancelled"]
  /\ Done(r)
  /\ UNCHANGED <<now, instant, locks, orders>>

-----------------------------------------------------------------------------
\* Extension of an active booking: the order is checked, the payment is not.

ExtendOrder(r, b, w) ==
  /\ Starts(r, "extend")
  /\ Cardinality(orders) < MaxOrders
  /\ bk[b].status = "active"
  /\ w.start = bk[b].win.start /\ w.end > bk[b].win.end
  /\ SlotCheck(bk[b].slot, [start |-> bk[b].win.end, end |-> w.end], b)
  /\ orders' = orders \cup {[bk |-> b, win |-> w]}
  /\ UNCHANGED <<now, instant, locks, bk, reqs>>

ExtendVerify(r, o) ==
  /\ Starts(r, "extend")
  /\ LET row == [bk[o.bk] EXCEPT !.win = o.win] IN
       /\ Save(o.bk, row)
       /\ orders' = IF ExcludeHolds(o.bk, row) THEN orders \ {o} ELSE orders
  /\ UNCHANGED <<now, instant, locks, reqs>>

-----------------------------------------------------------------------------
\* Cron jobs.

\* auto-cancel-unconfirmed finds unpaid pending bookings that are old enough
\* (their age is not modelled) and cancels them one by one.
SweepCancelFind(r, B) ==
  /\ Starts(r, "sweepCancel")
  /\ B # {} /\ \A b \in B : bk[b].status = "pending" /\ bk[b].pay # "completed"
  /\ Goto(r, [op |-> "sweepCancel", todo |-> B])
  /\ UNCHANGED <<now, instant, locks, bk, orders>>

SweepNext(r, b) ==
  Goto(r, IF reqs[r].todo = {b} THEN Idle ELSE [reqs[r] EXCEPT !.todo = @ \ {b}])

SweepCancelOne(r, b) ==
  /\ At(r, "sweepCancel") /\ b \in reqs[r].todo
  /\ bk' = [bk EXCEPT ![b].status = "cancelled",
                      ![b].pay = IF @ = "initiated" THEN "failed" ELSE @]
  /\ SweepNext(r, b)
  /\ UNCHANGED <<now, instant, locks, orders>>

\* process-booking-completion
CompleteFind(r) ==
  /\ Starts(r, "complete")
  /\ LET B == {b \in Bookings : bk[b].status = "active" /\ bk[b].win.end < now} IN
       B # {} /\ Goto(r, [op |-> "sweepComplete", todo |-> B])
  /\ UNCHANGED <<now, instant, locks, bk, orders>>

CompleteOne(r, b) ==
  /\ At(r, "sweepComplete") /\ b \in reqs[r].todo
  /\ bk' = [bk EXCEPT ![b].status = "completed"]
  /\ SweepNext(r, b)
  /\ UNCHANGED <<now, instant, locks, orders>>

\* activate-confirmed-bookings and detect-no-shows: one guarded updateMany each.
Activate(r) ==
  LET B == {b \in Bookings : bk[b].status = "confirmed" /\ bk[b].win.start <= now} IN
  /\ Starts(r, "activate") /\ B # {}
  /\ bk' = [b \in Bookings |-> IF b \in B THEN [bk[b] EXCEPT !.status = "active"] ELSE bk[b]]
  /\ UNCHANGED <<now, instant, locks, orders, reqs>>

DetectNoShows(r) ==
  LET B == {b \in Bookings : bk[b].status = "confirmed" /\ bk[b].win.start < now - NoShowGrace} IN
  /\ Starts(r, "noShow") /\ B # {}
  /\ bk' = [b \in Bookings |-> IF b \in B THEN [bk[b] EXCEPT !.status = "no_show"] ELSE bk[b]]
  /\ UNCHANGED <<now, instant, locks, orders, reqs>>

\* PATCH /host/spaces/:id
ToggleInstant ==
  /\ "toggle" \in Ops
  /\ instant' = ~instant
  /\ UNCHANGED <<now, locks, bk, orders, reqs>>

Tick ==
  /\ now < LastTick
  /\ now' = now + 1
  /\ UNCHANGED <<instant, locks, bk, orders, reqs>>

-----------------------------------------------------------------------------
Init ==
  /\ now = 0 /\ instant \in BOOLEAN
  /\ locks = [k \in LockKeys |-> NoDriver]
  /\ bk = [b \in Bookings |-> NoBooking]
  /\ orders = {}
  /\ reqs = [r \in Requests |-> Idle]

LockStep(r) ==
  \/ \E d \in Drivers, w \in Windows, want \in {{s} : s \in Slots} \cup {Slots} : LockQuery(r, d, w, want)
  \/ LockScan(r)
  \/ LockSet(r)
  \/ \E d \in Drivers, s \in Slots, w \in Windows : ReleaseGet(r, d, s, w)
  \/ ReleaseDel(r)

BookingStep(r) ==
  \/ \E d \in Drivers, s \in Slots, w \in Windows : CreateOwner(r, d, s, w)
  \/ CreateCheck(r)
  \/ \E b \in Bookings : CreateInsert(r, b)
  \/ \E b \in Bookings, w \in Windows : ModifyRead(r, b, w)
  \/ ModifyWrite(r)
  \/ \E b \in Bookings : InitiatePayment(r, b) \/ ConfirmRead(r, b) \/ ApproveRead(r, b)
  \/ ConfirmWrite(r)
  \/ ApproveWrite(r)
  \/ \E b \in Bookings : CancelByDriver(r, b) \/ RejectRead(r, b) \/ HostCancelRead(r, b)
  \/ CancelWrite(r)
  \/ \E b \in Bookings, w \in Windows : ExtendOrder(r, b, w)
  \/ \E o \in orders : ExtendVerify(r, o)

CronStep(r) ==
  \/ \E B \in SUBSET Bookings : SweepCancelFind(r, B)
  \/ CompleteFind(r)
  \/ \E b \in Bookings : SweepCancelOne(r, b) \/ CompleteOne(r, b)
  \/ Activate(r)
  \/ DetectNoShows(r)

Next ==
  \/ \E r \in Requests : LockStep(r) \/ BookingStep(r) \/ CronStep(r)
  \/ \E k \in LockKeys : Expire(k)
  \/ ToggleInstant
  \/ Tick

Spec == Init /\ [][Next]_vars

-----------------------------------------------------------------------------
\* Properties.

\* No two firm bookings of a slot share an instant, whatever interleaving of
\* payment, approval, modification, extension and the cron jobs produced them.
NoDoubleBooking ==
  \A b, c \in Bookings :
    /\ b # c
    /\ bk[b].status \in {"confirmed", "active"} /\ bk[c].status \in {"confirmed", "active"}
    /\ bk[b].slot = bk[c].slot
    => bk[b].win.end <= bk[c].win.start \/ bk[c].win.end <= bk[b].win.start

\* The rows the constraint looks at, seen as the abstract calendar.
Firm(b) == IF IsFirm(b) THEN {[slot |-> bk[b].slot, win |-> bk[b].win]} ELSE {}

Calendar == INSTANCE SlotCalendar WITH calendar <- [b \in Bookings |-> Firm(b)]

\* Every write of every handler reserves, resizes or releases in the calendar,
\* or leaves it alone: the reservation code implements SlotCalendar.
ImplementsCalendar == Calendar!CalSpec

\* Live bookings of a slot keep the buffer between them, the pending ones too.
LiveApart ==
  \A b, c \in Bookings :
    b # c /\ IsLive(b) /\ IsLive(c) /\ bk[b].slot = bk[c].slot
      => ~Overlap(bk[b].win, Buffered(bk[c].win))

\* While locks outlive the handlers that read them, two drivers never both have
\* a live booking of the same slot for exactly the same window.
OneDriverPerWindow ==
  \A b, c \in Bookings :
    IsLive(b) /\ IsLive(c) /\ bk[b].slot = bk[c].slot /\ bk[b].win = bk[c].win
      => bk[b].drv = bk[c].drv

=============================================================================
