----------------------------- MODULE HostSpaces -----------------------------
(***************************************************************************)
(* One space of a host: the identity documents that let him list it, its   *)
(* review by an administrator, its slots, and the bookings that stand on   *)
(* the slots.                                                              *)
(*                                                                         *)
(* Every handler reads what its guards need, and writes by identifier.     *)
(* The database adds three things to that: slot numbers are unique in a    *)
(* space, a booking's slot must exist, and a slot that a booking names     *)
(* cannot be deleted (slot_id references parking_slots without ON DELETE). *)
(*                                                                         *)
(* All bookings here are for the same hours, so one slot takes one; which  *)
(* hours clash is in SlotReservation.                                      *)
(***************************************************************************)
EXTENDS Handlers   \* a workload is [ops, crew, crashes, ready, booked]

CONSTANTS
  NDocs,       \* bound on identity documents
  DocTypes,    \* types of identity documents
  MinPhotos,   \* photos that a listing needs (3 in submitSpace)
  MaxCapacity, \* bound on a space's capacity
  NSlots,      \* bound on slots ever made
  Numbers,     \* slot numbers a host may choose, 1..MaxCapacity being "Slot 1", "Slot 2", ...
  NBookings    \* bound on bookings

\* ops is a subset of {"kyc", "decide", "create", "capacity", "photo", "price", "submit",
\* "approve", "wizard", "images", "pause", "remove", "slot", "flip", "dropSlot", "lock", "book", "end"}.
ASSUME SpacesAssumption ==
  /\ \A w \in Workloads :
       /\ w.ready \in BOOLEAN /\ w.booked \in 0..NBookings
       /\ w.booked > 0 => w.ready
  /\ {NDocs, MinPhotos, MaxCapacity, NSlots, NBookings} \subseteq Nat \ {0}
  /\ 1..MaxCapacity \subseteq Numbers /\ Numbers \subseteq Nat /\ DocTypes # {}

Docs     == 1..NDocs
Slots    == 1..NSlots
Bookings == 1..NBookings
Statuses == {"draft", "pending_review", "active", "paused", "rejected", "deleted"}

VARIABLES
  doc,      \* rows of kyc_documents, in the order they were made
  space,    \* the row of parking_spaces, with the count of its photos and whether it has prices;
            \* located is its location, mapped its geohash
  slot,     \* rows of parking_slots
  locks,    \* slots locked for the checkout of a driver
  booking,  \* rows of bookings
  seal      \* history: whose doing the space is, a verified host's and an administrator's,
            \* and whether the wizard made it

vars == <<load, doc, space, slot, locks, booking, seal, reqs, crashes>>

-----------------------------------------------------------------------------
NoSpace == [st |-> "none", capacity |-> 0, photos |-> 0, priced |-> FALSE,
            located |-> FALSE, mapped |-> FALSE]

Rows(s)   == slot[s].row = "live"
Active    == {s \in Slots : Rows(s) /\ slot[s].active}
Taken     == {slot[s].number : s \in {t \in Slots : Rows(t)}}
Open(b)   == booking[b].st = "open"
Listed    == space.st \in {"active", "paused"}
Shown     == space.st = "active"        \* on its page: getSpaceDetail
Found     == Shown /\ space.located     \* by a search near it, whose filters only narrow this
Verified  == \E d \in Docs : /\ doc[d].st = "approved"
                             /\ \A e \in Docs : e > d => doc[e].st = "none"

\* The first row of a table that has not been used.
Unused(row(_), n) == {k \in 1..n : row(k) = "none" /\ \A j \in 1..(k - 1) : row(j) # "none"}
NextDoc     == Unused(LAMBDA d : doc[d].st, NDocs)
NextBooking == Unused(LAMBDA b : booking[b].st, NBookings)
FreeSlots   == {s \in Slots : slot[s].row = "none"}

NewSlot(n) == [row |-> "live", number |-> n, active |-> TRUE]
\* slot' for new rows with the given numbers, in the order of the numbers.
WithSlots(numbers) ==
  LET first == NSlots - Cardinality(FreeSlots)
      nth(k) == CHOOSE n \in numbers : Cardinality({m \in numbers : m < n}) = k - 1
  IN [s \in Slots |-> IF s - first \in 1..Cardinality(numbers) THEN NewSlot(nth(s - first))
                      ELSE slot[s]]

-----------------------------------------------------------------------------
(***************************************************************************)
(* Identity documents.  One of each type may wait for an administrator.    *)
(***************************************************************************)
KycRead(r, t) ==
  /\ Starts(r, "kyc") /\ ~\E d \in Docs : doc[d] = [st |-> "pending", type |-> t]
  /\ Goto(r, [op |-> "kycWrite", type |-> t])
  /\ UNCHANGED <<load, doc, space, slot, locks, booking, seal, crashes>>

KycWrite(r) ==
  /\ At(r, "kycWrite")
  /\ \/ NextDoc = {} /\ UNCHANGED doc
     \/ \E d \in NextDoc : doc' = [doc EXCEPT ![d] = [st |-> "pending", type |-> reqs[r].type]]
  /\ Done(r)
  /\ UNCHANGED <<load, space, slot, locks, booking, seal, crashes>>

DecideRead(r, d, st) ==
  /\ Starts(r, "decide") /\ doc[d].st = "pending"
  /\ Goto(r, [op |-> "decideWrite", doc |-> d, st |-> st])
  /\ UNCHANGED <<load, doc, space, slot, locks, booking, seal, crashes>>

DecideWrite(r) ==
  /\ At(r, "decideWrite")
  /\ doc' = [doc EXCEPT ![reqs[r].doc].st = reqs[r].st]
  /\ Done(r)
  /\ UNCHANGED <<load, space, slot, locks, booking, seal, crashes>>

-----------------------------------------------------------------------------
(***************************************************************************)
(* The listing.  A space is created with its slots in one transaction and  *)
(* put on the map by a statement of its own.                               *)
(***************************************************************************)
CreateRead(r, n) ==
  /\ Starts(r, "create") /\ space.st = "none" /\ Verified
  /\ Goto(r, [op |-> "createWrite", n |-> n, verified |-> Verified])
  /\ UNCHANGED <<load, doc, space, slot, locks, booking, seal, crashes>>

CreateWrite(r) ==
  /\ At(r, "createWrite")
  /\ IF space.st = "none"
     THEN /\ space' = [NoSpace EXCEPT !.st = "draft", !.capacity = reqs[r].n, !.mapped = TRUE]
          /\ slot' = WithSlots(1..reqs[r].n)
          /\ seal' = [seal EXCEPT !.verified = reqs[r].verified]
          /\ Goto(r, [op |-> "locate"])
     ELSE Done(r) /\ UNCHANGED <<space, slot, seal>>
  /\ UNCHANGED <<load, doc, locks, booking, crashes>>

SetLocation(r) ==
  /\ At(r, "locate")
  /\ space' = [space EXCEPT !.located = TRUE, !.mapped = TRUE]
  /\ Done(r)
  /\ UNCHANGED <<load, doc, slot, locks, booking, seal, crashes>>

\* The wizard's own route asks for no documents and makes the row, its place and its
\* photos in one transaction, without slots and without a geohash.
CreateParkingSpace(r, n, photos) ==
  /\ Starts(r, "wizard") /\ space.st = "none"
  /\ space' = [NoSpace EXCEPT !.st = "draft", !.capacity = n, !.photos = photos, !.located = TRUE]
  /\ seal' = [seal EXCEPT !.verified = Verified, !.wizard = TRUE]
  /\ UNCHANGED <<load, doc, slot, locks, booking, reqs, crashes>>

\* A new capacity leaves the slots there are alone; a new place is set separately.
UpdateSpace(r, n, moves) ==
  /\ Starts(r, "capacity") /\ space.st # "none" /\ n # space.capacity
  /\ space' = [space EXCEPT !.capacity = n]
  /\ IF moves THEN Goto(r, [op |-> "locate"]) ELSE Done(r)
  /\ UNCHANGED <<load, doc, slot, locks, booking, seal, crashes>>

AddPhoto(r) ==
  /\ Starts(r, "photo") /\ space.st # "none" /\ space.photos < MinPhotos
  /\ space' = [space EXCEPT !.photos = @ + 1]
  /\ UNCHANGED <<load, doc, slot, locks, booking, seal, reqs, crashes>>

RemovePhoto(r) ==
  /\ Starts(r, "photo") /\ space.photos > 0
  /\ space' = [space EXCEPT !.photos = @ - 1]
  /\ UNCHANGED <<load, doc, slot, locks, booking, seal, reqs, crashes>>

\* The wizard's photos, several at once, in any status of the space.  The files are stored
\* one by one; if one fails, those that were stored go again and no row is written.
UploadRead(r, n) ==
  /\ Starts(r, "images") /\ space.st # "none" /\ space.photos + n <= MinPhotos
  /\ Goto(r, [op |-> "upload", n |-> n])
  /\ UNCHANGED <<load, doc, space, slot, locks, booking, seal, crashes>>

UploadWrite(r) ==
  /\ At(r, "upload")
  /\ \/ space.photos + reqs[r].n <= MinPhotos /\ space' = [space EXCEPT !.photos = @ + reqs[r].n]
     \/ UNCHANGED space
  /\ Done(r)
  /\ UNCHANGED <<load, doc, slot, locks, booking, seal, crashes>>

DeleteImages(r, n) ==
  /\ Starts(r, "images") /\ space.st # "none" /\ n <= space.photos
  /\ space' = [space EXCEPT !.photos = @ - n]
  /\ UNCHANGED <<load, doc, slot, locks, booking, seal, reqs, crashes>>

\* Rules are replaced as a whole, by at least one.
SetPricing(r) ==
  /\ Starts(r, "price") /\ space.st # "none" /\ ~space.priced
  /\ space' = [space EXCEPT !.priced = TRUE]
  /\ UNCHANGED <<load, doc, slot, locks, booking, seal, reqs, crashes>>

-----------------------------------------------------------------------------
(***************************************************************************)
(* The space's status: read, compared, and written whatever it is by then. *)
(***************************************************************************)
Status(r, st) == Goto(r, [op |-> "status", st |-> st])

SubmitRead(r) ==
  /\ Starts(r, "submit") /\ space.st \in {"draft", "rejected"}
  /\ space.photos >= MinPhotos /\ space.priced /\ space.mapped
  /\ Status(r, "pending_review")
  /\ UNCHANGED <<load, doc, space, slot, locks, booking, seal, crashes>>

\* approveSpace and rejectSpace.
ReviewRead(r, st) ==
  /\ Starts(r, "approve") /\ space.st = "pending_review"
  /\ Status(r, st)
  /\ UNCHANGED <<load, doc, space, slot, locks, booking, seal, crashes>>

PauseRead(r) ==
  /\ Starts(r, "pause") /\ space.st = "active"
  /\ Status(r, "paused")
  /\ UNCHANGED <<load, doc, space, slot, locks, booking, seal, crashes>>

UnpauseRead(r) ==
  /\ Starts(r, "pause") /\ space.st = "paused"
  /\ Goto(r, [op |-> "resume"])
  /\ UNCHANGED <<load, doc, space, slot, locks, booking, seal, crashes>>

UnpauseWrite(r) ==
  /\ At(r, "resume")
  /\ space' = [space EXCEPT !.st = "active"]
  /\ Done(r)
  /\ UNCHANGED <<load, doc, slot, locks, booking, seal, crashes>>

RemoveRead(r) ==
  /\ Starts(r, "remove") /\ space.st # "none" /\ \A b \in Bookings : ~Open(b)
  /\ Status(r, "deleted")
  /\ UNCHANGED <<load, doc, space, slot, locks, booking, seal, crashes>>

StatusWrite(r) ==
  /\ At(r, "status")
  /\ space' = [space EXCEPT !.st = reqs[r].st]
  /\ seal' = [seal EXCEPT !.approved = @ \/ reqs[r].st = "active"]
  /\ Done(r)
  /\ UNCHANGED <<load, doc, slot, locks, booking, crashes>>

-----------------------------------------------------------------------------
(***************************************************************************)
(* Slots.                                                                  *)
(***************************************************************************)
\* Mutant: every slot counts except the one that is added.
SlotReadByOne(r, n) ==
  /\ Starts(r, "slot") /\ space.st # "none" /\ Cardinality(Active) <= space.capacity
  /\ Goto(r, [op |-> "slotWrite", n |-> n])
  /\ UNCHANGED <<load, doc, space, slot, locks, booking, seal, crashes>>

SlotRead(r, n) ==
  /\ Starts(r, "slot") /\ space.st # "none" /\ Cardinality(Active) < space.capacity
  /\ Goto(r, [op |-> "slotWrite", n |-> n])
  /\ UNCHANGED <<load, doc, space, slot, locks, booking, seal, crashes>>

SlotWrite(r) ==
  /\ At(r, "slotWrite")
  /\ slot' = IF reqs[r].n \in Taken \/ FreeSlots = {} THEN slot ELSE WithSlots({reqs[r].n})
  /\ Done(r)
  /\ UNCHANGED <<load, doc, space, locks, booking, seal, crashes>>

\* Switching a slot on counts the other slots; switching it off, or giving it another
\* number, does not.
FlipRead(r, s, active, n) ==
  /\ Starts(r, "flip") /\ Rows(s)
  /\ active => Cardinality(Active \ {s}) < space.capacity
  /\ Goto(r, [op |-> "flipWrite", s |-> s, active |-> active, n |-> n])
  /\ UNCHANGED <<load, doc, space, slot, locks, booking, seal, crashes>>

FlipWrite(r) ==
  /\ At(r, "flipWrite")
  /\ LET q == reqs[r]
         clash == \E t \in Slots \ {q.s} : Rows(t) /\ slot[t].number = q.n
     IN slot' = IF Rows(q.s) /\ ~clash
                THEN [slot EXCEPT ![q.s] = [@ EXCEPT !.active = q.active, !.number = q.n]] ELSE slot
  /\ Done(r)
  /\ UNCHANGED <<load, doc, space, locks, booking, seal, crashes>>

\* Bookings that have ended do not count here, whatever their status.
DropRead(r, s) ==
  /\ Starts(r, "dropSlot") /\ Rows(s)
  /\ ~\E b \in Bookings : Open(b) /\ booking[b].slot = s /\ booking[b].due
  /\ Goto(r, [op |-> "dropWrite", s |-> s])
  /\ UNCHANGED <<load, doc, space, slot, locks, booking, seal, crashes>>

\* Mutant: the bookings' foreign key does not hold the row.
DropWriteUnheld(r) ==
  /\ At(r, "dropWrite")
  /\ slot' = IF Rows(reqs[r].s) THEN [slot EXCEPT ![reqs[r].s].row = "deleted"] ELSE slot
  /\ Done(r)
  /\ UNCHANGED <<load, doc, space, locks, booking, seal, crashes>>

\* The row stays if any booking names it, even one that is over.
DropWrite(r) ==
  /\ At(r, "dropWrite")
  /\ slot' = IF Rows(reqs[r].s) /\ \A b \in Bookings : booking[b].slot # reqs[r].s
             THEN [slot EXCEPT ![reqs[r].s].row = "deleted"] ELSE slot
  /\ Done(r)
  /\ UNCHANGED <<load, doc, space, locks, booking, seal, crashes>>

-----------------------------------------------------------------------------
(***************************************************************************)
(* A driver's checkout: availability, the lock, the booking.  A space that *)
(* has no active slot gets those it should have, unless their numbers are  *)
(* taken.                                                                  *)
(***************************************************************************)
AskSlots(r) ==
  /\ Starts(r, "lock") /\ space.st = "active"
  /\ Goto(r, IF Active = {} THEN [op |-> "heal", n |-> space.capacity]
                            ELSE [op |-> "choose", slots |-> Active])
  /\ UNCHANGED <<load, doc, space, slot, locks, booking, seal, crashes>>

Heal(r) ==
  /\ At(r, "heal")
  /\ LET missing == 1..reqs[r].n \ Taken IN
     /\ Cardinality(missing) <= Cardinality(FreeSlots)
     /\ slot' = WithSlots(missing)
     /\ Goto(r, [op |-> "choose", slots |-> {s \in Slots : slot'[s].row = "live" /\ slot'[s].active}])
  /\ UNCHANGED <<load, doc, space, locks, booking, seal, crashes>>

\* The bound on slots is reached.
HealNoRoom(r) ==
  /\ At(r, "heal") /\ Cardinality(1..reqs[r].n \ Taken) > Cardinality(FreeSlots)
  /\ Done(r)
  /\ UNCHANGED <<load, doc, space, slot, locks, booking, seal, crashes>>

Busy(s) == \E b \in Bookings : Open(b) /\ booking[b].slot = s /\ booking[b].due

LockSlot(r) ==
  /\ At(r, "choose")
  /\ LET free == {s \in reqs[r].slots \ locks : ~Busy(s)} IN
     \/ \E s \in free : locks' = locks \cup {s}
     \/ free = {} /\ UNCHANGED locks
  /\ Done(r)
  /\ UNCHANGED <<load, doc, space, slot, booking, seal, crashes>>

LockExpires(s) ==
  /\ s \in locks
  /\ locks' = locks \ {s}
  /\ UNCHANGED <<load, doc, space, slot, booking, seal, reqs, crashes>>

\* Mutant: the status of the space is not looked at again.
BookCheckLocked(r, s) ==
  /\ Starts(r, "book") /\ s \in locks /\ ~Busy(s)
  /\ Goto(r, [op |-> "insert", s |-> s])
  /\ UNCHANGED <<load, doc, space, slot, locks, booking, seal, crashes>>

\* checkSlotAvailability looks at the space and the slot's bookings, not at the slot.
BookCheck(r, s) ==
  /\ Starts(r, "book") /\ s \in locks /\ ~Busy(s) /\ space.st = "active"
  /\ Goto(r, [op |-> "insert", s |-> s])
  /\ UNCHANGED <<load, doc, space, slot, locks, booking, seal, crashes>>

\* The slot must be there, and the exclusion constraint keeps its bookings apart.
BookInsert(r) ==
  /\ At(r, "insert")
  /\ \/ /\ Rows(reqs[r].s) /\ ~Busy(reqs[r].s)
        /\ \E b \in NextBooking :
             booking' = [booking EXCEPT ![b] = [st |-> "open", slot |-> reqs[r].s, due |-> TRUE]]
     \/ (~Rows(reqs[r].s) \/ Busy(reqs[r].s) \/ NextBooking = {}) /\ UNCHANGED booking
  /\ Done(r)
  /\ UNCHANGED <<load, doc, space, slot, locks, seal, crashes>>

\* The hours of a booking go by; it is completed, cancelled or missed, before or after.
HoursPass(b) ==
  /\ "end" \in load.ops /\ Open(b) /\ booking[b].due
  /\ booking' = [booking EXCEPT ![b].due = FALSE]
  /\ UNCHANGED <<load, doc, space, slot, locks, seal, reqs, crashes>>

BookingOver(b) ==
  /\ "end" \in load.ops /\ Open(b)
  /\ booking' = [booking EXCEPT ![b] = [@ EXCEPT !.st = "over", !.due = FALSE]]
  /\ UNCHANGED <<load, doc, space, slot, locks, seal, reqs, crashes>>

\* Only a new space's second statement makes a difference to what is left behind.
Crash(r) ==
  /\ Stops(r)
  /\ UNCHANGED <<load, doc, space, slot, locks, booking, seal>>

-----------------------------------------------------------------------------
\* A workload starts from nothing, from a host with a listed space of one slot, or when
\* the hours of the bookings of that slot have gone by.
Init ==
  /\ load \in Workloads
  /\ doc = [d \in Docs |-> IF load.ready /\ d = 1 THEN [st |-> "approved", type |-> CHOOSE t \in DocTypes : TRUE]
                           ELSE [st |-> "none", type |-> CHOOSE t \in DocTypes : TRUE]]
  /\ space = IF load.ready
             THEN [st |-> "active", capacity |-> 1, photos |-> MinPhotos, priced |-> TRUE,
                   located |-> TRUE, mapped |-> TRUE]
             ELSE NoSpace
  /\ slot = [s \in Slots |-> IF load.ready /\ s = 1 THEN NewSlot(1)
                             ELSE [row |-> "none", number |-> 0, active |-> FALSE]]
  /\ locks = {}
  /\ booking = [b \in Bookings |-> IF b <= load.booked THEN [st |-> "open", slot |-> 1, due |-> FALSE]
                                   ELSE [st |-> "none", slot |-> 0, due |-> FALSE]]
  /\ seal = [verified |-> load.ready, approved |-> load.ready, wizard |-> FALSE]
  /\ reqs = [r \in Requests |-> Idle]
  /\ crashes = 0

Arrive(r) ==
  \/ \E t \in DocTypes : KycRead(r, t)
  \/ \E d \in Docs, st \in {"approved", "rejected"} : DecideRead(r, d, st)
  \/ \E n \in 1..MaxCapacity, moves \in BOOLEAN : UpdateSpace(r, n, moves)
  \/ \E n \in 1..MaxCapacity : CreateRead(r, n)
  \/ \E n \in 1..MaxCapacity, photos \in 0..MinPhotos : CreateParkingSpace(r, n, photos)
  \/ AddPhoto(r) \/ RemovePhoto(r) \/ SetPricing(r)
  \/ \E n \in 1..MinPhotos : UploadRead(r, n) \/ DeleteImages(r, n)
  \/ SubmitRead(r) \/ PauseRead(r) \/ UnpauseRead(r) \/ RemoveRead(r)
  \/ \E st \in {"active", "rejected"} : ReviewRead(r, st)
  \/ \E n \in Numbers : SlotRead(r, n)
  \/ \E s \in Slots, active \in BOOLEAN, n \in Numbers : FlipRead(r, s, active, n)
  \/ \E s \in Slots : DropRead(r, s) \/ BookCheck(r, s)
  \/ AskSlots(r)

Proceed(r) ==
  \/ KycWrite(r) \/ DecideWrite(r) \/ CreateWrite(r) \/ SetLocation(r) \/ UploadWrite(r)
  \/ UnpauseWrite(r) \/ StatusWrite(r) \/ SlotWrite(r) \/ FlipWrite(r) \/ DropWrite(r)
  \/ Heal(r) \/ HealNoRoom(r) \/ LockSlot(r) \/ BookInsert(r) \/ Crash(r)

Next ==
  \/ \E r \in Requests : Arrive(r) \/ Proceed(r)
  \/ \E s \in Slots : LockExpires(s)
  \/ \E b \in Bookings : HoursPass(b) \/ BookingOver(b)

Spec == Init /\ [][Next]_vars

-----------------------------------------------------------------------------
\* The rows, with what the database and the order of the reads see to in every
\* interleaving: slot numbers are unique, and a booking's slot is never gone, although
\* deleteSlot only looks for bookings that are still to come.
TypeOK ==
  /\ load \in Workloads
  /\ doc \in [Docs -> [st : {"none", "pending", "approved", "rejected"}, type : DocTypes]]
  /\ space \in [st : Statuses \cup {"none"}, capacity : 0..MaxCapacity, photos : 0..MinPhotos,
                priced : BOOLEAN, located : BOOLEAN, mapped : BOOLEAN]
  /\ slot \in [Slots -> [row : {"none", "live", "deleted"}, number : {0} \cup Numbers, active : BOOLEAN]]
  /\ locks \subseteq Slots
  /\ booking \in [Bookings -> [st : {"none", "open", "over"}, slot : {0} \cup Slots, due : BOOLEAN]]
  /\ seal \in [verified : BOOLEAN, approved : BOOLEAN, wizard : BOOLEAN]
  /\ crashes \in 0..MaxCrashes
  /\ \A s, t \in Slots : Rows(s) /\ Rows(t) /\ slot[s].number = slot[t].number => s = t
  /\ \A b \in Bookings : booking[b].st # "none" => Rows(booking[b].slot)

\* A space that drivers can see or have saved was approved by an administrator, and made by
\* a verified host unless the wizard made it, whatever was read stale on the way (createSpace,
\* createParkingSpace, submitSpace, approveSpace, rejectSpace, pauseSpace, unpauseSpace);
\* and if requests come one at a time and none stops half-way, a space that has a page is
\* found on the map, and one that can be saved has the geohash favourites go by (setLocation).
ListedIsReviewed ==
  /\ Listed => seal.approved /\ (seal.verified \/ seal.wizard)
  /\ OneAtATime /\ crashes = 0 => (Shown => Found) /\ (Listed => space.mapped)

\* A booking that is still to take place is in a space that has not been removed, when
\* requests come one at a time (deleteSpace counts the bookings, createBooking looks at
\* the space); racing, each misses the other.
OpenBookingIsServed ==
  OneAtATime => \A b \in Bookings : Open(b) => space.st \in {"active", "paused"}

\* No step of requests that come one at a time leaves more slots switched on than the
\* capacity of that moment, except by lowering the capacity (createSlot, updateSlot,
\* checkAvailability, updateSpace).
SlotsWithinCapacity ==
  [][OneAtATime /\ Cardinality(Active') > Cardinality(Active)
       => Cardinality(Active') <= space'.capacity]_vars
=============================================================================
