---------------------------- MODULE SlotCalendar ----------------------------
(***************************************************************************)
(* What the reservation part of the backend promises, without locks,       *)
(* handlers or payment: a calendar of firm reservations in which no slot   *)
(* is given twice for the same instant.  The promise is the one the EXCLUDE *)
(* constraint on the bookings table is there to keep.                      *)
(***************************************************************************)
EXTENDS Integers

CONSTANTS Slots,      \* parking slots
          Bookings,   \* booking identifiers
          Windows     \* the [start, end) windows that may be reserved

VARIABLE calendar     \* calendar[b]: the set holding b's firm reservation, or {}

Reservation == [slot : Slots, win : Windows]

\* Half-open ranges, as in tstzrange(start_time, end_time, '[)').
Overlap(v, w) == v.start < w.end /\ w.start < v.end

Clash(p, q) == p.slot = q.slot /\ Overlap(p.win, q.win)

\* Nobody but b itself holds a reservation that clashes with p.
FreeFor(b, p) == \A c \in Bookings \ {b} : \A q \in calendar[c] : ~Clash(p, q)

CalInit == calendar = [b \in Bookings |-> {}]

\* b obtains a firm reservation.
Reserve(b) ==
  /\ calendar[b] = {}
  /\ \E p \in Reservation :
       /\ FreeFor(b, p)
       /\ calendar' = [calendar EXCEPT ![b] = {p}]

\* b keeps its slot and its start, and ends at another time.
Resize(b) ==
  \E p \in calendar[b], q \in Reservation :
    /\ q.slot = p.slot
    /\ q.win.start = p.win.start
    /\ FreeFor(b, q)
    /\ calendar' = [calendar EXCEPT ![b] = {q}]

\* Any set of reservations ends or is given up.
Release(B) == calendar' = [b \in Bookings |-> IF b \in B THEN {} ELSE calendar[b]]

CalNext == \/ \E b \in Bookings : Reserve(b) \/ Resize(b)
           \/ \E B \in SUBSET Bookings : Release(B)

CalSpec == CalInit /\ [][CalNext]_calendar

\* No slot is promised to two bookings at once.
Exclusive ==
  \A b, c \in Bookings : b # c =>
     \A p \in calendar[b], q \in calendar[c] : ~Clash(p, q)

=============================================================================
