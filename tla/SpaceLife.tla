------------------------------ MODULE SpaceLife ------------------------------
(***************************************************************************)
(* A space from its host's first document to the last dispute about it:    *)
(* HostSpaces and AfterStay, on one server and one database.               *)
(*                                                                         *)
(* They share the handlers.  What joins them is the end of a booking,      *)
(* which takes it off the space and opens it to reviews and disputes.      *)
(***************************************************************************)
EXTENDS HostSpaces

CONSTANTS NTickets, Ratings, Price, Given   \* those of AfterStay

ASSUME LifeAssumption ==
  /\ NTickets \in Nat /\ Ratings \subseteq 1..5 /\ Price \in Nat \ {0}
  /\ Given \subseteq Nat \ {0} /\ Price \in Given

VARIABLES stay, earning, review, rating, ticket, dispute   \* those of AfterStay

After == INSTANCE AfterStay

before == <<doc, space, slot, locks, booking, seal>>
after  == <<stay, earning, review, rating, ticket, dispute>>

LifeInit == Init /\ After!Init

\* BookingOver and StayEnds are one write of the booking's row.
Ends(b, end, paid, back) == BookingOver(b) /\ After!StayEnds(b, end, paid, back)

LifeNext ==
  \/ /\ UNCHANGED after
     /\ \/ \E r \in Requests : Arrive(r) \/ Proceed(r)
        \/ \E s \in Slots : LockExpires(s)
        \/ \E b \in Bookings : HoursPass(b)
  \/ After!Step /\ UNCHANGED before
  \/ \E b \in Bookings, end \in After!Endings, paid \in {0, Price}, back \in 0..Price :
       Ends(b, end, paid, back)

LifeSpec == LifeInit /\ [][LifeNext]_<<vars, after>>

-----------------------------------------------------------------------------
\* The rows of both; and a stay is a booking that is over, so what is reviewed or
\* disputed still has its space and its slot.
LifeTypeOK ==
  /\ TypeOK /\ After!TypeOK
  /\ \A b \in Bookings :
       /\ stay[b].st # "none" <=> booking[b].st = "over"
       /\ review[b].st # "none" \/ dispute[b].st # "none" => Rows(booking[b].slot)

\* What drivers see and what they have booked: a listed space was made by a verified host,
\* approved and put on the map, and an open booking is in a space that is listed
\* (ListedIsReviewed, OpenBookingIsServed).
SpaceIsFit == ListedIsReviewed /\ OpenBookingIsServed

\* Of a disputed booking the host gets nothing more, and the driver what he paid at most and
\* the goodwill that was decided on (DisputedIsHeld, DisputeIsSettled of AfterStay).
DisputeIsFair == After!DisputedIsHeld /\ After!DisputeIsSettled

\* The stored rating is that of the reviews there are (RatingIsCurrent of AfterStay).
RatingIsCurrent == After!RatingIsCurrent
=============================================================================
