------------------------------ MODULE AfterStay ------------------------------
(***************************************************************************)
(* What follows a booking that is over: the driver's review and the rating *)
(* of the space that is kept from the reviews, the support ticket, and the *)
(* dispute with its settlement between driver and host.                    *)
(*                                                                         *)
(* The rating is a row of its own (platform_config, space_rating:<id>),    *)
(* computed after the answer by two statements.  A dispute is opened and   *)
(* resolved in one transaction each; the money moves after the second.     *)
(* Here a refund of the payment is one step; its statements are in         *)
(* BookingPayments.                                                        *)
(***************************************************************************)
EXTENDS Handlers

CONSTANTS
  NBookings,  \* bound on bookings
  NTickets,   \* bound on support tickets
  Ratings,    \* stars a review may give
  Price,      \* what each booking cost
  Given       \* amounts that a resolution may give; the code sets no bound to them

\* ops is a subset of {"review", "edit", "report", "withdraw", "respond", "ticket", "message",
\* "update", "dispute", "resolve", "release"}.
Endings == {"completed", "cancelled", "admin", "suspended"}
Kinds  == {"refund", "partial_refund", "credit", "no_action"}
Favour == Kinds \ {"no_action"}     \* the resolutions in favour of the driver

Stays   == 1..NBookings
Tickets == 1..NTickets

VARIABLES
  stay,     \* bookings that are over: how they ended, what was paid, what was given back of it
            \* (refunded) or beside it (returned), and the goodwill that was credited
  earning,  \* earning[b]: status of the host's earning; "none" where there is no row
  review,   \* rows of reviews with their answers
  rating,   \* the reviews that the stored rating was computed from; {} without one, or with none
  ticket,   \* rows of support_tickets and what audit_logs has of them
  dispute   \* rows of disputes; granted is history: the goodwill that was decided on
            \* (a refund or a credit that throws counts as one of the crashes)

desk == <<ticket, dispute>>
vars == <<load, stay, earning, review, rating, desk, reqs, crashes>>

-----------------------------------------------------------------------------
NoReview  == [st |-> "none", stars |-> 0, answered |-> FALSE]
NoTicket  == [st |-> "none", stay |-> 0, log |-> {}]
NoDispute == [st |-> "none", ticket |-> 0, how |-> "none", granted |-> 0]
NoStay    == [st |-> "none", end |-> "none", paid |-> 0, refunded |-> 0, returned |-> 0,
              credited |-> 0]

\* The rows that the rating is computed from.
Counted     == {<<b, review[b].stars>> : b \in {c \in Stays : review[c].st = "active"}}
NextTicket  == {t \in Tickets : ticket[t].st = "none" /\ \A u \in 1..(t - 1) : ticket[u].st # "none"}
Refundable(b) == stay[b].refunded < stay[b].paid

(***************************************************************************)
(* A booking comes to an end.  What a cancellation refunds, nothing, a     *)
(* half or all, depends on who cancels and when (calculateRefundAmount),   *)
(* and so does what becomes of the earning.  The suspension of a driver    *)
(* credits the price, paid or not, and writes nothing into the payment.    *)
(***************************************************************************)
\* Of a paid booking that the host has not approved yet there is no earning.
EarningsLeft(end, paid) ==
  CASE paid = 0          -> {"none"}
    [] end = "completed" -> {"pending"}
    [] end = "cancelled" -> {"none", "pending", "on_hold"}
    [] end = "admin"     -> {"none", "pending"}
    [] end = "suspended" -> {"none", "on_hold"}

StayEnds(b, end, paid, back) ==
  /\ stay[b].st = "none"
  /\ end = "completed" => paid = Price /\ back = 0
  /\ end = "completed" \/ "dispute" \in load.ops \/ (end = "cancelled" /\ paid = 0)   \* a bound
  /\ IF end = "suspended" THEN back \in {0, Price} ELSE back <= paid
  /\ stay' = [stay EXCEPT ![b] =
                [NoStay EXCEPT !.st = IF end = "completed" THEN "completed" ELSE "cancelled",
                               !.end = end, !.paid = paid,
                               !.refunded = IF end = "suspended" THEN 0 ELSE back,
                               !.returned = IF end = "suspended" THEN back ELSE 0]]
  /\ \E left \in EarningsLeft(end, paid) : earning' = [earning EXCEPT ![b] = left]
  /\ UNCHANGED <<load, review, rating, desk, reqs, crashes>>

\* releaseHeldEarnings, and requestPayout, which releases those of its host first.
Release(b) ==
  /\ "release" \in load.ops /\ earning[b] = "pending"
  /\ earning' = [earning EXCEPT ![b] = "available"]
  /\ UNCHANGED <<load, stay, review, rating, desk, reqs, crashes>>

-----------------------------------------------------------------------------
(***************************************************************************)
(* Reviews.  Words of the profanity list flag a review at once.            *)
(***************************************************************************)
ReviewStatus(profane) == IF profane THEN "flagged" ELSE "active"

ReviewRead(r, b, stars, profane) ==
  /\ Starts(r, "review") /\ stay[b].st = "completed" /\ review[b].st = "none"
  /\ Goto(r, [op |-> "reviewWrite", b |-> b, stars |-> stars, st |-> ReviewStatus(profane)])
  /\ UNCHANGED <<load, stay, earning, review, rating, desk, crashes>>

EditRead(r, b, stars, profane) ==
  /\ Starts(r, "edit") /\ review[b].st \in {"active", "flagged"}
  /\ Goto(r, [op |-> "editWrite", b |-> b, stars |-> stars, st |-> ReviewStatus(profane)])
  /\ UNCHANGED <<load, stay, earning, review, rating, desk, crashes>>

\* An active review makes the handler go on to the rating once it has answered.
ThenRating(r, refresh) == IF refresh THEN Goto(r, [op |-> "aggregate"]) ELSE Done(r)

\* booking_id is unique: of two first reviews one fails.
ReviewWrite(r) ==
  /\ At(r, "reviewWrite")
  /\ LET q == reqs[r] IN
     IF review[q.b].st = "none"
     THEN /\ review' = [review EXCEPT ![q.b] = [NoReview EXCEPT !.st = q.st, !.stars = q.stars]]
          /\ ThenRating(r, q.st = "active")
     ELSE Done(r) /\ UNCHANGED review
  /\ UNCHANGED <<load, stay, earning, rating, desk, crashes>>

\* Mutant: an edited review leaves the rating to the next one.
EditWriteQuietly(r) ==
  /\ At(r, "editWrite")
  /\ review' = [review EXCEPT ![reqs[r].b] = [@ EXCEPT !.st = reqs[r].st, !.stars = reqs[r].stars]]
  /\ Done(r)
  /\ UNCHANGED <<load, stay, earning, rating, desk, crashes>>

EditWrite(r) ==
  /\ At(r, "editWrite")
  /\ review' = [review EXCEPT ![reqs[r].b] = [@ EXCEPT !.st = reqs[r].st, !.stars = reqs[r].stars]]
  /\ ThenRating(r, reqs[r].st = "active")
  /\ UNCHANGED <<load, stay, earning, rating, desk, crashes>>

ReportRead(r, b) ==
  /\ Starts(r, "report") /\ review[b].st \in {"active", "flagged"}
  /\ Goto(r, [op |-> "reportWrite", b |-> b])
  /\ UNCHANGED <<load, stay, earning, review, rating, desk, crashes>>

\* A reported review is flagged and still counts until the rating is computed again.
ReportWrite(r) ==
  /\ At(r, "reportWrite")
  /\ review' = [review EXCEPT ![reqs[r].b].st = "flagged"]
  /\ Done(r)
  /\ UNCHANGED <<load, stay, earning, rating, desk, crashes>>

RemoveRead(r, b) ==
  /\ Starts(r, "withdraw") /\ review[b].st \in {"active", "flagged"}
  /\ Goto(r, [op |-> "removeWrite", b |-> b])
  /\ UNCHANGED <<load, stay, earning, review, rating, desk, crashes>>

RemoveWrite(r) ==
  /\ At(r, "removeWrite")
  /\ review' = [review EXCEPT ![reqs[r].b].st = "removed"]
  /\ ThenRating(r, TRUE)
  /\ UNCHANGED <<load, stay, earning, rating, desk, crashes>>

RespondRead(r, b) ==
  /\ Starts(r, "respond") /\ review[b].st \in {"active", "flagged"} /\ ~review[b].answered
  /\ Goto(r, [op |-> "respondWrite", b |-> b])
  /\ UNCHANGED <<load, stay, earning, review, rating, desk, crashes>>

RespondWrite(r) ==
  /\ At(r, "respondWrite")
  /\ review' = [review EXCEPT ![reqs[r].b].answered = TRUE]
  /\ Done(r)
  /\ UNCHANGED <<load, stay, earning, rating, desk, crashes>>

Aggregate(r) ==
  /\ At(r, "aggregate")
  /\ Goto(r, [op |-> "store", counted |-> Counted])
  /\ UNCHANGED <<load, stay, earning, review, rating, desk, crashes>>

StoreRating(r) ==
  /\ At(r, "store")
  /\ rating' = reqs[r].counted
  /\ Done(r)
  /\ UNCHANGED <<load, stay, earning, review, desk, crashes>>

-----------------------------------------------------------------------------
(***************************************************************************)
(* Support tickets.  The row and its entry in the audit log follow one     *)
(* another; an entry that cannot be written is left out.  The entries      *)
(* about the two mails, which are only shown, are left out here.           *)
(***************************************************************************)
TicketWrite(r, b) ==
  /\ Starts(r, "ticket") /\ (b # 0 => stay[b].st # "none")
  /\ \E t \in NextTicket :
       /\ ticket' = [ticket EXCEPT ![t] = [NoTicket EXCEPT !.st = "open", !.stay = b]]
       /\ Goto(r, [op |-> "logTicket", t |-> t])
  /\ UNCHANGED <<load, stay, earning, review, rating, dispute, crashes>>

LogTicket(r) ==
  /\ At(r, "logTicket")
  /\ \/ ticket' = [ticket EXCEPT ![reqs[r].t].log = @ \cup {"created"}]
     \/ UNCHANGED ticket
  /\ Done(r)
  /\ UNCHANGED <<load, stay, earning, review, rating, dispute, crashes>>

Closed(t) == ticket[t].st \in {"resolved", "closed"}

MessageRead(r, t, who) ==
  /\ Starts(r, "message") /\ ticket[t].st # "none" /\ (who = "user" => ~Closed(t))
  /\ Goto(r, [op |-> "message", t |-> t, who |-> who])
  /\ UNCHANGED <<load, stay, earning, review, rating, desk, crashes>>

MessageWrite(r) ==
  /\ At(r, "message")
  /\ ticket' = [ticket EXCEPT ![reqs[r].t].log = @ \cup {reqs[r].who}]
  /\ Done(r)
  /\ UNCHANGED <<load, stay, earning, review, rating, dispute, crashes>>

\* An administrator may give a ticket any status, from any other, with a note.
UpdateTicket(r, t, st, note) ==
  /\ Starts(r, "update") /\ ticket[t].st # "none"
  /\ ticket' = [ticket EXCEPT ![t] = [@ EXCEPT !.st = st,
                  !.log = ticket[t].log \cup (IF note THEN {"admin"} ELSE {})]]
  /\ UNCHANGED <<load, stay, earning, review, rating, dispute, reqs, crashes>>

-----------------------------------------------------------------------------
(***************************************************************************)
(* Disputes.                                                               *)
(***************************************************************************)
DisputeRead(r, b) ==
  /\ Starts(r, "dispute") /\ stay[b].st \in {"completed", "cancelled"} /\ dispute[b].st = "none"
  /\ Goto(r, [op |-> "disputeWrite", b |-> b])
  /\ UNCHANGED <<load, stay, earning, review, rating, desk, crashes>>

\* The ticket, the dispute, the hold and the booking's status in one transaction, which
\* fails if there is a dispute by now: booking_id is unique.
DisputeWrite(r) ==
  /\ At(r, "disputeWrite")
  /\ LET b == reqs[r].b IN
     \/ /\ dispute[b].st = "none"
        /\ \E t \in NextTicket :
             /\ ticket' = [ticket EXCEPT ![t] = [NoTicket EXCEPT !.st = "open", !.stay = b]]
             /\ dispute' = [dispute EXCEPT ![b] = [NoDispute EXCEPT !.st = "open", !.ticket = t]]
        /\ earning' = [earning EXCEPT ![b] = IF @ \in {"pending", "available"} THEN "on_hold" ELSE @]
        /\ stay' = [stay EXCEPT ![b].st = "disputed"]
     \/ (dispute[b].st # "none" \/ NextTicket = {}) /\ UNCHANGED <<desk, earning, stay>>
  /\ Done(r)
  /\ UNCHANGED <<load, review, rating, crashes>>

\* What was read outlives the transaction: whether the booking had been cancelled, which an
\* administrator's cancellation does not record, and whether there is a payment that
\* something can be refunded of.
ResolveRead(r, b, how, amount) ==
  /\ Starts(r, "resolve") /\ dispute[b].st = "open"
  /\ Goto(r, [op |-> "resolveWrite", b |-> b, how |-> how, amount |-> amount,
              cancelled |-> stay[b].end \in {"cancelled", "suspended"}, payment |-> Refundable(b)])
  /\ UNCHANGED <<load, stay, earning, review, rating, desk, crashes>>

ResolveWrite(r) ==
  /\ At(r, "resolveWrite")
  /\ LET q == reqs[r] IN
     /\ dispute' = [dispute EXCEPT ![q.b] = [@ EXCEPT !.st = "resolved", !.how = q.how,
                        !.granted = IF q.how = "credit" THEN q.amount ELSE 0]]
     /\ ticket' = [ticket EXCEPT ![dispute[q.b].ticket].st = "resolved"]
     /\ earning' = IF q.how = "no_action" /\ ~q.cancelled /\ earning[q.b] = "on_hold"
                   THEN [earning EXCEPT ![q.b] = "available"] ELSE earning
     /\ stay' = [stay EXCEPT ![q.b].st =
                   IF q.how = "no_action" /\ ~q.cancelled THEN "completed" ELSE "cancelled"]
     /\ CASE q.how = "credit" -> Goto(r, [op |-> "goodwill", b |-> q.b, amount |-> q.amount])
          [] q.how \in {"refund", "partial_refund"} /\ q.payment ->
               Goto(r, [op |-> "refund", b |-> q.b,
                        amount |-> IF q.how = "refund" THEN Price ELSE q.amount])
          [] OTHER -> Done(r)
  /\ UNCHANGED <<load, review, rating, crashes>>

Least(m, n) == IF m <= n THEN m ELSE n

\* Mutant: the amount is not cut to what is left of the payment.
RefundUncut(r) ==
  /\ At(r, "refund") /\ Refundable(reqs[r].b)
  /\ stay' = [stay EXCEPT ![reqs[r].b].refunded = @ + reqs[r].amount]
  /\ Done(r)
  /\ UNCHANGED <<load, earning, review, rating, desk, crashes>>

\* initiateRefund, of the whole or of an amount, at most what has not been refunded yet.
Refund(r) ==
  /\ At(r, "refund") /\ Refundable(reqs[r].b)
  /\ stay' = [stay EXCEPT ![reqs[r].b].refunded = Least(stay[reqs[r].b].paid, @ + reqs[r].amount)]
  /\ Done(r)
  /\ UNCHANGED <<load, earning, review, rating, desk, crashes>>

\* It throws if nothing is left, or because a service it needs does.  The amount that was
\* asked for goes to the driver's wallet instead.
RefundThrows(r) ==
  /\ At(r, "refund")
  /\ \/ ~Refundable(reqs[r].b) /\ UNCHANGED crashes
     \/ crashes < load.crashes /\ crashes' = crashes + 1
  /\ stay' = [stay EXCEPT ![reqs[r].b].returned = @ + reqs[r].amount]
  /\ Done(r)
  /\ UNCHANGED <<load, earning, review, rating, desk>>

\* The wallet is credited, whatever was paid and refunded before.  If that throws, as if the
\* handler stops, the dispute is resolved and the credit never made.
Goodwill(r) ==
  /\ At(r, "goodwill")
  /\ stay' = [stay EXCEPT ![reqs[r].b].credited = @ + reqs[r].amount]
  /\ Done(r)
  /\ UNCHANGED <<load, earning, review, rating, desk, crashes>>

Crash(r) ==
  /\ Stops(r)
  /\ UNCHANGED <<load, stay, earning, review, rating, desk>>

-----------------------------------------------------------------------------
Init ==
  /\ load \in Workloads
  /\ stay = [b \in Stays |-> NoStay]
  /\ earning = [b \in Stays |-> "none"]
  /\ review = [b \in Stays |-> NoReview]
  /\ rating = {}
  /\ ticket = [t \in Tickets |-> NoTicket]
  /\ dispute = [b \in Stays |-> NoDispute]
  /\ reqs = [r \in Requests |-> Idle]
  /\ crashes = 0

Arrive(r) ==
  \/ \E b \in Stays, stars \in Ratings, profane \in BOOLEAN :
       ReviewRead(r, b, stars, profane) \/ EditRead(r, b, stars, profane)
  \/ \E b \in Stays : ReportRead(r, b) \/ RemoveRead(r, b) \/ RespondRead(r, b) \/ DisputeRead(r, b)
  \/ \E b \in {0} \cup Stays : TicketWrite(r, b)
  \/ \E t \in Tickets, who \in {"user", "admin"} : MessageRead(r, t, who)
  \/ \E t \in Tickets, st \in {"open", "in_progress", "resolved", "closed"}, note \in BOOLEAN :
       UpdateTicket(r, t, st, note)
  \/ \E b \in Stays, how \in Kinds, amount \in Given : ResolveRead(r, b, how, amount)

Proceed(r) ==
  \/ ReviewWrite(r) \/ EditWrite(r) \/ ReportWrite(r) \/ RemoveWrite(r) \/ RespondWrite(r)
  \/ Aggregate(r) \/ StoreRating(r) \/ LogTicket(r) \/ MessageWrite(r)
  \/ DisputeWrite(r) \/ ResolveWrite(r) \/ Refund(r) \/ RefundThrows(r) \/ Goodwill(r) \/ Crash(r)

Step == \/ \E r \in Requests : Arrive(r) \/ Proceed(r)
        \/ \E b \in Stays : Release(b)

Next ==
  \/ Step
  \/ \E b \in Stays, end \in Endings, paid \in {0, Price}, back \in 0..Price : StayEnds(b, end, paid, back)

Spec == Init /\ [][Next]_vars

-----------------------------------------------------------------------------
\* The rows.  A booking has at most one dispute, whose ticket is about that booking.
TypeOK ==
  /\ load \in Workloads
  /\ stay \in [Stays -> [st : {"none", "completed", "cancelled", "disputed"},
                         end : Endings \cup {"none"}, paid : {0, Price},
                         refunded : 0..Price, returned : Nat, credited : Nat]]
  /\ earning \in [Stays -> {"none", "pending", "available", "on_hold"}]
  /\ review \in [Stays -> [st : {"none", "active", "flagged", "removed"},
                           stars : {0} \cup Ratings, answered : BOOLEAN]]
  /\ rating \subseteq Stays \X Ratings
  /\ ticket \in [Tickets -> [st : {"none", "open", "in_progress", "resolved", "closed"},
                             stay : {0} \cup Stays,
                             log : SUBSET {"created", "user", "admin"}]]
  /\ dispute \in [Stays -> [st : {"none", "open", "resolved"}, ticket : {0} \cup Tickets,
                            how : Kinds \cup {"none"}, granted : {0} \cup Given]]
  /\ crashes \in 0..MaxCrashes
  /\ \A b \in Stays : dispute[b].st # "none" => ticket[dispute[b].ticket].stay = b

\* While a dispute is open, and after one that the driver has won, the host cannot draw on
\* the earning: in every interleaving with the release of earnings for the first, for
\* requests that come one at a time for the second (createDispute, adminResolveDispute).
DisputedIsHeld ==
  \A b \in Stays :
    dispute[b].st = "open" \/ (OneAtATime /\ dispute[b].how \in Favour)
      => earning[b] \notin {"pending", "available"}

\* What is given back of a payment is never more than was paid, however much a cancellation
\* had refunded before, and all of it once a dispute is resolved with a refund.  Goodwill
\* comes on top, without a bound: what was decided on, once, and none without a decision.
\* For requests that come one at a time, while nothing throws, and for bookings that did not
\* end with the driver's suspension (adminResolveDispute, initiateRefund).
DisputeIsSettled ==
  OneAtATime /\ crashes = 0 =>
    \A b \in Stays :
      /\ stay[b].end # "suspended" => stay[b].refunded + stay[b].returned <= stay[b].paid
      /\ stay[b].credited \in {0, dispute[b].granted}
      /\ Quiet => /\ stay[b].credited = dispute[b].granted
                  /\ dispute[b].how = "refund" => stay[b].refunded = stay[b].paid

\* Between requests that come one at a time, the stored rating counts every active review
\* with the stars it has now and no review that was removed (refreshSpaceRating is called
\* by every handler that could change that; a flagged one may still count).
RatingIsCurrent ==
  OneAtATime /\ crashes = 0 /\ Quiet =>
    \A b \in Stays :
      /\ review[b].st = "active" => <<b, review[b].stars>> \in rating
      /\ review[b].st = "removed" => \A stars \in Ratings : <<b, stars>> \notin rating
=============================================================================
