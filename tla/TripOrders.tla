----------------------------- MODULE TripOrders -----------------------------
(***************************************************************************)
(* One instant-book booking of the user, its trip, paid and extended       *)
(* through Razorpay: the orders, the transactions that stand for them, and *)
(* the refunds, which go to the wallet or back through the gateway.        *)
(*                                                                         *)
(* A transaction's gateway_ref is the order's id until the payment is      *)
(* known and the payment's id from then on.  Every handler looks the       *)
(* transaction up by the order's id, and a refund goes through the gateway *)
(* only by the payment's id.                                               *)
(*                                                                         *)
(* The unit of time is the hour and of money the price of an hour.  The    *)
(* free hours of the slot are in SlotReservation, the payments by Stripe   *)
(* in BookingPayments.  A workload says how many orders there may be.      *)
(***************************************************************************)
EXTENDS UserWallet, Functions

CONSTANTS
  NOrders,   \* bound on orders of the trip
  NRefunds,  \* bound on refunds of them
  MaxHours   \* bound on the hours of one extension

ASSUME TripAssumption ==
  /\ NOrders \in Nat /\ NRefunds \in Nat /\ MaxHours \in Nat
  /\ \A w \in Workloads : w.orders \in 0..NOrders

Orders  == 1..NOrders
Refunds == 1..NRefunds
Stay    == 1              \* hours, and price, of the booking before it is extended

VARIABLES
  trip,     \* the booking's row and its earning: [st, vehicle, end, total, earning]
  order,    \* order[o]: the transaction's row and Razorpay's order
  refund,   \* refund[n]: the row of refunds and Razorpay's refund
  applied   \* history: how often order o was added to the trip as an extension

account == <<trip, order, refund, applied>>

-----------------------------------------------------------------------------
NoTrip   == [st |-> "none", vehicle |-> 0, end |-> 0, total |-> 0, earning |-> 0]
NoOrder  == [st |-> "none", ext |-> FALSE, from |-> 0, upto |-> 0, ref |-> "order", gw |-> "none",
             declined |-> FALSE]
NoRefund == [o |-> 0, amount |-> 0, rec |-> "none", gw |-> "none"]

Amount(o)  == order[o].upto - order[o].from
Refunded   == {"partially_refunded", "refunded"}
Least(S)   == {x \in S : \A y \in S : x <= y}
NextOrder  == Least({o \in 1..load.orders : order[o].st = "none"})
NextRefund == Least({n \in Refunds : refund[n] = NoRefund})
Of(o)      == {n \in Refunds : refund[n].o = o}
Total(S)   == SumFunctionOnSet([n \in Refunds |-> refund[n].amount], S)

-----------------------------------------------------------------------------
(***************************************************************************)
(* The trip.  Its hours come and go by the cron jobs.                      *)
(***************************************************************************)
BookTrip(r, v) ==
  /\ Starts(r, "book") /\ trip.st = "none"
  /\ trip' = [NoTrip EXCEPT !.st = "pending", !.vehicle = v, !.end = Stay, !.total = Stay]
  /\ UNCHANGED <<vars, order, refund, applied>>

TripStarts ==
  /\ "trip" \in load.ops /\ trip.st = "confirmed"
  /\ trip' = [trip EXCEPT !.st = "active"]
  /\ UNCHANGED <<vars, order, refund, applied>>

TripEnds ==
  /\ "trip" \in load.ops /\ trip.st = "active"
  /\ trip' = [trip EXCEPT !.st = "completed"]
  /\ UNCHANGED <<vars, order, refund, applied>>

(***************************************************************************)
(* Orders.  An order for the stay that is still open is offered again; the *)
(* hours of an extension begin at the end that was read.                   *)
(***************************************************************************)
OpenStay == {o \in Orders : order[o].st = "pending" /\ ~order[o].ext}

CreateRazorpayOrder(r) ==
  /\ Starts(r, "order") /\ trip.st = "pending" /\ OpenStay = {}
  /\ Goto(r, [op |-> "orderInsert", ext |-> FALSE, from |-> 0, upto |-> trip.total])
  /\ UNCHANGED <<load, wallet, topup, split, booking, faults, past, account>>

ExtendBooking(r, hours) ==
  /\ Starts(r, "extend") /\ trip.st = "active"
  /\ Goto(r, [op |-> "orderInsert", ext |-> TRUE, from |-> trip.end, upto |-> trip.end + hours])
  /\ UNCHANGED <<load, wallet, topup, split, booking, faults, past, account>>

OrderInsert(r) ==
  /\ At(r, "orderInsert")
  /\ \/ NextOrder = {} /\ UNCHANGED order
     \/ \E o \in NextOrder :
          order' = [order EXCEPT ![o] = [NoOrder EXCEPT !.st = "pending", !.ext = reqs[r].ext,
                                           !.from = reqs[r].from, !.upto = reqs[r].upto, !.gw = "open"]]
  /\ Done(r)
  /\ UNCHANGED <<load, wallet, topup, split, booking, faults, past, trip, refund, applied>>

OrderPaid(o) ==
  /\ order[o].gw = "open"
  /\ order' = [order EXCEPT ![o].gw = "paid"]
  /\ UNCHANGED <<vars, trip, refund, applied>>

OrderDeclined(o) ==
  /\ "decline" \in load.ops /\ order[o].gw = "open" /\ ~order[o].declined
  /\ order' = [order EXCEPT ![o].declined = TRUE]
  /\ UNCHANGED <<vars, trip, refund, applied>>

-----------------------------------------------------------------------------
(***************************************************************************)
(* A payment is made known: by the client's signature, to the handler of   *)
(* payments or to the one of extensions, or by the gateway's event.  Only  *)
(* the handler of extensions asks what the order was for.                  *)
(***************************************************************************)
\* The transaction that is found by the order's id and is not completed.
Unsettled(o) == order[o].ref = "order" /\ order[o].st \notin {"none", "completed"}

VerifyRazorpayPayment(r, o) ==
  /\ Starts(r, "verify") /\ order[o].gw = "paid" /\ Unsettled(o)
  /\ Goto(r, [op |-> "orderConfirm", o |-> o])
  /\ UNCHANGED <<load, wallet, topup, split, booking, faults, past, account>>

HookCaptured(r, o) ==
  /\ Starts(r, "hook") /\ order[o].gw = "paid" /\ Unsettled(o)
  /\ Goto(r, [op |-> "orderConfirm", o |-> o])
  /\ UNCHANGED <<load, wallet, topup, split, booking, faults, past, account>>

HookFailed(r, o) ==
  /\ Starts(r, "hook") /\ order[o].declined /\ Unsettled(o)
  /\ order' = [order EXCEPT ![o].st = "failed"]
  /\ UNCHANGED <<vars, trip, refund, applied>>

\* initiateRefund is called.
GiveBack(r, o, most, to, by) ==
  Goto(r, [op |-> "returnRead", o |-> o, most |-> most, to |-> to, by |-> by])

\* confirmBookingAfterPayment; a trip that was cancelled meanwhile is refunded.
OrderConfirm(r) ==
  /\ At(r, "orderConfirm")
  /\ LET o == reqs[r].o
         firm == trip.st = "confirmed" \/ trip.st = "pending"
     IN IF order[o].st \in Refunded
        THEN order' = [order EXCEPT ![o].ref = "payment"] /\ Done(r) /\ UNCHANGED trip
        ELSE /\ order' = [order EXCEPT ![o].st = "completed", ![o].ref = "payment"]
             /\ trip' = [trip EXCEPT !.st = IF @ = "pending" THEN "confirmed" ELSE @,
                                     !.earning = IF firm /\ @ = 0 THEN trip.total ELSE @]
             /\ IF trip.st = "cancelled"
                THEN GiveBack(r, o, Amount(o), "wallet", "late")
                ELSE Done(r)
  /\ UNCHANGED <<load, wallet, topup, split, booking, faults, past, refund, applied>>

\* Mutant: the payment of the stay passes for one of an extension.
VerifyExtensionAnything(r, o) ==
  /\ Starts(r, "verify") /\ order[o].gw = "paid" /\ Unsettled(o)
  /\ Goto(r, [op |-> "extendWrite", o |-> o])
  /\ UNCHANGED <<load, wallet, topup, split, booking, faults, past, account>>

VerifyExtension(r, o) ==
  /\ Starts(r, "verify") /\ order[o].gw = "paid" /\ Unsettled(o) /\ order[o].ext
  /\ Goto(r, [op |-> "extendWrite", o |-> o])
  /\ UNCHANGED <<load, wallet, topup, split, booking, faults, past, account>>

\* One transaction, whatever has become of the trip and of the order since.
ExtendWrite(r) ==
  /\ At(r, "extendWrite")
  /\ LET o == reqs[r].o IN
     /\ order' = [order EXCEPT ![o].st = "completed", ![o].ref = "payment"]
     /\ trip' = [trip EXCEPT !.end = order[o].upto, !.total = @ + Amount(o),
                             !.earning = IF @ = 0 THEN 0 ELSE @ + Amount(o)]
     /\ applied' = [applied EXCEPT ![o] = @ + 1]
  /\ Done(r)
  /\ UNCHANGED <<load, wallet, topup, split, booking, faults, past, refund>>

-----------------------------------------------------------------------------
(***************************************************************************)
(* The driver cancels: the policy's share of the total that was read goes  *)
(* to the wallet, out of the latest completed transaction.  The host       *)
(* cancels: all of that transaction does, and then a compensation.         *)
(***************************************************************************)
Cancellable == {"pending", "confirmed", "active"}

CancelRead(r, share) ==
  /\ Starts(r, "cancelTrip") /\ trip.st \in Cancellable /\ share <= trip.total
  /\ Goto(r, [op |-> "cancelWrite", share |-> share])
  /\ UNCHANGED <<load, wallet, topup, split, booking, faults, past, account>>

CancelWrite(r) ==
  /\ At(r, "cancelWrite")
  /\ IF trip.st \in Cancellable
     THEN /\ trip' = [trip EXCEPT !.st = "cancelled"]
          /\ IF reqs[r].share > 0 THEN Goto(r, [op |-> "cancelFind", share |-> reqs[r].share, by |-> "driver"])
                                  ELSE Done(r)
     ELSE Done(r) /\ UNCHANGED trip
  /\ UNCHANGED <<load, wallet, topup, split, booking, faults, past, order, refund, applied>>

HostCancelRead(r) ==
  /\ Starts(r, "hostCancel") /\ trip.st \in {"confirmed", "active"}
  /\ Goto(r, [op |-> "hostCancelWrite"])
  /\ UNCHANGED <<load, wallet, topup, split, booking, faults, past, account>>

\* Whatever the status is by now.
HostCancelWrite(r) ==
  /\ At(r, "hostCancelWrite")
  /\ trip' = [trip EXCEPT !.st = "cancelled"]
  /\ Goto(r, [op |-> "cancelFind", share |-> 0, by |-> "host"])
  /\ UNCHANGED <<load, wallet, topup, split, booking, faults, past, order, refund, applied>>

\* The platform's credit, an entry of its own.
Compensate(r) == GoCredit(r, Unit, Idle)

CancelFind(r) ==
  /\ At(r, "cancelFind")
  /\ LET paid == {o \in Orders : order[o].st = "completed"}
         host == reqs[r].by = "host"
     IN IF paid = {} THEN IF host THEN Compensate(r) ELSE Done(r)
        ELSE GiveBack(r, Latest(paid), IF host THEN Amount(Latest(paid)) ELSE reqs[r].share,
                      "wallet", reqs[r].by)
  /\ UNCHANGED <<load, wallet, topup, split, booking, faults, past, account>>

AdminInitiateRefund(r, o, most, to) ==
  /\ Starts(r, "refund") /\ order[o].st # "none"
  /\ GiveBack(r, o, most, to, "admin")
  /\ UNCHANGED <<load, wallet, topup, split, booking, faults, past, account>>

-----------------------------------------------------------------------------
(***************************************************************************)
(* initiateRefund.  The gateway refunds no more than was paid, and a call  *)
(* that throws, whatever the gateway has made of it, is made up for in the *)
(* wallet.                                                                 *)
(***************************************************************************)
Credited(r, q) ==
  GoCredit(r, q.amount, [op |-> "returnRecord", o |-> q.o, amount |-> q.amount, before |-> q.before,
                         n |-> 0, by |-> q.by, rec |-> "completed"])

\* Mutant: what was refunded before is not taken off.
ReturnReadForgets(r) ==
  /\ At(r, "returnRead")
  /\ LET o == reqs[r].o
         q == [op |-> "gateway", o |-> o, before |-> 0, by |-> reqs[r].by,
               amount |-> IF reqs[r].most < Amount(o) THEN reqs[r].most ELSE Amount(o)]
     IN IF order[o].st \notin {"completed", "partially_refunded"} THEN Done(r)
        ELSE IF reqs[r].to = "wallet" THEN Credited(r, q) ELSE Goto(r, q)
  /\ UNCHANGED <<load, wallet, topup, split, booking, faults, past, account>>

ReturnRead(r) ==
  /\ At(r, "returnRead")
  /\ LET o      == reqs[r].o
         before == Total(Of(o) \cap {n \in Refunds : refund[n].rec # "none"})
         left   == Amount(o) - before
         q      == [op |-> "gateway", o |-> o, before |-> before, by |-> reqs[r].by,
                    amount |-> IF reqs[r].most < left THEN reqs[r].most ELSE left]
     IN IF order[o].st \notin {"completed", "partially_refunded"} \/ left <= 0 THEN Done(r)
        ELSE IF reqs[r].to = "wallet" THEN Credited(r, q)
        ELSE IF order[o].ref = "payment" THEN Goto(r, q)
        ELSE Goto(r, [op |-> "returnRecord", o |-> o, amount |-> q.amount, before |-> before,
                      n |-> 0, by |-> q.by, rec |-> "pending"])
  /\ UNCHANGED <<load, wallet, topup, split, booking, faults, past, account>>

\* What the gateway has left to refund.
Refundable(o) == Amount(o) - Total({n \in Of(o) : refund[n].gw # "none"})

GatewayRefund(r, n, gw) ==
  /\ At(r, "gateway") /\ n \in NextRefund
  /\ LET q == reqs[r] IN
     /\ q.amount <= Refundable(q.o)
     /\ refund' = [refund EXCEPT ![n] = [o |-> q.o, amount |-> q.amount, rec |-> "none", gw |-> gw]]
     /\ \/ /\ Goto(r, [op |-> "returnRecord", o |-> q.o, amount |-> q.amount, before |-> q.before, n |-> n,
                       by |-> q.by, rec |-> IF gw = "done" THEN "completed" ELSE "pending"])
           /\ UNCHANGED faults
        \/ Fault /\ Credited(r, q)
  /\ UNCHANGED <<load, wallet, topup, split, booking, past, trip, order, applied>>

GatewayRefuses(r) ==
  /\ At(r, "gateway")
  /\ \/ reqs[r].amount > Refundable(reqs[r].o) /\ UNCHANGED faults
     \/ Fault
  /\ Credited(r, reqs[r])
  /\ UNCHANGED <<load, wallet, topup, split, booking, past, account>>

\* The record, and then the transaction's status, from what was read at the start.
ReturnRecord(r) ==
  /\ At(r, "returnRecord")
  /\ LET q == reqs[r] IN
     /\ IF q.n # 0
        THEN refund' = [refund EXCEPT ![q.n].rec = q.rec]
        ELSE \E n \in NextRefund :
               refund' = [refund EXCEPT ![n] = [o |-> q.o, amount |-> q.amount, rec |-> q.rec, gw |-> "none"]]
     /\ Goto(r, [op |-> "returnStatus", o |-> q.o, by |-> q.by, sum |-> q.before + q.amount])
  /\ UNCHANGED <<load, wallet, topup, split, booking, faults, past, trip, order, applied>>

ReturnStatus(r) ==
  /\ At(r, "returnStatus")
  /\ LET o == reqs[r].o IN
     order' = [order EXCEPT ![o].st = IF reqs[r].sum >= Amount(o) THEN "refunded"
                                                                ELSE "partially_refunded"]
  /\ IF reqs[r].by = "host" THEN Compensate(r) ELSE Done(r)
  /\ UNCHANGED <<load, wallet, topup, split, booking, faults, past, trip, refund, applied>>

\* The gateway has made the refund and says so once; the answer is 200 in any case.
HookRefund(r, n) ==
  /\ Starts(r, "hook") /\ refund[n].gw = "asked"
  /\ refund' = [refund EXCEPT ![n].gw = "done",
                              ![n].rec = IF @ = "pending" THEN "completed" ELSE @]
  /\ UNCHANGED <<vars, trip, order, applied>>

-----------------------------------------------------------------------------
TripInit ==
  /\ trip = NoTrip
  /\ order = [o \in Orders |-> NoOrder]
  /\ refund = [n \in Refunds |-> NoRefund]
  /\ applied = [o \in Orders |-> 0]

TripArrive(r) ==
  \/ CreateRazorpayOrder(r)
  \/ \E hours \in 1..MaxHours : ExtendBooking(r, hours)
  \/ \E o \in Orders :
       \/ VerifyRazorpayPayment(r, o) \/ HookCaptured(r, o) \/ HookFailed(r, o) \/ VerifyExtension(r, o)
       \/ \E most \in 1..MaxHours, to \in {"wallet", "original"} : AdminInitiateRefund(r, o, most, to)
  \/ HostCancelRead(r)
  \/ \E share \in 0..MaxHours : CancelRead(r, share)
  \/ \E n \in Refunds : HookRefund(r, n)

TripProceed(r) ==
  \/ OrderInsert(r) \/ OrderConfirm(r) \/ ExtendWrite(r) \/ HostCancelWrite(r) \/ CancelWrite(r) \/ CancelFind(r)
  \/ ReturnRead(r) \/ GatewayRefuses(r) \/ ReturnRecord(r) \/ ReturnStatus(r)
  \/ \E n \in Refunds, gw \in {"asked", "done"} : GatewayRefund(r, n, gw)

TripStep ==
  \/ \E r \in Requests : TripArrive(r) \/ TripProceed(r)
  \/ \E o \in Orders : OrderPaid(o) \/ OrderDeclined(o)
  \/ TripStarts \/ TripEnds

-----------------------------------------------------------------------------
\* The rows.
TripTypeOK ==
  /\ trip \in [st : {"none", "pending", "confirmed", "active", "completed", "cancelled"},
               vehicle : Nat, end : Nat, total : Nat, earning : Nat]
  /\ order \in [Orders -> [st : {"none", "pending", "completed", "failed"} \cup Refunded, ext : BOOLEAN,
                           from : Nat, upto : Nat, ref : {"order", "payment"},
                           gw : {"none", "open", "paid"}, declined : BOOLEAN]]
  /\ refund \in [Refunds -> [o : {0} \cup Orders, amount : Nat, rec : {"none", "pending", "completed"},
                             gw : {"none", "asked", "done"}]]
  /\ applied \in [Orders -> Nat]

\* Whichever of the client and the gateway makes a payment known first, and whichever of
\* the events is late, a transaction that counts as paid names a payment that was made, by
\* which it can be refunded, and a trip is firm only with one (confirmBookingAfterPayment,
\* verifyExtensionPayment).
RefsFollowMoney ==
  /\ \A o \in Orders : order[o].st \in {"completed"} \cup Refunded
                         => order[o].ref = "payment" /\ order[o].gw = "paid"
  /\ trip.st \in {"confirmed", "active", "completed"} => \E o \in Orders : order[o].gw = "paid"

Extensions == {o \in Orders : applied[o] > 0}

\* An extension that is verified is in the price and in the host's earning once, and only
\* an extension is; and unless two were ordered from the same end, the driver has every hour
\* he paid for: for requests that come one at a time (extendBooking, verifyExtensionPayment).
ExtendedAsPaid ==
  OneAtATime /\ trip.st # "none" =>
    /\ trip.total = Stay + SumFunctionOnSet([o \in Orders |-> Amount(o)], Extensions)
    /\ trip.earning \in {0, trip.total}
    /\ (\A o, p \in Extensions : order[o].from = order[p].from => o = p) => trip.end = trip.total

\* Of a trip's orders: RefsFollowMoney and ExtendedAsPaid.
TripAsPaid == RefsFollowMoney /\ ExtendedAsPaid

\* Requests that come one at a time, none of them stopped and no answer of the gateway
\* lost, never give back more than an order cost, say "refunded" when all of it was, and
\* leave no refund pending whose event is not still to come (initiateRefund, against the
\* gateway's refunds and refund.processed).
RefundSettles ==
  OneAtATime /\ faults = 0 =>
    \A o \in Orders :
      /\ Total(Of(o)) <= Amount(o)
      /\ order[o].st = "refunded" => Total(Of(o)) = Amount(o)
      /\ \A n \in Of(o) : refund[n].rec = "pending" => refund[n].gw = "asked"
=============================================================================
