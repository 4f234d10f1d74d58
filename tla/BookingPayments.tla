--------------------------- MODULE BookingPayments ---------------------------
(***************************************************************************)
(* The money of one booking: the attempts to pay for it, the gateway's     *)
(* events about them, the host's earning, and the refunds.                 *)
(*                                                                         *)
(* The booking row, its transaction rows, its earning row and the refund   *)
(* records are written by API handlers, webhook deliveries and a cron job, *)
(* each a sequence of statements between which the others run.  A handler  *)
(* may also stop between two statements (a crash, or a statement that      *)
(* throws); the gateway then delivers its event again, nothing else does.  *)
(*                                                                         *)
(* Attempts are numbered in order of creation.  Every attempt is for the   *)
(* whole Price: the wallet-and-card split and extensions are not here.     *)
(***************************************************************************)
EXTENDS Integers, FiniteSets

CONSTANTS
  MaxAttempts,    \* bound on the transactions of the booking
  Methods,        \* payment methods that go through the gateway
  Requests,       \* handlers that may be in flight at once
  Ops,            \* the operations the environment issues
  Price,          \* bookings.total_price
  UserRefunds,    \* what calculateRefundAmount may grant a cancelling driver
  AdminRefunds,   \* amounts an admin refunds; more than Price moves what Price moves
  MaxCrashes      \* bound on handlers that stop half-way

AllOps == { "pay", "wallet", "hook", "fail", "approve", "reject", "hostCancel",
            "cancel", "adminCancel", "adminRefund", "sweepCancel", "advance", "complete",
            "toggle" }

ASSUME PaymentsAssumption ==
  /\ MaxAttempts \in Nat /\ MaxCrashes \in Nat
  /\ Price \in Nat \ {0} /\ UserRefunds \subseteq 0..Price /\ AdminRefunds \subseteq 1..Price
  /\ Ops \subseteq AllOps
  /\ "wallet" \notin Methods
  /\ IsFiniteSet(Requests)

VARIABLES
  instant,    \* parking_spaces.instant_book
  status,     \* bookings.status
  by,         \* bookings.cancelled_by
  promised,   \* bookings.refund_amount
  earning,    \* host_earnings.status of the booking's row, or "none"
  txn,        \* txn[t]: transaction row of attempt t
  recorded,   \* recorded[t]: sum of t's refund records
  charge,     \* charge[t]: the charge at the gateway (the wallet charges at once)
  declined,   \* attempts of which the gateway reported a failed try
  credited,   \* credited[t]: money given back for t
  fresh,      \* attempts inside the sweep's grace window
  overdue,    \* the booking is older than the sweep's cutoff
  slotFree,   \* FALSE: the EXCLUDE constraint refuses to make the booking firm
  crashes,    \* handlers that stopped half-way
  reqs        \* reqs[r]: what handler r has read and has still to do

booking == <<status, by, promised>>
gateway == <<charge, declined>>
ages    == <<fresh, overdue>>
env     == <<instant, slotFree, crashes>>
vars    == <<booking, earning, txn, recorded, gateway, credited, ages, env, reqs>>

-----------------------------------------------------------------------------
Attempts == 1..MaxAttempts

Statuses   == {"pending", "confirmed", "active", "completed", "cancelled", "no_show"}
TxStatuses == {"none", "pending", "completed", "failed", "partially_refunded", "refunded"}

Idle        == [op |-> "idle"]
AdminTotals == [op : {"adminTotal"}, base : Nat, more : 1..Price]
Request ==
  {Idle}
    \cup [op : {"intentInsert"}, method : Methods]
    \cup [op : {"confirmRead"}, t : Attempts]
    \cup [op : {"confirmWrite"}, t : Attempts, seen : Statuses, firm : BOOLEAN]
    \cup [op : {"walletWrite"}, firm : BOOLEAN]
    \cup [op : {"approveWrite", "rejectWrite", "hostCancelWrite", "sweepWrite",
               "completeWrite", "earn"}]
    \cup AdminTotals
    \cup [op : {"adminWrite"}, seen : Statuses]
    \cup [op : {"findPaid", "adminFind"}, want : 1..Price]
    \cup [op : {"refundRead"}, t : Attempts, want : 1..Price, then : {Idle} \cup AdminTotals]
    \cup [op : {"refundCredit", "refundRecord", "refundStatus"}, t : Attempts, amount : 1..Price,
          prior : 0..Price, then : {Idle} \cup AdminTotals]

TypeOK ==
  /\ instant \in BOOLEAN /\ status \in Statuses /\ by \in {"nobody", "user", "host", "admin"} /\ promised \in Nat
  /\ earning \in {"none", "pending", "on_hold"}
  /\ txn \in [Attempts -> [st : TxStatuses, method : Methods \cup {"wallet", "none"}]]
  /\ recorded \in [Attempts -> Nat] /\ credited \in [Attempts -> Nat]
  /\ charge \in [Attempts -> {"none", "open", "captured"}]
  /\ declined \subseteq Attempts /\ fresh \subseteq Attempts
  /\ overdue \in BOOLEAN /\ slotFree \in BOOLEAN /\ crashes \in 0..MaxCrashes
  /\ reqs \in [Requests -> Request]

Captured == {t \in Attempts : charge[t] = "captured"}
Paid     == {t \in Attempts : txn[t].st = "completed"}

\* findFirst ... orderBy: { created_at: 'desc' }
IsLatest(t, T) == t \in T /\ \A u \in T : u <= t

\* The next row of the transactions table.
NewAttempt(t) == /\ t \in Attempts /\ txn[t].st = "none"
                 /\ \A u \in 1..(t - 1) : txn[u].st # "none"

\* Neither the rows nor the inserts in flight have used up the bound.
RoomForAttempt ==
  Cardinality({t \in Attempts : txn[t].st # "none"})
    + Cardinality({r \in Requests : reqs[r].op \in {"intentInsert", "walletWrite"}}) < MaxAttempts

SetStatus(t, st) == txn' = [txn EXCEPT ![t].st = st]

\* hostEarning upsert with an empty update.
EnsureEarning == earning' = IF earning = "none" THEN "pending" ELSE earning

Starts(r, op) == op \in Ops /\ reqs[r] = Idle
At(r, step)   == reqs[r].op = step
Goto(r, rec)  == reqs' = [reqs EXCEPT ![r] = rec]
Done(r)       == Goto(r, Idle)

\* The latest paid attempt, if there is one, is to be refunded.
RefundLatest(r, want, then) ==
  \/ Paid = {} /\ Done(r)
  \/ \E t \in Paid : /\ IsLatest(t, Paid)
                     /\ Goto(r, [op |-> "refundRead", t |-> t, want |-> want, then |-> then])

\* A read of the booking and its transactions that decides the next step.
ReadOnly == UNCHANGED <<booking, earning, txn, recorded, gateway, credited, ages, env>>

-----------------------------------------------------------------------------
\* POST /payments/intent: a pending attempt of the same method is used again; one
\* the gateway already charged is confirmed on the spot.
IntentRead(r, m) ==
  /\ Starts(r, "pay")
  /\ status = "pending"
  /\ LET open == {t \in Attempts : txn[t] = [st |-> "pending", method |-> m]} IN
       \/ open = {} /\ RoomForAttempt /\ Goto(r, [op |-> "intentInsert", method |-> m])
       \/ \E t \in open : /\ IsLatest(t, open) /\ charge[t] = "captured"
                          /\ Goto(r, [op |-> "confirmRead", t |-> t])
  /\ ReadOnly

IntentInsert(r) ==
  /\ At(r, "intentInsert")
  /\ \E t \in Attempts :
       /\ NewAttempt(t)
       /\ txn' = [txn EXCEPT ![t] = [st |-> "pending", method |-> reqs[r].method]]
       /\ charge' = [charge EXCEPT ![t] = "open"]
       /\ fresh' = fresh \cup {t}
  /\ Done(r)
  /\ UNCHANGED <<booking, earning, recorded, declined, credited, overdue, env>>

\* Wallet payment: read and check, then one transaction that relies on the read.
WalletRead(r) ==
  /\ Starts(r, "wallet")
  /\ status = "pending"
  /\ \A t \in Paid : txn[t].method # "wallet"
  /\ RoomForAttempt
  /\ Goto(r, [op |-> "walletWrite", firm |-> instant])
  /\ ReadOnly

WalletWrite(r) ==
  /\ At(r, "walletWrite")
  /\ \E t \in Attempts :
       /\ NewAttempt(t)
       /\ txn' = [txn EXCEPT ![t] = [st |-> "completed", method |-> "wallet"]]
       /\ charge' = [charge EXCEPT ![t] = "captured"]
  /\ reqs[r].firm => slotFree
  /\ status' = IF reqs[r].firm THEN "confirmed" ELSE status
  /\ IF reqs[r].firm THEN EnsureEarning ELSE UNCHANGED earning
  /\ Done(r)
  /\ UNCHANGED <<by, promised, recorded, declined, credited, ages, env>>

\* The constraint refuses the booking: nothing of the transaction remains.
WalletRefused(r) ==
  /\ At(r, "walletWrite")
  /\ reqs[r].firm /\ ~slotFree
  /\ Done(r)
  /\ ReadOnly

-----------------------------------------------------------------------------
\* The gateway.  Nothing in the code cancels an open charge, so it may be captured
\* at any time, after a declined try as well.
Capture(t) ==
  /\ charge[t] = "open"
  /\ charge' = [charge EXCEPT ![t] = "captured"]
  /\ UNCHANGED <<booking, earning, txn, recorded, declined, credited, ages, env, reqs>>

Decline(t) ==
  /\ charge[t] = "open" /\ t \notin declined
  /\ declined' = declined \cup {t}
  /\ UNCHANGED <<booking, earning, txn, recorded, charge, credited, ages, env, reqs>>

\* Mutant: the event is believed without asking the gateway.
HookReadUnverified(r, t) ==
  /\ Starts(r, "hook")
  /\ charge[t] # "none" /\ txn[t].st # "completed"
  /\ Goto(r, [op |-> "confirmRead", t |-> t])
  /\ ReadOnly

\* A succeeded event, or the client's return from the gateway; both may be repeated
\* and late.
HookRead(r, t) ==
  /\ Starts(r, "hook")
  /\ charge[t] = "captured" /\ txn[t].st # "completed"
  /\ Goto(r, [op |-> "confirmRead", t |-> t])
  /\ ReadOnly

\* A failed event, which may arrive after the success of a later try.
HookFailed(r, t) ==
  /\ Starts(r, "fail")
  /\ t \in declined /\ txn[t].st # "completed"
  /\ SetStatus(t, "failed")
  /\ UNCHANGED <<booking, earning, recorded, gateway, credited, ages, env, reqs>>

\* POST /payments/confirm while the gateway is still processing.
ConfirmFails(r, t) ==
  /\ Starts(r, "fail")
  /\ charge[t] = "open" /\ txn[t].st \notin {"completed", "failed"}
  /\ SetStatus(t, "failed")
  /\ UNCHANGED <<booking, earning, recorded, gateway, credited, ages, env, reqs>>

\* confirmBookingAfterPayment: reads, then writes of one database transaction.
ConfirmRead(r) ==
  /\ At(r, "confirmRead")
  /\ Goto(r, IF txn[reqs[r].t].st \in {"refunded", "partially_refunded"} THEN Idle
             ELSE [op |-> "confirmWrite", t |-> reqs[r].t, seen |-> status,
                   firm |-> status = "pending" /\ instant])
  /\ ReadOnly

\* The constraint may refuse the booking, which undoes the transaction's status too.
ConfirmRefused(r) ==
  /\ At(r, "confirmWrite")
  /\ reqs[r].firm /\ ~slotFree
  /\ Done(r)
  /\ ReadOnly

\* Mutant: a payment for a cancelled booking is kept.
ConfirmWriteKeeps(r) ==
  /\ At(r, "confirmWrite")
  /\ LET q == reqs[r] IN
       /\ q.firm => slotFree
       /\ SetStatus(q.t, "completed")
       /\ status' = IF q.firm THEN "confirmed" ELSE status
       /\ IF q.firm \/ q.seen = "confirmed" THEN EnsureEarning ELSE UNCHANGED earning
  /\ Done(r)
  /\ UNCHANGED <<by, promised, recorded, gateway, credited, ages, env>>

ConfirmWrite(r) ==
  /\ At(r, "confirmWrite")
  /\ LET q == reqs[r] IN
       /\ q.firm => slotFree
       /\ SetStatus(q.t, "completed")
       /\ status' = IF q.firm THEN "confirmed" ELSE status
       /\ IF q.firm \/ q.seen = "confirmed" THEN EnsureEarning ELSE UNCHANGED earning
       /\ Goto(r, IF q.seen = "cancelled"
                  THEN [op |-> "refundRead", t |-> q.t, want |-> Price, then |-> Idle]
                  ELSE Idle)
  /\ UNCHANGED <<by, promised, recorded, gateway, credited, ages, env>>

-----------------------------------------------------------------------------
\* Host approval; the earning is written by a statement of its own.
ApproveRead(r) ==
  /\ Starts(r, "approve")
  /\ status = "pending" /\ ~instant
  /\ Paid # {}
  /\ Goto(r, [op |-> "approveWrite"])
  /\ ReadOnly

ApproveWrite(r) ==
  /\ At(r, "approveWrite")
  /\ slotFree
  /\ status' = "confirmed"
  /\ Goto(r, [op |-> "earn"])
  /\ UNCHANGED <<by, promised, earning, txn, recorded, gateway, credited, ages, env>>

ApproveRefused(r) ==
  /\ At(r, "approveWrite")
  /\ ~slotFree
  /\ Done(r)
  /\ ReadOnly

Earn(r) ==
  /\ At(r, "earn")
  /\ EnsureEarning
  /\ Done(r)
  /\ UNCHANGED <<booking, txn, recorded, gateway, credited, ages, env>>

-----------------------------------------------------------------------------
\* Cancellation.  The driver's is guarded by the update itself and may grant less
\* than the price; the others write what they decided on before.
CancelByDriver(r, amount) ==
  /\ Starts(r, "cancel")
  /\ status \in {"pending", "confirmed", "active"}
  /\ status' = "cancelled" /\ by' = "user" /\ promised' = amount
  /\ earning' = IF earning = "pending" THEN "on_hold" ELSE earning
  /\ Goto(r, IF amount = 0 THEN Idle ELSE [op |-> "findPaid", want |-> amount])
  /\ UNCHANGED <<txn, recorded, gateway, credited, ages, env>>

RejectRead(r) ==
  /\ Starts(r, "reject")
  /\ status = "pending" /\ ~instant
  /\ Goto(r, [op |-> "rejectWrite"])
  /\ ReadOnly

RejectWrite(r) ==
  /\ At(r, "rejectWrite")
  /\ status' = "cancelled" /\ by' = "host" /\ promised' = Price
  /\ Goto(r, [op |-> "findPaid", want |-> Price])
  /\ UNCHANGED <<earning, txn, recorded, gateway, credited, ages, env>>

HostCancelRead(r) ==
  /\ Starts(r, "hostCancel")
  /\ status \in {"confirmed", "active"}
  /\ Goto(r, [op |-> "hostCancelWrite"])
  /\ ReadOnly

HostCancelWrite(r) ==
  /\ At(r, "hostCancelWrite")
  /\ status' = "cancelled" /\ by' = "host" /\ promised' = Price
  /\ earning' = IF earning = "none" THEN "none" ELSE "on_hold"
  /\ Goto(r, [op |-> "findPaid", want |-> Price])
  /\ UNCHANGED <<txn, recorded, gateway, credited, ages, env>>

AdminCancelRead(r) ==
  /\ Starts(r, "adminCancel")
  /\ status \notin {"completed", "cancelled"}
  /\ Goto(r, [op |-> "adminWrite", seen |-> status])
  /\ ReadOnly

AdminCancelWrite(r) ==
  /\ At(r, "adminWrite")
  /\ status' = "cancelled"
  /\ Goto(r, IF reqs[r].seen \in {"confirmed", "active"}
               THEN [op |-> "adminFind", want |-> Price] ELSE Idle)
  /\ UNCHANGED <<by, promised, earning, txn, recorded, gateway, credited, ages, env>>

\* adminRefundBooking, also an operation of its own: of the amount the admin gives, or
\* of the price.
AdminRefund(r, amount) ==
  /\ Starts(r, "adminRefund")
  /\ Goto(r, [op |-> "adminFind", want |-> amount])
  /\ ReadOnly

\* adminInitiateRefund: of a transaction the admin names.
AdminRefundTx(r, t, amount) ==
  /\ Starts(r, "adminRefund")
  /\ Goto(r, [op |-> "refundRead", t |-> t, want |-> amount, then |-> Idle])
  /\ ReadOnly

AdminFind(r) ==
  /\ At(r, "adminFind")
  /\ LET amount == reqs[r].want
     IN  RefundLatest(r, amount, [op |-> "adminTotal", base |-> promised, more |-> amount])
  /\ ReadOnly

AdminTotal(r) ==
  /\ At(r, "adminTotal")
  /\ promised' = reqs[r].base + reqs[r].more
  /\ Done(r)
  /\ UNCHANGED <<status, by, earning, txn, recorded, gateway, credited, ages, env>>

\* auto-cancel-unconfirmed
SweepFind(r) ==
  /\ Starts(r, "sweepCancel")
  /\ status = "pending" /\ overdue
  /\ Paid = {}
  /\ \A t \in fresh : txn[t].st # "pending"
  /\ Goto(r, [op |-> "sweepWrite"])
  /\ ReadOnly

SweepWrite(r) ==
  /\ At(r, "sweepWrite")
  /\ status' = "cancelled" /\ by' = "admin"
  /\ txn' = [t \in Attempts |-> IF txn[t].st = "pending" THEN [txn[t] EXCEPT !.st = "failed"] ELSE txn[t]]
  /\ Done(r)
  /\ UNCHANGED <<promised, earning, recorded, gateway, credited, ages, env>>

-----------------------------------------------------------------------------
\* initiateRefund, after its caller has looked for the latest paid attempt.
FindPaid(r) ==
  /\ At(r, "findPaid")
  /\ RefundLatest(r, reqs[r].want, Idle)
  /\ ReadOnly

\* Mutants: an earlier refund record is not subtracted; an empty refund goes through;
\* a refund the gateway rejected is recorded without the wallet credit.
RefundReadForgetful(r) ==
  /\ At(r, "refundRead")
  /\ LET q == reqs[r] IN
       Goto(r, IF txn[q.t].st \in {"completed", "partially_refunded"}
               THEN [op |-> "refundCredit", t |-> q.t, prior |-> recorded[q.t], then |-> q.then,
                     amount |-> q.want]
               ELSE Idle)
  /\ ReadOnly

RefundReadEmpty(r) ==
  /\ At(r, "refundRead")
  /\ LET q    == reqs[r]
         left == Price - recorded[q.t]
     IN  Goto(r, IF txn[q.t].st \in {"completed", "partially_refunded"}
                 THEN [op |-> "refundCredit", t |-> q.t, prior |-> recorded[q.t], then |-> q.then,
                       amount |-> IF q.want < left THEN q.want ELSE left]
                 ELSE Idle)
  /\ ReadOnly

RefundRead(r) ==
  /\ At(r, "refundRead")
  /\ LET q    == reqs[r]
         left == Price - recorded[q.t]
     IN  Goto(r, IF txn[q.t].st \in {"completed", "partially_refunded"} /\ left > 0
                 THEN [op |-> "refundCredit", t |-> q.t, prior |-> recorded[q.t], then |-> q.then,
                       amount |-> IF q.want < left THEN q.want ELSE left]
                 ELSE Idle)
  /\ ReadOnly

\* Mutant: the refund record is forgotten.
RefundCreditOnly(r) ==
  /\ At(r, "refundCredit")
  /\ credited' = [credited EXCEPT ![reqs[r].t] = @ + reqs[r].amount]
  /\ Goto(r, [reqs[r] EXCEPT !.op = "refundStatus"])
  /\ UNCHANGED <<booking, earning, txn, recorded, gateway, ages, env>>

\* Through the gateway or, when that fails or is not asked for, to the wallet.
RefundCredit(r) ==
  /\ At(r, "refundCredit")
  /\ credited' = [credited EXCEPT ![reqs[r].t] = @ + reqs[r].amount]
  /\ Goto(r, [reqs[r] EXCEPT !.op = "refundRecord"])
  /\ UNCHANGED <<booking, earning, txn, recorded, gateway, ages, env>>

RefundRecord(r) ==
  /\ At(r, "refundRecord")
  /\ recorded' = [recorded EXCEPT ![reqs[r].t] = @ + reqs[r].amount]
  /\ Goto(r, [reqs[r] EXCEPT !.op = "refundStatus"])
  /\ UNCHANGED <<booking, earning, txn, gateway, credited, ages, env>>

RefundStatus(r) ==
  /\ At(r, "refundStatus")
  /\ LET q == reqs[r] IN
       /\ SetStatus(q.t, IF q.prior + q.amount >= Price THEN "refunded" ELSE "partially_refunded")
       /\ Goto(r, q.then)
  /\ UNCHANGED <<booking, earning, recorded, gateway, credited, ages, env>>

-----------------------------------------------------------------------------
\* The rest of the booking's life: activate or no-show (guarded updates), then
\* completion, which writes the earning if nobody has.
Advance(r) ==
  /\ Starts(r, "advance")
  /\ status = "confirmed"
  /\ status' \in {"active", "no_show"}
  /\ UNCHANGED <<by, promised, earning, txn, recorded, gateway, credited, ages, env, reqs>>

CompleteFind(r) ==
  /\ Starts(r, "complete")
  /\ status = "active"
  /\ Goto(r, [op |-> "completeWrite"])
  /\ ReadOnly

CompleteWrite(r) ==
  /\ At(r, "completeWrite")
  /\ status' = "completed"
  /\ Goto(r, [op |-> "earn"])
  /\ UNCHANGED <<by, promised, earning, txn, recorded, gateway, credited, ages, env>>

\* PATCH /host/spaces/:id
ToggleInstant ==
  /\ "toggle" \in Ops
  /\ instant' = ~instant
  /\ UNCHANGED <<booking, earning, txn, recorded, gateway, credited, ages, slotFree, crashes, reqs>>

\* Time: the booking passes the cutoff, an attempt leaves the grace window.
Elapse ==
  /\ \/ ~overdue /\ overdue' = TRUE /\ UNCHANGED fresh
     \/ \E t \in fresh : fresh' = fresh \ {t} /\ UNCHANGED overdue
  /\ UNCHANGED <<booking, earning, txn, recorded, gateway, credited, env, reqs>>

\* A handler stops between two statements.
Crash(r) ==
  /\ crashes < MaxCrashes /\ reqs[r] # Idle
  /\ crashes' = crashes + 1
  /\ Done(r)
  /\ UNCHANGED <<booking, earning, txn, recorded, gateway, credited, ages, instant, slotFree>>

-----------------------------------------------------------------------------
Init ==
  /\ instant \in BOOLEAN
  /\ status = "pending" /\ by = "nobody" /\ promised = 0 /\ earning = "none"
  /\ txn = [t \in Attempts |-> [st |-> "none", method |-> "none"]]
  /\ recorded = [t \in Attempts |-> 0] /\ credited = [t \in Attempts |-> 0]
  /\ charge = [t \in Attempts |-> "none"] /\ declined = {}
  /\ fresh = {} /\ overdue = FALSE
  /\ slotFree \in BOOLEAN /\ crashes = 0
  /\ reqs = [r \in Requests |-> Idle]

\* A request, delivery or job arrives.
Arrive(r) ==
  \/ \E m \in Methods : IntentRead(r, m)
  \/ WalletRead(r)
  \/ \E t \in Attempts : HookRead(r, t) \/ HookFailed(r, t) \/ ConfirmFails(r, t)
  \/ ApproveRead(r) \/ RejectRead(r) \/ HostCancelRead(r)
  \/ \E a \in UserRefunds : CancelByDriver(r, a)
  \/ AdminCancelRead(r)
  \/ \E amount \in AdminRefunds : AdminRefund(r, amount)
  \/ \E t \in Attempts, amount \in AdminRefunds : AdminRefundTx(r, t, amount)
  \/ SweepFind(r)
  \/ Advance(r) \/ CompleteFind(r)

\* A handler in flight executes its next statement.
Proceed(r) ==
  \/ IntentInsert(r) \/ WalletWrite(r) \/ WalletRefused(r)
  \/ ConfirmRead(r) \/ ConfirmWrite(r) \/ ConfirmRefused(r)
  \/ ApproveWrite(r) \/ ApproveRefused(r) \/ Earn(r)
  \/ RejectWrite(r) \/ HostCancelWrite(r)
  \/ AdminCancelWrite(r) \/ AdminFind(r) \/ AdminTotal(r)
  \/ SweepWrite(r)
  \/ FindPaid(r) \/ RefundRead(r) \/ RefundCredit(r) \/ RefundRecord(r) \/ RefundStatus(r)
  \/ CompleteWrite(r)

Next ==
  \/ \E r \in Requests : Arrive(r) \/ Proceed(r) \/ Crash(r)
  \/ \E t \in Attempts : Capture(t) \/ Decline(t)
  \/ ToggleInstant \/ Elapse

Spec == Init /\ [][Next]_vars

\* Handlers in flight run on, the gateway repeats the event of a charge the backend
\* has not acknowledged, time passes and the cron job keeps coming back.
Fairness ==
  /\ \A r \in Requests : WF_vars(Proceed(r))
  /\ \A t \in Attempts : SF_vars(\E r \in Requests : HookRead(r, t))
  /\ SF_vars(\E r \in Requests : SweepFind(r))
  /\ WF_vars(Elapse)

FairSpec == Spec /\ Fairness

-----------------------------------------------------------------------------
\* Properties.

\* No interleaving, crash or repeated event makes a booking firm, or books an
\* earning for the host, unless somebody was charged.
NothingUnpaid ==
  status \in {"confirmed", "active", "completed", "no_show"} \/ earning # "none"
    => Captured # {}

Quiet == \A r \in Requests : reqs[r] = Idle

\* A refund record stands for money that was given back, for a charge that was made: the
\* credit comes first, so a handler that stops loses the record, never the driver's money;
\* and where none stopped the two agree once nothing is in flight, although two refunds of
\* one payment may interleave (initiateRefund).
CreditMatchesRecord ==
  /\ \A t \in Attempts : recorded[t] <= credited[t] /\ (credited[t] > 0 => t \in Captured)
  /\ Quiet /\ crashes = 0 => credited = recorded

\* A cancellation is paid for once: the driver gets back no more than he paid for an
\* attempt, and the host keeps no earning that will mature (cancelBooking, rejectBooking,
\* hostCancelBooking, the sweep, and the refund of a payment that came late).
CancellationAddsUp ==
  /\ \A t \in Attempts : credited[t] <= Price
  /\ status = "cancelled" /\ Quiet => earning # "pending"

\* The money of a captured charge is where it belongs: with the booking it pays for,
\* or back with the driver, or kept under the cancellation policy.
Settled(t) ==
  \/ recorded[t] > 0
  \/ /\ txn[t].st = "completed"
     /\ \/ status \in {"confirmed", "active", "completed", "no_show"}
        \/ status = "pending" /\ ~instant
        \/ status = "cancelled" /\ by = "user" /\ promised = 0

\* A captured charge is settled some day, however late its event, unless the driver
\* is charged a second time for the same booking.
CapturedIsSettled ==
  \A t \in Attempts : Captured = {t} ~> (Settled(t) \/ Captured # {t})

=============================================================================
