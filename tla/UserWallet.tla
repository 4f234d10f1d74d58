---------------------------- MODULE UserWallet ----------------------------
(***************************************************************************)
(* The wallet of one user: its balance, its entries, and everything that   *)
(* writes them: top-ups through a payment gateway, the wallet part of a    *)
(* split payment, payments from the wallet, an administrator's             *)
(* adjustments and suspension of the account, and withdrawals.             *)
(*                                                                         *)
(* A debit locks the wallet's row.  A credit and a wallet payment read the *)
(* balance without a lock and write the new one later.  The wallet's row   *)
(* is made by the first credit; here it is there from the start, empty.    *)
(* There is one instant-book booking, of CardPart + WalletPart.            *)
(***************************************************************************)
EXTENDS Integers, FiniteSets

CONSTANTS
  Requests,    \* handlers of the server
  Workloads,   \* what a behaviour may do, one chosen at the start: [ops, crew, faults, splits, purse]
  NTopUps,     \* bound on top-ups
  NSplits,     \* bound on attempts at a split payment
  CardPart,    \* the part of the booking's price the card pays
  WalletPart,  \* and the part the wallet pays
  MaxAdjusts,  \* bound on adjustments by an administrator
  MaxFaults    \* bound on statements that throw and on handlers that stop half-way

\* ops is a subset of {"topup", "hook", "confirm", "expiry", "credit", "debit", "pay", "split",
\* "cancel", "suspend", "withdraw"}, and of what TripOrders and Vehicles add.
ASSUME WalletAssumption ==
  /\ \A w \in Workloads :
       /\ w.crew \subseteq Requests /\ IsFiniteSet(w.crew) /\ w.faults \in 0..MaxFaults
       /\ w.splits \in 0..NSplits /\ w.purse \subseteq Nat
  /\ NTopUps \in Nat /\ NSplits \in Nat /\ MaxAdjusts \in Nat /\ MaxFaults \in Nat
  /\ CardPart \in Nat \ {0} /\ WalletPart \in Nat \ {0}

TopUps == 1..NTopUps
Splits == 1..NSplits
Price  == CardPart + WalletPart
Unit   == 1              \* the amount of a top-up, an adjustment, a withdrawal

VARIABLES
  load,      \* the workload of this behaviour
  balance,   \* wallets.balance
  reserved,  \* wallets.reserved_balance: the withdrawal in flight
  ledger,    \* the sum of the wallet's entries, debits negative
  topup,     \* topup[t]: the gateway's payment and the key wallet:topup:<ref>
  split,     \* split[s]: the transaction row and its PaymentIntent
  booking,   \* the booking's row, and whether the wallet alone paid for it
  reqs,      \* reqs[r]: what handler r has read and has still to do
  faults,    \* statements that threw and handlers that stopped
  past       \* history the properties read

wallet == <<balance, reserved, ledger>>
vars   == <<load, wallet, topup, split, booking, reqs, faults, past>>

-----------------------------------------------------------------------------
TopUp == [gw : {"none", "created", "offered", "paid"},
          marker : {"none", "open", "credited"}]
Split == [st : {"none", "pending", "completed", "failed", "refunded"},
          card : {"none", "open", "captured"}, declined : BOOLEAN, returned : BOOLEAN]

Idle == [op |-> "idle"]

\* The amounts are never negative: no sequence of debits overdraws the wallet or
\* releases more than was reserved (debitWallet's and requestWithdrawal's check of
\* the balance under the lock).
TypeOK ==
  /\ load \in Workloads
  /\ balance \in Nat /\ reserved \in Nat /\ ledger \in Int
  /\ topup \in [TopUps -> TopUp]
  /\ split \in [Splits -> Split]
  /\ booking \in [status : {"pending", "confirmed", "cancelled"}, wallet : BOOLEAN]
  /\ faults \in 0..MaxFaults
  /\ past \in [credits : [TopUps -> Nat], expired : SUBSET TopUps,
               debits : [Splits -> Nat], adjusts : 0..MaxAdjusts, stopped : BOOLEAN]

Starts(r, op) == op \in load.ops /\ r \in load.crew /\ reqs[r] = Idle
At(r, step)   == reqs[r].op = step
Goto(r, rec)  == reqs' = [reqs EXCEPT ![r] = rec]
Done(r)       == Goto(r, Idle)
\* creditWallet is called, and handler r goes on with next.
GoCredit(r, amount, next) ==
  Goto(r, [op |-> "creditRead", amount |-> amount, next |-> next])

MayFault == faults < load.faults
Fault    == MayFault /\ faults' = faults + 1

\* One entry of the wallet and the balance it leaves, in one transaction.
Post(amount) == balance' = balance + amount /\ ledger' = ledger + amount

\* Mutant: the balance is not looked at.
DebitUnchecked(amount) == Post(0 - amount)

\* debitWallet: SELECT ... FOR UPDATE, refuse or write.
Debit(amount) == balance >= amount /\ Post(0 - amount)

-----------------------------------------------------------------------------
(***************************************************************************)
(* Top-ups.  The gateway's payment is made first, then the key in Redis,   *)
(* and only then does the client learn of it and can pay.                  *)
(***************************************************************************)
CreateTopUpIntent(r, t) ==
  /\ Starts(r, "topup") /\ topup[t].gw = "none"
  /\ topup' = [topup EXCEPT ![t].gw = "created"]
  /\ Goto(r, [op |-> "topupStore", t |-> t])
  /\ UNCHANGED <<load, wallet, split, booking, faults, past>>

StoreTopUp(r) ==
  /\ At(r, "topupStore")
  /\ topup' = [topup EXCEPT ![reqs[r].t] = [gw |-> "offered", marker |-> "open"]]
  /\ Done(r)
  /\ UNCHANGED <<load, wallet, split, booking, faults, past>>

TopUpPaid(t) ==
  /\ topup[t].gw = "offered"
  /\ topup' = [topup EXCEPT ![t].gw = "paid"]
  /\ UNCHANGED <<load, wallet, split, booking, reqs, faults, past>>

\* TOPUP_TTL_SECONDS after it was last written.
TopUpExpires(t) ==
  /\ "expiry" \in load.ops /\ topup[t].marker # "none"
  /\ topup' = [topup EXCEPT ![t].marker = "none"]
  /\ past' = [past EXCEPT !.expired = @ \cup {t}]
  /\ UNCHANGED <<load, wallet, split, booking, reqs, faults>>

Apply(r, t) ==
  /\ topup[t].gw = "paid"
  /\ Goto(r, [op |-> "applyRead", t |-> t])
  /\ UNCHANGED <<load, wallet, topup, split, booking, faults, past>>

\* The gateway's event, delivered any number of times; an error is swallowed, so
\* the gateway does not deliver it again for that.
HookTopUp(r, t) == Starts(r, "hook") /\ Apply(r, t)

\* The client's own confirmation, which asks the gateway.
ConfirmTopUpStripe(r, t) == Starts(r, "confirm") /\ Apply(r, t)

\* Or proves the payment by the gateway's signature.
VerifyTopUpRazorpay(r, t) == Starts(r, "confirm") /\ Apply(r, t)

ApplyRead(r) ==
  /\ At(r, "applyRead")
  /\ IF topup[reqs[r].t].marker = "open"
     THEN Goto(r, [op |-> "applyMark", t |-> reqs[r].t])
     ELSE Done(r)
  /\ UNCHANGED <<load, wallet, topup, split, booking, faults, past>>

ApplyMark(r) ==
  /\ At(r, "applyMark")
  /\ topup' = [topup EXCEPT ![reqs[r].t].marker = "credited"]
  /\ GoCredit(r, Unit, [op |-> "applyDelete", t |-> reqs[r].t])
  /\ UNCHANGED <<load, wallet, split, booking, faults, past>>

\* Mutant: the flag stays when the credit failed.
ApplyUnmarkForgotten(r) ==
  /\ At(r, "applyUnmark")
  /\ Done(r)
  /\ UNCHANGED <<load, wallet, topup, split, booking, faults, past>>

ApplyUnmark(r) ==
  /\ At(r, "applyUnmark")
  /\ topup' = [topup EXCEPT ![reqs[r].t].marker = "open"]
  /\ Done(r)
  /\ UNCHANGED <<load, wallet, split, booking, faults, past>>

ApplyDelete(r) ==
  /\ At(r, "applyDelete")
  /\ topup' = [topup EXCEPT ![reqs[r].t].marker = "none"]
  /\ Done(r)
  /\ UNCHANGED <<load, wallet, split, booking, faults, past>>

-----------------------------------------------------------------------------
(***************************************************************************)
(* creditWallet, of services/wallet.ts and of services/refund.ts.          *)
(***************************************************************************)
CreditRead(r) ==
  /\ At(r, "creditRead")
  /\ Goto(r, [op |-> "creditWrite", amount |-> reqs[r].amount, next |-> reqs[r].next,
              base |-> balance])
  /\ UNCHANGED <<load, wallet, topup, split, booking, faults, past>>

\* Whether what is credited is a top-up.
ForTopUp(r) == reqs[r].next.op = "applyDelete"

CreditWrite(r) ==
  /\ At(r, "creditWrite")
  /\ balance' = reqs[r].base + reqs[r].amount
  /\ ledger' = ledger + reqs[r].amount
  /\ past' = IF ForTopUp(r) THEN [past EXCEPT !.credits[reqs[r].next.t] = @ + 1] ELSE past
  /\ Goto(r, reqs[r].next)
  /\ UNCHANGED <<load, reserved, topup, split, booking, faults>>

\* A statement of the transaction throws and all of it is undone.
CreditFails(r) ==
  /\ At(r, "creditRead") \/ At(r, "creditWrite")
  /\ Fault
  /\ IF ForTopUp(r) THEN Goto(r, [op |-> "applyUnmark", t |-> reqs[r].next.t]) ELSE Done(r)
  /\ UNCHANGED <<load, wallet, topup, split, booking, past>>

-----------------------------------------------------------------------------
(***************************************************************************)
(* An administrator's adjustment.                                          *)
(***************************************************************************)
AdminCredit(r) ==
  /\ Starts(r, "credit") /\ past.adjusts < MaxAdjusts
  /\ past' = [past EXCEPT !.adjusts = @ + 1]
  /\ GoCredit(r, Unit, Idle)
  /\ UNCHANGED <<load, wallet, topup, split, booking, faults>>

AdminDebit(r) ==
  /\ Starts(r, "debit")
  /\ Debit(Unit)
  /\ UNCHANGED <<load, reserved, topup, split, booking, reqs, faults, past>>

(***************************************************************************)
(* A payment of the whole booking from the wallet.  Too little in it       *)
(* changes nothing.                                                        *)
(***************************************************************************)
WalletPaymentRead(r) ==
  /\ Starts(r, "pay")
  /\ booking = [status |-> "pending", wallet |-> FALSE]
  /\ balance >= Price
  /\ Goto(r, [op |-> "payWrite", base |-> balance])
  /\ UNCHANGED <<load, wallet, topup, split, booking, faults, past>>

WalletPaymentWrite(r) ==
  /\ At(r, "payWrite")
  /\ balance' = reqs[r].base - Price
  /\ ledger' = ledger - Price
  /\ booking' = [status |-> "confirmed", wallet |-> TRUE]
  /\ Done(r)
  /\ UNCHANGED <<load, reserved, topup, split, faults, past>>

-----------------------------------------------------------------------------
(***************************************************************************)
(* The account is suspended: its booking is cancelled and what was paid    *)
(* for it, or its price when nothing was, is credited.                     *)
(***************************************************************************)
PaidByCard  == {s \in Splits : split[s].st = "completed"}
PaidAmounts == {CardPart : s \in PaidByCard} \cup {Price : x \in {booking.wallet} \cap {TRUE}}

SuspendRead(r) ==
  /\ Starts(r, "suspend") /\ booking.status # "cancelled"
  /\ \E amount \in IF PaidAmounts = {} THEN {Price} ELSE PaidAmounts :
       Goto(r, [op |-> "suspendWrite", amount |-> amount])
  /\ UNCHANGED <<load, wallet, topup, split, booking, faults, past>>

SuspendWrite(r) ==
  /\ At(r, "suspendWrite")
  /\ booking' = [booking EXCEPT !.status = "cancelled"]
  /\ GoCredit(r, reqs[r].amount, Idle)
  /\ UNCHANGED <<load, wallet, topup, split, faults, past>>

(***************************************************************************)
(* A withdrawal: the amount is set aside under the row's lock, then paid   *)
(* out or given back.  There is one in flight at most (HostPayouts has the *)
(* payouts themselves).                                                    *)
(***************************************************************************)
Withdraw(r) ==
  /\ Starts(r, "withdraw") /\ reserved = 0
  /\ Debit(Unit)
  /\ reserved' = reserved + Unit
  /\ UNCHANGED <<load, topup, split, booking, reqs, faults, past>>

WithdrawalPaid(r) ==
  /\ Starts(r, "withdraw") /\ reserved >= Unit
  /\ reserved' = reserved - Unit
  /\ UNCHANGED <<load, balance, ledger, topup, split, booking, reqs, faults, past>>

\* Mutant: the failed withdrawal leaves no entry.
WithdrawalFailedSilently(r) ==
  /\ Starts(r, "withdraw") /\ reserved >= Unit
  /\ reserved' = reserved - Unit /\ balance' = balance + Unit
  /\ UNCHANGED <<load, ledger, topup, split, booking, reqs, faults, past>>

WithdrawalFailed(r) ==
  /\ Starts(r, "withdraw") /\ reserved >= Unit
  /\ reserved' = reserved - Unit /\ Post(Unit)
  /\ UNCHANGED <<load, topup, split, booking, reqs, faults, past>>

-----------------------------------------------------------------------------
(***************************************************************************)
(* A payment split between the wallet and a card.  An attempt that is      *)
(* still open is offered again instead of a new one; one whose card was    *)
(* charged is confirmed on the spot.                                       *)
(***************************************************************************)
Pending == {s \in Splits : split[s].st = "pending"}
Latest(S) == CHOOSE s \in S : \A u \in S : u <= s

SplitRead(r) ==
  /\ Starts(r, "split") /\ booking.status = "pending"
  /\ IF Pending = {} THEN Goto(r, [op |-> "splitInsert"])
     ELSE /\ split[Latest(Pending)].card = "captured"
          /\ Goto(r, [op |-> "splitConfirm", s |-> Latest(Pending)])
  /\ UNCHANGED <<load, wallet, topup, split, booking, faults, past>>

SplitInsert(r) ==
  /\ At(r, "splitInsert")
  /\ \E s \in 1..load.splits :
       /\ split[s].st = "none" /\ \A u \in 1..(s - 1) : split[u].st # "none"
       /\ split' = [split EXCEPT ![s] = [@ EXCEPT !.st = "pending", !.card = "open"]]
  /\ Done(r)
  /\ UNCHANGED <<load, wallet, topup, booking, faults, past>>

SplitNoRoom(r) ==
  /\ At(r, "splitInsert") /\ \A s \in 1..load.splits : split[s].st # "none"
  /\ Done(r)
  /\ UNCHANGED <<load, wallet, topup, split, booking, faults, past>>

CardCaptured(s) ==
  /\ split[s].card = "open"
  /\ split' = [split EXCEPT ![s].card = "captured"]
  /\ UNCHANGED <<load, wallet, topup, booking, reqs, faults, past>>

CardDeclined(s) ==
  /\ split[s].card = "open" /\ ~split[s].declined
  /\ split' = [split EXCEPT ![s].declined = TRUE]
  /\ UNCHANGED <<load, wallet, topup, booking, reqs, faults, past>>

\* Mutant: the event is acted upon whatever the transaction's status.
HookSplitAgain(r, s) ==
  /\ Starts(r, "hook") /\ split[s].card = "captured"
  /\ Goto(r, [op |-> "splitDebit", s |-> s])
  /\ UNCHANGED <<load, wallet, topup, split, booking, faults, past>>

HookSplit(r, s) ==
  /\ Starts(r, "hook") /\ split[s].card = "captured" /\ split[s].st # "completed"
  /\ Goto(r, [op |-> "splitDebit", s |-> s])
  /\ UNCHANGED <<load, wallet, topup, split, booking, faults, past>>

\* Too little in the wallet: the event is answered with an error and delivered again.
SplitDebit(r) ==
  /\ At(r, "splitDebit")
  /\ LET s == reqs[r].s IN
     \/ /\ Debit(WalletPart)
        /\ past' = [past EXCEPT !.debits[s] = @ + 1]
        /\ Goto(r, [op |-> "splitConfirm", s |-> s])
     \/ /\ balance < WalletPart
        /\ Done(r) /\ UNCHANGED <<balance, ledger, past>>
  /\ UNCHANGED <<load, reserved, topup, split, booking, faults>>

\* confirmPayment: the client asks, the wallet is not touched.
ConfirmSplit(r, s) ==
  /\ Starts(r, "confirm") /\ split[s].card = "captured" /\ split[s].st \notin {"completed", "failed"}
  /\ Goto(r, [op |-> "splitConfirm", s |-> s])
  /\ UNCHANGED <<load, wallet, topup, split, booking, faults, past>>

HookDeclined(r, s) ==
  /\ Starts(r, "hook") /\ split[s].declined /\ split[s].st # "completed"
  /\ split' = [split EXCEPT ![s].st = "failed"]
  /\ UNCHANGED <<load, wallet, topup, booking, reqs, faults, past>>

\* confirmBookingAfterPayment.
SplitConfirm(r) ==
  /\ At(r, "splitConfirm")
  /\ LET s == reqs[r].s IN
     IF split[s].st = "refunded"
     THEN Done(r) /\ UNCHANGED <<split, booking>>
     ELSE /\ split' = [split EXCEPT ![s].st = "completed"]
          /\ booking' = [booking EXCEPT !.status = IF @ = "pending" THEN "confirmed" ELSE @]
          /\ IF booking.status = "cancelled" THEN Goto(r, [op |-> "refundRead", s |-> s])
                                             ELSE Done(r)
  /\ UNCHANGED <<load, wallet, topup, faults, past>>

SplitConfirmFails(r) ==
  /\ At(r, "splitConfirm") /\ Fault
  /\ Done(r)
  /\ UNCHANGED <<load, wallet, topup, split, booking, past>>

CancelBooking ==
  /\ "cancel" \in load.ops /\ booking = [status |-> "pending", wallet |-> FALSE]
  /\ PaidByCard = {}
  /\ booking' = [booking EXCEPT !.status = "cancelled"]
  /\ UNCHANGED <<load, wallet, topup, split, reqs, faults, past>>

-----------------------------------------------------------------------------
(***************************************************************************)
(* The refund of a payment that came after the cancellation: the card's    *)
(* part, to the wallet (BookingPayments has the refunds in general).       *)
(***************************************************************************)
RefundRead(r) ==
  /\ At(r, "refundRead")
  /\ LET s == reqs[r].s IN
     IF split[s].st = "completed" /\ ~split[s].returned
     THEN GoCredit(r, CardPart, [op |-> "refundRecord", s |-> s])
     ELSE Done(r)
  /\ UNCHANGED <<load, wallet, topup, split, booking, faults, past>>

RefundRecord(r) ==
  /\ At(r, "refundRecord")
  /\ split' = [split EXCEPT ![reqs[r].s].returned = TRUE]
  /\ Goto(r, [op |-> "refundStatus", s |-> reqs[r].s])
  /\ UNCHANGED <<load, wallet, topup, booking, faults, past>>

RefundStatus(r) ==
  /\ At(r, "refundStatus")
  /\ split' = [split EXCEPT ![reqs[r].s].st = "refunded"]
  /\ Done(r)
  /\ UNCHANGED <<load, wallet, topup, booking, faults, past>>

Crash(r) ==
  /\ reqs[r] # Idle /\ Fault
  /\ Done(r)
  /\ past' = [past EXCEPT !.stopped = TRUE]
  /\ UNCHANGED <<load, wallet, topup, split, booking>>

-----------------------------------------------------------------------------
Init ==
  /\ load \in Workloads
  /\ balance \in load.purse /\ ledger = balance /\ reserved = 0
  /\ topup = [t \in TopUps |-> [gw |-> "none", marker |-> "none"]]
  /\ split = [s \in Splits |-> [st |-> "none", card |-> "none",
                                declined |-> FALSE, returned |-> FALSE]]
  /\ booking = [status |-> "pending", wallet |-> FALSE]
  /\ reqs = [r \in Requests |-> Idle]
  /\ faults = 0
  /\ past = [credits |-> [t \in TopUps |-> 0], expired |-> {},
             debits |-> [s \in Splits |-> 0], adjusts |-> 0, stopped |-> FALSE]

Outside ==
  \/ \E t \in TopUps : TopUpPaid(t) \/ TopUpExpires(t)
  \/ \E s \in Splits : CardCaptured(s) \/ CardDeclined(s)
  \/ CancelBooking

Arrive(r) ==
  \/ \E t \in TopUps : \/ CreateTopUpIntent(r, t) \/ HookTopUp(r, t)
                       \/ ConfirmTopUpStripe(r, t) \/ VerifyTopUpRazorpay(r, t)
  \/ \E s \in Splits : HookSplit(r, s) \/ ConfirmSplit(r, s) \/ HookDeclined(r, s)
  \/ AdminCredit(r) \/ AdminDebit(r) \/ WalletPaymentRead(r)
  \/ SuspendRead(r) \/ SplitRead(r)
  \/ Withdraw(r) \/ WithdrawalPaid(r) \/ WithdrawalFailed(r)

Proceed(r) ==
  \/ StoreTopUp(r) \/ ApplyRead(r) \/ ApplyMark(r) \/ ApplyUnmark(r) \/ ApplyDelete(r)
  \/ CreditRead(r) \/ CreditWrite(r) \/ CreditFails(r)
  \/ WalletPaymentWrite(r) \/ SuspendWrite(r)
  \/ SplitInsert(r) \/ SplitNoRoom(r) \/ SplitDebit(r) \/ SplitConfirm(r) \/ SplitConfirmFails(r)
  \/ RefundRead(r) \/ RefundRecord(r) \/ RefundStatus(r) \/ Crash(r)

Next == Outside \/ \E r \in Requests : Arrive(r) \/ Proceed(r)

Spec == Init /\ [][Next]_vars

-----------------------------------------------------------------------------
OneAtATime == Cardinality(load.crew) = 1

\* The operations that read the balance without the lock and write it later.
Unlocked == {"topup", "credit", "pay", "suspend", "cancel", "cancelTrip", "hostCancel", "refund"}

\* The balance is the sum of the entries as long as requests come one at a time, and
\* at all times when nothing but debits runs (debitWallet, requestWithdrawal and the
\* payouts' own updates, against creditWallet and processWalletPayment).
BalanceIsSum == OneAtATime \/ load.ops \cap Unlocked = {} => balance = ledger

InFlight(t) ==
  \E r \in Requests :
    \/ reqs[r].op \in {"applyMark", "applyUnmark"} /\ reqs[r].t = t
    \/ /\ reqs[r].op \in {"creditRead", "creditWrite"}
       /\ reqs[r].next = [op |-> "applyDelete", t |-> t]

\* A paid top-up is never lost: it has been credited, or is being, or its key still lets
\* it be, however often and from wherever it is applied and whichever credit throws,
\* unless the key ran out or a handler stopped.  Applied one at a time it is credited
\* once (applyTopUpCredit's flag: set before, cleared on failure).
TopUpApplied ==
  \A t \in TopUps :
    /\ topup[t].gw = "paid" /\ t \notin past.expired /\ ~past.stopped
         => past.credits[t] > 0 \/ topup[t].marker = "open" \/ InFlight(t)
    /\ OneAtATime => past.credits[t] <= 1

\* The wallet's part is taken for a card that was charged, and once per attempt
\* while events are handled one at a time and none is interrupted between the debit
\* and the confirmation, until it is refunded (handleStripeWebhook).
SplitDebited ==
  \A s \in Splits :
    /\ past.debits[s] > 0 => split[s].card = "captured"
    /\ OneAtATime /\ faults = 0 /\ ~split[s].returned => past.debits[s] <= 1
=============================================================================
