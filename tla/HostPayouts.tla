----------------------------- MODULE HostPayouts -----------------------------
(***************************************************************************)
(* How one host gets his money: earnings that mature, payouts requested    *)
(* against them, withdrawals from his wallet, the cron job that hands both *)
(* to RazorpayX, and the events RazorpayX sends about its transfers.       *)
(*                                                                         *)
(* Both kinds of request are rows of the same table and nothing in a row   *)
(* tells them apart; `from` is there for the properties only.  Earnings    *)
(* are never linked to a payout: what is left to pay out is computed from  *)
(* sums.  Amounts are in units of the minimum payout of 100 rupees.        *)
(***************************************************************************)
EXTENDS Integers, FiniteSets, Functions

CONSTANTS
  Earnings,    \* bookings of which the host earns
  Payouts,     \* rows of the payouts table, bounded
  Requests,    \* handlers that may be in flight at once
  Ops,         \* the operations the environment issues
  Events,      \* the events RazorpayX sends
  Net,         \* host_earnings.net_amount, the same for every booking
  Deposits,    \* the wallet's balance at the start
  Amounts,     \* what the host may ask for
  MaxCrashes   \* bound on handlers that stop half-way

AllOps    == {"payout", "withdraw", "cron", "hook", "admin", "dispute",
              "lostAnswer", "lostAck"}
\* The events that handleRazorpayXWebhook has a case for; `rejected` stands for `cancelled` too.
Handled   == {"initiated", "processed", "failed", "reversed"}
AllEvents == Handled \cup {"rejected"}

ASSUME PayoutsAssumption ==
  /\ Net \in Nat \ {0} /\ Deposits \in Nat /\ MaxCrashes \in Nat
  /\ Amounts \subseteq Nat \ {0}
  /\ IsFiniteSet(Earnings) /\ IsFiniteSet(Payouts)
  /\ Ops \subseteq AllOps /\ Events \subseteq AllEvents

VARIABLES
  earning,    \* host_earnings.status by booking
  dispute,    \* the dispute about the booking
  matured,    \* history: earnings that have been available
  balance,    \* wallets.balance
  reserved,   \* wallets.reserved_balance
  payout,     \* the payouts table
  transfer,   \* transfer[p]: the transfer under p's idempotency key at RazorpayX
  notices,    \* events that RazorpayX has still to get acknowledged
  crashes,    \* handlers that stopped half-way
  reqs        \* reqs[r]: what handler r has read and has still to do

wallet  == <<balance, reserved>>
income  == <<earning, dispute, matured>>
bank    == <<transfer, notices>>
vars    == <<income, wallet, payout, bank, crashes, reqs>>

-----------------------------------------------------------------------------
Statuses       == {"requested", "processing", "completed", "failed"}
TransferStates == {"none", "queued", "processed", "failed", "reversed", "rejected"}

NoPayout == [st |-> "none", amount |-> 0, from |-> "none", known |-> FALSE]
Payout   == {NoPayout} \cup [st : Statuses, amount : Amounts,
                             from : {"earnings", "wallet"}, known : BOOLEAN]

Idle == [op |-> "idle"]
Request ==
  {Idle}
    \cup [op : {"payoutCheck", "payoutSum"}]
    \cup [op : {"payoutCreate", "withdrawReserve"}, amount : Amounts]
    \cup [op : {"cronMark"}, todo : SUBSET Payouts]
    \cup [op : {"cronSubmit"}, p : Payouts, todo : SUBSET Payouts]
    \cup [op : {"cronWrite"}, p : Payouts, todo : SUBSET Payouts,
          answer : Statuses \cup {"error"}]
    \cup [op : {"hookWrite"}, p : Payouts, event : AllEvents]
    \cup [op : {"adminWrite"}, p : Payouts, to : Statuses]

TypeOK ==
  /\ earning \in [Earnings -> {"pending", "available", "on_hold"}]
  /\ dispute \in [Earnings -> {"none", "open", "closed"}]
  /\ matured \subseteq Earnings
  /\ balance \in Nat /\ reserved \in Nat
  /\ payout \in [Payouts -> Payout]
  /\ transfer \in [Payouts -> TransferStates]
  /\ notices \subseteq Payouts \X AllEvents
  /\ crashes \in 0..MaxCrashes
  /\ reqs \in [Requests -> Request]

Starts(r, op) == op \in Ops /\ reqs[r] = Idle
At(r, step)   == reqs[r].op = step
Goto(r, rec)  == reqs' = [reqs EXCEPT ![r] = rec]
Done(r)       == Goto(r, Idle)

InStatus(S) == {p \in Payouts : payout[p].st \in S}
Total(P)    == SumFunctionOnSet([p \in Payouts |-> payout[p].amount], P)
InFlight    == InStatus({"requested", "processing"})

\* Mutant: completed payouts are forgotten.
AvailableForgetful ==
  Net * Cardinality({e \in Earnings : earning[e] = "available"}) - Total(InFlight)

\* What the sums leave for a payout: no row is ever `paid_out` or has a payout_id.
Available ==
  Net * Cardinality({e \in Earnings : earning[e] = "available"})
    - Total(InStatus({"completed"})) - Total(InFlight)

NewPayout(p, amount, from) ==
  /\ payout[p] = NoPayout
  /\ payout' = [payout EXCEPT ![p] = [st |-> "requested", amount |-> amount,
                                      from |-> from, known |-> FALSE]]

\* Mutant: the reservation goes without a look at the wallet.
CompleteUnguarded(p, knows) ==
  /\ payout' = [payout EXCEPT ![p].st = "completed", ![p].known = @ \/ knows]
  /\ reserved' = reserved - payout[p].amount
  /\ UNCHANGED balance

\* completePayout: the reservation goes if the wallet has that much reserved,
\* whatever the payout was drawn on.
Complete(p, knows) ==
  /\ payout' = [payout EXCEPT ![p].st = "completed", ![p].known = @ \/ knows]
  /\ reserved' = IF reserved >= payout[p].amount THEN reserved - payout[p].amount
                                                 ELSE reserved
  /\ UNCHANGED balance

\* Mutant: the money comes back whether or not it was reserved.
FailAlwaysCredits(p, knows) ==
  /\ payout' = [payout EXCEPT ![p].st = "failed", ![p].known = @ \/ knows]
  /\ balance' = balance + payout[p].amount
  /\ reserved' = IF reserved >= payout[p].amount THEN reserved - payout[p].amount ELSE 0

\* failPayout
Fail(p, knows) ==
  /\ payout' = [payout EXCEPT ![p].st = "failed", ![p].known = @ \/ knows]
  /\ IF reserved >= payout[p].amount
     THEN /\ balance' = balance + payout[p].amount
          /\ reserved' = reserved - payout[p].amount
     ELSE UNCHANGED wallet

-----------------------------------------------------------------------------
\* Earnings.  Every row starts as pending and stays so until available_at has passed.
Mature ==
  \E D \in SUBSET {e \in Earnings : earning[e] = "pending"} :
    /\ earning' = [e \in Earnings |-> IF e \in D THEN "available" ELSE earning[e]]
    /\ matured' = matured \cup D

ReleaseHeldEarnings ==
  /\ Mature
  /\ UNCHANGED <<dispute, wallet, payout, bank, crashes, reqs>>

\* A dispute holds the earning, whatever has been paid out.  So does a cancellation,
\* which is here a dispute that nobody rejects.
DisputeOpen(e) ==
  /\ "dispute" \in Ops
  /\ dispute[e] = "none" /\ earning[e] \in {"pending", "available"}
  /\ earning' = [earning EXCEPT ![e] = "on_hold"]
  /\ dispute' = [dispute EXCEPT ![e] = "open"]
  /\ UNCHANGED <<matured, wallet, payout, bank, crashes, reqs>>

DisputeReject(e) ==
  /\ dispute[e] = "open"
  /\ dispute' = [dispute EXCEPT ![e] = "closed"]
  /\ earning' = [earning EXCEPT ![e] = "available"]
  /\ matured' = matured \cup {e}
  /\ UNCHANGED <<wallet, payout, bank, crashes, reqs>>

-----------------------------------------------------------------------------
\* POST /host/payouts/request
PayoutStart(r) ==
  /\ Starts(r, "payout")
  /\ Mature
  /\ Goto(r, [op |-> "payoutCheck"])
  /\ UNCHANGED <<dispute, wallet, payout, bank, crashes>>

PayoutCheck(r) ==
  /\ At(r, "payoutCheck")
  /\ IF InFlight = {} THEN Goto(r, [op |-> "payoutSum"]) ELSE Done(r)
  /\ UNCHANGED <<income, wallet, payout, bank, crashes>>

PayoutSum(r) ==
  /\ At(r, "payoutSum")
  /\ \E amount \in Amounts :
       IF amount <= Available THEN Goto(r, [op |-> "payoutCreate", amount |-> amount])
                              ELSE Done(r)
  /\ UNCHANGED <<income, wallet, payout, bank, crashes>>

PayoutCreate(r) ==
  /\ At(r, "payoutCreate")
  /\ \E p \in Payouts : NewPayout(p, reqs[r].amount, "earnings")
  /\ Done(r)
  /\ UNCHANGED <<income, wallet, bank, crashes>>

\* POST /wallet/withdraw: the check and then one transaction that locks the wallet.
WithdrawCheck(r, amount) ==
  /\ Starts(r, "withdraw")
  /\ InFlight = {}
  /\ Goto(r, [op |-> "withdrawReserve", amount |-> amount])
  /\ UNCHANGED <<income, wallet, payout, bank, crashes>>

WithdrawReserve(r) ==
  /\ At(r, "withdrawReserve")
  /\ LET amount == reqs[r].amount IN
       IF balance >= amount
       THEN /\ \E p \in Payouts : NewPayout(p, amount, "wallet")
            /\ balance' = balance - amount
            /\ reserved' = reserved + amount
       ELSE UNCHANGED <<payout, wallet>>
  /\ Done(r)
  /\ UNCHANGED <<income, bank, crashes>>

-----------------------------------------------------------------------------
\* The gateway.  A repeated idempotency key finds the transfer there is.
EventOf(t) == IF t = "queued" THEN "initiated" ELSE t

Becomes(p, t) ==
  /\ transfer' = [transfer EXCEPT ![p] = t]
  /\ notices' = notices \cup ({<<p, EventOf(t)>>} \cap (Payouts \X Events))

BankSettle(p) ==
  /\ transfer[p] = "queued"
  /\ \E t \in {"processed", "failed", "rejected"} : Becomes(p, t)
  /\ UNCHANGED <<income, wallet, payout, crashes, reqs>>

BankReverse(p) ==
  /\ transfer[p] = "processed" /\ "reversed" \in Events
  /\ Becomes(p, "reversed")
  /\ UNCHANGED <<income, wallet, payout, crashes, reqs>>

Submit(p) ==
  IF transfer[p] = "none"
  THEN \E t \in {"queued", "processed", "failed", "rejected"} : Becomes(p, t)
  ELSE UNCHANGED bank

\* Mutant: a queued transfer counts as completed.
InternalHasty(t) == IF t \in {"queued", "processed"} THEN "completed" ELSE "failed"

\* mapRazorpayXStatus
Internal(t) == CASE t = "queued"    -> "processing"
                 [] t = "processed" -> "completed"
                 [] t \in {"failed", "reversed", "rejected"} -> "failed"

-----------------------------------------------------------------------------
\* The cron job process-payouts: the rows it found, one after the other.
Continue(r, todo) == IF todo = {} THEN Done(r) ELSE Goto(r, [op |-> "cronMark", todo |-> todo])

CronFind(r) ==
  /\ Starts(r, "cron")
  /\ InStatus({"requested"}) # {}
  /\ Goto(r, [op |-> "cronMark", todo |-> InStatus({"requested"})])
  /\ UNCHANGED <<income, wallet, payout, bank, crashes>>

CronMark(r) ==
  /\ At(r, "cronMark")
  /\ \E p \in reqs[r].todo :
       /\ payout' = [payout EXCEPT ![p].st = "processing"]
       /\ Goto(r, [op |-> "cronSubmit", p |-> p, todo |-> reqs[r].todo \ {p}])
  /\ UNCHANGED <<income, wallet, bank, crashes>>

\* The call of the gateway and its answer, which may get lost on the way.
CronSubmit(r) ==
  /\ At(r, "cronSubmit")
  /\ LET p == reqs[r].p IN
       /\ Submit(p)
       /\ \E answer \in {Internal(transfer'[p])} \cup {a \in {"error"} : "lostAnswer" \in Ops} :
            Goto(r, [op |-> "cronWrite", p |-> p, todo |-> reqs[r].todo, answer |-> answer])
  /\ UNCHANGED <<income, wallet, payout, crashes>>

\* No fund account, or the gateway refuses the call.
CronRefused(r) ==
  /\ At(r, "cronSubmit")
  /\ Goto(r, [op |-> "cronWrite", p |-> reqs[r].p, todo |-> reqs[r].todo, answer |-> "error"])
  /\ UNCHANGED <<income, wallet, payout, bank, crashes>>

\* Mutant: the transfer's id is not stored.
CronWriteForgetsId(r) ==
  /\ At(r, "cronWrite")
  /\ LET p == reqs[r].p  answer == reqs[r].answer IN
       CASE answer = "completed"           -> Complete(p, TRUE)
         [] answer \in {"failed", "error"} -> Fail(p, answer = "failed")
         [] OTHER -> /\ payout' = [payout EXCEPT ![p].st = "processing"]
                     /\ UNCHANGED wallet
  /\ Continue(r, reqs[r].todo)
  /\ UNCHANGED <<income, bank, crashes>>

CronWrite(r) ==
  /\ At(r, "cronWrite")
  /\ LET p == reqs[r].p  answer == reqs[r].answer IN
       CASE answer = "completed"           -> Complete(p, TRUE)
         [] answer \in {"failed", "error"} -> Fail(p, answer = "failed")
         [] OTHER -> /\ payout' = [payout EXCEPT ![p].st = "processing", ![p].known = TRUE]
                     /\ UNCHANGED wallet
  /\ Continue(r, reqs[r].todo)
  /\ UNCHANGED <<income, bank, crashes>>

-----------------------------------------------------------------------------
\* The webhook.  An answer of 200 acknowledges the event, unless it gets lost.
Acknowledge(p, event) ==
  \/ notices' = notices \ {<<p, event>>}
  \/ "lostAck" \in Ops /\ UNCHANGED notices

\* The payout already is what the event would make it.
Stale(p, event) ==
  \/ event = "processed" /\ payout[p].st = "completed"
  \/ event \in {"failed", "reversed"} /\ payout[p].st = "failed"

HookRead(r, p, event) ==
  /\ Starts(r, "hook")
  /\ <<p, event>> \in notices
  /\ payout[p].known /\ event \in Handled /\ ~Stale(p, event)
  /\ Goto(r, [op |-> "hookWrite", p |-> p, event |-> event])
  /\ UNCHANGED <<income, wallet, payout, bank, crashes>>

\* No payout has that id, there is no case for the event, or nothing is to be done: answered
\* with 200 all the same.
HookDropped(r, p, event) ==
  /\ Starts(r, "hook")
  /\ <<p, event>> \in notices
  /\ ~payout[p].known \/ event \notin Handled \/ Stale(p, event)
  /\ Acknowledge(p, event)
  /\ UNCHANGED <<income, wallet, payout, transfer, crashes, reqs>>

HookWrite(r) ==
  /\ At(r, "hookWrite")
  /\ LET p == reqs[r].p  event == reqs[r].event IN
       /\ CASE event = "processed"              -> Complete(p, FALSE)
            [] event \in {"failed", "reversed"} -> Fail(p, FALSE)
            [] OTHER -> /\ payout' = [payout EXCEPT ![p].st = "processing"]
                        /\ UNCHANGED wallet
       /\ Acknowledge(p, event)
  /\ Done(r)
  /\ UNCHANGED <<income, transfer, crashes>>

\* POST /admin/payouts/:id/process
AdminRead(r, p, to) ==
  /\ Starts(r, "admin")
  /\ payout[p].st \in {"requested", "processing"} /\ to # "requested"
  /\ Goto(r, [op |-> "adminWrite", p |-> p, to |-> to])
  /\ UNCHANGED <<income, wallet, payout, bank, crashes>>

AdminWrite(r) ==
  /\ At(r, "adminWrite")
  /\ LET p == reqs[r].p  to == reqs[r].to IN
       CASE to = "completed" -> Complete(p, FALSE)
         [] to = "failed"    -> Fail(p, FALSE)
         [] OTHER -> /\ payout' = [payout EXCEPT ![p].st = "processing"]
                     /\ UNCHANGED wallet
  /\ Done(r)
  /\ UNCHANGED <<income, bank, crashes>>

\* A process that dies between two statements.
Crash(r) ==
  /\ reqs[r] # Idle /\ crashes < MaxCrashes
  /\ crashes' = crashes + 1
  /\ Done(r)
  /\ UNCHANGED <<income, wallet, payout, bank>>

-----------------------------------------------------------------------------
Init ==
  /\ earning = [e \in Earnings |-> "pending"] /\ dispute = [e \in Earnings |-> "none"]
  /\ matured = {}
  /\ balance = Deposits /\ reserved = 0
  /\ payout = [p \in Payouts |-> NoPayout]
  /\ transfer = [p \in Payouts |-> "none"] /\ notices = {}
  /\ crashes = 0
  /\ reqs = [r \in Requests |-> Idle]

Deliver(r, p, event) == HookRead(r, p, event) \/ HookDropped(r, p, event)

Arrive(r) ==
  \/ PayoutStart(r) \/ CronFind(r)
  \/ \E amount \in Amounts : WithdrawCheck(r, amount)
  \/ \E p \in Payouts, event \in Events : Deliver(r, p, event)
  \/ \E p \in Payouts, to \in Statuses : AdminRead(r, p, to)

\* A handler in flight executes its next statement.
Proceed(r) ==
  \/ PayoutCheck(r) \/ PayoutSum(r) \/ PayoutCreate(r) \/ WithdrawReserve(r)
  \/ CronMark(r) \/ CronSubmit(r) \/ CronRefused(r) \/ CronWrite(r)
  \/ HookWrite(r) \/ AdminWrite(r)

Next ==
  \/ \E r \in Requests : Arrive(r) \/ Proceed(r) \/ Crash(r)
  \/ \E e \in Earnings : DisputeOpen(e) \/ DisputeReject(e)
  \/ \E p \in Payouts : BankSettle(p) \/ BankReverse(p)
  \/ ReleaseHeldEarnings

Spec == Init /\ [][Next]_vars

\* Handlers in flight run on, the cron job comes every day, RazorpayX settles what it
\* accepted and delivers an event until it is acknowledged.
Fairness ==
  /\ \A r \in Requests : WF_vars(Proceed(r))
  /\ SF_vars(\E r \in Requests : CronFind(r))
  /\ \A p \in Payouts : WF_vars(BankSettle(p))
  /\ \A p \in Payouts, event \in Events :
       SF_vars(\E r \in Requests : Deliver(r, p, event))

FairSpec == Spec /\ Fairness

-----------------------------------------------------------------------------
\* Properties.

\* However payouts, withdrawals, events and admin decisions interleave, the wallet
\* never holds more than was put into it: the conditional updates of completePayout
\* and failPayout give no money away.
NoFreeCredit == balance + reserved <= Deposits

\* Only a transfer the bank has made turns a payout to completed, unless an admin
\* says so.
CompletedWasTransferred ==
  [][\A p \in Payouts :
       payout[p].st # "completed" /\ payout'[p].st = "completed"
         => \/ transfer[p] \in {"processed", "reversed"}
            \/ \E r \in Requests : At(r, "adminWrite")]_payout

\* The host is not paid more out of his earnings than has matured, although no earning is
\* marked when a payout is drawn on it (a transfer whose payout failed because the gateway's
\* answer was lost is not counted); and every rupee put into the wallet is spendable,
\* reserved or withdrawn: settling a payout of earnings never touches the reservation of a
\* withdrawal (requestPayout, requestWithdrawal, completePayout, failPayout).
MoneyOnce ==
  /\ Total({p \in Payouts : /\ payout[p].from = "earnings" /\ payout[p].st # "failed"
                            /\ transfer[p] \in {"queued", "processed"}})
       <= Net * Cardinality(matured)
  /\ balance + reserved
       + Total({p \in Payouts : payout[p].from = "wallet" /\ payout[p].st = "completed"})
       = Deposits

\* The gateway rejects a transfer it had accepted: the webhook has no case for that, and
\* only an administrator can end the payout.
RejectedLate(p) ==
  payout[p].st = "processing" /\ payout[p].known /\ transfer[p] = "rejected"

\* A requested payout is completed or failed some day, unless a handler stopped or the
\* gateway rejects the transfer after it was accepted (processPayouts, handleRazorpayXWebhook).
PayoutSettled ==
  \A p \in Payouts :
    payout[p].st = "requested"
      ~> (payout[p].st \in {"completed", "failed"} \/ crashes > 0 \/ RejectedLate(p))

=============================================================================
