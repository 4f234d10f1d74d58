---------------------------- MODULE HostBanking ----------------------------
(***************************************************************************)
(* The bank accounts of one host and the payouts that go to them.          *)
(*                                                                         *)
(* An account is registered with Razorpay X in two calls, a contact and a  *)
(* fund account, after the host's request has been answered.  The host may *)
(* ask for another try and an administrator may register the account       *)
(* again, while the first registration still runs.  Where Razorpay X is    *)
(* not configured an administrator marks accounts by hand.                 *)
(*                                                                         *)
(* Which payouts a host has earned is in HostPayouts.                      *)
(***************************************************************************)
EXTENDS Handlers   \* a workload is [ops, crew, crashes, configured]

CONSTANTS
  NAccounts,  \* bound on bank accounts ever added
  NPayouts    \* bound on payouts

\* ops is a subset of {"add", "retry", "update", "delete", "register", "mark", "payout", "cron"}.
ASSUME BankingAssumption ==
  /\ \A w \in Workloads : w.configured \in BOOLEAN
  /\ NAccounts \in Nat /\ NPayouts \in Nat

Accounts == 1..NAccounts
Payouts  == 1..NPayouts

VARIABLES
  account,  \* rows of bank_accounts
  payout    \* rows of payouts

bankVars == <<load, account, payout, reqs, crashes>>

-----------------------------------------------------------------------------
NoAccount == [row |-> "none", verified |-> FALSE, status |-> "pending",
              contact |-> FALSE, fund |-> FALSE, default |-> FALSE]

\* With Razorpay X a row that is verified has its fund account: neither the first
\* registration, nor another try, nor an administrator's, marks it earlier.
Account ==
  {a \in [row : {"none", "live", "deleted"}, verified : BOOLEAN,
          status : {"pending", "verified", "failed"},
          contact : BOOLEAN, fund : BOOLEAN, default : BOOLEAN] :
     load.configured /\ a.verified => a.contact /\ a.fund}

Payout == [st : {"none", "requested", "processing", "completed", "failed"},
           account : {0} \cup Accounts]

Job  == [op : {"contact", "fund", "verifyWrite", "failWrite"}, a : Accounts,
         by : {"host", "admin"}, contact : BOOLEAN]
Request ==
  {Idle} \cup Job
    \cup [op : {"addWrite"}, default : BOOLEAN, others : SUBSET Accounts]
    \cup [op : {"updateWrite"}, a : Accounts, default : BOOLEAN, others : SUBSET Accounts]
    \cup [op : {"retryWrite"}, a : Accounts, contact : BOOLEAN]
    \cup [op : {"deleteCount", "deleteRow", "mark", "payoutCheck", "payoutInsert"}, a : Accounts]
    \cup [op : {"submit", "settleFailed"}, p : Payouts, fund : BOOLEAN]

\* The rows, with the registration a verified account needs (addBankAccount,
\* retryBankAccountVerification and adminRegisterBankAccountWithRazorpayX).
BankTypeOK ==
  /\ load \in Workloads
  /\ account \in [Accounts -> Account]
  /\ payout \in [Payouts -> Payout]
  /\ reqs \in [Requests -> Request]
  /\ crashes \in 0..MaxCrashes

Live(a)  == account[a].row = "live"
Defaults == {a \in Accounts : Live(a) /\ account[a].default}
Unsettled(p)  == payout[p].st \in {"requested", "processing"}
GoJob(r, step, a, by, contact) ==
  Goto(r, [op |-> step, a |-> a, by |-> by, contact |-> contact])
\* The next step of the registration r is at, or the end of an administrator's.
Onwards(r, step, contact) == GoJob(r, step, reqs[r].a, reqs[r].by, contact)

\* The other defaults are the ones the transaction found; it clears them when it commits.
WithDefault(a, row, others) ==
  [b \in Accounts |-> IF b = a THEN row
                      ELSE IF b \in others /\ row.default
                           THEN [account[b] EXCEPT !.default = FALSE] ELSE account[b]]

-----------------------------------------------------------------------------
(***************************************************************************)
(* Adding an account.                                                      *)
(***************************************************************************)
AddRead(r, default) ==
  /\ Starts(r, "add") /\ \E a \in Accounts : account[a].row = "none"
  /\ Goto(r, [op |-> "addWrite", default |-> default, others |-> Defaults])
  /\ UNCHANGED <<load, account, payout, crashes>>

AddWrite(r) ==
  /\ At(r, "addWrite")
  /\ \E a \in Accounts :
       /\ account[a].row = "none" /\ \A b \in 1..(a - 1) : account[b].row # "none"
       /\ account' = WithDefault(a, [NoAccount EXCEPT !.row = "live", !.default = reqs[r].default],
                                 reqs[r].others)
       /\ IF load.configured THEN GoJob(r, "contact", a, "host", FALSE) ELSE Done(r)
  /\ UNCHANGED <<load, payout, crashes>>

AddNoRoom(r) ==
  /\ At(r, "addWrite") /\ \A a \in Accounts : account[a].row # "none"
  /\ Done(r)
  /\ UNCHANGED <<load, account, payout, crashes>>

(***************************************************************************)
(* The registration, each call of which may throw.                         *)
(***************************************************************************)
Throws(r) == IF reqs[r].by = "admin" THEN Done(r) ELSE Onwards(r, "failWrite", reqs[r].contact)

Contact(r) ==
  /\ At(r, "contact")
  /\ Onwards(r, "fund", TRUE) \/ Throws(r)
  /\ UNCHANGED <<load, account, payout, crashes>>

Fund(r) ==
  /\ At(r, "fund")
  /\ Onwards(r, "verifyWrite", TRUE) \/ Throws(r)
  /\ UNCHANGED <<load, account, payout, crashes>>

\* Mutant: verified without the identifiers of Razorpay X.
VerifyWriteBare(r) ==
  /\ At(r, "verifyWrite") /\ Live(reqs[r].a)
  /\ account' = [account EXCEPT ![reqs[r].a].verified = TRUE]
  /\ Done(r)
  /\ UNCHANGED <<load, payout, crashes>>

\* An administrator's registration leaves verification_status as it is.
VerifyWrite(r) ==
  /\ At(r, "verifyWrite") /\ Live(reqs[r].a)
  /\ LET a == reqs[r].a IN
     account' = [account EXCEPT ![a].contact = TRUE, ![a].fund = TRUE, ![a].verified = TRUE,
                                ![a].status = IF reqs[r].by = "host" THEN "verified" ELSE @]
  /\ Done(r)
  /\ UNCHANGED <<load, payout, crashes>>

VerifyMissed(r) ==
  /\ At(r, "verifyWrite") /\ ~Live(reqs[r].a)
  /\ Throws(r)
  /\ UNCHANGED <<load, account, payout, crashes>>

\* Mutant: the error is logged and the row left alone.
FailWriteForgotten(r) ==
  /\ At(r, "failWrite")
  /\ Done(r)
  /\ UNCHANGED <<load, account, payout, crashes>>

FailWrite(r) ==
  /\ At(r, "failWrite")
  /\ LET a == reqs[r].a IN
     account' = IF Live(a) THEN [account EXCEPT ![a].status = "failed",
                                                ![a].contact = @ \/ reqs[r].contact]
                           ELSE account
  /\ Done(r)
  /\ UNCHANGED <<load, payout, crashes>>

(***************************************************************************)
(* Another try, by the host.  Whether there is a contact is taken from     *)
(* the row as it was read.                                                 *)
(***************************************************************************)
RetryRead(r, a) ==
  /\ Starts(r, "retry") /\ Live(a) /\ ~account[a].verified
  /\ Goto(r, [op |-> "retryWrite", a |-> a, contact |-> account[a].contact])
  /\ UNCHANGED <<load, account, payout, crashes>>

RetryWrite(r) ==
  /\ At(r, "retryWrite")
  /\ LET a == reqs[r].a IN
     IF Live(a)
     THEN /\ account' = [account EXCEPT ![a].status = "pending"]
          /\ IF load.configured
             THEN GoJob(r, IF reqs[r].contact THEN "fund" ELSE "contact", a, "host", reqs[r].contact)
             ELSE Done(r)
     ELSE Done(r) /\ UNCHANGED account
  /\ UNCHANGED <<load, payout, crashes>>

\* An administrator registers the account anew, whatever state it is in.
AdminRegister(r, a) ==
  /\ Starts(r, "register") /\ load.configured /\ Live(a)
  /\ GoJob(r, "contact", a, "admin", FALSE)
  /\ UNCHANGED <<load, account, payout, crashes>>

AdminMarkRead(r, a) ==
  /\ Starts(r, "mark") /\ ~load.configured /\ Live(a)
  /\ Goto(r, [op |-> "mark", a |-> a])
  /\ UNCHANGED <<load, account, payout, crashes>>

AdminMark(r) ==
  /\ At(r, "mark")
  /\ account' = IF Live(reqs[r].a) THEN [account EXCEPT ![reqs[r].a].verified = TRUE] ELSE account
  /\ Done(r)
  /\ UNCHANGED <<load, payout, crashes>>

-----------------------------------------------------------------------------
(***************************************************************************)
(* Making an account the default; deleting one.  The foreign key of the    *)
(* payouts keeps an account that any payout names.                         *)
(***************************************************************************)
UpdateRead(r, a, default) ==
  /\ Starts(r, "update") /\ Live(a)
  /\ Goto(r, [op |-> "updateWrite", a |-> a, default |-> default, others |-> Defaults])
  /\ UNCHANGED <<load, account, payout, crashes>>

UpdateWrite(r) ==
  /\ At(r, "updateWrite")
  /\ LET a == reqs[r].a IN
     account' = IF Live(a) THEN WithDefault(a, [account[a] EXCEPT !.default = reqs[r].default],
                                            reqs[r].others)
                ELSE account
  /\ Done(r)
  /\ UNCHANGED <<load, payout, crashes>>

DeleteRead(r, a) ==
  /\ Starts(r, "delete") /\ Live(a)
  /\ Goto(r, [op |-> "deleteCount", a |-> a])
  /\ UNCHANGED <<load, account, payout, crashes>>

DeleteCount(r) ==
  /\ At(r, "deleteCount")
  /\ IF \E p \in Payouts : Unsettled(p) /\ payout[p].account = reqs[r].a
     THEN Done(r) ELSE Goto(r, [op |-> "deleteRow", a |-> reqs[r].a])
  /\ UNCHANGED <<load, account, payout, crashes>>

\* Mutant: the payouts' foreign key does not hold the row.
DeleteRowUnheld(r) ==
  /\ At(r, "deleteRow")
  /\ account' = [account EXCEPT ![reqs[r].a].row = "deleted"]
  /\ Done(r)
  /\ UNCHANGED <<load, payout, crashes>>

DeleteRow(r) ==
  /\ At(r, "deleteRow")
  /\ account' = IF \E p \in Payouts : payout[p].account = reqs[r].a THEN account
                ELSE [account EXCEPT ![reqs[r].a].row = "deleted"]
  /\ Done(r)
  /\ UNCHANGED <<load, payout, crashes>>

-----------------------------------------------------------------------------
(***************************************************************************)
(* A payout: requestPayout's check of the account and of the payouts in    *)
(* flight, the insert, and the nightly job, which has the account's row    *)
(* from its first query.                                                   *)
(***************************************************************************)
Payable(a) == account[a].verified /\ (load.configured => account[a].fund)

PayoutRead(r, a) ==
  /\ Starts(r, "payout") /\ Live(a) /\ Payable(a)
  /\ Goto(r, [op |-> "payoutCheck", a |-> a])
  /\ UNCHANGED <<load, account, payout, crashes>>

PayoutCheck(r) ==
  /\ At(r, "payoutCheck")
  /\ IF \E p \in Payouts : Unsettled(p) THEN Done(r)
                                   ELSE Goto(r, [op |-> "payoutInsert", a |-> reqs[r].a])
  /\ UNCHANGED <<load, account, payout, crashes>>

PayoutInsert(r) ==
  /\ At(r, "payoutInsert")
  /\ \/ /\ Live(reqs[r].a)
        /\ \E p \in Payouts :
             /\ payout[p].st = "none" /\ \A q \in 1..(p - 1) : payout[q].st # "none"
             /\ payout' = [payout EXCEPT ![p] = [st |-> "requested", account |-> reqs[r].a]]
     \/ /\ ~Live(reqs[r].a) \/ \A p \in Payouts : payout[p].st # "none"
        /\ UNCHANGED payout
  /\ Done(r)
  /\ UNCHANGED <<load, account, crashes>>

CronTakes(r, p) ==
  /\ Starts(r, "cron") /\ payout[p].st = "requested"
  /\ payout' = [payout EXCEPT ![p].st = "processing"]
  /\ Goto(r, [op |-> "submit", p |-> p, fund |-> account[payout[p].account].fund])
  /\ UNCHANGED <<load, account, crashes>>

\* Accepted, settled at once, or refused; without Razorpay X it counts as settled.
Submit(r) ==
  /\ At(r, "submit")
  /\ \/ /\ load.configured /\ reqs[r].fund /\ UNCHANGED payout
     \/ /\ load.configured => reqs[r].fund
        /\ payout' = [payout EXCEPT ![reqs[r].p].st = "completed"]
     \/ /\ load.configured
        /\ payout' = [payout EXCEPT ![reqs[r].p].st = "failed"]
  /\ Done(r)
  /\ UNCHANGED <<load, account, crashes>>

\* The gateway's event about a payout it had accepted.
Settles(p, st) ==
  /\ payout[p].st = "processing" /\ \A r \in Requests : At(r, "submit") => reqs[r].p # p
  /\ payout' = [payout EXCEPT ![p].st = st]
  /\ UNCHANGED <<load, account, reqs, crashes>>

BankCrash(r) ==
  /\ Stops(r)
  /\ UNCHANGED <<load, account, payout>>

-----------------------------------------------------------------------------
BankInit ==
  /\ load \in Workloads
  /\ account = [a \in Accounts |-> NoAccount]
  /\ payout = [p \in Payouts |-> [st |-> "none", account |-> 0]]
  /\ reqs = [r \in Requests |-> Idle]
  /\ crashes = 0

BankArrive(r) ==
  \/ \E default \in BOOLEAN :
       AddRead(r, default) \/ \E a \in Accounts : UpdateRead(r, a, default)
  \/ \E a \in Accounts : \/ RetryRead(r, a) \/ AdminRegister(r, a) \/ AdminMarkRead(r, a)
                         \/ DeleteRead(r, a) \/ PayoutRead(r, a)
  \/ \E p \in Payouts : CronTakes(r, p)

BankProceed(r) ==
  \/ AddWrite(r) \/ AddNoRoom(r) \/ Contact(r) \/ Fund(r) \/ VerifyWrite(r) \/ VerifyMissed(r)
  \/ FailWrite(r) \/ RetryWrite(r) \/ AdminMark(r) \/ UpdateWrite(r)
  \/ DeleteCount(r) \/ DeleteRow(r) \/ PayoutCheck(r) \/ PayoutInsert(r) \/ Submit(r) \/ BankCrash(r)

BankNext ==
  \/ \E r \in Requests : BankArrive(r) \/ BankProceed(r)
  \/ \E p \in Payouts, st \in {"completed", "failed"} : Settles(p, st)

BankSpec == BankInit /\ [][BankNext]_bankVars

-----------------------------------------------------------------------------
\* A payout that is asked for or under way names an account that is there and that
\* money can be sent to, although requestPayout and deleteBankAccount check before
\* they write and may run at the same time.
PayoutHasAccount ==
  \A p \in Payouts : Unsettled(p) => Live(payout[p].account) /\ Payable(payout[p].account)

Registering(a) ==
  \E r \in Requests : /\ reqs[r].op \in {"contact", "fund", "verifyWrite", "failWrite"}
                      /\ reqs[r].a = a /\ reqs[r].by = "host"

\* With Razorpay X an account that says "pending" is being registered: every
\* registration ends by saying "verified" or "failed", whoever else registers the
\* account meanwhile.  Only a stopped process leaves one pending (addBankAccount,
\* retryBankAccountVerification).
PendingIsUnderWay ==
  load.configured /\ crashes = 0 =>
    \A a \in Accounts : Live(a) /\ account[a].status = "pending" => Registering(a)
=============================================================================
