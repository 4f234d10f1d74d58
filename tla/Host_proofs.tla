---------------------------- MODULE Host_proofs ----------------------------
(***************************************************************************)
(* Proofs about what a host has on the server: his bank accounts and the   *)
(* payouts to them (HostBanking), and his space, its slots, bookings,      *)
(* reviews and disputes (SpaceLife), for any number of rows, of handlers   *)
(* and of crashes.  The two have the handlers in common (Handlers).        *)
(***************************************************************************)
EXTENDS HostBanking, SpaceLife, Sums

-----------------------------------------------------------------------------
(***************************************************************************)
(* Bank accounts.  A payout is inserted by what its handler read of the    *)
(* account two awaits ago.  That cannot become stale: an account that was  *)
(* verified stays so, and the foreign key keeps the row a payout names.    *)
(***************************************************************************)
\* A row is there or was; a payout that was made names one.
Known(a) == account[a].row # "none"
Asked(p) == payout[p].st # "none"

\* An account that money could be sent to, once the handler had looked.
Fit(a) == Known(a) /\ Payable(a)

\* What handlers in flight have established.
Informed(rec) ==
  /\ rec.op = "mark" => ~load.configured
  /\ rec.op \in {"payoutCheck", "payoutInsert"} => Fit(rec.a)
  /\ rec.op = "submit" => Asked(rec.p)

PayoutsNameRows ==
  \A p \in Payouts : Asked(p) => payout[p].account \in Accounts /\ Known(payout[p].account)

BankInv == /\ BankTypeOK
           /\ PayoutsNameRows
           /\ PayoutHasAccount
           /\ \A r \in Requests : Informed(reqs[r])

-----------------------------------------------------------------------------
\* BankInv by the variables a step changes.
TableOK  == account \in [Accounts -> Account]
PayingOK == payout \in [Payouts -> Payout] /\ PayoutsNameRows /\ PayoutHasAccount
FlightOK == reqs \in [Requests -> Request] /\ \A r \in Requests : Informed(reqs[r])
CountOK  == load \in Workloads /\ crashes \in 0..MaxCrashes

\* The invariant is that of the tables, the records and the counters.
LEMMA Parts ==
  /\ BankInv <=> TableOK /\ PayingOK /\ FlightOK /\ CountOK
  /\ BankInv' <=> TableOK' /\ PayingOK' /\ FlightOK' /\ CountOK'
  BY DEF BankInv, BankTypeOK, TableOK, PayingOK, FlightOK, CountOK

\* Nothing a handler knows is taken back.
AccountsStay == /\ load' = load
                /\ \A a \in Accounts : (Known(a) => Known(a)') /\ (Fit(a) => Fit(a)')
PayoutsStay == \A p \in Payouts : Asked(p) => Asked(p)'

\* What a record names is there to be named, step by step.
LEMMA RecordsName ==
  ASSUME NEW rec \in Request
  PROVE  /\ rec.op \in {"contact", "fund", "verifyWrite", "failWrite", "updateWrite", "retryWrite",
                        "deleteCount", "deleteRow", "mark", "payoutCheck", "payoutInsert"}
              => rec.a \in Accounts
         /\ rec.op \in {"contact", "fund", "verifyWrite", "failWrite"}
              => rec.by \in {"host", "admin"} /\ rec.contact \in BOOLEAN
         /\ rec.op \in {"addWrite", "updateWrite"}
              => rec.default \in BOOLEAN /\ rec.others \in SUBSET Accounts
         /\ rec.op = "retryWrite" => rec.contact \in BOOLEAN
         /\ rec.op = "submit" => rec.p \in Payouts /\ rec.fund \in BOOLEAN
  BY DEF Request, Idle, Job

\* What a handler has established is not taken back by the accounts and payouts.
LEMMA InformedStays ==
  ASSUME AccountsStay, PayoutsStay, NEW rec \in Request, Informed(rec)
  PROVE  Informed(rec)'
  BY RecordsName DEF Informed, AccountsStay, PayoutsStay

\* A handler goes on with a record it is informed of.
LEMMA FlightGoto ==
  ASSUME FlightOK, AccountsStay, PayoutsStay,
         NEW r \in Requests, NEW rec \in Request, Goto(r, rec), Informed(rec)'
  PROVE  FlightOK'
<1>1. reqs' \in [Requests -> Request]
  BY DEF FlightOK, Goto
<1>2. ASSUME NEW q \in Requests
      PROVE  Informed(reqs[q])'
  <2>1. CASE q = r
    BY <2>1 DEF FlightOK, Goto
  <2>2. CASE q # r
    <3>1. reqs'[q] = reqs[q] /\ reqs[q] \in Request /\ Informed(reqs[q])
      BY <2>2 DEF FlightOK, Goto
    <3> QED
      BY <3>1, RecordsName DEF Informed, AccountsStay, PayoutsStay, Fit, Known, Payable, Asked
  <2> QED
    BY <2>1, <2>2
<1> QED
  BY <1>1, <1>2 DEF FlightOK

\* The record of a registration under way claims nothing.
LEMMA JobIsInformed ==
  ASSUME NEW step \in {"contact", "fund", "verifyWrite", "failWrite"}, NEW a \in Accounts,
         NEW by \in {"host", "admin"}, NEW c \in BOOLEAN
  PROVE  LET rec == [op |-> step, a |-> a, by |-> by, contact |-> c]
         IN  rec \in Request /\ Informed(rec) /\ Informed(rec)'
<1>1. [op |-> step, a |-> a, by |-> by, contact |-> c] \in Job
  BY DEF Job
<1> QED
  BY <1>1 DEF Request, Informed

\* An idle handler has established nothing.
LEMMA IdleIsInformed == Idle \in Request /\ Informed(Idle)'
  BY DEF Idle, Request, Informed

\* A handler is done.
LEMMA FlightDone ==
  ASSUME FlightOK, AccountsStay, PayoutsStay, NEW r \in Requests, Done(r)
  PROVE  FlightOK'
  BY FlightGoto, IdleIsInformed DEF Done

\* No handler moves.
LEMMA FlightSame ==
  ASSUME FlightOK, AccountsStay, PayoutsStay, UNCHANGED reqs
  PROVE  FlightOK'
  BY RecordsName DEF FlightOK, Informed, AccountsStay, PayoutsStay, Fit, Known, Payable, Asked

-----------------------------------------------------------------------------
\* Steps by what they write.

\* A handler that only reads goes on to a step it is informed for.
LEMMA ReadKeeps ==
  ASSUME BankInv, UNCHANGED <<load, account, payout, crashes>>,
         NEW r \in Requests, NEW rec \in Request, Goto(r, rec), Informed(rec)
  PROVE  BankInv'
<1>1. AccountsStay /\ PayoutsStay
  BY DEF AccountsStay, PayoutsStay, Known, Fit, Payable, Asked
<1>2. Informed(rec)'
  BY DEF Informed, Fit, Known, Payable, Asked
<1>3. TableOK' /\ PayingOK' /\ CountOK'
  BY Parts DEF TableOK, PayingOK, CountOK, Account, PayoutsNameRows, PayoutHasAccount,
               Asked, Known, Unsettled, Live, Payable
<1> QED
  BY <1>1, <1>2, <1>3, Parts, FlightGoto

\* A row keeps what a payout needs of it: it is there, verified and registered.
Preserves(a) == /\ Known(a) => Known(a)'
                /\ account[a].verified => account'[a].verified
                /\ account[a].fund => account'[a].fund
                /\ Live(a) /\ (\E p \in Payouts : payout[p].account = a) => Live(a)'

\* A statement on the accounts that preserves every row that is there.
LEMMA TableKeeps ==
  ASSUME BankInv, UNCHANGED <<load, payout, crashes>>, TableOK',
         \A a \in Accounts : Known(a) => Preserves(a),
         NEW r \in Requests, NEW rec \in Request, Goto(r, rec), Informed(rec)'
  PROVE  BankInv'
<1>1. AccountsStay /\ PayoutsStay
  BY DEF AccountsStay, PayoutsStay, Preserves, Fit, Payable, Asked
<1>2. PayingOK'
  <2>1. payout' \in [Payouts -> Payout]
    BY DEF BankInv, BankTypeOK
  <2>2. PayoutsNameRows'
    BY DEF BankInv, PayoutsNameRows, Preserves, Asked
  <2>3. PayoutHasAccount'
    <3> SUFFICES ASSUME NEW p \in Payouts, Unsettled(p)'
                 PROVE  (Live(payout[p].account) /\ Payable(payout[p].account))'
      BY DEF PayoutHasAccount
    <3>1. Unsettled(p) /\ Asked(p) /\ payout'[p] = payout[p]
      BY DEF Unsettled, Asked
    <3>2. /\ payout[p].account \in Accounts /\ Known(payout[p].account)
          /\ Live(payout[p].account) /\ Payable(payout[p].account)
      BY <3>1 DEF BankInv, PayoutsNameRows, PayoutHasAccount
    <3> QED
      BY <3>1, <3>2 DEF Preserves, Payable
  <2> QED
    BY <2>1, <2>2, <2>3 DEF PayingOK
<1>3. CountOK'
  BY Parts DEF CountOK
<1> QED
  BY <1>1, <1>2, <1>3, Parts, FlightGoto

\* A statement on the payouts.
LEMMA PayingKeeps ==
  ASSUME BankInv, UNCHANGED <<load, account, crashes>>, PayingOK', PayoutsStay, FlightOK'
  PROVE  BankInv'
  BY Parts DEF TableOK, CountOK, Account

-----------------------------------------------------------------------------
\* One lemma per group of actions.

\* The steps that write no table.
LEMMA ReadSteps ==
  ASSUME BankInv, NEW r \in Requests,
         \/ \E default \in BOOLEAN :
              AddRead(r, default) \/ \E a \in Accounts : UpdateRead(r, a, default)
         \/ \E a \in Accounts : \/ RetryRead(r, a) \/ AdminRegister(r, a) \/ AdminMarkRead(r, a)
                                \/ DeleteRead(r, a) \/ PayoutRead(r, a)
         \/ AddNoRoom(r) \/ Contact(r) \/ Fund(r) \/ VerifyMissed(r)
         \/ DeleteCount(r) \/ PayoutCheck(r)
  PROVE  BankInv'
<1>1. UNCHANGED <<load, account, payout, crashes>>
  BY DEF AddRead, UpdateRead, RetryRead, AdminRegister, AdminMarkRead, DeleteRead, PayoutRead,
         AddNoRoom, Contact, Fund, VerifyMissed, DeleteCount, PayoutCheck
<1>2. \E rec \in Request : Goto(r, rec) /\ Informed(rec)
  <2>1. Idle \in Request /\ Informed(Idle)
    BY DEF Request, Idle, Informed
  <2>2. ASSUME NEW default \in BOOLEAN, NEW a \in Accounts,
               \/ AddRead(r, default) \/ UpdateRead(r, a, default)
        PROVE  \E rec \in Request : Goto(r, rec) /\ Informed(rec)
    BY <2>2 DEF AddRead, UpdateRead, Request, Informed, Defaults
  <2>3. ASSUME NEW a \in Accounts, RetryRead(r, a)
        PROVE  \E rec \in Request : Goto(r, rec) /\ Informed(rec)
    <3>1. account[a].contact \in BOOLEAN
      BY DEF BankInv, BankTypeOK, Account
    <3> QED
      BY <2>3, <3>1 DEF RetryRead, Request, Informed
  <2>4. ASSUME NEW a \in Accounts,
               AdminRegister(r, a) \/ AdminMarkRead(r, a) \/ DeleteRead(r, a) \/ PayoutRead(r, a)
        PROVE  \E rec \in Request : Goto(r, rec) /\ Informed(rec)
    <3>1. CASE AdminRegister(r, a)
      BY <3>1, JobIsInformed DEF AdminRegister, GoJob
    <3>2. CASE AdminMarkRead(r, a)
      BY <3>2 DEF AdminMarkRead, Request, Informed
    <3>3. CASE DeleteRead(r, a)
      BY <3>3 DEF DeleteRead, Request, Informed
    <3>4. CASE PayoutRead(r, a)
      BY <3>4 DEF PayoutRead, Request, Informed, Fit, Known, Live
    <3> QED
      BY <2>4, <3>1, <3>2, <3>3, <3>4
  <2>5. CASE \E default \in BOOLEAN : AddRead(r, default)
    BY <2>5 DEF AddRead, Request, Informed, Defaults
  <2>6. CASE Contact(r) \/ Fund(r) \/ VerifyMissed(r)
    <3>1. /\ reqs[r] \in Request
          /\ reqs[r].a \in Accounts /\ reqs[r].by \in {"host", "admin"}
          /\ reqs[r].contact \in BOOLEAN
      BY <2>6, RecordsName DEF BankInv, BankTypeOK, Contact, Fund, VerifyMissed, At
    <3> QED
      BY <2>1, <2>6, <3>1, JobIsInformed DEF Contact, Fund, VerifyMissed, Throws, Onwards,
         GoJob, Done
  <2>7. CASE AddNoRoom(r)
    BY <2>1, <2>7 DEF AddNoRoom, Done
  <2>8. CASE DeleteCount(r) \/ PayoutCheck(r)
    <3>1. /\ reqs[r] \in Request /\ reqs[r].a \in Accounts /\ Informed(reqs[r])
      BY <2>8, RecordsName DEF BankInv, BankTypeOK, DeleteCount, PayoutCheck, At
    <3>2. [op |-> "deleteRow", a |-> reqs[r].a] \in Request
      BY <3>1 DEF Request
    <3>3. Informed([op |-> "deleteRow", a |-> reqs[r].a])
      BY DEF Informed
    <3>4. [op |-> "payoutInsert", a |-> reqs[r].a] \in Request
      BY <3>1 DEF Request
    <3>5. PayoutCheck(r) => Informed([op |-> "payoutInsert", a |-> reqs[r].a])
      BY <3>1 DEF Informed, PayoutCheck, At
    <3> QED
      BY <2>1, <2>8, <3>2, <3>3, <3>4, <3>5 DEF DeleteCount, PayoutCheck, Done
  <2> QED
    BY <2>2, <2>3, <2>4, <2>5, <2>6, <2>7, <2>8
<1> QED
  BY <1>1, <1>2, ReadKeeps
\* One row is rewritten, and keeps what a payout needs of it.
LEMMA RowKeeps ==
  ASSUME BankInv, UNCHANGED <<load, payout>>, NEW a \in Accounts, NEW row \in Account,
         account' = [account EXCEPT ![a] = row],
         row.row # "none",
         Known(a) => /\ account[a].verified => row.verified
                     /\ account[a].fund => row.fund
                     /\ Live(a) /\ (\E p \in Payouts : payout[p].account = a) => row.row = "live"
  PROVE  TableOK' /\ \A b \in Accounts : Known(b) => Preserves(b)
<1>1. account' \in [Accounts -> Account]
  BY DEF BankInv, BankTypeOK
<1>2. TableOK'
  BY <1>1 DEF TableOK, Account
<1>3. \A b \in Accounts : account'[b] = IF b = a THEN row ELSE account[b]
  BY DEF BankInv, BankTypeOK
<1> QED
  BY <1>2, <1>3 DEF Preserves, Known, Live

\* The same while other rows cease to be the default.
LEMMA DefaultKeeps ==
  ASSUME BankInv, UNCHANGED <<load, payout>>, NEW a \in Accounts, NEW row \in Account,
         NEW others, account' = WithDefault(a, row, others),
         row.row # "none",
         Known(a) => /\ account[a].verified => row.verified
                     /\ account[a].fund => row.fund
                     /\ Live(a) /\ (\E p \in Payouts : payout[p].account = a) => row.row = "live"
  PROVE  TableOK' /\ \A b \in Accounts : Known(b) => Preserves(b)
<1>1. \A b \in Accounts : /\ account[b] \in Account
                          /\ [account[b] EXCEPT !.default = FALSE] \in Account
  BY DEF BankInv, BankTypeOK, Account
<1>2. account' \in [Accounts -> Account]
  BY <1>1 DEF WithDefault
<1>3. TableOK'
  BY <1>2 DEF TableOK, Account
<1>4. ASSUME NEW b \in Accounts, b # a
      PROVE  /\ account'[b].row = account[b].row
             /\ account'[b].verified = account[b].verified
             /\ account'[b].fund = account[b].fund
  BY <1>1, <1>4 DEF WithDefault, Account
<1>5. account'[a] = row
  BY DEF WithDefault
<1>6. ASSUME NEW b \in Accounts, Known(b) PROVE Preserves(b)
  BY <1>4, <1>5, <1>6 DEF Preserves, Known, Live
<1> QED
  BY <1>3, <1>6

\* Statements on the accounts: the row they write is there already, or is new.
LEMMA AccountSteps ==
  ASSUME BankInv, NEW r \in Requests,
         \/ AddWrite(r) \/ VerifyWrite(r) \/ FailWrite(r) \/ RetryWrite(r) \/ AdminMark(r)
         \/ UpdateWrite(r) \/ DeleteRow(r)
  PROVE  BankInv'
<1>0. /\ account \in [Accounts -> Account] /\ reqs[r] \in Request /\ Informed(reqs[r])
      /\ reqs[r].op # "addWrite" => reqs[r].a \in Accounts
      /\ ~AddWrite(r) => reqs[r].op # "addWrite"
  BY RecordsName DEF BankInv, BankTypeOK, AddWrite, VerifyWrite, FailWrite, RetryWrite, AdminMark,
                     UpdateWrite, DeleteRow, At
<1>1. UNCHANGED <<load, payout, crashes>>
  BY DEF AddWrite, VerifyWrite, FailWrite, RetryWrite, AdminMark, UpdateWrite, DeleteRow
<1>2. /\ TableOK'
      /\ \A a \in Accounts : Known(a) => Preserves(a)
  <2> DEFINE a   == reqs[r].a
             old == account[a]
  <2>0. CASE UNCHANGED account
    BY <1>0, <1>1, <2>0 DEF TableOK, Account, Preserves, Known, Live
  <2>1. CASE AddWrite(r)
    <3>1. reqs[r].default \in BOOLEAN
      BY <1>0, <2>1, RecordsName DEF AddWrite, At
    <3> DEFINE row == [NoAccount EXCEPT !.row = "live", !.default = reqs[r].default]
    <3>2. PICK b \in Accounts : /\ account[b].row = "none"
                               /\ account' = WithDefault(b, row, reqs[r].others)
      BY <2>1 DEF AddWrite
    <3>3. row \in Account /\ row.row = "live"
      BY <3>1 DEF Account, NoAccount
    <3> HIDE DEF row
    <3> QED
      BY <1>1, <3>2, <3>3, DefaultKeeps DEF Known
  <2>2. CASE VerifyWrite(r)
    <3>1. a \in Accounts /\ old \in Account /\ Live(a) /\ old.row = "live"
      BY <1>0, <2>2 DEF VerifyWrite, At, Live
    <3> DEFINE status == IF reqs[r].by = "host" THEN "verified" ELSE old.status
               row    == [old EXCEPT !.contact = TRUE, !.fund = TRUE, !.verified = TRUE,
                                     !.status = status]
    <3>2. account' = [account EXCEPT ![a] = row]
      BY <1>0, <2>2, <3>1 DEF VerifyWrite
    <3>3. /\ row \in Account /\ row.row = "live" /\ row.verified /\ row.fund
      BY <3>1 DEF Account
    <3> HIDE DEF a, row
    <3> QED
      BY <1>1, <3>1, <3>2, <3>3, RowKeeps
  <2>3. CASE FailWrite(r) /\ Live(a)
    <3>1. a \in Accounts /\ old \in Account /\ reqs[r].contact \in BOOLEAN /\ old.row = "live"
      BY <1>0, <2>3, RecordsName DEF FailWrite, At, Live
    <3> DEFINE c   == old.contact \/ reqs[r].contact
               row == [old EXCEPT !.status = "failed", !.contact = c]
    <3>2. account' = [account EXCEPT ![a] = row]
      BY <1>0, <2>3, <3>1 DEF FailWrite
    <3>3. c \in BOOLEAN /\ (old.contact => c)
      OBVIOUS
    <3> HIDE DEF c
    <3>4. /\ row \in Account /\ row.row = "live"
          /\ row.verified = old.verified /\ row.fund = old.fund
      BY <3>1, <3>3 DEF Account
    <3> HIDE DEF a, row
    <3> QED
      BY <1>1, <3>1, <3>2, <3>4, RowKeeps
  <2>4. CASE RetryWrite(r) /\ Live(a)
    <3>1. a \in Accounts /\ old \in Account /\ old.row = "live"
      BY <1>0, <2>4 DEF RetryWrite, At, Live
    <3> DEFINE row == [old EXCEPT !.status = "pending"]
    <3>2. account' = [account EXCEPT ![a] = row]
      BY <1>0, <2>4, <3>1 DEF RetryWrite
    <3>3. /\ row \in Account /\ row.row = "live"
          /\ row.verified = old.verified /\ row.fund = old.fund
      BY <3>1 DEF Account
    <3> HIDE DEF a, row
    <3> QED
      BY <1>1, <3>1, <3>2, <3>3, RowKeeps
  <2>5. CASE AdminMark(r) /\ Live(a)
    <3>1. a \in Accounts /\ old \in Account /\ old.row = "live" /\ ~load.configured
      BY <1>0, <2>5 DEF AdminMark, At, Live, Informed
    <3> DEFINE row == [old EXCEPT !.verified = TRUE]
    <3>2. account' = [account EXCEPT ![a] = row]
      BY <1>0, <2>5, <3>1 DEF AdminMark
    <3>3. row \in Account /\ row.row = "live" /\ row.verified /\ row.fund = old.fund
      BY <3>1 DEF Account
    <3> HIDE DEF a, row
    <3> QED
      BY <1>1, <3>1, <3>2, <3>3, RowKeeps
  <2>6. CASE UpdateWrite(r) /\ Live(a)
    <3>1. /\ a \in Accounts /\ old \in Account /\ old.row = "live"
          /\ reqs[r].default \in BOOLEAN
      BY <1>0, <2>6, RecordsName DEF UpdateWrite, At, Live
    <3> DEFINE row == [old EXCEPT !.default = reqs[r].default]
    <3>2. account' = WithDefault(a, row, reqs[r].others)
      BY <2>6 DEF UpdateWrite
    <3>3. /\ row \in Account /\ row.row = "live"
          /\ row.verified = old.verified /\ row.fund = old.fund
      BY <3>1 DEF Account
    <3> HIDE DEF a, row
    <3> QED
      BY <1>1, <3>1, <3>2, <3>3, DefaultKeeps
  <2>7. CASE DeleteRow(r)
    BY <1>0, <1>1, <2>7, RecordsName DEF DeleteRow, At, TableOK, Account, Preserves, Known, Live
  <2> QED
    BY <2>0, <2>1, <2>2, <2>3, <2>4, <2>5, <2>6, <2>7
       DEF VerifyWrite, FailWrite, RetryWrite, AdminMark, UpdateWrite
<1>3. \E rec \in Request : Goto(r, rec) /\ Informed(rec)'
  <2>1. CASE AddWrite(r) /\ load.configured
    BY <2>1, JobIsInformed DEF AddWrite, GoJob
  <2>2. CASE RetryWrite(r) /\ load.configured /\ Live(reqs[r].a)
    BY <1>0, <2>2, RecordsName, JobIsInformed DEF RetryWrite, GoJob, At
  <2> QED
    BY <2>1, <2>2, IdleIsInformed
       DEF AddWrite, VerifyWrite, FailWrite, RetryWrite, AdminMark, UpdateWrite, DeleteRow, Done
<1> QED
  BY <1>1, <1>2, <1>3, TableKeeps
\* A payout that was made moves on with the account it names.
LEMMA StatusKeepsPaying ==
  ASSUME BankInv, UNCHANGED <<load, account>>, NEW p \in Payouts, Asked(p),
         NEW st \in {"processing", "completed", "failed"},
         payout' = [payout EXCEPT ![p].st = st], st = "processing" => Unsettled(p)
  PROVE  PayingOK' /\ PayoutsStay /\ AccountsStay
<1>1. payout \in [Payouts -> Payout]
  BY DEF BankInv, BankTypeOK
<1>2. payout' \in [Payouts -> Payout]
  BY <1>1 DEF Payout
<1>3. \A q \in Payouts : /\ payout'[q].account = payout[q].account
                         /\ payout'[q].st = IF q = p THEN st ELSE payout[q].st
  BY <1>1 DEF Payout
<1>4. PayoutsStay
  BY <1>3 DEF PayoutsStay, Asked
<1>5. AccountsStay
  BY DEF AccountsStay, Known, Fit, Payable
<1>6. PayoutsNameRows'
  BY <1>3 DEF BankInv, PayoutsNameRows, Asked, Known
<1>7. PayoutHasAccount'
  BY <1>3 DEF BankInv, PayoutHasAccount, Unsettled, Live, Payable
<1> QED
  BY <1>2, <1>4, <1>5, <1>6, <1>7 DEF PayingOK

\* A payout is inserted: the account it names was fit when it was read and is
\* kept by the foreign key.
LEMMA InsertKeeps ==
  ASSUME BankInv, NEW r \in Requests, PayoutInsert(r)
  PROVE  BankInv'
<1>1. /\ UNCHANGED <<load, account, crashes>> /\ Done(r)
      /\ reqs[r] \in Request /\ reqs[r].a \in Accounts /\ Fit(reqs[r].a)
      /\ payout \in [Payouts -> Payout]
  BY RecordsName DEF BankInv, BankTypeOK, PayoutInsert, At, Informed
<1>2. AccountsStay
  BY <1>1 DEF AccountsStay, Known, Fit, Payable
<1>3. CASE UNCHANGED payout
  BY <1>1, <1>3, ReadKeeps, IdleIsInformed DEF Done, Informed, Idle
<1>4. CASE payout' # payout
  <2>1. PICK p \in Payouts :
          /\ Live(reqs[r].a) /\ payout[p].st = "none"
          /\ payout' = [payout EXCEPT ![p] = [st |-> "requested", account |-> reqs[r].a]]
    BY <1>4 DEF PayoutInsert
  <2>2. payout' \in [Payouts -> Payout]
    BY <1>1, <2>1 DEF Payout
  <2>3. PayoutsStay
    BY <1>1, <2>1 DEF PayoutsStay, Asked
  <2>4. PayoutsNameRows'
    BY <1>1, <2>1 DEF BankInv, PayoutsNameRows, Asked, Known, Fit
  <2>5. PayoutHasAccount'
    BY <1>1, <2>1 DEF BankInv, PayoutHasAccount, Unsettled, Live, Payable, Fit
  <2>6. FlightOK'
    BY <1>1, <1>2, <2>3, Parts, FlightDone
  <2> QED
    BY <1>1, <2>2, <2>3, <2>4, <2>5, <2>6, PayingKeeps DEF PayingOK
<1> QED
  BY <1>3, <1>4

\* The cron job takes a payout over.
LEMMA CronKeeps ==
  ASSUME BankInv, NEW r \in Requests, NEW p \in Payouts, CronTakes(r, p)
  PROVE  BankInv'
<1>1. /\ UNCHANGED <<load, account, crashes>> /\ Asked(p) /\ Unsettled(p)
      /\ payout' = [payout EXCEPT ![p].st = "processing"]
      /\ payout[p].account \in Accounts
  BY DEF CronTakes, Asked, Unsettled, BankInv, PayoutsNameRows
<1>2. PayingOK' /\ PayoutsStay /\ AccountsStay
  BY <1>1, StatusKeepsPaying
<1> DEFINE rec == [op |-> "submit", p |-> p, fund |-> account[payout[p].account].fund]
<1>3. account[payout[p].account].fund \in BOOLEAN
  BY <1>1 DEF BankInv, BankTypeOK, Account
<1>4. rec \in Request
  BY <1>3 DEF Request
<1>5. Informed(rec)'
  BY <1>1, <1>2 DEF Informed, PayoutsStay
<1>6. FlightOK'
  BY <1>2, <1>4, <1>5, Parts, FlightGoto DEF CronTakes
<1> QED
  BY <1>1, <1>2, <1>6, PayingKeeps

\* A payout is handed to the gateway, or settled without one.
LEMMA SubmitKeeps ==
  ASSUME BankInv, NEW r \in Requests, Submit(r)
  PROVE  BankInv'
<1>1. /\ UNCHANGED <<load, account, crashes>> /\ Done(r)
      /\ reqs[r] \in Request /\ reqs[r].p \in Payouts /\ Asked(reqs[r].p)
  BY RecordsName DEF BankInv, BankTypeOK, Submit, At, Informed
<1>2. CASE UNCHANGED payout
  BY <1>1, <1>2, ReadKeeps, IdleIsInformed DEF Done, Informed, Idle
<1>3. CASE \E st \in {"completed", "failed"} : payout' = [payout EXCEPT ![reqs[r].p].st = st]
  <2>1. PayingOK' /\ PayoutsStay /\ AccountsStay
    BY <1>1, <1>3, StatusKeepsPaying
  <2>2. FlightOK'
    BY <1>1, <2>1, Parts, FlightDone
  <2> QED
    BY <1>1, <2>1, <2>2, PayingKeeps
<1> QED
  BY <1>2, <1>3 DEF Submit

\* The gateway's event settles a payout.
LEMMA SettlesKeeps ==
  ASSUME BankInv, NEW p \in Payouts, NEW st \in {"completed", "failed"}, Settles(p, st)
  PROVE  BankInv'
<1>1. /\ UNCHANGED <<load, account, crashes, reqs>> /\ Asked(p)
      /\ payout' = [payout EXCEPT ![p].st = st]
  BY DEF Settles, Asked
<1>2. PayingOK' /\ PayoutsStay /\ AccountsStay
  BY <1>1, StatusKeepsPaying
<1>3. FlightOK'
  BY <1>1, <1>2, Parts, FlightSame
<1> QED
  BY <1>1, <1>2, <1>3, PayingKeeps

\* A handler stops half-way.
LEMMA CrashKeeps ==
  ASSUME BankInv, NEW r \in Requests, BankCrash(r)
  PROVE  BankInv'
<1>1. UNCHANGED <<load, account, payout>> /\ Done(r)
  BY DEF BankCrash, Stops
<1>2. CountOK'
  BY HandlersAssumption DEF BankInv, BankTypeOK, BankCrash, Stops, CountOK
<1>3. AccountsStay /\ PayoutsStay
  BY <1>1 DEF AccountsStay, PayoutsStay, Known, Fit, Payable, Asked
<1>4. TableOK' /\ PayingOK'
  BY <1>1, Parts DEF TableOK, PayingOK, Account, PayoutsNameRows, PayoutHasAccount,
                     Asked, Known, Unsettled, Live, Payable
<1> QED
  BY <1>1, <1>2, <1>3, <1>4, Parts, FlightDone

-----------------------------------------------------------------------------
\* The invariant holds at the start.
LEMMA BankInitEstablishesInv == BankInit => BankInv
<1> SUFFICES ASSUME BankInit PROVE BankInv
  OBVIOUS
<1>1. NoAccount \in Account /\ Idle \in Request /\ [st |-> "none", account |-> 0] \in Payout
  BY DEF NoAccount, Account, Request, Idle, Payout
<1>2. BankTypeOK
  BY <1>1, HandlersAssumption DEF BankInit, BankTypeOK
<1>3. PayoutsNameRows /\ PayoutHasAccount
  BY DEF BankInit, PayoutsNameRows, PayoutHasAccount, Asked, Unsettled
<1>4. \A r \in Requests : Informed(reqs[r])
  BY DEF BankInit, Informed, Idle
<1> QED
  BY <1>2, <1>3, <1>4 DEF BankInv

\* Every step keeps it.
LEMMA BankNextKeepsInv == BankInv /\ [BankNext]_bankVars => BankInv'
<1> SUFFICES ASSUME BankInv, [BankNext]_bankVars PROVE BankInv'
  OBVIOUS
<1>1. ASSUME NEW r \in Requests, BankArrive(r) PROVE BankInv'
  BY <1>1, ReadSteps, CronKeeps DEF BankArrive
<1>2. ASSUME NEW r \in Requests, BankProceed(r) PROVE BankInv'
  BY <1>2, ReadSteps, AccountSteps, InsertKeeps, SubmitKeeps, CrashKeeps DEF BankProceed
<1>3. ASSUME NEW p \in Payouts, NEW st \in {"completed", "failed"}, Settles(p, st) PROVE BankInv'
  BY <1>3, SettlesKeeps
<1>4. CASE UNCHANGED bankVars
  <2>1. AccountsStay /\ PayoutsStay
    BY <1>4 DEF bankVars, AccountsStay, PayoutsStay, Known, Fit, Payable, Asked
  <2>2. FlightOK'
    BY <1>4, <2>1, Parts, FlightSame DEF bankVars
  <2>3. TableOK' /\ PayingOK' /\ CountOK'
    BY <1>4, Parts DEF bankVars, TableOK, PayingOK, CountOK, Account, PayoutsNameRows,
       PayoutHasAccount, Asked, Known, Unsettled, Live, Payable
  <2> QED
    BY <2>2, <2>3, Parts
<1> QED
  BY <1>1, <1>2, <1>3, <1>4 DEF BankNext

\* In every reachable state what a handler of the accounts has established is still so: the
\* induction behind the next two theorems.
THEOREM BankInvariantHolds == BankSpec => []BankInv
<1> QED
  BY BankInitEstablishesInv, BankNextKeepsInv, PTL DEF BankSpec

\* In every reachable state rows and records are well formed; with Razorpay X a verified
\* account has its contact and its fund account (addBankAccount and its kin).
THEOREM BankTypeCorrect == BankSpec => []BankTypeOK
<1>1. BankInv => BankTypeOK
  BY DEF BankInv
<1> QED
  BY <1>1, BankInvariantHolds, PTL

\* However requests for payouts, deletions and registrations interleave and stop, a payout
\* that is asked for or under way names an account that is there and can be paid to
\* (requestPayout, deleteBankAccount).
THEOREM PayoutsHaveAccounts == BankSpec => []PayoutHasAccount
<1>1. BankInv => PayoutHasAccount
  BY DEF BankInv
<1> QED
  BY <1>1, BankInvariantHolds, PTL
-----------------------------------------------------------------------------
(***************************************************************************)
(* An account says "pending" only while a registration of the host's is    *)
(* under way.  The row and the record of the registration change together: *)
(* that is what a step owes.                                               *)
(***************************************************************************)
HostJob(rec, a) == /\ rec.op \in {"contact", "fund", "verifyWrite", "failWrite"}
                   /\ rec.a = a /\ rec.by = "host"

Pending(a) == Live(a) /\ account[a].status = "pending"

\* What handler r's step owes: an account that is pending after it is r's to go on with, or
\* was pending before and not r's.
Owes(r) ==
  load.configured =>
    \A a \in Accounts :
      Pending(a)' => HostJob(reqs'[r], a) \/ (Pending(a) /\ ~HostJob(reqs[r], a))

\* If the handler that steps pays what it owes, pending accounts stay under way.
LEMMA OwedIsEnough ==
  ASSUME BankInv, PendingIsUnderWay, NEW r \in Requests, NEW rec, Goto(r, rec), load' = load,
         crashes' = 0 => crashes = 0, Owes(r)
  PROVE  PendingIsUnderWay'
<1> SUFFICES ASSUME load.configured, crashes = 0, NEW a \in Accounts, Pending(a)'
             PROVE  Registering(a)'
  BY DEF PendingIsUnderWay, Pending, Live, Registering
<1>1. \A q \in Requests : reqs'[q] = IF q = r THEN rec ELSE reqs[q]
  BY DEF BankInv, BankTypeOK, Goto
<1>2. CASE HostJob(reqs'[r], a)
  BY <1>2 DEF Registering, HostJob
<1>3. CASE Pending(a) /\ ~HostJob(reqs[r], a)
  <2>1. PICK q \in Requests : HostJob(reqs[q], a)
    BY <1>3 DEF PendingIsUnderWay, Pending, Registering, HostJob
  <2>2. q # r /\ reqs'[q] = reqs[q]
    BY <1>1, <1>3, <2>1
  <2> QED
    BY <2>1, <2>2 DEF Registering, HostJob
<1> QED
  BY <1>2, <1>3 DEF Owes

\* A step of r that leaves the accounts alone may not drop a registration.
LEMMA ReaderOwes ==
  ASSUME UNCHANGED account, NEW r \in Requests,
         \A a \in Accounts : HostJob(reqs[r], a) => HostJob(reqs'[r], a)
  PROVE  Owes(r)
  BY DEF Owes, Pending, Live

\* Every step but a crash pays what it owes.
LEMMA StepOwes ==
  ASSUME BankInv, NEW r \in Requests, BankArrive(r) \/ BankProceed(r), ~BankCrash(r)
  PROVE  Owes(r) /\ UNCHANGED <<load, crashes>> /\ \E rec : Goto(r, rec)
<1>0. /\ reqs \in [Requests -> Request] /\ reqs[r] \in Request
      /\ account \in [Accounts -> Account]
      /\ \A b \in Accounts : account[b] \in Account
  BY DEF BankInv, BankTypeOK
<1>1. CASE BankArrive(r)
  <2>1. reqs[r] = Idle /\ UNCHANGED account
    BY <1>1 DEF BankArrive, AddRead, UpdateRead, RetryRead, AdminRegister, AdminMarkRead, DeleteRead,
                PayoutRead, CronTakes, Starts
  <2>2. Owes(r)
    BY <2>1, ReaderOwes DEF HostJob, Idle
  <2>3. UNCHANGED <<load, crashes>> /\ \E rec : Goto(r, rec)
    BY <1>1 DEF BankArrive, AddRead, UpdateRead, RetryRead, AdminRegister, GoJob, AdminMarkRead,
                DeleteRead, PayoutRead, CronTakes
  <2> QED
    BY <2>2, <2>3
<1>2. CASE \/ AddNoRoom(r) \/ DeleteCount(r) \/ PayoutCheck(r) \/ PayoutInsert(r) \/ Submit(r)
  <2>1. \A a \in Accounts : ~HostJob(reqs[r], a)
    BY <1>2 DEF AddNoRoom, DeleteCount, PayoutCheck, PayoutInsert, Submit, At, HostJob
  <2>2. UNCHANGED account
    BY <1>2 DEF AddNoRoom, DeleteCount, PayoutCheck, PayoutInsert, Submit
  <2>3. UNCHANGED <<load, crashes>> /\ \E rec : Goto(r, rec)
    BY <1>2 DEF AddNoRoom, DeleteCount, PayoutCheck, PayoutInsert, Submit, Done
  <2> QED
    BY <2>1, <2>2, <2>3, ReaderOwes
<1>3. CASE Contact(r) \/ Fund(r) \/ VerifyMissed(r)
  <2>1. /\ reqs[r].a \in Accounts /\ reqs[r].by \in {"host", "admin"} /\ UNCHANGED account
    BY <1>0, <1>3, RecordsName DEF Contact, Fund, VerifyMissed, At
  <2>2. /\ UNCHANGED <<load, crashes>>
        /\ \/ \E c : \E step \in {"fund", "verifyWrite", "failWrite"} :
                Goto(r, [op |-> step, a |-> reqs[r].a, by |-> reqs[r].by, contact |-> c])
           \/ reqs[r].by = "admin" /\ Goto(r, Idle)
    BY <1>3 DEF Contact, Fund, VerifyMissed, Throws, Onwards, GoJob, Done
  <2>3. \A a \in Accounts : HostJob(reqs[r], a) => HostJob(reqs'[r], a)
    BY <1>0, <2>2 DEF HostJob, Goto
  <2> QED
    BY <2>1, <2>2, <2>3, ReaderOwes
<1>4. CASE VerifyWrite(r) \/ FailWrite(r)
  <2>1. /\ reqs[r].a \in Accounts /\ reqs[r].by \in {"host", "admin"}
        /\ UNCHANGED <<load, crashes>> /\ Goto(r, Idle)
    BY <1>0, <1>4, RecordsName DEF VerifyWrite, FailWrite, At, Done
  <2>2. \A a \in Accounts : a # reqs[r].a => account'[a] = account[a]
    BY <1>0, <1>4 DEF VerifyWrite, FailWrite
  <2>3. \/ /\ Live(reqs[r].a) /\ account'[reqs[r].a].status \in {"verified", "failed"}
        \/ ~Live(reqs[r].a) /\ account' = account
        \/ /\ reqs[r].by = "admin"
           /\ account'[reqs[r].a].status = account[reqs[r].a].status
           /\ account'[reqs[r].a].row = account[reqs[r].a].row
    BY <1>0, <1>4, <2>1 DEF VerifyWrite, FailWrite, Account
  <2> QED
    BY <2>1, <2>2, <2>3 DEF Owes, Pending, Live, HostJob
<1>5. CASE AddWrite(r)
  <2>1. PICK b \in Accounts :
          /\ account[b].row = "none"
          /\ account' = WithDefault(b, [NoAccount EXCEPT !.row = "live", !.default = reqs[r].default],
                                    reqs[r].others)
          /\ IF load.configured THEN GoJob(r, "contact", b, "host", FALSE) ELSE Done(r)
    BY <1>5 DEF AddWrite
  <2>2. \A a \in Accounts : a # b => /\ account'[a].row = account[a].row
                                   /\ account'[a].status = account[a].status
    BY <1>0, <2>1 DEF WithDefault, Account
  <2>3. \A a \in Accounts : ~HostJob(reqs[r], a)
    BY <1>5 DEF AddWrite, At, HostJob
  <2>4. UNCHANGED <<load, crashes>>
    BY <1>5 DEF AddWrite
  <2>5. load.configured => HostJob(reqs'[r], b)
    BY <1>0, <2>1 DEF GoJob, Goto, HostJob
  <2> QED
    BY <2>1, <2>2, <2>3, <2>4, <2>5 DEF Owes, Pending, Live, GoJob, Done
<1>6. CASE RetryWrite(r)
  <2>1. /\ reqs[r].a \in Accounts /\ reqs[r].contact \in BOOLEAN
        /\ UNCHANGED <<load, crashes>>
        /\ \A a \in Accounts : ~HostJob(reqs[r], a)
    BY <1>0, <1>6, RecordsName DEF RetryWrite, At, HostJob
  <2>2. CASE Live(reqs[r].a) /\ load.configured
    <3>1. PICK step \in {"fund", "contact"}, c \in BOOLEAN : GoJob(r, step, reqs[r].a, "host", c)
      BY <1>6, <2>1, <2>2 DEF RetryWrite
    <3>2. HostJob(reqs'[r], reqs[r].a)
      BY <1>0, <3>1 DEF GoJob, Goto, HostJob
    <3>3. \A a \in Accounts : a # reqs[r].a => account'[a] = account[a]
      BY <1>0, <1>6, <2>2 DEF RetryWrite
    <3> QED
      BY <2>1, <3>1, <3>2, <3>3 DEF Owes, Pending, Live, GoJob
  <2>3. CASE ~Live(reqs[r].a) \/ ~load.configured
    <3>1. Done(r) /\ (~load.configured \/ account' = account)
      BY <1>6, <2>3 DEF RetryWrite
    <3> QED
      BY <2>1, <3>1 DEF Owes, Pending, Live, Done
  <2> QED
    BY <2>2, <2>3
<1>7. CASE AdminMark(r) \/ UpdateWrite(r) \/ DeleteRow(r)
  <2>1. /\ \A a \in Accounts : ~HostJob(reqs[r], a)
        /\ UNCHANGED <<load, crashes>> /\ Done(r) /\ reqs[r].a \in Accounts
    BY <1>0, <1>7, RecordsName DEF AdminMark, UpdateWrite, DeleteRow, At, HostJob
  <2>2. ASSUME NEW a \in Accounts
        PROVE  /\ account'[a].status = account[a].status
               /\ account'[a].row \in {account[a].row, "deleted"}
    <3>1. CASE AdminMark(r) \/ DeleteRow(r)
      BY <1>0, <2>1, <3>1 DEF AdminMark, DeleteRow, Account
    <3>2. CASE UpdateWrite(r)
      BY <1>0, <2>1, <3>2 DEF UpdateWrite, WithDefault, Account
    <3> QED
      BY <1>7, <3>1, <3>2
  <2>3. Owes(r)
    BY <2>1, <2>2 DEF Owes, Pending, Live
  <2> QED
    BY <2>1, <2>3 DEF Done
<1> QED
  BY <1>1, <1>2, <1>3, <1>4, <1>5, <1>6, <1>7 DEF BankProceed

\* With Razorpay X an account that says "pending" is being registered, whoever else registers
\* it, deletes it or makes it the default meanwhile (addBankAccount,
\* retryBankAccountVerification, adminRegisterBankAccountWithRazorpayX).
THEOREM PendingIsRegistered == BankSpec => []PendingIsUnderWay
<1>1. BankInit => PendingIsUnderWay
  BY DEF BankInit, PendingIsUnderWay, NoAccount, Live
<1>2. BankInv /\ PendingIsUnderWay /\ [BankNext]_bankVars => PendingIsUnderWay'
  <2> SUFFICES ASSUME BankInv, PendingIsUnderWay, [BankNext]_bankVars PROVE PendingIsUnderWay'
    OBVIOUS
  <2>1. ASSUME NEW r \in Requests, BankArrive(r) \/ BankProceed(r), ~BankCrash(r) PROVE PendingIsUnderWay'
    BY <2>1, StepOwes, OwedIsEnough
  <2>2. ASSUME NEW r \in Requests, BankCrash(r) PROVE PendingIsUnderWay'
    BY <2>2, HandlersAssumption DEF BankCrash, Stops, BankInv, BankTypeOK, PendingIsUnderWay
  <2>3. ASSUME NEW p \in Payouts, NEW st \in {"completed", "failed"}, Settles(p, st)
        PROVE  PendingIsUnderWay'
    BY <2>3 DEF Settles, PendingIsUnderWay, Live, Registering
  <2>4. CASE UNCHANGED bankVars
    BY <2>4 DEF bankVars, PendingIsUnderWay, Live, Registering
  <2> QED
    BY <2>1, <2>2, <2>3, <2>4 DEF BankNext
<1> QED
  BY <1>1, <1>2, BankInvariantHolds, PTL DEF BankSpec

-----------------------------------------------------------------------------
(***************************************************************************)
(* The space.  Its handlers read, and write what they read: what makes     *)
(* that safe is of two kinds.  A fact is so whoever else runs, since no    *)
(* statement undoes it (a space once approved stays approved).  A view is  *)
(* so while the handler is the only one, which is what OneAtATime says;    *)
(* of what is then behind, a rating or a refund, some handler holds the    *)
(* record that will see to it.  HostSpaces and AfterStay are proved apart, *)
(* each from what a step of the other leaves alone, and then joined at the *)
(* end of a booking, the one step they share.                              *)
(***************************************************************************)
\* What a handler of HostSpaces or of AfterStay may hold.
SpaceRecord ==
  [op : {"kycWrite"}, type : DocTypes]
    \cup [op : {"decideWrite"}, doc : Docs, st : {"approved", "rejected"}]
    \cup [op : {"createWrite"}, n : 1..MaxCapacity, verified : BOOLEAN]
    \cup [op : {"locate", "resume"}]
    \cup [op : {"upload"}, n : 1..MinPhotos]
    \cup [op : {"status"}, st : Statuses \ {"draft"}]
    \cup [op : {"slotWrite"}, n : Numbers]
    \cup [op : {"flipWrite"}, s : Slots, active : BOOLEAN, n : Numbers]
    \cup [op : {"dropWrite", "insert"}, s : Slots]
    \cup [op : {"heal"}, n : 0..MaxCapacity]
    \cup [op : {"choose"}, slots : SUBSET Slots]
StayRecord ==
  [op : {"reviewWrite", "editWrite"}, b : Bookings, stars : Ratings, st : {"active", "flagged"}]
    \cup [op : {"reportWrite", "removeWrite", "respondWrite", "disputeWrite"}, b : Bookings]
    \cup [op : {"aggregate"}]
    \cup [op : {"store"}, counted : SUBSET (Bookings \X Ratings)]
    \cup [op : {"logTicket"}, t : After!Tickets]
    \cup [op : {"message"}, t : After!Tickets, who : {"user", "admin"}]
    \cup [op : {"resolveWrite"}, b : Bookings, how : After!Kinds, amount : Given,
          cancelled : BOOLEAN, payment : BOOLEAN]
    \cup [op : {"refund", "goodwill"}, b : Bookings, amount : Given]

\* Whether a status needs the geohash, and an administrator's approval.
OnMap(st) == st \in {"pending_review", "active", "paused"}

\* What a handler of HostSpaces knows, whoever runs beside it.
SpaceFact(q) ==
  /\ q.op = "createWrite" => q.verified
  /\ q.op \in {"locate", "upload", "status", "resume", "slotWrite", "heal"} => space.st # "none"
  /\ q.op = "resume" => space.mapped /\ seal.approved
  /\ q.op = "status" => /\ OnMap(q.st) => space.mapped
                        /\ q.st = "paused" => seal.approved

\* What it knows while it is the only one.
SpaceView(q) ==
  /\ q.op = "insert" => Listed
  /\ q.op = "status" /\ q.st \notin {"active", "paused"} => \A b \in Bookings : ~Open(b)
  /\ q.op = "slotWrite" => Cardinality(Active) < space.capacity
  /\ q.op = "flipWrite" /\ q.active => Cardinality(Active \ {q.s}) < space.capacity
  /\ q.op = "heal" => Active = {} /\ q.n = space.capacity

StayFact(q) ==
  /\ q.op \in {"reviewWrite", "disputeWrite", "resolveWrite", "refund", "goodwill"} =>
       stay[q.b].st # "none"
  /\ q.op \in {"editWrite", "reportWrite", "removeWrite", "respondWrite"} => review[q.b].st # "none"
  /\ q.op = "resolveWrite" => dispute[q.b].st # "none"

CurrentIn(R) ==
  \A b \in Bookings :
    /\ review[b].st = "active" => <<b, review[b].stars>> \in R
    /\ review[b].st = "removed" => \A stars \in Ratings : <<b, stars>> \notin R

StayView(q) ==
  /\ q.op = "resolveWrite" => dispute[q.b].st = "open" /\ (q.payment <=> After!Refundable(q.b))
  /\ q.op = "refund" => After!Refundable(q.b)
  /\ q.op = "goodwill" /\ crashes = 0 => stay[q.b].credited = 0 /\ dispute[q.b].granted = q.amount
  /\ q.op = "store" => CurrentIn(q.counted)

Record == {Idle} \cup SpaceRecord \cup StayRecord
Busied == /\ reqs \in [Requests -> Record]
          /\ \A r \in Requests : reqs[r] # Idle => r \in load.crew

\* Rows of slots are made in order, and none before the space.
SlotsInOrder ==
  /\ \A s, t \in Slots : s < t /\ slot[t].row # "none" => slot[s].row # "none"
  /\ space.st = "none" => \A s \in Slots : slot[s].row = "none"

Housed == \A b \in Bookings : booking[b].st # "none" => booking[b].slot \in Slots

Standing ==
  /\ space.st # "none" => seal.verified \/ seal.wizard
  /\ space.st = "none" => space.photos = 0
  /\ Listed => seal.approved
  /\ OnMap(space.st) => space.mapped

\* A space that is not on the map is being put there.
Placed == space.st # "none" /\ ~space.located =>
            space.st = "draft" /\ \E r \in Requests : reqs[r].op = "locate"

SpaceAsks == /\ \A r \in Requests : SpaceFact(reqs[r])
             /\ OneAtATime => \A r \in Requests : SpaceView(reqs[r])

SpaceInv ==
  /\ TypeOK /\ Housed /\ SlotsInOrder /\ Standing /\ SpaceAsks /\ OpenBookingIsServed
  /\ OneAtATime /\ crashes = 0 => Placed

Filed ==
  \A b \in Bookings :
    /\ stay[b].refunded <= stay[b].paid
    /\ review[b].st # "none" => stay[b].st # "none" /\ review[b].stars \in Ratings
    /\ dispute[b].st # "none" => /\ stay[b].st # "none" /\ dispute[b].ticket \in After!Tickets
                                 /\ ticket[dispute[b].ticket].st # "none"
    /\ dispute[b].how # "none" => dispute[b].st = "resolved"
    /\ dispute[b].granted # 0 => dispute[b].how = "credit"

\* A rating that is behind is being computed, a refund or goodwill that is due
\* is being made.
Rated ==
  \/ CurrentIn(rating)
  \/ \E r \in Requests : reqs[r].op \in {"aggregate", "store"}
Repaid ==
  \A b \in Bookings :
    /\ stay[b].end # "suspended" => stay[b].returned = 0
    /\ dispute[b].how = "refund" /\ stay[b].refunded # stay[b].paid =>
         \E r \in Requests : reqs[r].op = "refund" /\ reqs[r].b = b /\ reqs[r].amount = Price
    /\ stay[b].credited # dispute[b].granted =>
         \E r \in Requests : reqs[r].op = "goodwill" /\ reqs[r].b = b

StayAsks == /\ \A r \in Requests : StayFact(reqs[r])
            /\ OneAtATime => \A r \in Requests : StayView(reqs[r])

StayInv ==
  /\ After!TypeOK /\ Filed /\ After!DisputedIsHeld /\ StayAsks
  /\ OneAtATime /\ crashes = 0 => Rated /\ Repaid

LifeInv == Busied /\ SpaceInv /\ StayInv
           /\ \A b \in Bookings : stay[b].st # "none" <=> booking[b].st = "over"

-----------------------------------------------------------------------------
\* In a finite set of numbers there is one of every rank: what nth(k) is to choose in WithSlots.
Below(S, n) == {m \in S : m < n}

\* Of a finite set of numbers, for each rank there is a number that has it.
LEMMA HasRanks ==
  ASSUME NEW S \in SUBSET Nat, IsFiniteSet(S), NEW k \in 1..Cardinality(S)
  PROVE  \E n \in S : Cardinality(Below(S, n)) = k - 1
<1> DEFINE Good(j) == \E n \in S : Cardinality(Below(S, n)) = j - 1
           Bad == {j \in Nat : j \in 1..Cardinality(S) /\ ~Good(j)}
<1>0. /\ Cardinality(S) \in Nat
      /\ \A T \in SUBSET S : IsFiniteSet(T) /\ Cardinality(T) \in Nat
      /\ \A n \in S : n \in Nat
  BY FS_Subset, FS_CardinalityType
<1>1. SUFFICES ASSUME Bad # {} PROVE FALSE
  BY <1>0
<1>2. PICK j \in Bad : \A i \in Bad : j <= i
  BY <1>1, LeastNatural
<1>3. CASE j = 1
  <2>1. S # {}
    BY <1>0, <1>2, FS_EmptySet
  <2>2. PICK n \in S : \A m \in S : n <= m
    BY <2>1, LeastNatural
  <2>3. Below(S, n) = {}
    <3>1. \A m \in S : ~(m < n)
      BY <1>0, <2>2
    <3> QED
      BY <3>1 DEF Below
  <2> QED
    BY <1>2, <1>3, <2>3, FS_EmptySet
<1>4. CASE j # 1
  <2>1. j - 1 \in Nat /\ j - 1 \in 1..Cardinality(S) /\ j - 1 < j
    BY <1>0, <1>2, <1>4
  <2>2. PICK n \in S : Cardinality(Below(S, n)) = (j - 1) - 1
    BY <1>2, <2>1
  <2>3. PICK L \in SUBSET S : L = Below(S, n) \cup {n}
    BY DEF Below
  <2>4. Cardinality(L) = j - 1
    <3>1. PICK B \in SUBSET S : B = Below(S, n)
      BY DEF Below
    <3>2. n \notin B /\ IsFiniteSet(B)
      BY <1>0, <3>1 DEF Below
    <3>3. Cardinality(B \cup {n}) = Cardinality(B) + 1
      BY <3>2, FS_AddElement
    <3> QED
      BY <1>2, <2>2, <2>3, <3>1, <3>3
  <2>5. S \ L # {}
    <3>1. S \ L = {} => S = L
      OBVIOUS
    <3> QED
      BY <1>0, <1>2, <2>1, <2>4, <3>1
  <2>6. PICK n2 \in S \ L : \A m \in S \ L : n2 <= m
    <3>1. S \ L \in SUBSET Nat
      OBVIOUS
    <3> QED
      BY <2>5, <3>1, LeastNatural
  <2>7. Below(S, n2) = L
    <3>1. \A m \in L : m < n2
      <4>1. n < n2
        BY <1>0, <2>3, <2>6 DEF Below
      <4> QED
        BY <1>0, <2>3, <4>1 DEF Below
    <3>2. \A m \in S \ L : ~(m < n2)
      BY <1>0, <2>6
    <3> QED
      BY <3>1, <3>2 DEF Below
  <2> QED
    BY <1>2, <2>4, <2>6, <2>7
<1> QED
  BY <1>3, <1>4

\* The rows that have been used are the first ones.
LEMMA UsedRows ==
  ASSUME NSlots \in Nat,
         \A s, t \in Slots : s < t /\ slot[t].row # "none" => slot[s].row # "none"
  PROVE  /\ NSlots - Cardinality(FreeSlots) \in 0..NSlots
         /\ \A s \in Slots : slot[s].row = "none" <=> s > NSlots - Cardinality(FreeSlots)
<1>1. CASE FreeSlots = {}
  <2>1. Cardinality(FreeSlots) = 0
    BY <1>1, FS_EmptySet
  <2> QED
    <3>1. \A s \in Slots : slot[s].row # "none"
      BY <1>1 DEF FreeSlots
    <3> QED
      BY <2>1, <3>1 DEF Slots
<1>2. CASE FreeSlots # {}
  <2>1. FreeSlots \in SUBSET Nat
    BY DEF FreeSlots, Slots
  <2>2. PICK f \in FreeSlots : \A s \in FreeSlots : f <= s
    BY <1>2, <2>1, LeastNatural
  <2>3. FreeSlots = f..NSlots /\ f \in 1..NSlots
    BY <2>2 DEF FreeSlots, Slots
  <2>4. Cardinality(f..NSlots) = NSlots - f + 1
    BY <2>3, FS_Interval
  <2>5. NSlots - Cardinality(FreeSlots) = f - 1
    BY <2>3, <2>4
  <2>6. \A s \in Slots : slot[s].row = "none" <=> s \in f..NSlots
    BY <2>3 DEF FreeSlots
  <2> QED
    BY <2>3, <2>5, <2>6 DEF Slots
<1> QED
  BY <1>1, <1>2

\* New rows come after those there are, each with a number of its own.
LEMMA WithSlotsAdds ==
  ASSUME NSlots \in Nat, NEW N \in SUBSET Nat, IsFiniteSet(N),
         \A s, t \in Slots : s < t /\ slot[t].row # "none" => slot[s].row # "none"
  PROVE  \E new \in SUBSET Slots :
           /\ WithSlots(N) = [s \in Slots |-> WithSlots(N)[s]]
           /\ \A s \in new : /\ slot[s].row = "none"
                             /\ \E n \in N : WithSlots(N)[s] = NewSlot(n)
           /\ \A s \in Slots \ new : WithSlots(N)[s] = slot[s]
           /\ \A s, t \in new : WithSlots(N)[s] = WithSlots(N)[t] => s = t
           /\ \A s \in Slots, t \in new : s < t => s \in new \/ slot[s].row # "none"
           /\ IsFiniteSet(new) /\ Cardinality(new) <= Cardinality(N)
<1> DEFINE nth(k) == CHOOSE n \in N : Cardinality({m \in N : m < n}) = k - 1
<1>1. PICK first \in 0..NSlots :
        /\ first = NSlots - Cardinality(FreeSlots)
        /\ \A s \in Slots : slot[s].row = "none" <=> s > first
  BY UsedRows
<1>2. PICK c \in Nat : c = Cardinality(N)
  BY FS_CardinalityType
<1> DEFINE new == {s \in Slots : s - first \in 1..c}
<1>3. WithSlots(N) = [s \in Slots |-> IF s - first \in 1..c THEN NewSlot(nth(s - first)) ELSE slot[s]]
  BY <1>1, <1>2 DEF WithSlots
<1>4. ASSUME NEW k \in 1..c
      PROVE  nth(k) \in N /\ Cardinality({m \in N : m < nth(k)}) = k - 1
  BY <1>2, <1>4, HasRanks DEF Below
<1> HIDE DEF nth
<1>5. \A s \in new : /\ slot[s].row = "none" /\ s - first \in 1..c
                     /\ WithSlots(N)[s] = NewSlot(nth(s - first))
  BY <1>1, <1>3 DEF Slots
<1>6. \A s \in Slots \ new : WithSlots(N)[s] = slot[s]
  BY <1>3
<1>7. \A s, t \in new : WithSlots(N)[s] = WithSlots(N)[t] => s = t
  <2> SUFFICES ASSUME NEW s \in new, NEW t \in new, WithSlots(N)[s] = WithSlots(N)[t]
               PROVE  s = t
    OBVIOUS
  <2>1. nth(s - first) = nth(t - first)
    <3>1. NewSlot(nth(s - first)).number = NewSlot(nth(t - first)).number
      BY <1>5
    <3> QED
      BY <3>1 DEF NewSlot
  <2>2. (s - first) - 1 = (t - first) - 1
    BY <1>4, <1>5, <2>1
  <2> QED
    BY <1>1, <2>2 DEF Slots
<1>8. \A s \in Slots, t \in new : s < t => s \in new \/ slot[s].row # "none"
  BY <1>1 DEF Slots
<1>9. IsFiniteSet(new) /\ Cardinality(new) <= c
  <2>1. IsFiniteSet((first + 1)..(first + c)) /\ Cardinality((first + 1)..(first + c)) = c
    <3>1. first + 1 \in Int /\ first + c \in Int
      BY <1>1
    <3>2. PICK a \in Int, z \in Int : a = first + 1 /\ z = first + c
      BY <3>1
    <3>3. IsFiniteSet(a..z) /\ Cardinality(a..z) = IF a > z THEN 0 ELSE z - a + 1
      BY FS_Interval
    <3> QED
      BY <1>1, <3>2, <3>3
  <2>2. new \subseteq (first + 1)..(first + c)
    BY <1>1 DEF Slots
  <2> QED
    BY <2>1, <2>2, FS_Subset
<1> QED
  BY <1>2, <1>3, <1>4, <1>5, <1>6, <1>7, <1>8, <1>9

-----------------------------------------------------------------------------
\* The two kinds of records, and the two together.
SpaceOps == {"kycWrite", "decideWrite", "createWrite", "locate", "resume", "upload", "status",
             "slotWrite", "flipWrite", "dropWrite", "insert", "heal", "choose"}
StayOps  == {"reviewWrite", "editWrite", "reportWrite", "removeWrite", "respondWrite",
             "disputeWrite", "goodwill", "aggregate", "store", "logTicket", "message",
             "resolveWrite", "refund"}

\* An idle handler is at no step of either half.
LEMMA IdleIsNone == Idle.op = "idle" /\ Idle.op \notin SpaceOps /\ Idle.op \notin StayOps
  BY DEF Idle, SpaceOps, StayOps

\* The fields of a record of HostSpaces, step by step.
LEMMA SpaceFields ==
  ASSUME NEW q \in SpaceRecord
  PROVE  /\ q.op \in SpaceOps /\ q.op \notin StayOps /\ q.op # "idle"
         /\ q.op = "kycWrite" => q.type \in DocTypes
         /\ q.op = "decideWrite" => q.doc \in Docs /\ q.st \in {"approved", "rejected"}
         /\ q.op = "createWrite" => q.n \in 1..MaxCapacity /\ q.verified \in BOOLEAN
         /\ q.op = "upload" => q.n \in 1..MinPhotos
         /\ q.op = "status" => q.st \in Statuses \ {"draft"}
         /\ q.op = "slotWrite" => q.n \in Numbers
         /\ q.op = "flipWrite" => q.s \in Slots /\ q.active \in BOOLEAN /\ q.n \in Numbers
         /\ q.op \in {"dropWrite", "insert"} => q.s \in Slots
         /\ q.op = "heal" => q.n \in 0..MaxCapacity
         /\ q.op = "choose" => q.slots \in SUBSET Slots
  BY DEF SpaceRecord, SpaceOps, StayOps

\* The fields of a record of AfterStay, step by step.
LEMMA StayFields ==
  ASSUME NEW q \in StayRecord
  PROVE  /\ q.op \in StayOps /\ q.op \notin SpaceOps /\ q.op # "idle"
         /\ q.op \in {"reviewWrite", "editWrite"} =>
              q.b \in Bookings /\ q.stars \in Ratings /\ q.st \in {"active", "flagged"}
         /\ q.op \in {"reportWrite", "removeWrite", "respondWrite", "disputeWrite", "goodwill",
                      "resolveWrite", "refund"} => q.b \in Bookings
         /\ q.op = "store" => q.counted \in SUBSET (Bookings \X Ratings)
         /\ q.op \in {"logTicket", "message"} => q.t \in After!Tickets
         /\ q.op = "message" => q.who \in {"user", "admin"}
         /\ q.op = "resolveWrite" => /\ q.how \in After!Kinds /\ q.amount \in Given
                                     /\ q.cancelled \in BOOLEAN /\ q.payment \in BOOLEAN
         /\ q.op \in {"refund", "goodwill"} => q.amount \in Given
  BY DEF StayRecord, SpaceOps, StayOps

\* A record is of the half its step belongs to.
LEMMA RecordIsOne ==
  ASSUME NEW q \in Record
  PROVE  /\ q = Idle <=> q.op = "idle"
         /\ q \in SpaceRecord <=> q.op \in SpaceOps
         /\ q \in StayRecord <=> q.op \in StayOps
  BY IdleIsNone, SpaceFields, StayFields DEF Record, SpaceOps, StayOps

\* A record of one kind claims nothing of the other half.
LEMMA OthersClaimNothing ==
  ASSUME NEW q
  PROVE  /\ q.op \notin SpaceOps => SpaceFact(q) /\ SpaceView(q) /\ SpaceFact(q)' /\ SpaceView(q)'
         /\ q.op \notin StayOps => StayFact(q) /\ StayView(q) /\ StayFact(q)' /\ StayView(q)'
  BY DEF SpaceFact, SpaceView, StayFact, StayView, SpaceOps, StayOps

\* Of a crew of one no other handler is at work.
LEMMA Alone ==
  ASSUME load \in Workloads, Busied, OneAtATime, NEW r \in Requests, r \in load.crew,
         NEW q \in Requests, q # r
  PROVE  reqs[q] = Idle
<1>1. IsFiniteSet(load.crew)
  BY HandlersAssumption, FS_Subset
<1>2. PICK c : load.crew = {c}
  BY <1>1, FS_Singleton DEF OneAtATime
<1> QED
  BY <1>2 DEF Busied

\* A handler of the crew goes on with a record, and the others keep theirs.
LEMMA BusiedGoto ==
  ASSUME Busied, load' = load, NEW r \in Requests, NEW rec \in Record, Goto(r, rec),
         r \in load.crew \/ rec = Idle
  PROVE  /\ Busied'
         /\ reqs'[r] = rec /\ \A q \in Requests : q # r => reqs'[q] = reqs[q]
         /\ \A q \in Requests : reqs[q] \in Record
  BY DEF Busied, Goto, Record

-----------------------------------------------------------------------------
\* What the handlers know of the space, after a step of one of them.
\* What a step may not take back.
SpaceMoves == /\ space.st # "none" => space'.st # "none" /\ (space.mapped => space'.mapped)
              /\ seal.approved => seal'.approved

\* Facts about the space stay so.
LEMMA SpaceFactStays ==
  ASSUME NEW q, SpaceMoves, SpaceFact(q)
  PROVE  SpaceFact(q)'
  BY DEF SpaceFact, SpaceMoves

\* What handlers claim of the space stays so if the facts do and the one that steps has seen what
\* its new record claims; its view needs nobody else's.
LEMMA SpaceGoto ==
  ASSUME Busied, load \in Workloads, load' = load, SpaceAsks, SpaceMoves,
         NEW r \in Requests, r \in load.crew, NEW rec \in Record, Goto(r, rec),
         SpaceFact(rec)', OneAtATime => SpaceView(rec)'
  PROVE  SpaceAsks'
<1>1. /\ reqs'[r] = rec /\ \A q \in Requests : q # r => reqs'[q] = reqs[q]
  BY BusiedGoto
<1>2. ASSUME NEW q \in Requests PROVE SpaceFact(reqs[q])'
  <2>1. CASE q = r
    BY <1>1, <2>1 DEF SpaceFact
  <2>2. CASE q # r
    <3>1. PICK rq : rq = reqs[q] /\ rq = reqs'[q] /\ SpaceFact(rq)
      BY <1>1, <2>2 DEF SpaceAsks
    <3>2. SpaceFact(rq)'
      BY <3>1, SpaceFactStays
    <3> QED
      BY <3>1, <3>2 DEF SpaceFact
  <2> QED
    BY <2>1, <2>2
<1>3. ASSUME OneAtATime, NEW q \in Requests PROVE SpaceView(reqs[q])'
  <2>1. CASE q = r
    BY <1>1, <1>3, <2>1 DEF SpaceView
  <2>2. CASE q # r
    <3>1. reqs'[q] = Idle
      BY <1>1, <1>3, <2>2, Alone
    <3>2. SpaceView(Idle)'
      BY IdleIsNone, OthersClaimNothing
    <3> QED
      BY <3>1, <3>2 DEF SpaceView
  <2> QED
    BY <2>1, <2>2
<1>4. OneAtATime' <=> OneAtATime
  BY DEF OneAtATime
<1> QED
  BY <1>2, <1>3, <1>4 DEF SpaceAsks

-----------------------------------------------------------------------------
\* TypeOK by the tables.
DocOK     == doc \in [Docs -> [st : {"none", "pending", "approved", "rejected"}, type : DocTypes]]
SpaceOK   == /\ space \in [st : Statuses \cup {"none"}, capacity : 0..MaxCapacity, photos : 0..MinPhotos,
                           priced : BOOLEAN, located : BOOLEAN, mapped : BOOLEAN]
             /\ seal \in [verified : BOOLEAN, approved : BOOLEAN, wizard : BOOLEAN]
SlotOK    == /\ slot \in [Slots -> [row : {"none", "live", "deleted"}, number : {0} \cup Numbers,
                                    active : BOOLEAN]]
             /\ \A s, t \in Slots : Rows(s) /\ Rows(t) /\ slot[s].number = slot[t].number => s = t
LocksOK   == locks \subseteq Slots
BookingOK == booking \in [Bookings -> [st : {"none", "open", "over"}, slot : {0} \cup Slots, due : BOOLEAN]]
HeldOK    == Housed /\ \A b \in Bookings : booking[b].st # "none" => Rows(booking[b].slot)
MeterOK   == load \in Workloads /\ crashes \in 0..MaxCrashes

\* The rows of the space, table by table.
LEMMA TypeParts ==
  /\ TypeOK /\ Housed <=> DocOK /\ SpaceOK /\ SlotOK /\ LocksOK /\ BookingOK /\ HeldOK /\ MeterOK
  /\ TypeOK' /\ Housed' <=> DocOK' /\ SpaceOK' /\ SlotOK' /\ LocksOK' /\ BookingOK' /\ HeldOK' /\ MeterOK'
  BY DEF TypeOK, DocOK, SpaceOK, SlotOK, LocksOK, BookingOK, HeldOK, MeterOK

\* A table that a step leaves alone keeps its part.
LEMMA HeldTables ==
  /\ UNCHANGED doc => (DocOK => DocOK')
  /\ UNCHANGED <<space, seal>> => (SpaceOK => SpaceOK')
  /\ UNCHANGED slot => (SlotOK => SlotOK')
  /\ UNCHANGED locks => (LocksOK => LocksOK')
  /\ UNCHANGED booking => (BookingOK => BookingOK')
  /\ UNCHANGED <<slot, booking>> => (HeldOK => HeldOK')
  /\ UNCHANGED <<load, crashes>> => (MeterOK => MeterOK')
  /\ UNCHANGED <<space, slot>> => (SlotsInOrder => SlotsInOrder')
  /\ UNCHANGED <<space, seal>> => (Standing => Standing') /\ SpaceMoves
  /\ UNCHANGED <<load, space, booking>> => (OpenBookingIsServed => OpenBookingIsServed')
  BY DEF DocOK, SpaceOK, SlotOK, LocksOK, BookingOK, HeldOK, Housed, MeterOK, Rows, SlotsInOrder, Standing,
         Listed, OnMap, SpaceMoves, OpenBookingIsServed, Open, OneAtATime

\* Unless a lone handler is about to put it there, a space is on the map.
LEMMA OnTheMap ==
  ASSUME Busied, SpaceInv, OneAtATime, crashes = 0, NEW r \in Requests, r \in load.crew,
         reqs[r].op # "locate"
  PROVE  space.st = "none" \/ space.located
<1>1. \A q \in Requests : q # r => reqs[q].op # "locate"
  <2>1. load \in Workloads
    BY DEF SpaceInv, TypeOK
  <2> QED
    BY <2>1, Alone, IdleIsNone
<1>2. space.located \in BOOLEAN
  BY DEF SpaceInv, TypeOK
<1> QED
  BY <1>1, <1>2 DEF SpaceInv, Placed

\* A step that does not take a space off the map, by a handler that was not putting it there.
LEMMA StaysPlaced ==
  ASSUME Busied, SpaceInv, NEW r \in Requests, r \in load.crew, reqs[r].op # "locate",
         space.st # "none" /\ space.located => space'.located,
         space.st = "none" => space'.st = "none" \/ space'.located
  PROVE  OneAtATime /\ crashes = 0 => Placed'
  BY OnTheMap DEF Placed

\* What the other half of the handlers sees of such a step: nothing.
StayRests == \A q \in Requests :
               reqs'[q] = reqs[q] \/ (reqs[q].op \notin StayOps /\ reqs'[q].op \notin StayOps)
SpaceKept == SpaceInv' /\ Busied' /\ StayRests

\* A handler's step on the space, its slots and its bookings.
LEMMA SpaceStep ==
  ASSUME Busied, SpaceInv, UNCHANGED <<load, crashes>>,
         NEW r \in Requests, r \in load.crew, reqs[r] \in SpaceRecord \/ reqs[r] = Idle,
         NEW rec \in Record, Goto(r, rec), rec.op \notin StayOps,
         DocOK', SpaceOK', SlotOK', LocksOK', BookingOK', HeldOK',
         SlotsInOrder', Standing', OpenBookingIsServed', SpaceMoves,
         SpaceFact(rec)', OneAtATime => SpaceView(rec)',
         OneAtATime /\ crashes = 0 => Placed'
  PROVE  SpaceKept
<1>1. TypeOK /\ SpaceAsks
  BY DEF SpaceInv
<1>2. MeterOK'
  BY <1>1 DEF TypeOK, MeterOK
<1>3. TypeOK' /\ Housed'
  BY <1>2, TypeParts
<1>4. load \in Workloads
  BY <1>1 DEF TypeOK
<1>5. SpaceAsks'
  BY <1>1, <1>4, SpaceGoto
<1>6. OneAtATime' /\ crashes' = 0 => Placed'
  BY DEF OneAtATime
<1>7. reqs[r].op \notin StayOps
  BY SpaceFields, IdleIsNone
<1>8. Busied' /\ reqs'[r] = rec /\ \A q \in Requests : q # r => reqs'[q] = reqs[q]
  BY BusiedGoto
<1>9. StayRests
  <2>1. reqs'[r].op \notin StayOps
    BY <1>8
  <2>2. ASSUME NEW q \in Requests
        PROVE  reqs'[q] = reqs[q] \/ (reqs[q].op \notin StayOps /\ reqs'[q].op \notin StayOps)
    <3>1. CASE q = r
      BY <1>7, <2>1, <3>1
    <3>2. CASE q # r
      BY <1>8, <3>2
    <3> QED
      BY <3>1, <3>2
  <2> QED
    BY <2>2 DEF StayRests
<1> QED
  BY <1>3, <1>5, <1>6, <1>8, <1>9 DEF SpaceInv, SpaceKept

\* A handler that only reads, or ends, goes on with what it has seen.
LEMMA SpaceReads ==
  ASSUME Busied, SpaceInv, UNCHANGED <<load, before, crashes>>,
         NEW r \in Requests, r \in load.crew, reqs[r].op # "locate",
         reqs[r] \in SpaceRecord \/ reqs[r] = Idle,
         NEW rec \in Record, Goto(r, rec), rec.op \notin StayOps,
         SpaceFact(rec), OneAtATime => SpaceView(rec)
  PROVE  SpaceKept
<1>1. /\ DocOK' /\ SpaceOK' /\ SlotOK' /\ LocksOK' /\ BookingOK' /\ HeldOK'
      /\ SlotsInOrder' /\ Standing' /\ OpenBookingIsServed' /\ SpaceMoves
  BY HeldTables, TypeParts DEF SpaceInv, before
<1>2. SpaceFact(rec)'
  BY <1>1, SpaceFactStays
<1>3. OneAtATime => SpaceView(rec)'
  BY DEF before, SpaceView, Listed, Open, Active, Rows
<1>4. OneAtATime /\ crashes = 0 => Placed'
  BY StaysPlaced DEF before
<1> QED
  BY <1>1, <1>2, <1>3, <1>4, SpaceStep

\* A statement on a table but the space's, after which the handler is done.
LEMMA TableWrites ==
  ASSUME Busied, SpaceInv, UNCHANGED <<load, space, seal, crashes>>,
         NEW r \in Requests, r \in load.crew, reqs[r].op # "locate",
         reqs[r] \in SpaceRecord \/ reqs[r] = Idle,
         NEW rec \in Record, Goto(r, rec), rec.op \in {"idle", "choose"},
         DocOK', SlotOK', LocksOK', BookingOK', HeldOK', SlotsInOrder', OpenBookingIsServed'
  PROVE  SpaceKept
<1>1. SpaceOK' /\ Standing' /\ SpaceMoves
  BY HeldTables, TypeParts DEF SpaceInv
<1>2. SpaceFact(rec)' /\ SpaceView(rec)' /\ rec.op \notin StayOps
  BY DEF SpaceFact, SpaceView, StayOps
<1>3. OneAtATime /\ crashes = 0 => Placed'
  BY StaysPlaced
<1> QED
  BY <1>1, <1>2, <1>3, SpaceStep

\* A statement on the space, which is there then.
LEMMA SpaceWrites ==
  ASSUME Busied, SpaceInv, UNCHANGED <<load, doc, slot, locks, booking, crashes>>,
         NEW r \in Requests, r \in load.crew,
         reqs[r] \in SpaceRecord \/ reqs[r] = Idle,
         NEW rec \in Record, Goto(r, rec), rec.op \in {"idle", "locate"},
         SpaceOK', Standing', space'.st # "none", SpaceMoves,
         OneAtATime => Listed' \/ \A b \in Bookings : ~Open(b),
         OneAtATime /\ crashes = 0 => Placed'
  PROVE  SpaceKept
<1>1. DocOK' /\ SlotOK' /\ LocksOK' /\ BookingOK' /\ HeldOK'
  BY HeldTables, TypeParts DEF SpaceInv
<1>2. SpaceFact(rec)' /\ SpaceView(rec)' /\ rec.op \notin StayOps
  BY DEF SpaceFact, SpaceView, StayOps
<1>3. SlotsInOrder'
  BY DEF SpaceInv, SlotsInOrder
<1>4. OpenBookingIsServed'
  BY DEF OpenBookingIsServed, OneAtATime, Listed, Open
<1> QED
  BY <1>1, <1>2, <1>3, <1>4, SpaceStep

-----------------------------------------------------------------------------
\* What is read, action by action.
LEMMA AtStart ==
  ASSUME NEW r, NEW op, Starts(r, op)
  PROVE  r \in load.crew /\ reqs[r] = Idle /\ reqs[r].op = "idle"
  BY IdleIsNone DEF Starts

\* With SpaceReads: the record is one, and what it claims is so.
LEMMA ReadsAtStart ==
  ASSUME Busied, SpaceInv, UNCHANGED <<load, before, crashes>>,
         NEW r \in Requests, NEW op, Starts(r, op), NEW rec \in SpaceRecord, Goto(r, rec),
         SpaceFact(rec), OneAtATime => SpaceView(rec)
  PROVE  SpaceKept
<1>1. rec \in Record /\ rec.op \notin StayOps
  BY SpaceFields DEF Record
<1> QED
  BY <1>1, AtStart, SpaceReads

\* KycRead, DecideRead.
LEMMA DocReads ==
  ASSUME Busied, SpaceInv, NEW r \in Requests,
         \/ \E t \in DocTypes : KycRead(r, t)
         \/ \E d \in Docs, st \in {"approved", "rejected"} : DecideRead(r, d, st)
  PROVE  SpaceKept
<1>1. CASE \E t \in DocTypes : KycRead(r, t)
  <2>1. PICK t \in DocTypes : KycRead(r, t)
    BY <1>1
  <2>2. PICK rec \in SpaceRecord : rec = [op |-> "kycWrite", type |-> t]
    BY DEF SpaceRecord
  <2>3. SpaceFact(rec) /\ SpaceView(rec)
    BY <2>2 DEF SpaceFact, SpaceView
  <2> QED
    BY <2>1, <2>2, <2>3, ReadsAtStart DEF KycRead, before
<1>2. CASE \E d \in Docs, st \in {"approved", "rejected"} : DecideRead(r, d, st)
  <2>1. PICK d \in Docs, st \in {"approved", "rejected"} : DecideRead(r, d, st)
    BY <1>2
  <2>2. PICK rec \in SpaceRecord : rec = [op |-> "decideWrite", doc |-> d, st |-> st]
    BY DEF SpaceRecord
  <2>3. SpaceFact(rec) /\ SpaceView(rec)
    BY <2>2 DEF SpaceFact, SpaceView
  <2> QED
    BY <2>1, <2>2, <2>3, ReadsAtStart DEF DecideRead, before
<1> QED
  BY <1>1, <1>2

\* CreateRead: the host is verified now, and that is all the record claims.
LEMMA CreateReads ==
  ASSUME Busied, SpaceInv, NEW r \in Requests, NEW n \in 1..MaxCapacity, CreateRead(r, n)
  PROVE  SpaceKept
<1>1. Verified = TRUE
  BY DEF CreateRead, Verified
<1>2. PICK rec \in SpaceRecord : rec = [op |-> "createWrite", n |-> n, verified |-> TRUE]
  BY DEF SpaceRecord
<1>3. SpaceFact(rec) /\ SpaceView(rec)
  BY <1>2 DEF SpaceFact, SpaceView
<1> QED
  BY <1>1, <1>2, <1>3, ReadsAtStart DEF CreateRead, before

\* UploadRead.
LEMMA UploadReads ==
  ASSUME Busied, SpaceInv, NEW r \in Requests, NEW n \in 1..MinPhotos, UploadRead(r, n)
  PROVE  SpaceKept
<1>1. PICK rec \in SpaceRecord : rec = [op |-> "upload", n |-> n]
  BY DEF SpaceRecord
<1>2. SpaceFact(rec) /\ SpaceView(rec)
  BY <1>1 DEF SpaceFact, SpaceView, UploadRead
<1> QED
  BY <1>1, <1>2, ReadsAtStart DEF UploadRead, before

\* A status is read and compared before it is written.
LEMMA StatusReads ==
  ASSUME Busied, SpaceInv, NEW r \in Requests,
         \/ SubmitRead(r) \/ PauseRead(r) \/ UnpauseRead(r) \/ RemoveRead(r)
         \/ \E st \in {"active", "rejected"} : ReviewRead(r, st)
  PROVE  SpaceKept
<1>0. /\ Listed => seal.approved
      /\ OnMap(space.st) => space.mapped
      /\ OneAtATime => \A b \in Bookings : Open(b) => Listed
  BY DEF SpaceInv, Standing, OpenBookingIsServed, Listed
<1>1. ASSUME NEW op, NEW st \in Statuses \ {"draft"}, Starts(r, op), Status(r, st),
             UNCHANGED <<load, before, crashes>>, space.st # "none",
             OnMap(st) => space.mapped, st = "paused" => seal.approved,
             OneAtATime /\ st \notin {"active", "paused"} => \A b \in Bookings : ~Open(b)
      PROVE  SpaceKept
  <2>1. PICK rec \in SpaceRecord : rec = [op |-> "status", st |-> st]
    BY <1>1 DEF SpaceRecord
  <2>2. SpaceFact(rec) /\ (OneAtATime => SpaceView(rec))
    BY <1>1, <2>1 DEF SpaceFact, SpaceView
  <2> QED
    BY <1>1, <2>1, <2>2, ReadsAtStart DEF Status
<1>2. CASE SubmitRead(r)
  BY <1>0, <1>1, <1>2 DEF SubmitRead, before, Statuses, Listed
<1>3. CASE PauseRead(r)
  BY <1>0, <1>1, <1>3 DEF PauseRead, before, Statuses, Listed, OnMap
<1>4. CASE UnpauseRead(r)
  <2>1. PICK rec \in SpaceRecord : rec = [op |-> "resume"]
    BY DEF SpaceRecord
  <2>2. SpaceFact(rec) /\ SpaceView(rec)
    BY <1>0, <1>4, <2>1 DEF SpaceFact, SpaceView, UnpauseRead, Listed, OnMap
  <2> QED
    BY <1>4, <2>1, <2>2, ReadsAtStart DEF UnpauseRead, before
<1>5. CASE RemoveRead(r)
  BY <1>1, <1>5 DEF RemoveRead, before, Statuses, OnMap
<1>6. CASE \E st \in {"active", "rejected"} : ReviewRead(r, st)
  <2>1. PICK st \in {"active", "rejected"} : ReviewRead(r, st)
    BY <1>6
  <2> QED
    BY <1>0, <1>1, <2>1 DEF ReviewRead, before, Statuses, Listed, OnMap
<1> QED
  BY <1>2, <1>3, <1>4, <1>5, <1>6

\* SlotRead, FlipRead, DropRead, BookCheck and AskSlots see what they claim.
LEMMA SlotReads ==
  ASSUME Busied, SpaceInv, NEW r \in Requests,
         \/ \E n \in Numbers : SlotRead(r, n)
         \/ \E s \in Slots, active \in BOOLEAN, n \in Numbers : FlipRead(r, s, active, n)
         \/ \E s \in Slots : DropRead(r, s) \/ BookCheck(r, s)
         \/ AskSlots(r)
  PROVE  SpaceKept
<1>1. CASE \E n \in Numbers : SlotRead(r, n)
  <2>1. PICK n \in Numbers : SlotRead(r, n)
    BY <1>1
  <2>2. PICK rec \in SpaceRecord : rec = [op |-> "slotWrite", n |-> n]
    BY DEF SpaceRecord
  <2>3. SpaceFact(rec) /\ SpaceView(rec)
    BY <2>1, <2>2 DEF SpaceFact, SpaceView, SlotRead
  <2> QED
    BY <2>1, <2>2, <2>3, ReadsAtStart DEF SlotRead, before
<1>2. CASE \E s \in Slots, active \in BOOLEAN, n \in Numbers : FlipRead(r, s, active, n)
  <2>1. PICK s \in Slots, active \in BOOLEAN, n \in Numbers : FlipRead(r, s, active, n)
    BY <1>2
  <2>2. PICK rec \in SpaceRecord : rec = [op |-> "flipWrite", s |-> s, active |-> active, n |-> n]
    BY DEF SpaceRecord
  <2>3. SpaceFact(rec) /\ SpaceView(rec)
    BY <2>1, <2>2 DEF SpaceFact, SpaceView, FlipRead
  <2> QED
    BY <2>1, <2>2, <2>3, ReadsAtStart DEF FlipRead, before
<1>3. CASE \E s \in Slots : DropRead(r, s) \/ BookCheck(r, s)
  <2>1. PICK s \in Slots : DropRead(r, s) \/ BookCheck(r, s)
    BY <1>3
  <2>2. CASE DropRead(r, s)
    <3>1. PICK rec \in SpaceRecord : rec = [op |-> "dropWrite", s |-> s]
      BY DEF SpaceRecord
    <3>2. SpaceFact(rec) /\ SpaceView(rec)
      BY <3>1 DEF SpaceFact, SpaceView
    <3> QED
      BY <2>2, <3>1, <3>2, ReadsAtStart DEF DropRead, before
  <2>3. CASE BookCheck(r, s)
    <3>1. PICK rec \in SpaceRecord : rec = [op |-> "insert", s |-> s]
      BY DEF SpaceRecord
    <3>2. SpaceFact(rec) /\ SpaceView(rec)
      BY <2>3, <3>1 DEF SpaceFact, SpaceView, BookCheck, Listed
    <3> QED
      BY <2>3, <3>1, <3>2, ReadsAtStart DEF BookCheck, before
  <2> QED
    BY <2>1, <2>2, <2>3
<1>4. CASE AskSlots(r)
  <2>1. space.capacity \in 0..MaxCapacity
    BY DEF SpaceInv, TypeOK
  <2>2. CASE Active = {}
    <3>1. PICK rec \in SpaceRecord : rec = [op |-> "heal", n |-> space.capacity]
      BY <2>1 DEF SpaceRecord
    <3>2. SpaceFact(rec) /\ SpaceView(rec)
      BY <1>4, <2>2, <3>1 DEF SpaceFact, SpaceView, AskSlots
    <3> QED
      BY <1>4, <2>2, <3>1, <3>2, ReadsAtStart DEF AskSlots, before
  <2>3. CASE Active # {}
    <3>1. PICK rec \in SpaceRecord : rec = [op |-> "choose", slots |-> Active]
      BY DEF SpaceRecord, Active
    <3>2. SpaceFact(rec) /\ SpaceView(rec)
      BY <3>1 DEF SpaceFact, SpaceView
    <3> QED
      BY <1>4, <2>3, <3>1, <3>2, ReadsAtStart DEF AskSlots, before
  <2> QED
    BY <2>2, <2>3
<1> QED
  BY <1>1, <1>2, <1>3, <1>4

-----------------------------------------------------------------------------
\* What is written, table by table.
LEMMA SpaceAt ==
  ASSUME Busied, NEW r \in Requests, reqs[r].op \in SpaceOps
  PROVE  reqs[r] \in SpaceRecord /\ r \in load.crew
<1>1. reqs[r] \in Record
  BY DEF Busied
<1> QED
  BY <1>1, RecordIsOne, IdleIsNone DEF Busied

\* A handler may be idle.
LEMMA IdleRecord == Idle \in Record /\ Idle.op = "idle"
  BY IdleIsNone DEF Record

\* A handler that was idle and still is has gone nowhere.
LEMMA StaysIdle ==
  ASSUME Busied, NEW r \in Requests, reqs[r] = Idle, UNCHANGED reqs
  PROVE  Goto(r, Idle)
  BY DEF Busied, Goto

\* KycWrite, DecideWrite.
LEMMA DocWrites ==
  ASSUME Busied, SpaceInv, NEW r \in Requests, KycWrite(r) \/ DecideWrite(r)
  PROVE  SpaceKept
<1>0. reqs[r].op \in {"kycWrite", "decideWrite"}
  BY DEF KycWrite, DecideWrite, At
<1>1. reqs[r] \in SpaceRecord /\ r \in load.crew
  BY <1>0, SpaceAt DEF SpaceOps
<1>2. DocOK
  BY DEF SpaceInv, TypeOK, DocOK
<1>3. DocOK'
  <2>1. CASE KycWrite(r)
    <3>1. reqs[r].type \in DocTypes
      BY <1>1, <2>1, SpaceFields DEF KycWrite, At
    <3>2. NextDoc \subseteq Docs
      BY DEF NextDoc, Unused, Docs
    <3> QED
      BY <1>2, <2>1, <3>1, <3>2 DEF KycWrite, DocOK
  <2>2. CASE DecideWrite(r)
    <3>1. reqs[r].doc \in Docs /\ reqs[r].st \in {"approved", "rejected"}
      BY <1>1, <2>2, SpaceFields DEF DecideWrite, At
    <3> QED
      BY <1>2, <2>2, <3>1 DEF DecideWrite, DocOK
  <2> QED
    BY <2>1, <2>2
<1>4. UNCHANGED <<load, space, slot, locks, booking, seal, crashes>> /\ Goto(r, Idle)
  BY DEF KycWrite, DecideWrite, Done
<1>5. SlotOK' /\ LocksOK' /\ BookingOK' /\ HeldOK' /\ SlotsInOrder' /\ OpenBookingIsServed'
  BY <1>4, HeldTables, TypeParts DEF SpaceInv
<1> QED
  BY <1>0, <1>1, <1>3, <1>4, <1>5, IdleRecord, TableWrites

\* LockSlot, HealNoRoom.
LEMMA LockWrites ==
  ASSUME Busied, SpaceInv, NEW r \in Requests, LockSlot(r) \/ HealNoRoom(r)
  PROVE  SpaceKept
<1>0. reqs[r].op \in {"choose", "heal"}
  BY DEF LockSlot, HealNoRoom, At
<1>1. reqs[r] \in SpaceRecord /\ r \in load.crew
  BY <1>0, SpaceAt DEF SpaceOps
<1>2. LocksOK'
  <2>1. LocksOK
    BY DEF SpaceInv, TypeOK, LocksOK
  <2>2. CASE LockSlot(r)
    <3>1. reqs[r].slots \in SUBSET Slots
      BY <1>1, <2>2, SpaceFields DEF LockSlot, At
    <3> QED
      BY <2>1, <2>2, <3>1 DEF LockSlot, LocksOK
  <2>3. CASE HealNoRoom(r)
    BY <2>1, <2>3 DEF HealNoRoom, LocksOK
  <2> QED
    BY <2>2, <2>3
<1>3. UNCHANGED <<load, doc, space, slot, booking, seal, crashes>> /\ Goto(r, Idle)
  BY DEF LockSlot, HealNoRoom, Done
<1>4. DocOK' /\ SlotOK' /\ BookingOK' /\ HeldOK' /\ SlotsInOrder' /\ OpenBookingIsServed'
  BY <1>3, HeldTables, TypeParts DEF SpaceInv
<1> QED
  BY <1>0, <1>1, <1>2, <1>3, <1>4, IdleRecord, TableWrites

\* BookInsert: a booking names a live slot that is not taken for these hours, and of a lone
\* handler the space is still listed.
LEMMA BookWrites ==
  ASSUME Busied, SpaceInv, NEW r \in Requests, BookInsert(r)
  PROVE  SpaceKept
<1>0. reqs[r].op = "insert"
  BY DEF BookInsert, At
<1>1. reqs[r] \in SpaceRecord /\ r \in load.crew /\ reqs[r].s \in Slots
  BY <1>0, SpaceAt, SpaceFields DEF SpaceOps
<1>2. BookingOK /\ HeldOK /\ OpenBookingIsServed
  BY DEF SpaceInv, TypeOK, Housed, BookingOK, HeldOK
<1>3. OneAtATime => Listed
  BY <1>0 DEF SpaceInv, SpaceAsks, SpaceView
<1>4. BookingOK' /\ HeldOK' /\ OpenBookingIsServed'
  <2>1. CASE UNCHANGED booking
    BY <1>2, <2>1, HeldTables DEF BookInsert
  <2>2. CASE ~UNCHANGED booking
    <3>1. PICK b \in NextBooking :
            /\ Rows(reqs[r].s)
            /\ booking' = [booking EXCEPT ![b] = [st |-> "open", slot |-> reqs[r].s, due |-> TRUE]]
      BY <2>2 DEF BookInsert
    <3>2. b \in Bookings
      BY DEF NextBooking, Unused, Bookings
    <3>3. UNCHANGED <<load, space, slot>>
      BY DEF BookInsert
    <3>4. BookingOK'
      BY <1>1, <1>2, <3>1, <3>2 DEF BookingOK
    <3>5. HeldOK'
      BY <1>1, <1>2, <3>1, <3>2, <3>3 DEF HeldOK, Housed, BookingOK, Rows
    <3>6. OpenBookingIsServed'
      BY <1>3, <3>3 DEF OpenBookingIsServed, Listed, OneAtATime
    <3> QED
      BY <3>4, <3>5, <3>6
  <2> QED
    BY <2>1, <2>2
<1>5. UNCHANGED <<load, doc, space, slot, locks, seal, crashes>> /\ Goto(r, Idle)
  BY DEF BookInsert, Done
<1>6. DocOK' /\ SlotOK' /\ LocksOK' /\ SlotsInOrder'
  BY <1>5, HeldTables, TypeParts DEF SpaceInv
<1> QED
  BY <1>0, <1>1, <1>4, <1>5, <1>6, IdleRecord, TableWrites

\* Steps that no handler takes: a lock expires, the hours of a booking go by, it is over.
LEMMA NobodySteps ==
  ASSUME Busied, SpaceInv, UNCHANGED <<load, doc, space, slot, seal, reqs, crashes>>,
         LocksOK', BookingOK', HeldOK', \A b \in Bookings : Open(b)' => Open(b)
  PROVE  SpaceInv'
<1>1. DocOK' /\ SpaceOK' /\ SlotOK' /\ MeterOK' /\ SlotsInOrder' /\ Standing'
  BY HeldTables, TypeParts DEF SpaceInv
<1>2. OpenBookingIsServed'
  BY DEF SpaceInv, OpenBookingIsServed, OneAtATime
<1>3. SpaceAsks'
  <2>1. ASSUME NEW q PROVE SpaceFact(q) => SpaceFact(q)'
    BY DEF SpaceFact
  <2>2. ASSUME NEW q PROVE SpaceView(q) => SpaceView(q)'
    BY DEF SpaceView, Listed, Active, Rows
  <2>3. OneAtATime' <=> OneAtATime
    BY DEF OneAtATime
  <2>4. SpaceAsks
    BY DEF SpaceInv
  <2> QED
    BY <2>1, <2>2, <2>3, <2>4 DEF SpaceAsks
<1>4. OneAtATime' /\ crashes' = 0 => Placed'
  BY DEF SpaceInv, OneAtATime, Placed
<1> QED
  BY <1>1, <1>2, <1>3, <1>4, TypeParts DEF SpaceInv

\* A lock expires, the hours of a booking pass, or it is over.
LEMMA TimePasses ==
  ASSUME Busied, SpaceInv,
         \/ \E s \in Slots : LockExpires(s)
         \/ \E b \in Bookings : HoursPass(b) \/ BookingOver(b)
  PROVE  SpaceInv' /\ UNCHANGED reqs
<1>0. LocksOK /\ BookingOK /\ HeldOK
  BY TypeParts DEF SpaceInv
<1>1. CASE \E s \in Slots : LockExpires(s)
  <2>1. UNCHANGED <<load, doc, space, slot, booking, seal, reqs, crashes>> /\ LocksOK'
    BY <1>0, <1>1 DEF LockExpires, LocksOK
  <2>2. BookingOK' /\ HeldOK' /\ \A b \in Bookings : Open(b)' => Open(b)
    BY <1>0, <2>1, HeldTables DEF Open
  <2> QED
    BY <2>1, <2>2, NobodySteps
<1>2. CASE \E b \in Bookings : HoursPass(b) \/ BookingOver(b)
  <2>1. PICK b \in Bookings : HoursPass(b) \/ BookingOver(b)
    BY <1>2
  <2>2. UNCHANGED <<load, doc, space, slot, locks, seal, reqs, crashes>>
    BY <2>1 DEF HoursPass, BookingOver
  <2>3. /\ BookingOK' /\ \A c \in Bookings : Open(c)' => Open(c)
        /\ \A c \in Bookings : booking'[c].slot = booking[c].slot
                               /\ (booking'[c].st # "none" => booking[c].st # "none")
    <3>1. booking[b].st = "open"
      BY <2>1 DEF HoursPass, BookingOver, Open
    <3>2. PICK row : /\ booking' = [booking EXCEPT ![b] = row]
                     /\ row \in [st : {"open", "over"}, slot : {0} \cup Slots, due : BOOLEAN]
                     /\ row.slot = booking[b].slot
      <4>1. /\ booking \in [Bookings -> [st : {"none", "open", "over"}, slot : {0} \cup Slots, due : BOOLEAN]]
            /\ booking[b] \in [st : {"none", "open", "over"}, slot : {0} \cup Slots, due : BOOLEAN]
        BY <1>0 DEF BookingOK
      <4>2. CASE HoursPass(b)
        <5>1. booking' = [booking EXCEPT ![b] = [booking[b] EXCEPT !.due = FALSE]]
          BY <4>1, <4>2 DEF HoursPass
        <5>2. PICK row : row = [booking[b] EXCEPT !.due = FALSE]
          OBVIOUS
        <5>3. row \in [st : {"open", "over"}, slot : {0} \cup Slots, due : BOOLEAN]
              /\ row.slot = booking[b].slot
          BY <3>1, <4>1, <5>2
        <5> QED
          BY <5>1, <5>2, <5>3
      <4>3. CASE BookingOver(b)
        <5>1. booking' = [booking EXCEPT ![b] = [booking[b] EXCEPT !.st = "over", !.due = FALSE]]
          BY <4>1, <4>3 DEF BookingOver
        <5>2. PICK row : row = [booking[b] EXCEPT !.st = "over", !.due = FALSE]
          OBVIOUS
        <5>3. row \in [st : {"open", "over"}, slot : {0} \cup Slots, due : BOOLEAN]
              /\ row.slot = booking[b].slot
          BY <4>1, <5>2
        <5> QED
          BY <5>1, <5>2, <5>3
      <4> QED
        BY <2>1, <4>2, <4>3
    <3> QED
      BY <1>0, <3>1, <3>2 DEF BookingOK, Open
  <2>4. HeldOK' /\ LocksOK'
    BY <1>0, <2>2, <2>3 DEF HeldOK, Housed, LocksOK, Rows
  <2> QED
    BY <2>2, <2>3, <2>4, NobodySteps
<1> QED
  BY <1>1, <1>2

-----------------------------------------------------------------------------
\* What is written to the space.
LEMMA SpaceRow ==
  ASSUME SpaceInv
  PROVE  /\ space \in [st : Statuses \cup {"none"}, capacity : 0..MaxCapacity, photos : 0..MinPhotos,
                       priced : BOOLEAN, located : BOOLEAN, mapped : BOOLEAN]
         /\ seal \in [verified : BOOLEAN, approved : BOOLEAN, wizard : BOOLEAN]
         /\ Standing /\ OpenBookingIsServed
         /\ MinPhotos \in Nat /\ MaxCapacity \in Nat
  BY SpacesAssumption DEF SpaceInv, TypeOK

\* A statement that leaves the status and the place of a space as they are.
LEMMA SpaceEdits ==
  ASSUME Busied, SpaceInv, UNCHANGED <<load, doc, slot, locks, booking, seal, crashes>>,
         NEW r \in Requests, r \in load.crew, reqs[r].op # "locate",
         reqs[r] \in SpaceRecord \/ reqs[r] = Idle,
         NEW rec \in Record, Goto(r, rec), rec.op \in {"idle", "locate"},
         NEW capacity \in 0..MaxCapacity, NEW photos \in 0..MinPhotos, NEW priced \in BOOLEAN,
         space.st # "none",
         space' = [space EXCEPT !.capacity = capacity, !.photos = photos, !.priced = priced]
  PROVE  SpaceKept
<1>1. /\ space'.st = space.st /\ space'.located = space.located /\ space'.mapped = space.mapped
      /\ SpaceOK'
  BY SpaceRow DEF SpaceOK
<1>2. Standing' /\ SpaceMoves
  BY <1>1, SpaceRow DEF Standing, Listed, OnMap, SpaceMoves
<1>3. OneAtATime => Listed' \/ \A b \in Bookings : ~Open(b)
  BY <1>1, SpaceRow DEF OpenBookingIsServed, Listed
<1>4. OneAtATime /\ crashes = 0 => Placed'
  BY <1>1, StaysPlaced
<1> QED
  BY <1>1, <1>2, <1>3, <1>4, SpaceWrites

\* Photos and prices.
LEMMA PlainEdits ==
  ASSUME Busied, SpaceInv, NEW r \in Requests,
         \/ AddPhoto(r) \/ RemovePhoto(r) \/ SetPricing(r)
         \/ \E n \in 1..MinPhotos : DeleteImages(r, n)
  PROVE  SpaceKept
<1>0. /\ r \in load.crew /\ reqs[r] = Idle /\ reqs[r].op # "locate" /\ Goto(r, Idle)
      /\ UNCHANGED <<load, doc, slot, locks, booking, seal, crashes>>
  BY AtStart, StaysIdle DEF AddPhoto, RemovePhoto, SetPricing, DeleteImages
<1>1. /\ space.capacity \in 0..MaxCapacity /\ space.photos \in 0..MinPhotos /\ space.priced \in BOOLEAN
      /\ MinPhotos \in Nat
  BY SpaceRow
<1>2. space.st # "none"
  BY SpaceRow DEF AddPhoto, RemovePhoto, SetPricing, DeleteImages, Standing
<1>3. PICK photos \in 0..MinPhotos, priced \in BOOLEAN :
        space' = [space EXCEPT !.capacity = space.capacity, !.photos = photos, !.priced = priced]
  <2>1. CASE AddPhoto(r)
    <3>1. space' = [space EXCEPT !.capacity = space.capacity, !.photos = space.photos + 1,
                                 !.priced = space.priced]
      BY <2>1, SpaceRow DEF AddPhoto
    <3>2. space.photos + 1 \in 0..MinPhotos
      BY <1>1, <2>1 DEF AddPhoto
    <3> QED
      BY <1>1, <3>1, <3>2
  <2>2. CASE RemovePhoto(r)
    <3>1. space' = [space EXCEPT !.capacity = space.capacity, !.photos = space.photos - 1,
                                 !.priced = space.priced]
      BY <2>2, SpaceRow DEF RemovePhoto
    <3>2. space.photos - 1 \in 0..MinPhotos
      BY <1>1, <2>2 DEF RemovePhoto
    <3> QED
      BY <1>1, <3>1, <3>2
  <2>3. CASE SetPricing(r)
    <3>1. space' = [space EXCEPT !.capacity = space.capacity, !.photos = space.photos, !.priced = TRUE]
      BY <2>3, SpaceRow DEF SetPricing
    <3> QED
      BY <1>1, <3>1
  <2>4. CASE \E n \in 1..MinPhotos : DeleteImages(r, n)
    <3>1. PICK n \in 1..MinPhotos : DeleteImages(r, n)
      BY <2>4
    <3>2. space' = [space EXCEPT !.capacity = space.capacity, !.photos = space.photos - n,
                                 !.priced = space.priced]
      BY <3>1, SpaceRow DEF DeleteImages
    <3>3. space.photos - n \in 0..MinPhotos
      BY <1>1, <3>1 DEF DeleteImages
    <3> QED
      BY <1>1, <3>2, <3>3
  <2> QED
    BY <2>1, <2>2, <2>3, <2>4
<1> QED
  BY <1>0, <1>1, <1>2, <1>3, IdleRecord, SpaceEdits

\* UploadWrite.
LEMMA UploadWrites ==
  ASSUME Busied, SpaceInv, NEW r \in Requests, UploadWrite(r)
  PROVE  SpaceKept
<1>0. reqs[r].op = "upload"
  BY DEF UploadWrite, At
<1>1. reqs[r] \in SpaceRecord /\ r \in load.crew /\ reqs[r].n \in 1..MinPhotos
  BY <1>0, SpaceAt, SpaceFields DEF SpaceOps
<1>2. /\ space.capacity \in 0..MaxCapacity /\ space.photos \in 0..MinPhotos /\ space.priced \in BOOLEAN
      /\ MinPhotos \in Nat
  BY SpaceRow
<1>3. space.st # "none"
  BY <1>0 DEF SpaceInv, SpaceAsks, SpaceFact
<1>4. PICK photos \in 0..MinPhotos :
        space' = [space EXCEPT !.capacity = space.capacity, !.photos = photos, !.priced = space.priced]
  <2>1. CASE UNCHANGED space
    <3>1. space = [space EXCEPT !.capacity = space.capacity, !.photos = space.photos,
                                !.priced = space.priced]
      BY SpaceRow
    <3> QED
      BY <1>2, <2>1, <3>1
  <2>2. CASE ~UNCHANGED space
    <3>1. space' = [space EXCEPT !.capacity = space.capacity, !.photos = space.photos + reqs[r].n,
                                 !.priced = space.priced]
      BY <2>2, SpaceRow DEF UploadWrite
    <3>2. space.photos + reqs[r].n \in 0..MinPhotos
      BY <1>1, <1>2, <2>2 DEF UploadWrite
    <3> QED
      BY <3>1, <3>2
  <2> QED
    BY <2>1, <2>2
<1>5. UNCHANGED <<load, doc, slot, locks, booking, seal, crashes>> /\ Goto(r, Idle)
  BY DEF UploadWrite, Done
<1> QED
  BY <1>0, <1>1, <1>2, <1>3, <1>4, <1>5, IdleRecord, SpaceEdits

\* UpdateSpace.
LEMMA CapacityEdits ==
  ASSUME Busied, SpaceInv, NEW r \in Requests, NEW n \in 1..MaxCapacity, NEW moves \in BOOLEAN,
         UpdateSpace(r, n, moves)
  PROVE  SpaceKept
<1>1. r \in load.crew /\ reqs[r] = Idle /\ reqs[r].op # "locate" /\ space.st # "none"
  BY AtStart DEF UpdateSpace
<1>2. PICK rec \in Record : Goto(r, rec) /\ rec.op \in {"idle", "locate"}
  <2>1. [op |-> "locate"] \in Record
    BY DEF Record, SpaceRecord
  <2> QED
    BY <2>1, IdleRecord DEF UpdateSpace, Done
<1>3. /\ n \in 0..MaxCapacity /\ space.photos \in 0..MinPhotos /\ space.priced \in BOOLEAN
      /\ space' = [space EXCEPT !.capacity = n, !.photos = space.photos, !.priced = space.priced]
  <2>1. space' = [space EXCEPT !.capacity = n]
    BY DEF UpdateSpace
  <2>2. [space EXCEPT !.capacity = n] =
          [space EXCEPT !.capacity = n, !.photos = space.photos, !.priced = space.priced]
    BY SpaceRow
  <2> QED
    BY <2>1, <2>2, SpaceRow
<1>4. UNCHANGED <<load, doc, slot, locks, booking, seal, crashes>>
  BY DEF UpdateSpace
<1> QED
  BY <1>1, <1>2, <1>3, <1>4, SpaceEdits

\* SetLocation.
LEMMA PlaceWrites ==
  ASSUME Busied, SpaceInv, NEW r \in Requests, SetLocation(r)
  PROVE  SpaceKept
<1>0. reqs[r].op = "locate"
  BY DEF SetLocation, At
<1>1. r \in load.crew /\ reqs[r] \in SpaceRecord /\ space.st # "none"
  BY <1>0, SpaceAt DEF SpaceOps, SpaceInv, SpaceAsks, SpaceFact
<1>2. /\ space'.st = space.st /\ space'.located /\ space'.mapped
      /\ SpaceOK' /\ UNCHANGED <<load, doc, slot, locks, booking, seal, crashes>>
      /\ Goto(r, Idle)
  BY SpaceRow DEF SetLocation, SpaceOK, Done
<1>3. Standing' /\ SpaceMoves
  BY <1>1, <1>2, SpaceRow DEF Standing, Listed, OnMap, SpaceMoves
<1>4. OneAtATime => Listed' \/ \A b \in Bookings : ~Open(b)
  BY <1>2, SpaceRow DEF OpenBookingIsServed, Listed
<1>5. Placed'
  BY <1>2 DEF Placed
<1> QED
  BY <1>1, <1>2, <1>3, <1>4, <1>5, IdleRecord, SpaceWrites

\* CreateParkingSpace.
LEMMA WizardWrites ==
  ASSUME Busied, SpaceInv, NEW r \in Requests, NEW n \in 1..MaxCapacity, NEW photos \in 0..MinPhotos,
         CreateParkingSpace(r, n, photos)
  PROVE  SpaceKept
<1>1. /\ r \in load.crew /\ reqs[r] = Idle /\ reqs[r].op # "locate" /\ Goto(r, Idle)
      /\ space.st = "none"
      /\ UNCHANGED <<load, doc, slot, locks, booking, crashes>>
  BY AtStart, StaysIdle DEF CreateParkingSpace
<1>2. space' = [st |-> "draft", capacity |-> n, photos |-> photos, priced |-> FALSE,
                located |-> TRUE, mapped |-> FALSE]
  BY DEF CreateParkingSpace, NoSpace
<1>3. /\ seal'.wizard /\ seal'.approved = seal.approved
      /\ seal' \in [verified : BOOLEAN, approved : BOOLEAN, wizard : BOOLEAN]
  <2>1. Verified \in BOOLEAN
    BY DEF Verified
  <2> QED
    BY <2>1, SpaceRow DEF CreateParkingSpace
<1>4. SpaceOK'
  BY <1>2, <1>3, SpaceRow DEF SpaceOK, Statuses
<1>6. Standing' /\ SpaceMoves
  BY <1>1, <1>2, <1>3, SpaceRow DEF Standing, Listed, OnMap, SpaceMoves
<1>7. OneAtATime => Listed' \/ \A b \in Bookings : ~Open(b)
  BY <1>1, SpaceRow DEF OpenBookingIsServed, Listed
<1>8. Placed'
  BY <1>2 DEF Placed
<1> QED
  BY <1>1, <1>2, <1>4, <1>6, <1>7, <1>8, IdleRecord, SpaceWrites

\* StatusWrite, UnpauseWrite: what the record says of the map and of the approval is a fact, so
\* it holds of the space the status is written to.
LEMMA StatusWrites ==
  ASSUME Busied, SpaceInv, NEW r \in Requests, StatusWrite(r) \/ UnpauseWrite(r)
  PROVE  SpaceKept
<1>0. reqs[r].op \in {"status", "resume"}
  BY DEF StatusWrite, UnpauseWrite, At
<1>1. reqs[r] \in SpaceRecord /\ r \in load.crew
  BY <1>0, SpaceAt DEF SpaceOps
<1>2. SpaceFact(reqs[r]) /\ (OneAtATime => SpaceView(reqs[r]))
  BY DEF SpaceInv, SpaceAsks
<1>3. space.st # "none" /\ UNCHANGED <<load, doc, slot, locks, booking, crashes>> /\ Goto(r, Idle)
  BY <1>0, <1>2 DEF SpaceFact, StatusWrite, UnpauseWrite, Done
<1>4. PICK st \in Statuses \ {"draft"}, approved \in BOOLEAN :
        /\ space' = [space EXCEPT !.st = st] /\ seal' = [seal EXCEPT !.approved = approved]
        /\ OnMap(st) => space.mapped
        /\ st \in {"active", "paused"} => approved
        /\ seal.approved => approved
        /\ OneAtATime /\ st \notin {"active", "paused"} => \A b \in Bookings : ~Open(b)
  <2>1. CASE StatusWrite(r)
    <3>1. PICK st \in Statuses \ {"draft"} : st = reqs[r].st /\ reqs[r].op = "status"
      BY <1>1, <2>1, SpaceFields DEF StatusWrite, At
    <3>2. PICK approved \in BOOLEAN : approved = (seal.approved \/ st = "active")
      OBVIOUS
    <3>3. space' = [space EXCEPT !.st = st] /\ seal' = [seal EXCEPT !.approved = approved]
      BY <2>1, <3>1, <3>2, SpaceRow DEF StatusWrite
    <3>4. /\ OnMap(st) => space.mapped
          /\ st = "paused" => seal.approved
          /\ OneAtATime /\ st \notin {"active", "paused"} => \A b \in Bookings : ~Open(b)
      BY <1>2, <3>1 DEF SpaceFact, SpaceView
    <3>5. st \in {"active", "paused"} => approved
      BY <3>2, <3>4
    <3> QED
      BY <3>2, <3>3, <3>4, <3>5
  <2>2. CASE UnpauseWrite(r)
    <3>1. space' = [space EXCEPT !.st = "active"] /\ UNCHANGED seal
          /\ space.mapped /\ seal.approved
      BY <1>2, <2>2 DEF UnpauseWrite, At, SpaceFact
    <3>2. seal = [seal EXCEPT !.approved = TRUE]
      BY <3>1, SpaceRow
    <3> QED
      BY <3>1, <3>2 DEF Statuses
  <2> QED
    BY <2>1, <2>2
<1>5. /\ space'.st = st /\ space'.located = space.located /\ space'.mapped = space.mapped
      /\ seal'.approved = approved /\ seal'.verified = seal.verified /\ seal'.wizard = seal.wizard
      /\ st # "none"
  BY <1>4, SpaceRow DEF Statuses
<1>6. SpaceOK'
  BY <1>4, SpaceRow DEF SpaceOK
<1>7. Standing' /\ SpaceMoves
  BY <1>3, <1>4, <1>5, SpaceRow DEF Standing, Listed, SpaceMoves, OnMap
<1>8. OneAtATime => Listed' \/ \A b \in Bookings : ~Open(b)
  BY <1>4, <1>5 DEF Listed
<1>9. OneAtATime /\ crashes = 0 => Placed'
  BY <1>0, <1>1, <1>3, <1>5, StaysPlaced
<1> QED
  BY <1>1, <1>3, <1>5, <1>6, <1>7, <1>8, <1>9, IdleRecord, SpaceWrites

-----------------------------------------------------------------------------
\* What is written to the slots.
LEMMA SlotRows ==
  ASSUME SpaceInv
  PROVE  /\ SlotOK /\ HeldOK /\ BookingOK /\ SlotsInOrder
         /\ NSlots \in Nat /\ Numbers \subseteq Nat /\ 1..MaxCapacity \subseteq Numbers
  BY TypeParts, SpacesAssumption DEF SpaceInv

\* Sets of slots have their cardinality.
LEMMA ActiveIsFinite ==
  ASSUME NSlots \in Nat
  PROVE  /\ \A T \in SUBSET Slots : IsFiniteSet(T) /\ Cardinality(T) \in Nat
         /\ Active \in SUBSET Slots
<1>1. IsFiniteSet(Slots)
  BY FS_Interval DEF Slots
<1> QED
  BY <1>1, FS_Subset, FS_CardinalityType DEF Active

\* Rows stay where bookings need them.
LEMMA HeldStays ==
  ASSUME SpaceInv, UNCHANGED booking, \A s \in Slots : Rows(s) => Rows(s)'
  PROVE  HeldOK'
  BY SlotRows DEF HeldOK, Housed

\* New rows with numbers that are not taken.
LEMMA SlotsAdded ==
  ASSUME SpaceInv, UNCHANGED booking, space'.st # "none",
         NEW N \in SUBSET Numbers, IsFiniteSet(N), N \cap Taken = {}, slot' = WithSlots(N)
  PROVE  /\ SlotOK' /\ HeldOK' /\ SlotsInOrder'
         /\ \E new \in SUBSET Slots : /\ Cardinality(new) <= Cardinality(N)
                                      /\ Active' = Active \cup new
<1>1. PICK new \in SUBSET Slots :
           /\ slot' = [s \in Slots |-> slot'[s]]
           /\ \A s \in new : slot[s].row = "none" /\ \E n \in N : slot'[s] = NewSlot(n)
           /\ \A s \in Slots \ new : slot'[s] = slot[s]
           /\ \A s, t \in new : slot'[s] = slot'[t] => s = t
           /\ \A s \in Slots, t \in new : s < t => s \in new \/ slot[s].row # "none"
           /\ IsFiniteSet(new) /\ Cardinality(new) <= Cardinality(N)
  <2>1. \A s, t \in Slots : s < t /\ slot[t].row # "none" => slot[s].row # "none"
    BY SlotRows DEF SlotsInOrder
  <2>2. N \in SUBSET Nat /\ NSlots \in Nat
    BY SlotRows
  <2> QED
    BY <2>1, <2>2, WithSlotsAdds
<1>2. \A s \in new : /\ slot'[s].row = "live" /\ slot'[s].active /\ slot'[s].number \in N
                     /\ slot'[s] = NewSlot(slot'[s].number)
                     /\ slot'[s] \in [row : {"none", "live", "deleted"}, number : {0} \cup Numbers,
                                      active : BOOLEAN]
  <2> SUFFICES ASSUME NEW s \in new
               PROVE  /\ slot'[s].row = "live" /\ slot'[s].active /\ slot'[s].number \in N
                      /\ slot'[s] = NewSlot(slot'[s].number)
                      /\ slot'[s] \in [row : {"none", "live", "deleted"}, number : {0} \cup Numbers,
                                       active : BOOLEAN]
    OBVIOUS
  <2>1. PICK n \in N : slot'[s] = NewSlot(n)
    BY <1>1
  <2> QED
    BY <2>1 DEF NewSlot
<1>3. \A s \in Slots : Rows(s)' <=> s \in new \/ Rows(s)
  BY <1>1, <1>2 DEF Rows
<1>4. SlotOK'
  <2>1. slot' \in [Slots -> [row : {"none", "live", "deleted"}, number : {0} \cup Numbers,
                             active : BOOLEAN]]
    BY <1>1, <1>2, SlotRows DEF SlotOK
  <2>2. ASSUME NEW s \in Slots, NEW t \in Slots, Rows(s)', Rows(t)',
               slot'[s].number = slot'[t].number
        PROVE  s = t
    <3>1. ASSUME NEW x \in Slots, NEW y \in Slots, x \in new, y \notin new, Rows(y)
          PROVE  slot'[x].number # slot'[y].number
      BY <1>1, <1>2, <3>1 DEF Taken
    <3>2. CASE s \in new /\ t \in new
      BY <1>1, <1>2, <2>2, <3>2
    <3>3. CASE s \notin new /\ t \notin new
      BY <1>1, <1>3, <2>2, <3>3, SlotRows DEF SlotOK
    <3> QED
      BY <1>3, <2>2, <3>1, <3>2, <3>3
  <2> QED
    BY <2>1, <2>2 DEF SlotOK
<1>5. HeldOK'
  BY <1>3, HeldStays
<1>6. SlotsInOrder'
  <2>1. ASSUME NEW s \in Slots, NEW t \in Slots, s < t, slot'[t].row # "none"
        PROVE  slot'[s].row # "none"
    BY <1>1, <1>2, <2>1, SlotRows DEF SlotsInOrder
  <2> QED
    BY <2>1 DEF SlotsInOrder
<1>7. Active' = Active \cup new
  BY <1>1, <1>2, <1>3 DEF Active
<1> QED
  BY <1>1, <1>4, <1>5, <1>6, <1>7

\* CreateWrite.
LEMMA CreateWrites ==
  ASSUME Busied, SpaceInv, NEW r \in Requests, CreateWrite(r)
  PROVE  SpaceKept
<1>0. reqs[r].op = "createWrite"
  BY DEF CreateWrite, At
<1>1. /\ reqs[r] \in SpaceRecord /\ r \in load.crew /\ reqs[r].n \in 1..MaxCapacity
      /\ reqs[r].verified = TRUE
  BY <1>0, SpaceAt, SpaceFields DEF SpaceOps, SpaceInv, SpaceAsks, SpaceFact
<1>2. CASE space.st # "none"
  <2>1. UNCHANGED <<load, before, crashes>> /\ Goto(r, Idle)
    BY <1>2 DEF CreateWrite, before, Done
  <2>2. SpaceFact(Idle) /\ SpaceView(Idle) /\ Idle.op \notin StayOps
    BY IdleIsNone, OthersClaimNothing
  <2> QED
    BY <1>0, <1>1, <2>1, <2>2, IdleRecord, SpaceReads
<1>3. CASE space.st = "none"
  <2>1. PICK rec \in Record : rec = [op |-> "locate"] /\ rec.op \notin StayOps
    <3>1. PICK rec \in SpaceRecord : rec = [op |-> "locate"]
      BY DEF SpaceRecord
    <3> QED
      BY <3>1, SpaceFields DEF Record
  <2>2. Goto(r, rec) /\ UNCHANGED <<load, doc, locks, booking, crashes>>
    BY <1>3, <2>1 DEF CreateWrite
  <2>3. space' = [st |-> "draft", capacity |-> reqs[r].n, photos |-> 0, priced |-> FALSE,
                  located |-> FALSE, mapped |-> TRUE]
    BY <1>3 DEF CreateWrite, NoSpace
  <2>4. seal' = [seal EXCEPT !.verified = TRUE]
    BY <1>1, <1>3 DEF CreateWrite
  <2>5. SpaceOK' /\ Standing' /\ SpaceMoves
    <3>1. SpaceOK'
      <4>1. space' \in [st : Statuses \cup {"none"}, capacity : 0..MaxCapacity, photos : 0..MinPhotos,
                        priced : BOOLEAN, located : BOOLEAN, mapped : BOOLEAN]
        <5>1. "draft" \in Statuses /\ reqs[r].n \in 0..MaxCapacity /\ 0 \in 0..MinPhotos
          BY <1>1, SpaceRow DEF Statuses
        <5> QED
          BY <2>3, <5>1
      <4>2. seal' \in [verified : BOOLEAN, approved : BOOLEAN, wizard : BOOLEAN]
        BY <2>4, SpaceRow
      <4> QED
        BY <4>1, <4>2 DEF SpaceOK
    <3> QED
      BY <1>3, <2>3, <2>4, <3>1, SpaceRow DEF Standing, Listed, OnMap, SpaceMoves
  <2>6. SlotOK' /\ HeldOK' /\ SlotsInOrder'
    <3>1. PICK N \in SUBSET Numbers : N = 1..reqs[r].n
      BY <1>1, SlotRows, SpaceRow
    <3>2. IsFiniteSet(N)
      BY <1>1, <3>1, FS_Interval
    <3>3. Taken = {}
      BY <1>3, SlotRows DEF Taken, Rows, SlotsInOrder
    <3>4. slot' = WithSlots(N) /\ space'.st # "none"
      BY <1>3, <2>3, <3>1 DEF CreateWrite
    <3> QED
      BY <2>2, <3>2, <3>3, <3>4, SlotsAdded
  <2>7. DocOK' /\ LocksOK' /\ BookingOK'
    BY <2>2, HeldTables, TypeParts DEF SpaceInv
  <2>8. OpenBookingIsServed'
    BY <1>3, <2>2, SpaceRow DEF OpenBookingIsServed, Open, OneAtATime
  <2>9. SpaceFact(rec)' /\ SpaceView(rec)'
    BY <2>1, <2>3 DEF SpaceFact, SpaceView
  <2>10. Placed'
    <3>1. reqs'[r] = rec
      BY <1>1, <2>2, BusiedGoto
    <3> QED
      BY <2>1, <2>3, <3>1 DEF Placed
  <2> QED
    BY <1>1, <2>1, <2>2, <2>5, <2>6, <2>7, <2>8, <2>9, <2>10, SpaceStep
<1> QED
  BY <1>2, <1>3

\* A statement on the slots alone.
LEMMA SlotTable ==
  ASSUME Busied, SpaceInv, UNCHANGED <<load, doc, space, locks, booking, seal, crashes>>,
         NEW r \in Requests, reqs[r].op \in SpaceOps \ {"locate"},
         NEW rec \in Record, Goto(r, rec), rec.op \in {"idle", "choose"},
         SlotOK', HeldOK', SlotsInOrder'
  PROVE  SpaceKept
<1>1. DocOK' /\ LocksOK' /\ BookingOK' /\ OpenBookingIsServed'
  BY HeldTables, TypeParts DEF SpaceInv
<1> QED
  BY <1>1, SpaceAt, TableWrites

\* A statement that adds no row and gives none a number that another has.
LEMMA RowWrites ==
  ASSUME Busied, SpaceInv, UNCHANGED <<load, doc, space, locks, booking, seal, crashes>>,
         NEW r \in Requests, reqs[r].op \in SpaceOps \ {"locate"}, Goto(r, Idle),
         NEW s \in Slots, Rows(s),
         NEW row \in [row : {"live", "deleted"}, number : {0} \cup Numbers, active : BOOLEAN],
         slot' = [slot EXCEPT ![s] = row],
         \A t \in Slots \ {s} : Rows(t) /\ row.row = "live" => slot[t].number # row.number,
         row.row = "deleted" => \A b \in Bookings : booking[b].slot # s
  PROVE  SpaceKept
<1>1. slot \in [Slots -> [row : {"none", "live", "deleted"}, number : {0} \cup Numbers, active : BOOLEAN]]
  BY SlotRows DEF SlotOK
<1>2. slot'[s] = row /\ \A t \in Slots \ {s} : slot'[t] = slot[t]
  BY <1>1
<1>3. row \in [row : {"none", "live", "deleted"}, number : {0} \cup Numbers, active : BOOLEAN]
      /\ row.row \in {"live", "deleted"}
  OBVIOUS
<1>4. SlotOK'
  <2>1. slot' \in [Slots -> [row : {"none", "live", "deleted"}, number : {0} \cup Numbers, active : BOOLEAN]]
    BY <1>1, <1>3
  <2>2. ASSUME NEW t \in Slots, NEW u \in Slots, Rows(t)', Rows(u)',
               slot'[t].number = slot'[u].number
        PROVE  t = u
    <3>1. CASE t # s /\ u # s
      BY <1>2, <2>2, <3>1, SlotRows DEF SlotOK, Rows
    <3>2. CASE t = s \/ u = s
      BY <1>2, <2>2, <3>2 DEF Rows
    <3> QED
      BY <3>1, <3>2
  <2> QED
    BY <2>1, <2>2 DEF SlotOK
<1>5. HeldOK'
  BY <1>2, <1>3, SlotRows DEF HeldOK, Housed, Rows
<1>6. SlotsInOrder'
  <2>1. space.st # "none"
    BY SlotRows DEF SlotsInOrder, Rows
  <2>2. \A t \in Slots : slot'[t].row = "none" <=> slot[t].row = "none"
    BY <1>2, <1>3 DEF Rows
  <2> QED
    BY <2>1, <2>2, SlotRows DEF SlotsInOrder
<1> QED
  BY <1>4, <1>5, <1>6, IdleRecord, SlotTable

\* A statement that finds nothing to write.
LEMMA NoRowWritten ==
  ASSUME Busied, SpaceInv, UNCHANGED <<load, before, crashes>>,
         NEW r \in Requests, reqs[r].op \in SpaceOps \ {"locate"}, Goto(r, Idle)
  PROVE  SpaceKept
<1>1. SlotOK' /\ HeldOK' /\ SlotsInOrder'
  BY HeldTables, TypeParts DEF SpaceInv, before
<1> QED
  BY <1>1, IdleRecord, SlotTable DEF before

\* FlipWrite.
LEMMA FlipWrites ==
  ASSUME Busied, SpaceInv, NEW r \in Requests, FlipWrite(r)
  PROVE  SpaceKept
<1>0. reqs[r].op = "flipWrite" /\ reqs[r].op \in SpaceOps \ {"locate"}
  BY DEF FlipWrite, At, SpaceOps
<1>1. reqs[r] \in SpaceRecord
  BY <1>0, SpaceAt
<1>2. PICK s \in Slots, active \in BOOLEAN, n \in Numbers :
        s = reqs[r].s /\ active = reqs[r].active /\ n = reqs[r].n
  BY <1>0, <1>1, SpaceFields
<1>3. UNCHANGED <<load, doc, space, locks, booking, seal, crashes>> /\ Goto(r, Idle)
  BY DEF FlipWrite, Done
<1> DEFINE free == Rows(s) /\ ~\E t \in Slots \ {s} : Rows(t) /\ slot[t].number = n
<1>4. slot' = IF free THEN [slot EXCEPT ![s] = [@ EXCEPT !.active = active, !.number = n]] ELSE slot
  BY <1>2 DEF FlipWrite
<1>5. CASE free
  <2>1. PICK row : row = [slot[s] EXCEPT !.active = active, !.number = n]
    OBVIOUS
  <2>2. slot[s] \in [row : {"none", "live", "deleted"}, number : {0} \cup Numbers, active : BOOLEAN]
    BY SlotRows DEF SlotOK
  <2>3. row \in [row : {"live", "deleted"}, number : {0} \cup Numbers, active : BOOLEAN]
        /\ row.row = "live" /\ row.number = n
    BY <1>5, <2>1, <2>2 DEF Rows
  <2>4. slot' = [slot EXCEPT ![s] = row]
    BY <1>4, <1>5, <2>1, SlotRows DEF SlotOK
  <2> QED
    <3>1. Rows(s) /\ \A t \in Slots \ {s} : Rows(t) => slot[t].number # n
      BY <1>5
    <3> QED
      <4>1. /\ \A t \in Slots \ {s} : Rows(t) /\ row.row = "live" => slot[t].number # row.number
            /\ row.row = "deleted" => \A b \in Bookings : booking[b].slot # s
        BY <2>3, <3>1
      <4>2. row \in [row : {"live", "deleted"}, number : {0} \cup Numbers, active : BOOLEAN]
        BY <2>3
      <4> HIDE DEF free
      <4> QED
        BY <1>0, <1>3, <2>4, <3>1, <4>1, <4>2, RowWrites
<1>6. CASE ~free
  BY <1>0, <1>3, <1>4, <1>6, NoRowWritten DEF before
<1> QED
  BY <1>5, <1>6

\* DropWrite: a row that a booking names stays.
LEMMA DropWrites ==
  ASSUME Busied, SpaceInv, NEW r \in Requests, DropWrite(r)
  PROVE  SpaceKept
<1>0. reqs[r].op = "dropWrite" /\ reqs[r].op \in SpaceOps \ {"locate"}
  BY DEF DropWrite, At, SpaceOps
<1>1. PICK s \in Slots : s = reqs[r].s
  BY <1>0, SpaceAt, SpaceFields
<1>2. UNCHANGED <<load, doc, space, locks, booking, seal, crashes>> /\ Goto(r, Idle)
  BY DEF DropWrite, Done
<1> DEFINE free == Rows(s) /\ \A b \in Bookings : booking[b].slot # s
<1>3. slot' = IF free THEN [slot EXCEPT ![s].row = "deleted"] ELSE slot
  BY <1>1 DEF DropWrite
<1>4. CASE free
  <2>1. PICK row : row = [slot[s] EXCEPT !.row = "deleted"]
    OBVIOUS
  <2>2. slot[s] \in [row : {"none", "live", "deleted"}, number : {0} \cup Numbers, active : BOOLEAN]
    BY SlotRows DEF SlotOK
  <2>3. row \in [row : {"live", "deleted"}, number : {0} \cup Numbers, active : BOOLEAN]
        /\ row.row = "deleted"
    BY <2>1, <2>2
  <2>4. slot' = [slot EXCEPT ![s] = row]
    BY <1>3, <1>4, <2>1, SlotRows DEF SlotOK
  <2> QED
    BY <1>0, <1>2, <1>4, <2>3, <2>4, RowWrites
<1>5. CASE ~free
  BY <1>0, <1>2, <1>3, <1>5, NoRowWritten DEF before
<1> QED
  BY <1>4, <1>5

\* createSlot's row, and those that a space without active slots should have.
LEMMA AddWrites ==
  ASSUME Busied, SpaceInv, NEW r \in Requests, SlotWrite(r) \/ Heal(r)
  PROVE  SpaceKept
<1>0. reqs[r].op \in {"slotWrite", "heal"} /\ reqs[r].op \in SpaceOps \ {"locate"}
  BY DEF SlotWrite, Heal, At, SpaceOps
<1>1. reqs[r] \in SpaceRecord /\ space.st # "none"
  BY <1>0, SpaceAt DEF SpaceInv, SpaceAsks, SpaceFact
<1>2. UNCHANGED <<load, doc, space, locks, booking, seal, crashes>>
  BY DEF SlotWrite, Heal
<1>3. CASE SlotWrite(r)
  <2>1. Goto(r, Idle) /\ reqs[r].n \in Numbers
    BY <1>1, <1>3, SpaceFields DEF SlotWrite, At, Done
  <2>2. CASE UNCHANGED slot
    BY <1>0, <1>2, <2>1, <2>2, NoRowWritten DEF before
  <2>3. CASE ~UNCHANGED slot
    <3>1. PICK N \in SUBSET Numbers : N = {reqs[r].n}
      BY <2>1
    <3>2. slot' = WithSlots(N) /\ N \cap Taken = {} /\ IsFiniteSet(N)
      BY <1>3, <2>3, <3>1, FS_Singleton DEF SlotWrite
    <3>3. SlotOK' /\ HeldOK' /\ SlotsInOrder'
      BY <1>1, <1>2, <3>2, SlotsAdded
    <3> QED
      BY <1>0, <1>2, <2>1, <3>3, IdleRecord, SlotTable
  <2> QED
    BY <2>2, <2>3
<1>4. CASE Heal(r)
  <2>1. reqs[r].n \in 0..MaxCapacity
    BY <1>1, <1>4, SpaceFields DEF Heal, At
  <2>2. PICK N \in SUBSET Numbers : N = 1..reqs[r].n \ Taken
    <3>1. 1..reqs[r].n \subseteq 1..MaxCapacity
      BY <2>1, SpaceRow
    <3> QED
      BY <3>1, SlotRows
  <2>3. IsFiniteSet(N)
    <3>1. IsFiniteSet(1..reqs[r].n) /\ N \subseteq 1..reqs[r].n
      BY <2>1, <2>2, FS_Interval
    <3> QED
      BY <3>1, FS_Subset
  <2>4. slot' = WithSlots(N) /\ N \cap Taken = {}
    BY <1>4, <2>2 DEF Heal
  <2>5. SlotOK' /\ HeldOK' /\ SlotsInOrder'
    BY <1>1, <1>2, <2>3, <2>4, SlotsAdded
  <2>6. PICK rec \in Record : Goto(r, rec) /\ rec.op = "choose"
    <3>1. PICK slots \in SUBSET Slots : slots = {s \in Slots : slot'[s].row = "live" /\ slot'[s].active}
      OBVIOUS
    <3>2. [op |-> "choose", slots |-> slots] \in Record
      BY DEF Record, SpaceRecord
    <3> QED
      BY <1>4, <3>1, <3>2 DEF Heal
  <2> QED
    BY <1>0, <1>2, <2>5, <2>6, SlotTable
<1> QED
  BY <1>3, <1>4

-----------------------------------------------------------------------------
\* The half of the space, in steps of either half.

\* Everything a handler of the space does, but stop half-way.
LEMMA SpaceActs ==
  ASSUME Busied, SpaceInv, NEW r \in Requests, Arrive(r) \/ (Proceed(r) /\ ~Crash(r))
  PROVE  SpaceKept
<1>1. CASE Arrive(r)
  <2>1. CASE \/ \E t \in DocTypes : KycRead(r, t)
             \/ \E d \in Docs, st \in {"approved", "rejected"} : DecideRead(r, d, st)
    BY <2>1, DocReads
  <2>2. CASE \/ \E n \in 1..MaxCapacity, moves \in BOOLEAN : UpdateSpace(r, n, moves)
             \/ \E n \in 1..MaxCapacity : CreateRead(r, n)
             \/ \E n \in 1..MaxCapacity, photos \in 0..MinPhotos : CreateParkingSpace(r, n, photos)
    BY <2>2, CapacityEdits, CreateReads, WizardWrites
  <2>3. CASE \/ AddPhoto(r) \/ RemovePhoto(r) \/ SetPricing(r)
             \/ \E n \in 1..MinPhotos : UploadRead(r, n) \/ DeleteImages(r, n)
    BY <2>3, PlainEdits, UploadReads
  <2>4. CASE \/ SubmitRead(r) \/ PauseRead(r) \/ UnpauseRead(r) \/ RemoveRead(r)
             \/ \E st \in {"active", "rejected"} : ReviewRead(r, st)
    BY <2>4, StatusReads
  <2>5. CASE \/ \E n \in Numbers : SlotRead(r, n)
             \/ \E s \in Slots, active \in BOOLEAN, n \in Numbers : FlipRead(r, s, active, n)
             \/ \E s \in Slots : DropRead(r, s) \/ BookCheck(r, s)
             \/ AskSlots(r)
    BY <2>5, SlotReads
  <2> QED
    BY <1>1, <2>1, <2>2, <2>3, <2>4, <2>5 DEF Arrive
<1>2. CASE Proceed(r) /\ ~Crash(r)
  BY <1>2, DocWrites, CreateWrites, PlaceWrites, UploadWrites, StatusWrites, AddWrites, FlipWrites,
     DropWrites, LockWrites, BookWrites DEF Proceed
<1> QED
  BY <1>1, <1>2

\* A step of the other half, and a handler that stops, leave the tables as they are.
SpaceRests == \A q \in Requests :
                reqs'[q] = reqs[q] \/ (reqs[q].op \notin SpaceOps /\ reqs'[q].op \notin SpaceOps)

\* Steps of the other half leave the space as it is.
LEMMA SpaceSame ==
  ASSUME Busied, SpaceInv, UNCHANGED <<load, before>>, crashes' \in 0..MaxCrashes,
         \A q \in Requests : reqs'[q] = reqs[q] \/ reqs'[q].op \notin SpaceOps,
         (SpaceRests /\ crashes' = crashes) \/ crashes' # 0
  PROVE  SpaceInv'
<1>1. /\ DocOK' /\ SpaceOK' /\ SlotOK' /\ LocksOK' /\ BookingOK' /\ HeldOK'
      /\ SlotsInOrder' /\ Standing' /\ OpenBookingIsServed' /\ SpaceMoves
  BY HeldTables, TypeParts DEF SpaceInv, before
<1>2. MeterOK'
  BY DEF SpaceInv, TypeOK, MeterOK
<1>3. SpaceAsks'
  <2>1. ASSUME NEW q
        PROVE  (SpaceFact(q) => SpaceFact(q)') /\ (SpaceView(q) => SpaceView(q)')
    BY DEF SpaceFact, SpaceView, Listed, Open, Active, Rows, before
  <2>2. OneAtATime' <=> OneAtATime
    BY DEF OneAtATime
  <2>3. SpaceAsks
    BY DEF SpaceInv
  <2>4. ASSUME NEW q \in Requests
        PROVE  /\ SpaceFact(reqs[q])'
               /\ OneAtATime => SpaceView(reqs[q])'
    <3>1. PICK rec : rec = reqs'[q]
      OBVIOUS
    <3>2. CASE rec = reqs[q]
      <4>1. SpaceFact(rec)' /\ (OneAtATime => SpaceView(rec)')
        BY <2>1, <2>3, <3>2 DEF SpaceAsks
      <4> QED
        BY <3>1, <4>1 DEF SpaceFact, SpaceView
    <3>3. CASE rec.op \notin SpaceOps
      <4>1. SpaceFact(rec)' /\ SpaceView(rec)'
        BY <3>3, OthersClaimNothing
      <4> QED
        BY <3>1, <4>1 DEF SpaceFact, SpaceView
    <3> QED
      BY <3>1, <3>2, <3>3
  <2> QED
    BY <2>2, <2>4 DEF SpaceAsks
<1>4. OneAtATime' /\ crashes' = 0 => Placed'
  <2> SUFFICES ASSUME OneAtATime', crashes' = 0 PROVE Placed'
    OBVIOUS
  <2>1. SpaceRests /\ crashes = 0 /\ OneAtATime
    BY DEF OneAtATime
  <2>2. \A q \in Requests : reqs[q].op = "locate" => reqs'[q].op = "locate"
    BY <2>1 DEF SpaceRests, SpaceOps
  <2> QED
    BY <2>1, <2>2 DEF SpaceInv, Placed, before
<1> QED
  BY <1>1, <1>2, <1>3, <1>4, TypeParts DEF SpaceInv

\* The space at the start.
LEMMA SpaceStarts == Init => Busied /\ SpaceInv
<1> SUFFICES ASSUME Init PROVE Busied /\ SpaceInv
  OBVIOUS
<1> USE SpacesAssumption
<1>1. Busied
  BY DEF Init, Busied, Record
<1>2. PICK t0 \in DocTypes : t0 = CHOOSE t \in DocTypes : TRUE
  OBVIOUS
<1>3. load \in Workloads /\ load.ready \in BOOLEAN /\ load.booked \in 0..NBookings
      /\ (load.booked > 0 => load.ready) /\ crashes = 0
  BY DEF Init
<1>4. DocOK
  BY <1>2 DEF Init, DocOK
<1>5. SpaceOK /\ Standing /\ SlotsInOrder
  BY <1>3 DEF Init, SpaceOK, Standing, SlotsInOrder, NoSpace, Statuses, Listed, OnMap, NewSlot, Slots
<1>6. SlotOK /\ LocksOK
  BY <1>3 DEF Init, SlotOK, LocksOK, Rows, NewSlot, Slots
<1>7. BookingOK /\ HeldOK
  BY <1>3 DEF Init, BookingOK, HeldOK, Housed, Rows, NewSlot, Slots, Bookings
<1>8. OpenBookingIsServed
  BY <1>3 DEF Init, OpenBookingIsServed, Open, Bookings
<1>9. MeterOK
  BY <1>3, HandlersAssumption DEF MeterOK
<1>10. SpaceAsks
  BY IdleIsNone, OthersClaimNothing DEF Init, SpaceAsks
<1>11. Placed
  BY <1>3 DEF Init, Placed, NoSpace
<1> QED
  BY <1>1, <1>4, <1>5, <1>6, <1>7, <1>8, <1>9, <1>10, <1>11, TypeParts DEF SpaceInv

-----------------------------------------------------------------------------
\* After!TypeOK and Filed by the tables.
StayRow    == [st : {"none", "completed", "cancelled", "disputed"}, end : After!Endings \cup {"none"},
               paid : {0, Price}, refunded : 0..Price, returned : Nat, credited : Nat]
DisputeRow == [st : {"none", "open", "resolved"}, ticket : {0} \cup After!Tickets,
               how : After!Kinds \cup {"none"}, granted : {0} \cup Given]

PaidOK    == /\ stay \in [Bookings -> StayRow]
             /\ earning \in [Bookings -> {"none", "pending", "available", "on_hold"}]
             /\ \A b \in Bookings : stay[b].refunded <= stay[b].paid
ReviewOK  == /\ review \in [Bookings -> [st : {"none", "active", "flagged", "removed"},
                                         stars : {0} \cup Ratings, answered : BOOLEAN]]
             /\ \A b \in Bookings :
                  review[b].st # "none" => stay[b].st # "none" /\ review[b].stars \in Ratings
RatingOK  == rating \subseteq Bookings \X Ratings
TicketOK  == ticket \in [After!Tickets -> [st : {"none", "open", "in_progress", "resolved", "closed"},
                                           stay : {0} \cup Bookings,
                                           log : SUBSET {"created", "user", "admin"}]]
DisputeOK == dispute \in [Bookings -> DisputeRow]
LinkOK    == \A b \in Bookings :
               /\ dispute[b].st # "none" =>
                    /\ stay[b].st # "none" /\ dispute[b].ticket \in After!Tickets
                    /\ ticket[dispute[b].ticket].st # "none" /\ ticket[dispute[b].ticket].stay = b
               /\ dispute[b].how # "none" => dispute[b].st = "resolved"
               /\ dispute[b].granted # 0 => dispute[b].how = "credit"

\* The rows of AfterStay, table by table.
LEMMA StayParts ==
  /\ After!TypeOK /\ Filed <=> PaidOK /\ ReviewOK /\ RatingOK /\ TicketOK /\ DisputeOK /\ LinkOK /\ MeterOK
  /\ After!TypeOK' /\ Filed' <=>
       PaidOK' /\ ReviewOK' /\ RatingOK' /\ TicketOK' /\ DisputeOK' /\ LinkOK' /\ MeterOK'
  BY DEF After!TypeOK, Filed, PaidOK, ReviewOK, RatingOK, TicketOK, DisputeOK, LinkOK, MeterOK,
         StayRow, DisputeRow, After!Stays, Bookings

\* A table that a step leaves alone keeps its part.
LEMMA StayTables ==
  /\ UNCHANGED <<stay, earning>> => (PaidOK => PaidOK')
  /\ UNCHANGED <<stay, review>> => (ReviewOK => ReviewOK')
  /\ UNCHANGED rating => (RatingOK => RatingOK')
  /\ UNCHANGED ticket => (TicketOK => TicketOK')
  /\ UNCHANGED dispute => (DisputeOK => DisputeOK')
  /\ UNCHANGED <<stay, ticket, dispute>> => (LinkOK => LinkOK')
  /\ UNCHANGED <<load, dispute, earning>> => (After!DisputedIsHeld => After!DisputedIsHeld')
  BY DEF PaidOK, ReviewOK, RatingOK, TicketOK, DisputeOK, LinkOK, After!DisputedIsHeld, After!OneAtATime

\* What a step may not take back: a stay, a review and a dispute stay there.
StayMoves == \A b \in Bookings : /\ stay[b].st # "none" => stay'[b].st # "none"
                                 /\ review[b].st # "none" => review'[b].st # "none"
                                 /\ dispute[b].st # "none" => dispute'[b].st # "none"

\* Facts about stays, reviews and disputes stay so.
LEMMA StayFactStays ==
  ASSUME NEW q \in Record, StayMoves, StayFact(q)
  PROVE  StayFact(q)'
<1>1. q.op \in StayOps \ {"aggregate", "store", "logTicket", "message"} => q.b \in Bookings
  BY RecordIsOne, StayFields DEF StayOps
<1> QED
  BY <1>1 DEF StayFact, StayMoves, StayOps

\* What handlers claim of the stays stays so if the facts do and the one that steps has seen what
\* its new record claims.
LEMMA StayGoto ==
  ASSUME Busied, load \in Workloads, load' = load, StayAsks, StayMoves,
         NEW r \in Requests, r \in load.crew, NEW rec \in Record, Goto(r, rec),
         StayFact(rec)', OneAtATime => StayView(rec)'
  PROVE  StayAsks'
<1>1. /\ reqs'[r] = rec /\ \A q \in Requests : q # r => reqs'[q] = reqs[q]
      /\ \A q \in Requests : reqs[q] \in Record
  BY BusiedGoto
<1>2. ASSUME NEW q \in Requests PROVE StayFact(reqs[q])'
  <2>1. CASE q = r
    BY <1>1, <2>1 DEF StayFact
  <2>2. CASE q # r
    <3>1. PICK rq \in Record : rq = reqs[q] /\ rq = reqs'[q] /\ StayFact(rq)
      BY <1>1, <2>2 DEF StayAsks
    <3>2. StayFact(rq)'
      BY <3>1, StayFactStays
    <3> QED
      BY <3>1, <3>2 DEF StayFact
  <2> QED
    BY <2>1, <2>2
<1>3. ASSUME OneAtATime, NEW q \in Requests PROVE StayView(reqs[q])'
  <2>1. CASE q = r
    BY <1>1, <1>3, <2>1 DEF StayView, CurrentIn, After!Refundable
  <2>2. CASE q # r
    <3>1. reqs'[q] = Idle
      BY <1>1, <1>3, <2>2, Alone
    <3>2. StayView(Idle)'
      BY IdleIsNone, OthersClaimNothing
    <3> QED
      BY <3>1, <3>2 DEF StayView, CurrentIn, After!Refundable
  <2> QED
    BY <2>1, <2>2
<1>4. OneAtATime' <=> OneAtATime
  BY DEF OneAtATime
<1> QED
  BY <1>2, <1>3, <1>4 DEF StayAsks

-----------------------------------------------------------------------------
\* What a lone handler leaves to be done.
LEMMA RatedAlone ==
  ASSUME Busied, StayInv, OneAtATime, crashes = 0, NEW r \in Requests, r \in load.crew,
         reqs[r].op \notin {"aggregate", "store"}
  PROVE  CurrentIn(rating)
<1>1. \A q \in Requests : reqs[q].op \notin {"aggregate", "store"}
  <2>1. load \in Workloads
    BY DEF StayInv, After!TypeOK
  <2> QED
    BY <2>1, Alone, IdleIsNone DEF StayOps
<1> QED
  BY <1>1 DEF StayInv, Rated

\* A lone handler with a full refund, or with goodwill, outstanding is the one that makes it.
LEMMA RepaidAlone ==
  ASSUME Busied, StayInv, OneAtATime, crashes = 0, NEW r \in Requests, r \in load.crew,
         NEW b \in Bookings, dispute[b].how = "refund", stay[b].refunded # stay[b].paid
  PROVE  reqs[r].op = "refund" /\ reqs[r].b = b /\ reqs[r].amount = Price
<1>1. PICK q \in Requests : reqs[q].op = "refund" /\ reqs[q].b = b /\ reqs[q].amount = Price
  BY DEF StayInv, Repaid
<1>2. load \in Workloads
  BY DEF StayInv, After!TypeOK
<1>3. q = r
  BY <1>1, <1>2, Alone, IdleIsNone DEF StayOps
<1> QED
  BY <1>1, <1>3

LEMMA CreditedAlone ==
  ASSUME Busied, StayInv, OneAtATime, crashes = 0, NEW r \in Requests, r \in load.crew,
         NEW b \in Bookings, stay[b].credited # dispute[b].granted
  PROVE  reqs[r].op = "goodwill" /\ reqs[r].b = b
<1>1. PICK q \in Requests : reqs[q].op = "goodwill" /\ reqs[q].b = b
  BY DEF StayInv, Repaid
<1>2. load \in Workloads
  BY DEF StayInv, After!TypeOK
<1>3. q = r
  BY <1>1, <1>2, Alone, IdleIsNone DEF StayOps
<1> QED
  BY <1>1, <1>3

\* A step that neither reviews nor rates leaves the rating as due as it was; one that
\* neither disputes nor refunds, the refunds.
LEMMA RatedStays ==
  ASSUME Busied, StayInv, NEW r \in Requests, r \in load.crew, UNCHANGED <<review, rating>>,
         reqs[r].op \notin {"aggregate", "store"}, OneAtATime, crashes = 0
  PROVE  Rated'
<1>1. CurrentIn(rating)
  BY RatedAlone
<1> QED
  BY <1>1 DEF Rated, CurrentIn

\* Of a stay's money nothing has moved.
SameMoney(b) == /\ stay'[b].end = stay[b].end /\ stay'[b].paid = stay[b].paid
                /\ stay'[b].refunded = stay[b].refunded /\ stay'[b].returned = stay[b].returned
                /\ stay'[b].credited = stay[b].credited

\* A step that moves no money and settles nothing leaves it as due as it was.
LEMMA RepaidStays ==
  ASSUME Busied, StayInv, NEW r \in Requests, r \in load.crew,
         \A b \in Bookings : /\ SameMoney(b) /\ dispute'[b].granted = dispute[b].granted
                             /\ dispute'[b].how \in {dispute[b].how, "none"},
         reqs[r].op \notin {"refund", "goodwill"}, OneAtATime, crashes = 0
  PROVE  Repaid'
<1>1. ASSUME NEW b \in Bookings PROVE stay[b].end # "suspended" => stay[b].returned = 0
  BY DEF StayInv, Repaid
<1>2. ASSUME NEW b \in Bookings PROVE dispute[b].how = "refund" => stay[b].refunded = stay[b].paid
  BY RepaidAlone
<1>3. ASSUME NEW b \in Bookings PROVE stay[b].credited = dispute[b].granted
  BY CreditedAlone
<1> QED
  BY <1>1, <1>2, <1>3 DEF Repaid, SameMoney

\* What the other half of the handlers sees of such a step: nothing.
StayKept ==
  /\ StayInv' /\ Busied' /\ SpaceRests
  /\ crashes' \in 0..MaxCrashes /\ (crashes' = crashes \/ crashes' # 0)
  /\ \A b \in Bookings : stay[b].st = "none" <=> stay'[b].st = "none"

\* A handler's step, from what it leaves of each table and what its record claims.
LEMMA StayStep ==
  ASSUME Busied, StayInv, UNCHANGED load, crashes' \in 0..MaxCrashes,
         crashes' = crashes \/ crashes' # 0,
         NEW r \in Requests, r \in load.crew, reqs[r] \in StayRecord \/ reqs[r] = Idle,
         NEW rec \in Record, Goto(r, rec), rec.op \notin SpaceOps,
         PaidOK', ReviewOK', RatingOK', TicketOK', DisputeOK', LinkOK', After!DisputedIsHeld',
         StayMoves, \A b \in Bookings : stay[b].st = "none" => stay'[b].st = "none",
         StayFact(rec)', OneAtATime => StayView(rec)',
         OneAtATime /\ crashes' = 0 => Rated' /\ Repaid'
  PROVE  StayKept
<1>1. load \in Workloads /\ StayAsks
  BY DEF StayInv, After!TypeOK
<1>2. MeterOK'
  BY <1>1 DEF MeterOK
<1>3. After!TypeOK' /\ Filed'
  BY <1>2, StayParts
<1>4. StayAsks'
  BY <1>1, StayGoto
<1>5. OneAtATime' /\ crashes' = 0 => Rated' /\ Repaid'
  BY DEF OneAtATime
<1>6. reqs[r].op \notin SpaceOps
  BY StayFields, IdleIsNone
<1>7. Busied' /\ reqs'[r] = rec /\ \A q \in Requests : q # r => reqs'[q] = reqs[q]
  BY BusiedGoto
<1>8. SpaceRests
  <2>1. reqs'[r].op \notin SpaceOps
    BY <1>7
  <2>2. ASSUME NEW q \in Requests
        PROVE  reqs'[q] = reqs[q] \/ (reqs[q].op \notin SpaceOps /\ reqs'[q].op \notin SpaceOps)
    <3>1. CASE q = r
      BY <1>6, <2>1, <3>1
    <3>2. CASE q # r
      BY <1>7, <3>2
    <3> QED
      BY <3>1, <3>2
  <2> QED
    BY <2>2 DEF SpaceRests
<1>9. \A b \in Bookings : stay[b].st = "none" <=> stay'[b].st = "none"
  BY DEF StayMoves
<1> QED
  BY <1>3, <1>4, <1>5, <1>7, <1>8, <1>9 DEF StayInv, StayKept

-----------------------------------------------------------------------------
\* What a handler of AfterStay reads, action by action.
LEMMA SameHandlers ==
  /\ After!Idle = Idle /\ (After!OneAtATime <=> OneAtATime) /\ (After!Quiet <=> Quiet)
  /\ After!Stays = Bookings
  /\ \A r, x : /\ After!Starts(r, x) <=> Starts(r, x)
               /\ After!At(r, x) <=> At(r, x)
               /\ After!Goto(r, x) <=> Goto(r, x)
  /\ \A r : (After!Done(r) <=> Goto(r, Idle)) /\ (After!Stops(r) <=> Stops(r))
<1>1. After!Idle = Idle
  BY DEF After!Idle, Idle
<1>4. After!OneAtATime <=> OneAtATime
  BY Zenon DEF After!OneAtATime, OneAtATime, After!Cardinality, Cardinality, After!IsFiniteSet, IsFiniteSet
<1>6. After!Stays = Bookings
  BY DEF After!Stays, Bookings
<1>5. After!Quiet <=> Quiet
  BY <1>1 DEF After!Quiet, Quiet
<1>2. ASSUME NEW r, NEW x
      PROVE  /\ After!Starts(r, x) <=> Starts(r, x)
             /\ After!At(r, x) <=> At(r, x)
             /\ After!Goto(r, x) <=> Goto(r, x)
  BY <1>1 DEF After!Starts, Starts, After!At, At, After!Goto, Goto
<1>3. ASSUME NEW r
      PROVE  (After!Done(r) <=> Goto(r, Idle)) /\ (After!Stops(r) <=> Stops(r))
  BY <1>1 DEF After!Goto, Goto, After!Done, After!Stops, Stops, Done
<1> QED
  BY <1>1, <1>2, <1>3, <1>4, <1>5, <1>6

\* A step that only reads.
LEMMA StayReads ==
  ASSUME Busied, StayInv, UNCHANGED <<load, after, crashes>>,
         NEW r \in Requests, r \in load.crew, reqs[r].op \notin {"aggregate", "store", "refund", "goodwill"},
         reqs[r] \in StayRecord \/ reqs[r] = Idle,
         NEW rec \in Record, Goto(r, rec), rec.op \notin SpaceOps,
         StayFact(rec), OneAtATime => StayView(rec)
  PROVE  StayKept
<1>1. /\ PaidOK' /\ ReviewOK' /\ RatingOK' /\ TicketOK' /\ DisputeOK' /\ LinkOK' /\ After!DisputedIsHeld'
  BY StayTables, StayParts DEF StayInv, after
<1>2. StayMoves
  BY DEF StayMoves, after
<1>3. StayFact(rec)'
  BY <1>2, StayFactStays
<1>4. OneAtATime => StayView(rec)'
  BY DEF after, StayView, CurrentIn, After!Refundable
<1>5. OneAtATime /\ crashes' = 0 => Rated' /\ Repaid'
  BY RatedStays, RepaidStays DEF after, SameMoney
<1>6. crashes' \in 0..MaxCrashes
  BY DEF StayInv, After!TypeOK
<1>7. \A b \in Bookings : stay[b].st = "none" => stay'[b].st = "none"
  BY DEF after
<1> QED
  BY <1>1, <1>2, <1>3, <1>4, <1>5, <1>6, <1>7, StayStep

\* The first read of a handler.
LEMMA StayReadsAtStart ==
  ASSUME Busied, StayInv, UNCHANGED <<load, after, crashes>>,
         NEW r \in Requests, NEW op, After!Starts(r, op), NEW rec \in StayRecord, After!Goto(r, rec),
         StayFact(rec), OneAtATime => StayView(rec)
  PROVE  StayKept
<1>1. rec \in Record /\ rec.op \notin SpaceOps
  BY StayFields DEF Record
<1>2. Starts(r, op) /\ Goto(r, rec)
  BY SameHandlers
<1> QED
  BY <1>1, <1>2, AtStart, StayReads

\* ReviewRead, EditRead, ReportRead, RemoveRead, RespondRead.
LEMMA ReviewReads ==
  ASSUME Busied, StayInv, NEW r \in Requests, NEW b \in Bookings,
         \/ \E stars \in Ratings, profane \in BOOLEAN :
              After!ReviewRead(r, b, stars, profane) \/ After!EditRead(r, b, stars, profane)
         \/ After!ReportRead(r, b) \/ After!RemoveRead(r, b) \/ After!RespondRead(r, b)
  PROVE  StayKept
<1>1. ASSUME NEW stars \in Ratings, NEW profane \in BOOLEAN, After!ReviewRead(r, b, stars, profane)
      PROVE  StayKept
  <2>1. PICK st \in {"active", "flagged"} : st = After!ReviewStatus(profane)
    BY DEF After!ReviewStatus
  <2>2. PICK rec \in StayRecord : rec = [op |-> "reviewWrite", b |-> b, stars |-> stars, st |-> st]
    BY DEF StayRecord
  <2>3. StayFact(rec) /\ StayView(rec)
    BY <1>1, <2>2 DEF StayFact, StayView, After!ReviewRead
  <2> QED
    BY <1>1, <2>1, <2>2, <2>3, StayReadsAtStart DEF After!ReviewRead, after, After!desk
<1>2. ASSUME NEW stars \in Ratings, NEW profane \in BOOLEAN, After!EditRead(r, b, stars, profane)
      PROVE  StayKept
  <2>1. PICK st \in {"active", "flagged"} : st = After!ReviewStatus(profane)
    BY DEF After!ReviewStatus
  <2>2. PICK rec \in StayRecord : rec = [op |-> "editWrite", b |-> b, stars |-> stars, st |-> st]
    BY DEF StayRecord
  <2>3. StayFact(rec) /\ StayView(rec)
    BY <1>2, <2>2 DEF StayFact, StayView, After!EditRead
  <2> QED
    BY <1>2, <2>1, <2>2, <2>3, StayReadsAtStart DEF After!EditRead, after, After!desk
<1>3. CASE After!ReportRead(r, b) \/ After!RemoveRead(r, b) \/ After!RespondRead(r, b)
  <2>1. PICK op \in {"report", "withdraw", "respond"},
             step \in {"reportWrite", "removeWrite", "respondWrite"} :
          /\ After!Starts(r, op) /\ After!Goto(r, [op |-> step, b |-> b])
          /\ review[b].st \in {"active", "flagged"} /\ UNCHANGED <<load, after, crashes>>
    BY <1>3 DEF After!ReportRead, After!RemoveRead, After!RespondRead, after, After!desk
  <2>2. PICK rec \in StayRecord : rec = [op |-> step, b |-> b]
    BY DEF StayRecord
  <2>3. StayFact(rec) /\ StayView(rec)
    BY <2>1, <2>2 DEF StayFact, StayView
  <2> QED
    BY <2>1, <2>2, <2>3, StayReadsAtStart
<1> QED
  BY <1>1, <1>2, <1>3

\* MessageRead, DisputeRead, ResolveRead.
LEMMA DeskReads ==
  ASSUME Busied, StayInv, NEW r \in Requests,
         \/ \E t \in After!Tickets, who \in {"user", "admin"} : After!MessageRead(r, t, who)
         \/ \E b \in Bookings : After!DisputeRead(r, b)
         \/ \E b \in Bookings, how \in After!Kinds, amount \in Given :
              After!ResolveRead(r, b, how, amount)
  PROVE  StayKept
<1>1. ASSUME NEW t \in After!Tickets, NEW who \in {"user", "admin"}, After!MessageRead(r, t, who)
      PROVE  StayKept
  <2>1. PICK rec \in StayRecord : rec = [op |-> "message", t |-> t, who |-> who]
    BY DEF StayRecord
  <2>2. StayFact(rec) /\ StayView(rec)
    BY <2>1 DEF StayFact, StayView
  <2> QED
    BY <1>1, <2>1, <2>2, StayReadsAtStart DEF After!MessageRead, after, After!desk
<1>2. ASSUME NEW b \in Bookings, After!DisputeRead(r, b) PROVE StayKept
  <2>1. PICK rec \in StayRecord : rec = [op |-> "disputeWrite", b |-> b]
    BY DEF StayRecord
  <2>2. StayFact(rec) /\ StayView(rec)
    BY <1>2, <2>1 DEF StayFact, StayView, After!DisputeRead
  <2> QED
    BY <1>2, <2>1, <2>2, StayReadsAtStart DEF After!DisputeRead, after, After!desk
<1>3. ASSUME NEW b \in Bookings, NEW how \in After!Kinds, NEW amount \in Given,
             After!ResolveRead(r, b, how, amount)
      PROVE  StayKept
  <2>1. PICK cancelled \in BOOLEAN, payment \in BOOLEAN :
          cancelled = (stay[b].end \in {"cancelled", "suspended"}) /\ payment = After!Refundable(b)
    <3>1. (stay[b].end \in {"cancelled", "suspended"}) \in BOOLEAN
      OBVIOUS
    <3>2. After!Refundable(b) \in BOOLEAN
      BY DEF After!Refundable
    <3> QED
      BY <3>1, <3>2
  <2>2. PICK rec \in StayRecord : rec = [op |-> "resolveWrite", b |-> b, how |-> how, amount |-> amount,
                                         cancelled |-> cancelled, payment |-> payment]
    BY DEF StayRecord
  <2>3. dispute[b].st = "open" /\ stay[b].st # "none"
    BY <1>3, StayParts DEF StayInv, LinkOK, After!ResolveRead
  <2>4. StayFact(rec) /\ StayView(rec)
    BY <2>1, <2>2, <2>3 DEF StayFact, StayView
  <2> QED
    BY <1>3, <2>1, <2>2, <2>4, StayReadsAtStart DEF After!ResolveRead, after, After!desk
<1> QED
  BY <1>1, <1>2, <1>3

-----------------------------------------------------------------------------
\* What is written to reviews and to the rating.
LEMMA StayAt ==
  ASSUME Busied, NEW r \in Requests, reqs[r].op \in StayOps
  PROVE  reqs[r] \in StayRecord /\ r \in load.crew
<1>1. reqs[r] \in Record
  BY DEF Busied
<1> QED
  BY <1>1, RecordIsOne, IdleIsNone DEF Busied

\* After its answer a handler of a review is done, or computes the rating.
LEMMA RatingRecord ==
  ASSUME NEW rec, rec = Idle \/ rec = [op |-> "aggregate"]
  PROVE  rec \in Record /\ rec.op \in {"idle", "aggregate"}
<1>1. CASE rec = Idle
  BY <1>1, IdleRecord
<1>2. CASE rec = [op |-> "aggregate"]
  BY <1>2 DEF Record, StayRecord
<1> QED
  BY <1>1, <1>2

\* A step on reviews and the rating alone.
LEMMA RatingSteps ==
  ASSUME Busied, StayInv, UNCHANGED <<load, stay, earning, ticket, dispute, crashes>>,
         NEW r \in Requests, r \in load.crew, reqs[r] \in StayRecord,
         reqs[r].op \notin {"refund", "goodwill"},
         NEW rec \in Record, Goto(r, rec), rec.op \in {"idle", "aggregate", "store"},
         ReviewOK', RatingOK', \A b \in Bookings : review[b].st # "none" => review'[b].st # "none",
         OneAtATime => StayView(rec)', OneAtATime /\ crashes = 0 => Rated'
  PROVE  StayKept
<1>1. /\ PaidOK' /\ TicketOK' /\ DisputeOK' /\ LinkOK' /\ After!DisputedIsHeld'
  BY StayTables, StayParts DEF StayInv
<1>2. StayMoves /\ \A b \in Bookings : stay[b].st = "none" => stay'[b].st = "none"
  BY DEF StayMoves
<1>3. StayFact(rec)' /\ rec.op \notin SpaceOps
  BY DEF StayFact, SpaceOps
<1>4. OneAtATime /\ crashes' = 0 => Rated' /\ Repaid'
  BY RepaidStays DEF SameMoney
<1>5. crashes' \in 0..MaxCrashes
  BY DEF StayInv, After!TypeOK
<1> QED
  BY <1>1, <1>2, <1>3, <1>4, <1>5, StayStep

\* A handler that writes a review asks for the rating, or leaves what it counts.
LEMMA ReviewRow ==
  ASSUME Busied, StayInv, UNCHANGED <<load, stay, earning, rating, ticket, dispute, crashes>>,
         NEW r \in Requests, reqs[r].op \in StayOps \ {"aggregate", "store", "refund", "goodwill"},
         NEW b \in Bookings, stay[b].st # "none",
         NEW row \in [st : {"active", "flagged", "removed"}, stars : Ratings, answered : BOOLEAN],
         review' = [review EXCEPT ![b] = row],
         NEW rec, rec = Idle \/ rec = [op |-> "aggregate"], Goto(r, rec),
         rec = Idle => \/ row.st = "flagged"
                       \/ row.st = review[b].st /\ row.stars = review[b].stars
  PROVE  StayKept
<1>1. reqs[r] \in StayRecord /\ r \in load.crew
  BY StayAt
<1>2. rec \in Record /\ rec.op \in {"idle", "aggregate"}
  BY RatingRecord
<1>3. ReviewOK /\ RatingOK
  BY StayParts DEF StayInv
<1>4. ReviewOK'
  BY <1>3 DEF ReviewOK
<1>5. RatingOK' /\ \A c \in Bookings : review[c].st # "none" => review'[c].st # "none"
  BY <1>3 DEF RatingOK, ReviewOK
<1>6. StayView(rec)'
  BY <1>2 DEF StayView
<1>7. OneAtATime /\ crashes = 0 => Rated'
  <2>1. CASE rec = Idle
    <3> SUFFICES ASSUME OneAtATime, crashes = 0 PROVE CurrentIn(rating)'
      BY DEF Rated
    <3>1. CurrentIn(rating)
      BY <1>1, RatedAlone
    <3> QED
      BY <1>3, <2>1, <3>1 DEF CurrentIn, ReviewOK
  <2>2. CASE rec = [op |-> "aggregate"]
    <3>1. reqs'[r].op = "aggregate"
      BY <1>1, <1>2, <2>2, BusiedGoto
    <3> QED
      BY <3>1 DEF Rated
  <2> QED
    BY <2>1, <2>2
<1> QED
  BY <1>1, <1>2, <1>4, <1>5, <1>6, <1>7, RatingSteps

\* ReviewWrite, EditWrite, ReportWrite, RemoveWrite, RespondWrite.
LEMMA ReviewWrites ==
  ASSUME Busied, StayInv, NEW r \in Requests,
         \/ After!ReviewWrite(r) \/ After!EditWrite(r) \/ After!ReportWrite(r) \/ After!RemoveWrite(r)
         \/ After!RespondWrite(r)
  PROVE  StayKept
<1>0. reqs[r].op \in {"reviewWrite", "editWrite", "reportWrite", "removeWrite", "respondWrite"}
  BY DEF After!ReviewWrite, After!EditWrite, After!ReportWrite, After!RemoveWrite, After!RespondWrite,
         After!At
<1>1. reqs[r] \in StayRecord /\ r \in load.crew /\ reqs[r].b \in Bookings
  BY <1>0, StayAt, StayFields DEF StayOps
<1>2. PICK b \in Bookings : b = reqs[r].b
  BY <1>1
<1>3. reqs[r].op \in StayOps \ {"aggregate", "store", "refund", "goodwill"}
  BY <1>0 DEF StayOps
<1>4. ReviewOK
  BY StayParts DEF StayInv
<1>5. /\ reqs[r].op = "reviewWrite" => stay[b].st # "none"
      /\ reqs[r].op # "reviewWrite" => review[b].st # "none"
  BY <1>0, <1>2 DEF StayInv, StayAsks, StayFact
<1>6. stay[b].st # "none"
  BY <1>4, <1>5 DEF ReviewOK
<1>7. UNCHANGED <<load, stay, earning, rating, ticket, dispute, crashes>>
  BY DEF After!ReviewWrite, After!EditWrite, After!ReportWrite, After!RemoveWrite, After!RespondWrite,
         After!desk
<1>8. reqs[r].op \in {"reviewWrite", "editWrite"} =>
        reqs[r].st \in {"active", "flagged"} /\ reqs[r].stars \in Ratings
  BY <1>1, StayFields
<1>9. ASSUME NEW refresh \in BOOLEAN, After!ThenRating(r, refresh)
      PROVE  \E rec : /\ rec = Idle \/ rec = [op |-> "aggregate"]
                      /\ Goto(r, rec) /\ (rec = Idle => ~refresh)
  <2>1. CASE refresh
    <3>1. Goto(r, [op |-> "aggregate"])
      BY <1>9, <2>1, SameHandlers DEF After!ThenRating
    <3>2. [op |-> "aggregate"] # Idle
      <4>1. PICK rec : rec = [op |-> "aggregate"]
        OBVIOUS
      <4>2. rec.op = "aggregate"
        BY <4>1
      <4> QED
        BY <4>1, <4>2, IdleIsNone
    <3> QED
      BY <3>1, <3>2
  <2>2. CASE ~refresh
    BY <1>9, <2>2, SameHandlers DEF After!ThenRating
  <2> QED
    BY <2>1, <2>2
<1>10. CASE After!ReviewWrite(r)
  <2>1. reqs[r].op = "reviewWrite"
    BY <1>10 DEF After!ReviewWrite, After!At
  <2>2. CASE review[b].st # "none"
    <3>1. UNCHANGED review /\ Goto(r, Idle)
      BY <1>2, <1>10, <2>2, SameHandlers DEF After!ReviewWrite
    <3>2. StayFact(Idle) /\ StayView(Idle) /\ Idle.op \notin SpaceOps
      BY IdleIsNone, OthersClaimNothing
    <3> QED
      BY <1>1, <1>3, <1>7, <3>1, <3>2, IdleRecord, StayReads DEF after
  <2>3. CASE review[b].st = "none"
    <3>1. PICK row : row = [st |-> reqs[r].st, stars |-> reqs[r].stars, answered |-> FALSE]
      OBVIOUS
    <3>2. row \in [st : {"active", "flagged", "removed"}, stars : Ratings, answered : BOOLEAN]
      BY <1>8, <2>1, <3>1
    <3>3. review' = [review EXCEPT ![b] = row] /\ After!ThenRating(r, reqs[r].st = "active")
      BY <1>2, <1>10, <2>3, <3>1 DEF After!ReviewWrite, After!NoReview
    <3>4. PICK rec : /\ rec = Idle \/ rec = [op |-> "aggregate"]
                     /\ Goto(r, rec) /\ (rec = Idle => reqs[r].st # "active")
      BY <1>9, <3>3
    <3>5. rec = Idle => row.st = "flagged"
      BY <1>8, <2>1, <3>1, <3>4
    <3> QED
      BY <1>3, <1>6, <1>7, <3>2, <3>3, <3>4, <3>5, ReviewRow
  <2> QED
    BY <2>2, <2>3
<1>11. CASE After!EditWrite(r)
  <2>1. reqs[r].op = "editWrite"
    BY <1>11 DEF After!EditWrite, After!At
  <2>2. PICK row : row = [review[b] EXCEPT !.st = reqs[r].st, !.stars = reqs[r].stars]
    OBVIOUS
  <2>3. row \in [st : {"active", "flagged", "removed"}, stars : Ratings, answered : BOOLEAN]
    BY <1>4, <1>8, <2>1, <2>2 DEF ReviewOK
  <2>4. review' = [review EXCEPT ![b] = row] /\ After!ThenRating(r, reqs[r].st = "active")
    BY <1>2, <1>11, <2>2 DEF After!EditWrite
  <2>5. PICK rec : /\ rec = Idle \/ rec = [op |-> "aggregate"]
                   /\ Goto(r, rec) /\ (rec = Idle => reqs[r].st # "active")
    BY <1>9, <2>4
  <2>6. rec = Idle => row.st = "flagged"
    BY <1>4, <1>8, <2>1, <2>2, <2>5 DEF ReviewOK
  <2> QED
    BY <1>3, <1>6, <1>7, <2>3, <2>4, <2>5, <2>6, ReviewRow
<1>12. CASE After!ReportWrite(r) \/ After!RemoveWrite(r)
  <2>1. PICK st \in {"flagged", "removed"}, rec \in {Idle, [op |-> "aggregate"]} :
          /\ review' = [review EXCEPT ![b].st = st]
          /\ Goto(r, rec) /\ (rec = Idle => st = "flagged")
    <3>1. CASE After!ReportWrite(r)
      BY <1>2, <3>1, SameHandlers DEF After!ReportWrite
    <3>2. CASE After!RemoveWrite(r)
      <4>1. PICK rec : /\ rec = Idle \/ rec = [op |-> "aggregate"]
                       /\ Goto(r, rec) /\ (rec = Idle => ~TRUE)
        BY <1>9, <3>2 DEF After!RemoveWrite
      <4> QED
        BY <1>2, <3>2, <4>1 DEF After!RemoveWrite
    <3> QED
      BY <1>12, <3>1, <3>2
  <2>2. PICK row : row = [review[b] EXCEPT !.st = st]
    OBVIOUS
  <2>3. reqs[r].op # "reviewWrite"
    BY <1>12 DEF After!ReportWrite, After!RemoveWrite, After!At
  <2>4. row \in [st : {"active", "flagged", "removed"}, stars : Ratings, answered : BOOLEAN]
    BY <1>4, <1>5, <2>2, <2>3 DEF ReviewOK
  <2>5. review' = [review EXCEPT ![b] = row]
    BY <2>1, <2>2
  <2>6. row.st = st
    BY <1>4, <2>2 DEF ReviewOK
  <2> QED
    BY <1>3, <1>6, <1>7, <2>1, <2>4, <2>5, <2>6, ReviewRow
<1>13. CASE After!RespondWrite(r)
  <2>1. PICK row : row = [review[b] EXCEPT !.answered = TRUE]
    OBVIOUS
  <2>2. reqs[r].op # "reviewWrite"
    BY <1>13 DEF After!RespondWrite, After!At
  <2>3. row \in [st : {"active", "flagged", "removed"}, stars : Ratings, answered : BOOLEAN]
    BY <1>4, <1>5, <2>1, <2>2 DEF ReviewOK
  <2>4. review' = [review EXCEPT ![b] = row]
    BY <1>2, <1>13, <2>1 DEF After!RespondWrite
  <2>5. Goto(r, Idle)
    BY <1>13, SameHandlers DEF After!RespondWrite
  <2>6. row.st = review[b].st /\ row.stars = review[b].stars
    BY <1>4, <2>1 DEF ReviewOK
  <2> QED
    BY <1>3, <1>6, <1>7, <2>3, <2>4, <2>5, <2>6, ReviewRow
<1> QED
  BY <1>10, <1>11, <1>12, <1>13

\* The rating is counted and stored by two statements.
LEMMA RatingWrites ==
  ASSUME Busied, StayInv, NEW r \in Requests, After!Aggregate(r) \/ After!StoreRating(r)
  PROVE  StayKept
<1>0. reqs[r].op \in {"aggregate", "store"}
  BY DEF After!Aggregate, After!StoreRating, After!At
<1>1. reqs[r] \in StayRecord /\ r \in load.crew /\ reqs[r].op \notin {"refund", "goodwill"}
  BY <1>0, StayAt DEF StayOps
<1>2. ReviewOK /\ RatingOK
  BY StayParts DEF StayInv
<1>3. /\ UNCHANGED <<load, stay, earning, review, ticket, dispute, crashes>>
      /\ ReviewOK' /\ \A b \in Bookings : review[b].st # "none" => review'[b].st # "none"
  BY <1>2 DEF After!Aggregate, After!StoreRating, After!desk, ReviewOK
<1>4. CASE After!Aggregate(r)
  <2>1. After!Counted \subseteq Bookings \X Ratings
    BY <1>2, SameHandlers DEF After!Counted, ReviewOK
  <2>2. CurrentIn(After!Counted)
    BY <1>2, SameHandlers DEF After!Counted, CurrentIn, ReviewOK
  <2>3. PICK counted \in SUBSET (Bookings \X Ratings) : counted = After!Counted
    BY <2>1
  <2>4. PICK rec \in StayRecord : rec = [op |-> "store", counted |-> counted]
    BY DEF StayRecord
  <2>5. StayView(rec)'
    BY <1>3, <2>2, <2>3, <2>4 DEF StayView, CurrentIn
  <2>6. Goto(r, rec) /\ UNCHANGED rating
    BY <1>4, <2>3, <2>4, SameHandlers DEF After!Aggregate
  <2>7. rec \in Record /\ rec.op = "store"
    BY <2>4 DEF Record
  <2>8. reqs'[r].op = "store"
    BY <1>1, <1>3, <2>6, <2>7, BusiedGoto
  <2>9. Rated' /\ RatingOK'
    BY <1>2, <2>6, <2>8 DEF Rated, RatingOK
  <2> QED
    BY <1>1, <1>3, <2>5, <2>6, <2>7, <2>9, RatingSteps
<1>5. CASE After!StoreRating(r)
  <2>1. rating' = reqs[r].counted /\ Goto(r, Idle) /\ reqs[r].op = "store"
    BY <1>5, SameHandlers DEF After!StoreRating, After!At
  <2>2. RatingOK'
    BY <1>1, <2>1, StayFields DEF RatingOK
  <2>3. OneAtATime => CurrentIn(reqs[r].counted)
    BY <2>1 DEF StayInv, StayAsks, StayView
  <2>4. OneAtATime => Rated'
    BY <1>3, <2>1, <2>3 DEF Rated, CurrentIn
  <2>5. StayView(Idle)'
    BY IdleIsNone, OthersClaimNothing
  <2> QED
    BY <1>1, <1>3, <2>1, <2>2, <2>4, <2>5, IdleRecord, RatingSteps
<1> QED
  BY <1>4, <1>5

-----------------------------------------------------------------------------
\* What is written to tickets.
LEMMA DeskSteps ==
  ASSUME Busied, StayInv, UNCHANGED <<load, stay, earning, review, rating, dispute, crashes>>,
         NEW r \in Requests, r \in load.crew, reqs[r].op \notin {"aggregate", "store", "refund", "goodwill"},
         reqs[r] \in StayRecord \/ reqs[r] = Idle,
         NEW rec \in Record, Goto(r, rec), rec.op \in {"idle", "logTicket"},
         TicketOK', LinkOK'
  PROVE  StayKept
<1>1. /\ PaidOK' /\ ReviewOK' /\ RatingOK' /\ DisputeOK' /\ After!DisputedIsHeld'
  BY StayTables, StayParts DEF StayInv
<1>2. StayMoves /\ \A b \in Bookings : stay[b].st = "none" => stay'[b].st = "none"
  BY DEF StayMoves
<1>3. StayFact(rec)' /\ StayView(rec)' /\ rec.op \notin SpaceOps
  BY DEF StayFact, StayView, SpaceOps
<1>4. OneAtATime /\ crashes' = 0 => Rated' /\ Repaid'
  BY RatedStays, RepaidStays DEF SameMoney
<1>5. crashes' \in 0..MaxCrashes
  BY DEF StayInv, After!TypeOK
<1> QED
  BY <1>1, <1>2, <1>3, <1>4, <1>5, StayStep

\* The handler that starts is an idle one of the crew.
LEMMA StayAtStart ==
  ASSUME NEW r, NEW op, After!Starts(r, op)
  PROVE  r \in load.crew /\ reqs[r] = Idle /\ reqs[r].op = "idle"
  BY SameHandlers, IdleIsNone DEF After!Starts

\* A ticket that is there keeps its booking.
LEMMA TicketRow ==
  ASSUME TicketOK, LinkOK, UNCHANGED <<stay, dispute>>,
         NEW t \in After!Tickets,
         NEW row \in [st : {"none", "open", "in_progress", "resolved", "closed"},
                      stay : {0} \cup Bookings, log : SUBSET {"created", "user", "admin"}],
         ticket[t].st # "none" => row.st # "none" /\ row.stay = ticket[t].stay,
         ticket' = [ticket EXCEPT ![t] = row]
  PROVE  TicketOK' /\ LinkOK'
<1>1. TicketOK'
  BY DEF TicketOK
<1>2. LinkOK'
  BY DEF TicketOK, LinkOK
<1> QED
  BY <1>1, <1>2

\* TicketWrite.
LEMMA TicketOpens ==
  ASSUME Busied, StayInv, NEW r \in Requests, NEW b \in {0} \cup Bookings, After!TicketWrite(r, b)
  PROVE  StayKept
<1>0. TicketOK /\ LinkOK
  BY StayParts DEF StayInv
<1>1. PICK t \in After!NextTicket :
        /\ ticket' = [ticket EXCEPT ![t] = [After!NoTicket EXCEPT !.st = "open", !.stay = b]]
        /\ After!Goto(r, [op |-> "logTicket", t |-> t])
  BY DEF After!TicketWrite
<1>2. t \in After!Tickets /\ ticket[t].st = "none"
  BY DEF After!NextTicket
<1>3. PICK row : row = [After!NoTicket EXCEPT !.st = "open", !.stay = b]
  OBVIOUS
<1>4. row \in [st : {"none", "open", "in_progress", "resolved", "closed"},
               stay : {0} \cup Bookings, log : SUBSET {"created", "user", "admin"}]
  BY <1>3 DEF After!NoTicket
<1>5. UNCHANGED <<load, stay, earning, review, rating, dispute, crashes>> /\ After!Starts(r, "ticket")
  BY DEF After!TicketWrite
<1>6. TicketOK' /\ LinkOK'
  BY <1>0, <1>1, <1>2, <1>3, <1>4, <1>5, TicketRow
<1>7. PICK rec \in StayRecord : rec = [op |-> "logTicket", t |-> t]
  BY <1>2 DEF StayRecord
<1>8. rec \in Record /\ rec.op = "logTicket" /\ Goto(r, rec)
  BY <1>1, <1>7, SameHandlers DEF Record
<1> QED
  BY <1>5, <1>6, <1>8, StayAtStart, DeskSteps

\* UpdateTicket.
LEMMA TicketUpdates ==
  ASSUME Busied, StayInv, NEW r \in Requests, NEW t \in After!Tickets,
         NEW st \in {"open", "in_progress", "resolved", "closed"}, NEW note \in BOOLEAN,
         After!UpdateTicket(r, t, st, note)
  PROVE  StayKept
<1>0. TicketOK /\ LinkOK
  BY StayParts DEF StayInv
<1>1. UNCHANGED <<load, stay, earning, review, rating, dispute, crashes, reqs>> /\ After!Starts(r, "update")
  BY DEF After!UpdateTicket
<1>2. r \in load.crew /\ reqs[r] = Idle /\ reqs[r].op = "idle" /\ Goto(r, Idle)
  BY <1>1, StayAtStart, StaysIdle
<1>3. ticket[t] \in [st : {"none", "open", "in_progress", "resolved", "closed"},
                     stay : {0} \cup Bookings, log : SUBSET {"created", "user", "admin"}]
  BY <1>0 DEF TicketOK
<1>4. PICK log \in SUBSET {"created", "user", "admin"} :
        log = ticket[t].log \cup (IF note THEN {"admin"} ELSE {})
  BY <1>3
<1>5. PICK row : row = [ticket[t] EXCEPT !.st = st, !.log = log]
  OBVIOUS
<1>6. ticket' = [ticket EXCEPT ![t] = row]
  BY <1>4, <1>5 DEF After!UpdateTicket
<1>7. /\ row \in [st : {"none", "open", "in_progress", "resolved", "closed"},
                  stay : {0} \cup Bookings, log : SUBSET {"created", "user", "admin"}]
      /\ row.st # "none" /\ row.stay = ticket[t].stay
  BY <1>3, <1>5
<1>8. TicketOK' /\ LinkOK'
  BY <1>0, <1>1, <1>6, <1>7, TicketRow
<1> QED
  BY <1>1, <1>2, <1>8, IdleRecord, DeskSteps

\* LogTicket, MessageWrite.
LEMMA TicketWrites ==
  ASSUME Busied, StayInv, NEW r \in Requests, After!LogTicket(r) \/ After!MessageWrite(r)
  PROVE  StayKept
<1>0. TicketOK /\ LinkOK
  BY StayParts DEF StayInv
<1>1. reqs[r].op \in {"logTicket", "message"}
  BY DEF After!LogTicket, After!MessageWrite, After!At
<1>2. /\ reqs[r] \in StayRecord /\ r \in load.crew /\ reqs[r].t \in After!Tickets
      /\ reqs[r].op \notin {"aggregate", "store", "refund", "goodwill"}
      /\ reqs[r].op = "message" => reqs[r].who \in {"user", "admin"}
  BY <1>1, StayAt, StayFields DEF StayOps
<1>3. PICK t \in After!Tickets : t = reqs[r].t
  BY <1>2
<1>4. UNCHANGED <<load, stay, earning, review, rating, dispute, crashes>> /\ Goto(r, Idle)
  BY SameHandlers DEF After!LogTicket, After!MessageWrite
<1>5. ticket[t].log \in SUBSET {"created", "user", "admin"}
  BY <1>0 DEF TicketOK
<1>6. PICK log \in SUBSET {"created", "user", "admin"} :
        ticket' = [ticket EXCEPT ![t].log = log] \/ UNCHANGED ticket
  <2>1. CASE After!LogTicket(r)
    <3>1. \/ ticket' = [ticket EXCEPT ![t].log = ticket[t].log \cup {"created"}]
          \/ UNCHANGED ticket
      BY <1>3, <2>1 DEF After!LogTicket
    <3> QED
      BY <1>5, <3>1
  <2>2. CASE After!MessageWrite(r)
    <3>1. ticket' = [ticket EXCEPT ![t].log = ticket[t].log \cup {reqs[r].who}]
      BY <1>3, <2>2 DEF After!MessageWrite
    <3>2. reqs[r].who \in {"user", "admin"}
      BY <1>2, <2>2 DEF After!MessageWrite, After!At
    <3> QED
      BY <1>5, <3>1, <3>2
  <2> QED
    BY <2>1, <2>2
<1>7. TicketOK' /\ LinkOK'
  <2>1. CASE UNCHANGED ticket
    BY <1>0, <1>4, <2>1, StayTables
  <2>2. CASE ticket' = [ticket EXCEPT ![t].log = log]
    <3>1. PICK row : row = [ticket[t] EXCEPT !.log = log]
      OBVIOUS
    <3>2. /\ row \in [st : {"none", "open", "in_progress", "resolved", "closed"},
                      stay : {0} \cup Bookings, log : SUBSET {"created", "user", "admin"}]
          /\ row.st = ticket[t].st /\ row.stay = ticket[t].stay
      BY <1>0, <3>1 DEF TicketOK
    <3>3. ticket' = [ticket EXCEPT ![t] = row]
      BY <2>2, <3>1
    <3> QED
      BY <1>0, <1>4, <3>2, <3>3, TicketRow
  <2> QED
    BY <1>6, <2>1, <2>2
<1> QED
  BY <1>2, <1>4, <1>7, IdleRecord, DeskSteps

-----------------------------------------------------------------------------
\* What is written to disputes, to stays and to earnings.

\* A handler's step on these, of bookings that are over.
LEMMA FairSteps ==
  ASSUME Busied, StayInv, UNCHANGED <<load, review, rating>>, crashes' \in 0..MaxCrashes,
         crashes' = crashes \/ crashes' # 0,
         NEW r \in Requests, r \in load.crew, reqs[r] \in StayRecord,
         reqs[r].op \notin {"aggregate", "store"},
         NEW rec \in Record, Goto(r, rec), rec.op \in {"idle", "goodwill", "refund"},
         PaidOK', TicketOK', DisputeOK', LinkOK', After!DisputedIsHeld',
         \A b \in Bookings : stay[b].st = "none" <=> stay'[b].st = "none",
         \A b \in Bookings : dispute[b].st # "none" => dispute'[b].st # "none",
         rec.op # "idle" => stay[rec.b].st # "none" /\ rec.b \in Bookings,
         OneAtATime => StayView(rec)',
         OneAtATime /\ crashes' = 0 => Repaid'
  PROVE  StayKept
<1>1. ReviewOK' /\ RatingOK'
  BY StayParts, StayTables DEF StayInv, ReviewOK
<1>2. StayMoves
  BY DEF StayMoves
<1>3. StayFact(rec)' /\ rec.op \notin SpaceOps
  BY DEF StayFact, SpaceOps
<1>4. OneAtATime /\ crashes' = 0 => Rated'
  <2>1. crashes' = 0 => crashes = 0
    BY DEF StayInv, After!TypeOK
  <2> QED
    BY <2>1, RatedStays
<1> QED
  BY <1>1, <1>2, <1>3, <1>4, StayStep

\* DisputeWrite: the dispute, its ticket and the hold on the earning come in one step.
LEMMA DisputeWrites ==
  ASSUME Busied, StayInv, NEW r \in Requests, After!DisputeWrite(r)
  PROVE  StayKept
<1>0. reqs[r].op = "disputeWrite"
  BY DEF After!DisputeWrite, After!At
<1>1. /\ reqs[r] \in StayRecord /\ r \in load.crew /\ reqs[r].b \in Bookings
      /\ reqs[r].op \notin {"aggregate", "store", "refund", "goodwill"}
  BY <1>0, StayAt, StayFields DEF StayOps
<1>2. PICK b \in Bookings : b = reqs[r].b
  BY <1>1
<1>3. PaidOK /\ TicketOK /\ DisputeOK /\ LinkOK /\ After!DisputedIsHeld
  BY StayParts DEF StayInv
<1>4. stay[b].st # "none"
  BY <1>0, <1>2, <1>3 DEF StayInv, StayAsks, StayFact
<1>5. UNCHANGED <<load, review, rating, crashes>> /\ Goto(r, Idle)
  BY SameHandlers DEF After!DisputeWrite
<1>6. CASE UNCHANGED <<stay, earning, ticket, dispute>>
  <2>1. StayFact(Idle) /\ StayView(Idle) /\ Idle.op \notin SpaceOps
    BY IdleIsNone, OthersClaimNothing
  <2> QED
    BY <1>1, <1>5, <1>6, <2>1, IdleRecord, StayReads DEF after
<1>7. CASE ~UNCHANGED <<stay, earning, ticket, dispute>>
  <2>1. PICK t \in After!NextTicket :
          /\ ticket' = [ticket EXCEPT ![t] = [After!NoTicket EXCEPT !.st = "open", !.stay = b]]
          /\ dispute' = [dispute EXCEPT ![b] = [After!NoDispute EXCEPT !.st = "open", !.ticket = t]]
    BY <1>2, <1>7 DEF After!DisputeWrite, After!desk
  <2>2. /\ dispute[b].st = "none"
        /\ earning' = [earning EXCEPT ![b] = IF earning[b] \in {"pending", "available"} THEN "on_hold"
                                             ELSE earning[b]]
        /\ stay' = [stay EXCEPT ![b].st = "disputed"]
    BY <1>2, <1>7 DEF After!DisputeWrite, After!desk
  <2>3. t \in After!Tickets /\ ticket[t].st = "none"
    BY DEF After!NextTicket
  <2>5. PICK tow : tow = [After!NoTicket EXCEPT !.st = "open", !.stay = b]
    OBVIOUS
  <2>6. PICK dow : dow = [After!NoDispute EXCEPT !.st = "open", !.ticket = t]
    OBVIOUS
  <2>7. ticket' = [ticket EXCEPT ![t] = tow] /\ dispute' = [dispute EXCEPT ![b] = dow]
    BY <2>1, <2>5, <2>6
  <2>8. /\ tow \in [st : {"none", "open", "in_progress", "resolved", "closed"},
                    stay : {0} \cup Bookings, log : SUBSET {"created", "user", "admin"}]
        /\ tow.st = "open" /\ tow.stay = b
    BY <2>5 DEF After!NoTicket
  <2>9. dow \in DisputeRow /\ dow.st = "open" /\ dow.ticket = t /\ dow.how = "none" /\ dow.granted = 0
    BY <2>3, <2>6 DEF After!NoDispute, DisputeRow
  <2>10. TicketOK'
    BY <1>3, <2>3, <2>7, <2>8 DEF TicketOK
  <2>11. DisputeOK'
    BY <1>3, <2>7, <2>9 DEF DisputeOK
  <2>12. /\ \A c \in Bookings : /\ c # b => stay'[c] = stay[c] /\ dispute'[c] = dispute[c]
                                           /\ earning'[c] = earning[c]
                                /\ SameMoney(c)
         /\ stay'[b].st = "disputed" /\ dispute'[b] = dow
         /\ earning'[b] = IF earning[b] \in {"pending", "available"} THEN "on_hold" ELSE earning[b]
    BY <1>3, <2>2, <2>7 DEF PaidOK, DisputeOK, StayRow, SameMoney
  <2>13. PaidOK'
    <3>1. stay' \in [Bookings -> StayRow]
      BY <1>3, <2>2 DEF PaidOK, StayRow
    <3>2. earning' \in [Bookings -> {"none", "pending", "available", "on_hold"}]
      BY <1>3, <2>2 DEF PaidOK
    <3>3. \A c \in Bookings : stay'[c].refunded <= stay'[c].paid
      BY <1>3, <2>12 DEF PaidOK, SameMoney
    <3> QED
      BY <3>1, <3>2, <3>3 DEF PaidOK
  <2>14. LinkOK'
    <3>1. /\ \A u \in After!Tickets : u # t => ticket'[u] = ticket[u]
          /\ ticket'[t] = tow
      BY <1>3, <2>3, <2>7 DEF TicketOK
    <3>2. ASSUME NEW c \in Bookings
          PROVE  /\ dispute'[c].st # "none" =>
                      /\ stay'[c].st # "none" /\ dispute'[c].ticket \in After!Tickets
                      /\ ticket'[dispute'[c].ticket].st # "none" /\ ticket'[dispute'[c].ticket].stay = c
                 /\ dispute'[c].how # "none" => dispute'[c].st = "resolved"
                 /\ dispute'[c].granted # 0 => dispute'[c].how = "credit"
      <4>1. CASE c = b
        BY <2>3, <2>8, <2>9, <2>12, <3>1, <4>1
      <4>2. CASE c # b
        BY <1>3, <2>3, <2>12, <3>1, <4>2 DEF LinkOK
      <4> QED
        BY <4>1, <4>2
    <3> QED
      BY <3>2 DEF LinkOK
  <2>15. After!DisputedIsHeld'
    <3>1. ASSUME NEW c \in Bookings
          PROVE  dispute'[c].st = "open" \/ (OneAtATime /\ dispute'[c].how \in After!Favour)
                   => earning'[c] \notin {"pending", "available"}
      <4>1. CASE c = b
        BY <2>12, <4>1
      <4>2. CASE c # b
        BY <1>3, <2>12, <4>2, SameHandlers DEF After!DisputedIsHeld
      <4> QED
        BY <4>1, <4>2
    <3>2. After!OneAtATime' <=> OneAtATime
      BY <1>5, SameHandlers DEF After!OneAtATime
    <3> QED
      BY <3>1, <3>2, SameHandlers DEF After!DisputedIsHeld
  <2>16. /\ \A c \in Bookings : stay[c].st = "none" <=> stay'[c].st = "none"
         /\ \A c \in Bookings : dispute[c].st # "none" => dispute'[c].st # "none"
         /\ \A c \in Bookings : /\ dispute'[c].how \in {dispute[c].how, "none"}
                                /\ dispute'[c].granted = dispute[c].granted
    <3>1. dispute[b].granted = 0
      BY <1>3, <2>2 DEF LinkOK
    <3> QED
      BY <1>4, <2>2, <2>9, <2>12, <3>1
  <2>17. OneAtATime /\ crashes' = 0 => Repaid'
    BY <1>1, <1>5, <2>12, <2>16, RepaidStays
  <2>18. crashes' \in 0..MaxCrashes
    BY <1>5 DEF StayInv, After!TypeOK
  <2> QED
    BY <1>1, <1>5, <2>10, <2>11, <2>13, <2>14, <2>15, <2>16, <2>17, <2>18, IdleRecord, IdleIsNone,
       OthersClaimNothing, FairSteps
<1> QED
  BY <1>6, <1>7

\* What a resolution goes on to: a refund of an amount, credit, or nothing.
LEMMA ResolveGoesOn ==
  ASSUME NEW r, NEW q, After!ResolveWrite(r), q = reqs[r], q.b \in Bookings, q.how \in After!Kinds,
         q.amount \in Given, q.payment \in BOOLEAN
  PROVE  \E rec \in Record :
           /\ After!Goto(r, rec) /\ rec.op \in {"idle", "goodwill", "refund"}
           /\ rec.op = "goodwill" => rec.b = q.b /\ rec.amount = q.amount
           /\ q.how = "credit" <=> rec.op = "goodwill"
           /\ rec.op = "refund" => rec.b = q.b /\ q.payment
           /\ q.how = "refund" /\ q.payment => rec.op = "refund" /\ rec.amount = Price
<1> USE LifeAssumption
<1>1. CASE q.how = "credit"
  <2>1. PICK rec \in StayRecord : rec = [op |-> "goodwill", b |-> q.b, amount |-> q.amount]
    BY DEF StayRecord
  <2>2. After!Goto(r, rec)
    BY <1>1, <2>1 DEF After!ResolveWrite
  <2> QED
    BY <1>1, <2>1, <2>2 DEF Record
<1>2. CASE q.how \in {"refund", "partial_refund"} /\ q.payment
  <2>1. PICK amount \in Given : amount = IF q.how = "refund" THEN Price ELSE q.amount
    OBVIOUS
  <2>2. PICK rec \in StayRecord : rec = [op |-> "refund", b |-> q.b, amount |-> amount]
    BY DEF StayRecord
  <2>3. After!Goto(r, rec)
    BY <1>2, <2>1, <2>2 DEF After!ResolveWrite
  <2> QED
    BY <1>2, <2>1, <2>2, <2>3 DEF Record
<1>3. CASE q.how # "credit" /\ ~(q.how \in {"refund", "partial_refund"} /\ q.payment)
  <2>1. After!Goto(r, Idle)
    BY <1>3, SameHandlers DEF After!ResolveWrite, After!Done
  <2> QED
    BY <1>3, <2>1, IdleRecord
<1> QED
  BY <1>1, <1>2, <1>3

\* ResolveWrite: a lone handler has still to make the refund it has promised, and a hold is
\* lifted only where the host has won.
LEMMA ResolveWrites ==
  ASSUME Busied, StayInv, NEW r \in Requests, After!ResolveWrite(r)
  PROVE  StayKept
<1>0. reqs[r].op = "resolveWrite"
  BY DEF After!ResolveWrite, After!At
<1>1. /\ reqs[r] \in StayRecord /\ r \in load.crew /\ reqs[r].b \in Bookings
      /\ reqs[r].op \notin {"aggregate", "store", "refund", "goodwill"}
      /\ reqs[r].how \in After!Kinds /\ reqs[r].amount \in Given
      /\ reqs[r].cancelled \in BOOLEAN /\ reqs[r].payment \in BOOLEAN
  BY <1>0, StayAt, StayFields DEF StayOps
<1>2. PICK q : q = reqs[r]
  OBVIOUS
<1>3. PICK b \in Bookings, how \in After!Kinds : b = q.b /\ how = q.how
  BY <1>1, <1>2
<1>4. PICK rec \in Record :
        /\ After!Goto(r, rec) /\ rec.op \in {"idle", "goodwill", "refund"}
        /\ rec.op = "goodwill" => rec.b = b /\ rec.amount = q.amount
        /\ how = "credit" <=> rec.op = "goodwill"
        /\ rec.op = "refund" => rec.b = b /\ q.payment
        /\ how = "refund" /\ q.payment => rec.op = "refund" /\ rec.amount = Price
  BY <1>1, <1>2, <1>3, ResolveGoesOn
<1>5. PaidOK /\ TicketOK /\ DisputeOK /\ LinkOK /\ After!DisputedIsHeld
  BY StayParts DEF StayInv
<1>6. /\ stay[b].st # "none" /\ dispute[b].st # "none"
      /\ dispute[b].ticket \in After!Tickets /\ ticket[dispute[b].ticket].st # "none"
  BY <1>0, <1>2, <1>3, <1>5 DEF StayInv, StayAsks, StayFact, PaidOK, LinkOK
<1>7. OneAtATime => dispute[b].st = "open" /\ (q.payment <=> After!Refundable(b))
  BY <1>0, <1>2, <1>3 DEF StayInv, StayAsks, StayView
<1>8. UNCHANGED <<load, review, rating, crashes>> /\ Goto(r, rec)
  BY <1>4, SameHandlers DEF After!ResolveWrite
<1>9. PICK t \in After!Tickets : t = dispute[b].ticket
  BY <1>6
<1>10. PICK tow : tow = [ticket[t] EXCEPT !.st = "resolved"]
  OBVIOUS
<1>10a. PICK granted \in {0} \cup Given : granted = IF how = "credit" THEN q.amount ELSE 0
  BY <1>1, <1>2
<1>11. PICK dow : dow = [dispute[b] EXCEPT !.st = "resolved", !.how = how, !.granted = granted]
  OBVIOUS
<1>12. /\ ticket' = [ticket EXCEPT ![t] = tow] /\ dispute' = [dispute EXCEPT ![b] = dow]
       /\ \/ earning' = earning
          \/ how = "no_action" /\ earning' = [earning EXCEPT ![b] = "available"]
  <2>1. ticket' = [ticket EXCEPT ![t] = tow]
    <3>1. ticket' = [ticket EXCEPT ![t].st = "resolved"]
      BY <1>2, <1>3, <1>9 DEF After!ResolveWrite
    <3> QED
      BY <1>10, <3>1
  <2>2. dispute' = [dispute EXCEPT ![b] = dow]
    <3>1. dispute' = [dispute EXCEPT ![b] = [dispute[b] EXCEPT !.st = "resolved", !.how = how,
                                               !.granted = granted]]
      BY <1>2, <1>3, <1>10a DEF After!ResolveWrite
    <3> QED
      BY <1>11, <3>1
  <2>3. \/ earning' = earning
        \/ how = "no_action" /\ earning' = [earning EXCEPT ![b] = "available"]
    BY <1>2, <1>3 DEF After!ResolveWrite
  <2> QED
    BY <2>1, <2>2, <2>3
<1>13. PICK st \in {"completed", "cancelled"} : stay' = [stay EXCEPT ![b].st = st]
  BY <1>2, <1>3 DEF After!ResolveWrite
<1>14. /\ tow \in [st : {"none", "open", "in_progress", "resolved", "closed"},
                   stay : {0} \cup Bookings, log : SUBSET {"created", "user", "admin"}]
       /\ tow.st = "resolved" /\ tow.stay = ticket[t].stay
  BY <1>5, <1>10 DEF TicketOK
<1>15. /\ dow \in DisputeRow /\ dow.st = "resolved" /\ dow.ticket = t
       /\ dow.how = how /\ dow.granted = granted
  BY <1>5, <1>9, <1>11 DEF DisputeOK, DisputeRow
<1>16. TicketOK'
  BY <1>5, <1>12, <1>14 DEF TicketOK
<1>17. DisputeOK'
  BY <1>5, <1>12, <1>15 DEF DisputeOK
<1>18. /\ \A c \in Bookings : /\ c # b => stay'[c] = stay[c] /\ dispute'[c] = dispute[c]
                                          /\ earning'[c] = earning[c]
                              /\ SameMoney(c)
       /\ stay'[b].st = st /\ dispute'[b] = dow
       /\ earning'[b] # earning[b] => how = "no_action"
  BY <1>5, <1>6, <1>12, <1>13 DEF PaidOK, DisputeOK, StayRow, SameMoney
<1>19. PaidOK'
  <2>1. stay' \in [Bookings -> StayRow]
    BY <1>5, <1>13 DEF PaidOK, StayRow
  <2>2. earning' \in [Bookings -> {"none", "pending", "available", "on_hold"}]
    BY <1>5, <1>12 DEF PaidOK
  <2>3. \A c \in Bookings : stay'[c].refunded <= stay'[c].paid
    BY <1>5, <1>18 DEF PaidOK, SameMoney
  <2> QED
    BY <2>1, <2>2, <2>3 DEF PaidOK
<1>20. LinkOK'
  <2>1. /\ \A u \in After!Tickets : u # t => ticket'[u] = ticket[u]
        /\ ticket'[t] = tow
    BY <1>5, <1>12 DEF TicketOK
  <2>2. \A u \in After!Tickets : /\ ticket[u].st # "none" => ticket'[u].st # "none"
                                 /\ ticket'[u].stay = ticket[u].stay
    BY <1>14, <2>1
  <2>3. ASSUME NEW c \in Bookings
        PROVE  /\ dispute'[c].st # "none" =>
                    /\ stay'[c].st # "none" /\ dispute'[c].ticket \in After!Tickets
                    /\ ticket'[dispute'[c].ticket].st # "none" /\ ticket'[dispute'[c].ticket].stay = c
               /\ dispute'[c].how # "none" => dispute'[c].st = "resolved"
               /\ dispute'[c].granted # 0 => dispute'[c].how = "credit"
    <3>1. CASE c = b
      BY <1>5, <1>6, <1>9, <1>10a, <1>15, <1>18, <2>2, <3>1 DEF LinkOK
    <3>2. CASE c # b
      BY <1>5, <1>18, <2>2, <3>2 DEF LinkOK
    <3> QED
      BY <3>1, <3>2
  <2> QED
    BY <2>3 DEF LinkOK
<1>21. After!DisputedIsHeld'
  <2>1. ASSUME NEW c \in Bookings
        PROVE  dispute'[c].st = "open" \/ (OneAtATime /\ dispute'[c].how \in After!Favour)
                 => earning'[c] \notin {"pending", "available"}
    <3>1. CASE c = b
      <4>1. OneAtATime => earning[b] \notin {"pending", "available"}
        BY <1>5, <1>7, SameHandlers DEF After!DisputedIsHeld
      <4>2. how \in After!Favour => earning'[b] = earning[b]
        BY <1>18 DEF After!Favour
      <4> QED
        BY <1>15, <1>18, <3>1, <4>1, <4>2
    <3>2. CASE c # b
      BY <1>5, <1>18, <3>2, SameHandlers DEF After!DisputedIsHeld
    <3> QED
      BY <3>1, <3>2
  <2>2. After!OneAtATime' <=> OneAtATime
    BY <1>8, SameHandlers DEF After!OneAtATime
  <2> QED
    BY <2>1, <2>2, SameHandlers DEF After!DisputedIsHeld
<1>22. /\ \A c \in Bookings : stay[c].st = "none" <=> stay'[c].st = "none"
       /\ \A c \in Bookings : dispute[c].st # "none" => dispute'[c].st # "none"
  BY <1>6, <1>15, <1>18
<1>23. OneAtATime => StayView(rec)'
  <2>1. OneAtATime /\ rec.op = "refund" => After!Refundable(b)'
    BY <1>4, <1>7, <1>18 DEF After!Refundable, SameMoney
  <2>2. ASSUME OneAtATime, rec.op = "goodwill", crashes' = 0
        PROVE  stay'[b].credited = 0 /\ dispute'[b].granted = rec.amount
    <3>1. stay[b].credited = dispute[b].granted
      BY <1>1, <1>8, <2>2, CreditedAlone
    <3>2. dispute[b].granted = 0
      BY <1>5, <1>7, <2>2 DEF LinkOK
    <3>3. stay'[b].credited = 0
      BY <1>18, <3>1, <3>2 DEF SameMoney
    <3> QED
      BY <1>4, <1>10a, <1>15, <1>18, <2>2, <3>3
  <2> QED
    BY <1>4, <2>1, <2>2 DEF StayView, After!Refundable
<1>24. OneAtATime /\ crashes' = 0 => Repaid'
  <2> SUFFICES ASSUME OneAtATime, crashes' = 0, NEW c \in Bookings
               PROVE  /\ stay'[c].end # "suspended" => stay'[c].returned = 0
                      /\ dispute'[c].how = "refund" /\ stay'[c].refunded # stay'[c].paid =>
                           \E p \in Requests : reqs'[p].op = "refund" /\ reqs'[p].b = c
                                               /\ reqs'[p].amount = Price
                      /\ stay'[c].credited # dispute'[c].granted =>
                           \E p \in Requests : reqs'[p].op = "goodwill" /\ reqs'[p].b = c
    BY DEF Repaid
  <2>1. crashes = 0
    BY <1>8
  <2>2. /\ stay'[c].end # "suspended" => stay'[c].returned = 0
        /\ stay[c].credited = dispute[c].granted
    BY <1>1, <1>18, <2>1, CreditedAlone DEF StayInv, Repaid, SameMoney
  <2>3. CASE c = b
    <3>1. stay[b].refunded \in 0..Price /\ stay[b].paid \in 0..Price /\ stay[b].refunded <= stay[b].paid
      BY <1>5, LifeAssumption DEF PaidOK, StayRow
    <3>2. stay[b].refunded # stay[b].paid => q.payment
      BY <1>7, <3>1 DEF After!Refundable
    <3>3. reqs'[r] = rec
      BY <1>1, <1>8, BusiedGoto
    <3>4. dispute'[b].granted # 0 => rec.op = "goodwill" /\ rec.b = b
      BY <1>4, <1>10a, <1>15, <1>18
    <3>5. stay[b].credited = 0
      BY <1>5, <1>7, <2>2, <2>3 DEF LinkOK
    <3> QED
      BY <1>4, <1>15, <1>18, <2>2, <2>3, <3>2, <3>3, <3>4, <3>5 DEF SameMoney
  <2>4. CASE c # b
    <3>1. dispute[c].how = "refund" => stay[c].refunded = stay[c].paid
      BY <1>1, <2>1, RepaidAlone
    <3> QED
      BY <1>18, <2>2, <2>4, <3>1
  <2> QED
    BY <2>3, <2>4
<1>25. crashes' \in 0..MaxCrashes
  BY <1>8 DEF StayInv, After!TypeOK
<1>26. rec.op # "idle" => stay[rec.b].st # "none" /\ rec.b \in Bookings
  BY <1>4, <1>6
<1> QED
  BY <1>1, <1>4, <1>8, <1>16, <1>17, <1>19, <1>20, <1>21, <1>22, <1>23, <1>24, <1>25, <1>26, FairSteps

\* A refund is made or thrown back.
LEMMA RefundWrites ==
  ASSUME Busied, StayInv, NEW r \in Requests, After!Refund(r) \/ After!RefundThrows(r)
  PROVE  StayKept
<1>0. reqs[r].op = "refund"
  BY DEF After!Refund, After!RefundThrows, After!At
<1>1. /\ reqs[r] \in StayRecord /\ r \in load.crew /\ reqs[r].b \in Bookings
      /\ reqs[r].op \notin {"aggregate", "store"} /\ reqs[r].amount \in Given
  BY <1>0, StayAt, StayFields DEF StayOps
<1>2. PICK b \in Bookings, amount \in Given : b = reqs[r].b /\ amount = reqs[r].amount
  BY <1>1
<1>3. PaidOK /\ TicketOK /\ DisputeOK /\ LinkOK /\ After!DisputedIsHeld
  BY StayParts DEF StayInv
<1>4. /\ stay[b].refunded \in 0..Price /\ stay[b].paid \in 0..Price /\ stay[b].returned \in Nat
      /\ stay[b].refunded <= stay[b].paid /\ Price \in Nat /\ amount \in Nat
  BY <1>3, LifeAssumption DEF PaidOK, StayRow
<1>5. UNCHANGED <<load, earning, review, rating, ticket, dispute>> /\ Goto(r, Idle)
  BY SameHandlers DEF After!Refund, After!RefundThrows, After!desk
<1>6. crashes' \in 0..MaxCrashes /\ (crashes' = crashes \/ crashes' # 0)
  <2>1. load \in Workloads /\ crashes \in 0..MaxCrashes
    BY DEF StayInv, After!TypeOK
  <2>2. load.crashes \in 0..MaxCrashes /\ MaxCrashes \in Nat
    BY <2>1, HandlersAssumption
  <2> QED
    BY <2>1, <2>2 DEF After!Refund, After!RefundThrows
<1> DEFINE Made(row) ==
      /\ stay' = [stay EXCEPT ![b] = row]
      /\ row \in StayRow /\ row.refunded <= row.paid
      /\ row.st = stay[b].st /\ row.end = stay[b].end /\ row.paid = stay[b].paid
      /\ row.credited = stay[b].credited
      /\ OneAtATime /\ crashes' = 0 =>
           /\ crashes = 0 /\ row.returned = stay[b].returned
           /\ dispute[b].how = "refund" => row.refunded = row.paid
<1>7. ASSUME After!Refund(r) PROVE \E row : Made(row)
  <2>1. PICK refunded \in 0..Price :
          /\ refunded = IF stay[b].paid <= stay[b].refunded + amount THEN stay[b].paid
                        ELSE stay[b].refunded + amount
          /\ refunded <= stay[b].paid
    BY <1>4
  <2>2. stay' = [stay EXCEPT ![b].refunded = refunded] /\ crashes' = crashes
    BY <1>2, <1>7, <2>1 DEF After!Refund, After!Least
  <2>3. PICK row : row = [stay[b] EXCEPT !.refunded = refunded]
    OBVIOUS
  <2>4. /\ row \in StayRow /\ row.returned = stay[b].returned /\ row.refunded = refunded
        /\ row.st = stay[b].st /\ row.end = stay[b].end /\ row.paid = stay[b].paid
        /\ row.credited = stay[b].credited
    BY <1>3, <2>3 DEF PaidOK, StayRow
  <2>5. ASSUME OneAtATime, crashes' = 0, dispute[b].how = "refund" PROVE refunded = stay[b].paid
    <3>1. stay[b].refunded # stay[b].paid
      BY <1>2, <1>4, <1>7 DEF After!Refund, After!Refundable
    <3>2. reqs[r].amount = Price
      BY <1>1, <2>2, <2>5, <3>1, RepaidAlone
    <3> QED
      BY <1>2, <1>4, <2>1, <3>2
  <2>6. stay' = [stay EXCEPT ![b] = row]
    BY <2>2, <2>3
  <2>7. Made(row)
    BY <2>1, <2>2, <2>4, <2>5, <2>6
  <2> HIDE DEF Made
  <2> QED
    BY <2>7
<1>8. ASSUME After!RefundThrows(r) PROVE \E row : Made(row)
  <2>1. PICK returned \in Nat : returned = stay[b].returned + amount
    BY <1>4
  <2>2. stay' = [stay EXCEPT ![b].returned = returned]
    BY <1>2, <1>8, <2>1 DEF After!RefundThrows
  <2>3. PICK row : row = [stay[b] EXCEPT !.returned = returned]
    OBVIOUS
  <2>4. /\ row \in StayRow /\ row.refunded = stay[b].refunded
        /\ row.st = stay[b].st /\ row.end = stay[b].end /\ row.paid = stay[b].paid
        /\ row.credited = stay[b].credited
    BY <1>3, <2>3 DEF PaidOK, StayRow
  <2>5. ~(OneAtATime /\ crashes' = 0)
    <3>1. OneAtATime => After!Refundable(b)
      BY <1>0, <1>2 DEF StayInv, StayAsks, StayView
    <3>2. crashes \in Nat
      BY DEF StayInv, After!TypeOK
    <3> QED
      BY <1>2, <1>8, <3>1, <3>2 DEF After!RefundThrows
  <2>6. stay' = [stay EXCEPT ![b] = row]
    BY <2>2, <2>3
  <2>7. Made(row)
    BY <1>4, <2>4, <2>5, <2>6
  <2> HIDE DEF Made
  <2> QED
    BY <2>7
<1>9. PICK row : Made(row)
  <2> HIDE DEF Made
  <2> QED
    BY <1>7, <1>8
<1>10. /\ stay' \in [Bookings -> StayRow]
       /\ stay'[b] = row /\ \A c \in Bookings : c # b => stay'[c] = stay[c]
  BY <1>3, <1>9 DEF PaidOK
<1>11. \A c \in Bookings : stay'[c].st = stay[c].st
  BY <1>9, <1>10
<1>12. PaidOK' /\ LinkOK'
  <2>1. \A c \in Bookings : stay'[c].refunded <= stay'[c].paid
    BY <1>3, <1>9, <1>10 DEF PaidOK
  <2> QED
    BY <1>3, <1>5, <1>10, <1>11, <2>1 DEF PaidOK, LinkOK
<1>13. TicketOK' /\ DisputeOK' /\ After!DisputedIsHeld'
  BY <1>3, <1>5, StayTables
<1>14. OneAtATime /\ crashes' = 0 => Repaid'
  <2> SUFFICES ASSUME OneAtATime, crashes' = 0, NEW c \in Bookings
               PROVE  /\ stay'[c].end # "suspended" => stay'[c].returned = 0
                      /\ dispute'[c].how = "refund" => stay'[c].refunded = stay'[c].paid
                      /\ stay'[c].credited = dispute'[c].granted
    BY DEF Repaid
  <2>1. crashes = 0 /\ (stay[c].end # "suspended" => stay[c].returned = 0)
    BY <1>9 DEF StayInv, Repaid
  <2>2. stay[c].credited = dispute[c].granted
    BY <1>0, <1>1, <2>1, CreditedAlone
  <2>3. CASE c = b
    BY <1>5, <1>9, <1>10, <2>1, <2>2, <2>3
  <2>4. CASE c # b
    <3>1. dispute[c].how = "refund" => stay[c].refunded = stay[c].paid
      BY <1>1, <1>2, <2>1, <2>4, RepaidAlone
    <3> QED
      BY <1>5, <1>10, <2>1, <2>2, <2>4, <3>1
  <2> QED
    BY <2>3, <2>4
<1> QED
  BY <1>1, <1>5, <1>6, <1>11, <1>12, <1>13, <1>14, IdleRecord, IdleIsNone, OthersClaimNothing, FairSteps

\* Goodwill: what a lone handler credits was decided on, and had not been credited.
LEMMA GoodwillEnds ==
  ASSUME Busied, StayInv, NEW r \in Requests, After!Goodwill(r)
  PROVE  StayKept
<1>0. reqs[r].op = "goodwill"
  BY DEF After!Goodwill, After!At
<1>1. /\ reqs[r] \in StayRecord /\ r \in load.crew /\ reqs[r].b \in Bookings
      /\ reqs[r].op \notin {"aggregate", "store"} /\ reqs[r].amount \in Given
  BY <1>0, StayAt, StayFields DEF StayOps
<1>2. PICK b \in Bookings, amount \in Given : b = reqs[r].b /\ amount = reqs[r].amount
  BY <1>1
<1>3. PaidOK /\ TicketOK /\ DisputeOK /\ LinkOK /\ After!DisputedIsHeld
  BY StayParts DEF StayInv
<1>4. PICK credited \in Nat : credited = stay[b].credited + amount
  BY <1>3, LifeAssumption DEF PaidOK, StayRow
<1>5. UNCHANGED <<load, earning, review, rating, ticket, dispute, crashes>> /\ Goto(r, Idle)
  BY SameHandlers DEF After!Goodwill, After!desk
<1>6. stay' = [stay EXCEPT ![b].credited = credited]
  BY <1>2, <1>4 DEF After!Goodwill
<1>7. /\ stay' \in [Bookings -> StayRow]
      /\ \A c \in Bookings : /\ stay'[c].st = stay[c].st /\ stay'[c].end = stay[c].end
                             /\ stay'[c].paid = stay[c].paid /\ stay'[c].refunded = stay[c].refunded
                             /\ stay'[c].returned = stay[c].returned
      /\ stay'[b].credited = credited
      /\ \A c \in Bookings : c # b => stay'[c].credited = stay[c].credited
  BY <1>3, <1>6 DEF PaidOK, StayRow
<1>8. PaidOK' /\ LinkOK'
  BY <1>3, <1>5, <1>7 DEF PaidOK, LinkOK
<1>9. TicketOK' /\ DisputeOK' /\ After!DisputedIsHeld'
  BY <1>3, <1>5, StayTables
<1>10. OneAtATime /\ crashes' = 0 => Repaid'
  <2> SUFFICES ASSUME OneAtATime, crashes' = 0, NEW c \in Bookings
               PROVE  /\ stay'[c].end # "suspended" => stay'[c].returned = 0
                      /\ dispute'[c].how = "refund" => stay'[c].refunded = stay'[c].paid
                      /\ stay'[c].credited = dispute'[c].granted
    BY DEF Repaid
  <2>1. crashes = 0 /\ (stay[c].end # "suspended" => stay[c].returned = 0)
    BY <1>5 DEF StayInv, Repaid
  <2>2. dispute[c].how = "refund" => stay[c].refunded = stay[c].paid
    BY <1>0, <1>1, <2>1, RepaidAlone
  <2>3. CASE c = b
    <3>1. stay[b].credited = 0 /\ dispute[b].granted = amount
      BY <1>0, <1>2, <2>1 DEF StayInv, StayAsks, StayView
    <3>2. credited = amount
      BY <1>4, <3>1, LifeAssumption
    <3> QED
      BY <1>5, <1>7, <2>1, <2>2, <2>3, <3>1, <3>2
  <2>4. CASE c # b
    <3>1. stay[c].credited = dispute[c].granted
      BY <1>1, <1>2, <2>1, <2>4, CreditedAlone
    <3> QED
      BY <1>5, <1>7, <2>1, <2>2, <2>4, <3>1
  <2> QED
    BY <2>3, <2>4
<1>11. crashes' \in 0..MaxCrashes
  BY <1>5 DEF StayInv, After!TypeOK
<1> QED
  BY <1>1, <1>5, <1>7, <1>8, <1>9, <1>10, <1>11, IdleRecord, IdleIsNone, OthersClaimNothing, FairSteps

-----------------------------------------------------------------------------
\* What no handler does.

\* The handlers, what they know and what they have still to do are as they were.
LEMMA StayPasses ==
  ASSUME Busied, StayInv, UNCHANGED <<load, reqs, crashes, review, rating, dispute>>,
         PaidOK', ReviewOK', TicketOK', LinkOK', After!DisputedIsHeld',
         \A b \in Bookings :
           \/ stay'[b] = stay[b]
           \/ /\ stay[b].st = "none" /\ stay'[b].st # "none" /\ stay'[b].credited = 0
              /\ stay'[b].end # "suspended" => stay'[b].returned = 0
  PROVE  StayInv' /\ Busied'
<1>1. RatingOK' /\ DisputeOK' /\ MeterOK'
  BY StayParts, StayTables DEF StayInv, MeterOK
<1>2. After!TypeOK' /\ Filed'
  BY <1>1, StayParts
<1>3. Busied'
  BY DEF Busied
<1>4. StayAsks'
  <2>1. \A q \in Requests : reqs[q] \in Record
    BY DEF Busied
  <2>2. StayMoves
    BY DEF StayMoves
  <2>3. ASSUME NEW q \in Requests PROVE StayFact(reqs[q])'
    <3>1. PICK rq \in Record : rq = reqs[q] /\ rq = reqs'[q] /\ StayFact(rq)
      BY <2>1 DEF StayInv, StayAsks
    <3>2. StayFact(rq)'
      BY <2>2, <3>1, StayFactStays
    <3> QED
      BY <3>1, <3>2 DEF StayFact
  <2>4. ASSUME NEW q \in Requests, OneAtATime PROVE StayView(reqs[q])'
    <3>1. PICK rq \in Record : rq = reqs[q] /\ rq = reqs'[q] /\ StayFact(rq) /\ StayView(rq)
      BY <2>1, <2>4 DEF StayInv, StayAsks
    <3>2. rq.op \in {"resolveWrite", "refund", "goodwill"} => rq.b \in Bookings /\ stay[rq.b].st # "none"
      BY <3>1, RecordIsOne, StayFields DEF StayFact, StayOps
    <3>3. StayView(rq)'
      BY <3>1, <3>2 DEF StayView, CurrentIn, After!Refundable
    <3> QED
      BY <3>1, <3>3 DEF StayView, CurrentIn, After!Refundable
  <2> QED
    BY <2>3, <2>4 DEF StayAsks, OneAtATime
<1>5. OneAtATime' /\ crashes' = 0 => Rated' /\ Repaid'
  <2> SUFFICES ASSUME OneAtATime', crashes' = 0 PROVE Rated' /\ Repaid'
    OBVIOUS
  <2>1. Rated /\ Repaid
    BY DEF StayInv, OneAtATime
  <2>2. Rated'
    BY <2>1 DEF Rated, CurrentIn
  <2>3. \A b \in Bookings : stay[b].st = "none" => dispute[b].how = "none" /\ dispute[b].granted = 0
    BY StayParts DEF StayInv, LinkOK
  <2>4. Repaid'
    BY <2>1, <2>3 DEF Repaid
  <2> QED
    BY <2>2, <2>4
<1> QED
  BY <1>2, <1>3, <1>4, <1>5 DEF StayInv

\* Release: a held earning stays held.
LEMMA ReleaseKeeps ==
  ASSUME Busied, StayInv, NEW b \in Bookings, After!Release(b)
  PROVE  StayKept
<1>1. /\ UNCHANGED <<load, stay, review, rating, ticket, dispute, reqs, crashes>>
      /\ earning[b] = "pending" /\ earning' = [earning EXCEPT ![b] = "available"]
  BY DEF After!Release, After!desk
<1>2. PaidOK /\ After!DisputedIsHeld
  BY StayParts DEF StayInv
<1>3. PaidOK'
  BY <1>1, <1>2 DEF PaidOK
<1>4. After!DisputedIsHeld'
  <2>1. \A c \in Bookings : earning[c] \notin {"pending", "available"} => earning'[c] = earning[c]
    BY <1>1, <1>2 DEF PaidOK
  <2> QED
    BY <1>1, <1>2, <2>1, SameHandlers DEF After!DisputedIsHeld, After!OneAtATime
<1>5. ReviewOK' /\ TicketOK' /\ LinkOK'
  BY <1>1, StayParts, StayTables DEF StayInv
<1>6. StayInv' /\ Busied'
  BY <1>1, <1>3, <1>4, <1>5, StayPasses
<1> QED
  BY <1>1, <1>6 DEF StayKept, SpaceRests, StayInv, After!TypeOK

\* StayEnds.
LEMMA EndsKeeps ==
  ASSUME Busied, StayInv, NEW b \in Bookings, NEW end \in After!Endings, NEW paid \in {0, Price},
         NEW back \in 0..Price, After!StayEnds(b, end, paid, back)
  PROVE  /\ StayInv' /\ Busied' /\ UNCHANGED <<load, reqs, crashes>>
         /\ stay'[b].st # "none" /\ \A c \in Bookings : c # b => stay'[c] = stay[c]
<1>1. UNCHANGED <<load, review, rating, ticket, dispute, reqs, crashes>> /\ stay[b].st = "none"
  BY DEF After!StayEnds, After!desk
<1>2. /\ PaidOK /\ ReviewOK /\ TicketOK /\ LinkOK /\ After!DisputedIsHeld
      /\ Price \in Nat
  BY StayParts, LifeAssumption DEF StayInv
<1>2a. PICK st \in {"completed", "cancelled"} : st = IF end = "completed" THEN "completed" ELSE "cancelled"
  OBVIOUS
<1>2b. PICK refunded \in 0..Price : refunded = IF end = "suspended" THEN 0 ELSE back
  BY <1>2
<1>2c. PICK returned \in 0..Price : returned = IF end = "suspended" THEN back ELSE 0
  BY <1>2
<1>3. PICK row : row = [st |-> st, end |-> end, paid |-> paid, refunded |-> refunded,
                        returned |-> returned, credited |-> 0]
  OBVIOUS
<1>4. stay' = [stay EXCEPT ![b] = row]
  <2>1. stay' = [stay EXCEPT ![b] = [After!NoStay EXCEPT !.st = st, !.end = end, !.paid = paid,
                                       !.refunded = refunded, !.returned = returned]]
    BY <1>2a, <1>2b, <1>2c, Zenon DEF After!StayEnds
  <2>2. row = [After!NoStay EXCEPT !.st = st, !.end = end, !.paid = paid,
                                   !.refunded = refunded, !.returned = returned]
    <3>1. PICK none : none = After!NoStay
      OBVIOUS
    <3>2. none = [st |-> "none", end |-> "none", paid |-> 0, refunded |-> 0, returned |-> 0,
                  credited |-> 0]
      BY <3>1 DEF After!NoStay
    <3>3. PICK new : new = [none EXCEPT !.st = st, !.end = end, !.paid = paid,
                                        !.refunded = refunded, !.returned = returned]
      OBVIOUS
    <3>4. DOMAIN none = {"st", "end", "paid", "refunded", "returned", "credited"}
      BY <3>2
    <3>5. DOMAIN new = DOMAIN none
      BY <3>3
    <3>6. /\ new.st = st /\ new.end = end /\ new.paid = paid /\ new.refunded = refunded
          /\ new.returned = returned /\ new.credited = 0
      BY <3>2, <3>3, <3>4
    <3>7. new = row
      BY <1>3, <3>2, <3>3, <3>4, <3>5, <3>6
    <3> QED
      BY <3>1, <3>3, <3>7
  <2> QED
    BY <2>1, <2>2
<1>5. PICK left \in {"none", "pending", "on_hold"} : earning' = [earning EXCEPT ![b] = left]
  <2>1. After!EarningsLeft(end, paid) \subseteq {"none", "pending", "on_hold"}
    BY DEF After!EarningsLeft, After!Endings
  <2> QED
    BY <2>1 DEF After!StayEnds
<1>6. /\ row \in StayRow /\ row.st # "none" /\ row.credited = 0 /\ row.refunded <= row.paid
      /\ row.end # "suspended" => row.returned = 0
  <2>1. refunded <= paid
    BY <1>2, <1>2b DEF After!StayEnds
  <2>2. end # "suspended" => returned = 0
    BY <1>2c
  <2> QED
    BY <1>2, <1>3, <2>1, <2>2 DEF StayRow, After!Endings
<1>7. /\ stay'[b] = row /\ \A c \in Bookings : c # b => stay'[c] = stay[c]
      /\ \A c \in Bookings : c # b => earning'[c] = earning[c]
      /\ \A c \in Bookings : stay[c].st # "none" => stay'[c] = stay[c]
  BY <1>1, <1>2, <1>4, <1>5 DEF PaidOK
<1>8. PaidOK'
  <2>1. stay' \in [Bookings -> StayRow]
    BY <1>2, <1>4, <1>6 DEF PaidOK
  <2>2. earning' \in [Bookings -> {"none", "pending", "available", "on_hold"}]
    BY <1>2, <1>5 DEF PaidOK
  <2>3. \A c \in Bookings : stay'[c].refunded <= stay'[c].paid
    BY <1>2, <1>6, <1>7 DEF PaidOK
  <2> QED
    BY <2>1, <2>2, <2>3 DEF PaidOK
<1>9. ReviewOK' /\ LinkOK'
  BY <1>1, <1>2, <1>7 DEF ReviewOK, LinkOK
<1>10. TicketOK'
  BY <1>1, <1>2, StayTables
<1>11. dispute[b].st = "none" /\ dispute[b].how = "none"
  BY <1>1, <1>2 DEF LinkOK
<1>12. After!DisputedIsHeld'
  <2>1. \A c \in Bookings : (dispute[c].st = "none" /\ dispute[c].how = "none") \/ earning'[c] = earning[c]
    BY <1>7, <1>11
  <2>2. "none" \notin After!Favour
    BY DEF After!Favour, After!Kinds
  <2> QED
    BY <1>1, <1>2, <2>1, <2>2, SameHandlers DEF After!DisputedIsHeld, After!OneAtATime
<1>13. \A c \in Bookings :
         \/ stay'[c] = stay[c]
         \/ /\ stay[c].st = "none" /\ stay'[c].st # "none" /\ stay'[c].credited = 0
            /\ stay'[c].end # "suspended" => stay'[c].returned = 0
  BY <1>1, <1>6, <1>7
<1> QED
  BY <1>1, <1>6, <1>7, <1>8, <1>9, <1>10, <1>12, <1>13, StayPasses

-----------------------------------------------------------------------------
\* The half of what follows a stay, in steps of either half.

\* Everything a handler of that half does, but stop half-way.
LEMMA StayActs ==
  ASSUME Busied, StayInv, NEW r \in Requests,
         After!Arrive(r) \/ (After!Proceed(r) /\ ~After!Crash(r))
  PROVE  StayKept
<1>1. CASE After!Arrive(r)
  <2>1. CASE \E b \in After!Stays, stars \in Ratings, profane \in BOOLEAN :
               After!ReviewRead(r, b, stars, profane) \/ After!EditRead(r, b, stars, profane)
    BY <2>1, SameHandlers, ReviewReads
  <2>2. CASE \E b \in After!Stays : \/ After!ReportRead(r, b) \/ After!RemoveRead(r, b)
                                    \/ After!RespondRead(r, b)
    BY <2>2, SameHandlers, ReviewReads
  <2>3. CASE \/ \E t \in After!Tickets, who \in {"user", "admin"} : After!MessageRead(r, t, who)
             \/ \E b \in After!Stays : After!DisputeRead(r, b)
             \/ \E b \in After!Stays, how \in After!Kinds, amount \in Given :
                  After!ResolveRead(r, b, how, amount)
    BY <2>3, SameHandlers, DeskReads
  <2>4. CASE \E b \in {0} \cup After!Stays : After!TicketWrite(r, b)
    BY <2>4, SameHandlers, TicketOpens
  <2>5. CASE \E t \in After!Tickets, st \in {"open", "in_progress", "resolved", "closed"},
                note \in BOOLEAN : After!UpdateTicket(r, t, st, note)
    BY <2>5, TicketUpdates
  <2> QED
    BY <1>1, <2>1, <2>2, <2>3, <2>4, <2>5 DEF After!Arrive
<1>2. CASE After!Proceed(r) /\ ~After!Crash(r)
  BY <1>2, ReviewWrites, RatingWrites, TicketWrites, DisputeWrites, ResolveWrites, RefundWrites,
     GoodwillEnds DEF After!Proceed
<1> QED
  BY <1>1, <1>2

\* A step of the other half, and a handler that stops, leave the tables as they are.
LEMMA StaySame ==
  ASSUME Busied, StayInv, UNCHANGED <<load, after>>, crashes' \in 0..MaxCrashes,
         \A q \in Requests : reqs'[q] = reqs[q] \/ reqs'[q].op \notin StayOps,
         (StayRests /\ crashes' = crashes) \/ crashes' # 0
  PROVE  StayInv'
<1>1. /\ PaidOK' /\ ReviewOK' /\ RatingOK' /\ TicketOK' /\ DisputeOK' /\ LinkOK' /\ After!DisputedIsHeld'
  BY StayTables, StayParts DEF StayInv, after
<1>2. MeterOK'
  BY DEF StayInv, After!TypeOK, MeterOK
<1>3. StayAsks'
  <2>1. ASSUME NEW q
        PROVE  (StayFact(q) => StayFact(q)') /\ (StayView(q) => StayView(q)')
    BY DEF StayFact, StayView, CurrentIn, After!Refundable, after
  <2>2. OneAtATime' <=> OneAtATime
    BY DEF OneAtATime
  <2>3. StayAsks
    BY DEF StayInv
  <2>4. ASSUME NEW q \in Requests
        PROVE  /\ StayFact(reqs[q])'
               /\ OneAtATime => StayView(reqs[q])'
    <3>1. PICK rec : rec = reqs'[q]
      OBVIOUS
    <3>2. CASE rec = reqs[q]
      <4>1. StayFact(rec)' /\ (OneAtATime => StayView(rec)')
        BY <2>1, <2>3, <3>2 DEF StayAsks
      <4> QED
        BY <3>1, <4>1 DEF StayFact, StayView, CurrentIn, After!Refundable
    <3>3. CASE rec.op \notin StayOps
      <4>1. StayFact(rec)' /\ StayView(rec)'
        BY <3>3, OthersClaimNothing
      <4> QED
        BY <3>1, <4>1 DEF StayFact, StayView, CurrentIn, After!Refundable
    <3> QED
      BY <3>1, <3>2, <3>3
  <2> QED
    BY <2>2, <2>4 DEF StayAsks
<1>4. OneAtATime' /\ crashes' = 0 => Rated' /\ Repaid'
  <2> SUFFICES ASSUME OneAtATime', crashes' = 0 PROVE Rated' /\ Repaid'
    OBVIOUS
  <2>1. StayRests /\ Rated /\ Repaid
    BY DEF OneAtATime, StayInv
  <2>2. \A q \in Requests : reqs[q].op \in StayOps => reqs'[q] = reqs[q]
    BY <2>1 DEF StayRests
  <2>3. Rated'
    <3>1. \A q \in Requests : reqs[q].op \in {"aggregate", "store"} => reqs'[q] = reqs[q]
      BY <2>2 DEF StayOps
    <3> QED
      BY <2>1, <3>1 DEF Rated, CurrentIn, after
  <2>4. Repaid'
    <3>1. \A q \in Requests : reqs[q].op \in {"refund", "goodwill"} => reqs'[q] = reqs[q]
      BY <2>2 DEF StayOps
    <3> QED
      BY <2>1, <3>1 DEF Repaid, after
  <2> QED
    BY <2>3, <2>4
<1> QED
  BY <1>1, <1>2, <1>3, <1>4, StayParts DEF StayInv

\* AfterStay at the start.
LEMMA StayStarts == After!Init => StayInv
<1> SUFFICES ASSUME After!Init PROVE StayInv
  OBVIOUS
<1>1. /\ PaidOK /\ ReviewOK /\ RatingOK /\ TicketOK /\ DisputeOK /\ LinkOK
  BY SameHandlers, LifeAssumption DEF After!Init, PaidOK, ReviewOK, RatingOK, TicketOK, DisputeOK,
     LinkOK, After!NoReview, After!NoTicket, After!NoDispute, After!NoStay, StayRow, DisputeRow
<1>2. MeterOK
  BY HandlersAssumption DEF After!Init, MeterOK
<1>3. After!DisputedIsHeld
  BY DEF After!Init, After!DisputedIsHeld, After!NoDispute, After!Favour, After!Kinds
<1>4. StayAsks
  <2>1. \A q \in Requests : reqs[q] = Idle
    BY SameHandlers DEF After!Init
  <2> QED
    BY <2>1, IdleIsNone, OthersClaimNothing DEF StayAsks
<1>5. Rated /\ Repaid
  BY SameHandlers DEF After!Init, Rated, Repaid, CurrentIn, After!NoReview, After!NoDispute, After!NoStay
<1> QED
  BY <1>1, <1>2, <1>3, <1>4, <1>5, StayParts DEF StayInv

-----------------------------------------------------------------------------
\* The two together.

\* A handler that stops leaves its record behind, and is counted.
LEMMA StopsFrees ==
  ASSUME Busied, load \in Workloads, crashes \in 0..MaxCrashes, UNCHANGED load,
         NEW r \in Requests, Stops(r)
  PROVE  /\ Busied' /\ crashes' \in 0..MaxCrashes /\ crashes' # 0
         /\ \A q \in Requests : reqs'[q] = reqs[q] \/ reqs'[q] = Idle
<1>1. Goto(r, Idle)
  BY DEF Stops, Done
<1>2. Busied' /\ reqs'[r] = Idle /\ \A q \in Requests : q # r => reqs'[q] = reqs[q]
  BY <1>1, IdleRecord, BusiedGoto
<1>3. crashes' \in 0..MaxCrashes /\ crashes' # 0
  <2>1. load.crashes \in 0..MaxCrashes /\ MaxCrashes \in Nat
    BY HandlersAssumption
  <2> QED
    BY <2>1 DEF Stops
<1> QED
  BY <1>2, <1>3

\* What a handler of the space leaves alone: the meters, and but for one the bookings.
LEMMA SpaceLeaves ==
  ASSUME NEW r, Arrive(r) \/ (Proceed(r) /\ ~Crash(r))
  PROVE  load' = load /\ crashes' = crashes /\ (BookInsert(r) \/ booking' = booking)
<1>1. CASE Arrive(r)
  <2>1. ASSUME NEW n, NEW photos, CreateParkingSpace(r, n, photos)
        PROVE  load' = load /\ crashes' = crashes /\ booking' = booking
    BY <2>1 DEF CreateParkingSpace
  <2>2. CASE \E n \in 1..MaxCapacity, photos \in 0..MinPhotos : CreateParkingSpace(r, n, photos)
    BY <2>1, <2>2
  <2>3. CASE ~\E n \in 1..MaxCapacity, photos \in 0..MinPhotos : CreateParkingSpace(r, n, photos)
    BY <1>1, <2>3 DEF Arrive, KycRead, DecideRead, UpdateSpace, CreateRead, AddPhoto, RemovePhoto,
       SetPricing, UploadRead, DeleteImages, SubmitRead, PauseRead, UnpauseRead, RemoveRead,
       ReviewRead, SlotRead, FlipRead, DropRead, BookCheck, AskSlots
  <2> QED
    BY <2>2, <2>3
<1>2. CASE Proceed(r) /\ ~Crash(r)
  <2>1. CASE KycWrite(r) \/ DecideWrite(r) \/ CreateWrite(r) \/ SetLocation(r) \/ UploadWrite(r)
    BY <2>1 DEF KycWrite, DecideWrite, CreateWrite, SetLocation, UploadWrite
  <2>2. CASE UnpauseWrite(r) \/ StatusWrite(r) \/ SlotWrite(r) \/ FlipWrite(r) \/ DropWrite(r)
    BY <2>2 DEF UnpauseWrite, StatusWrite, SlotWrite, FlipWrite, DropWrite
  <2>3. CASE Heal(r) \/ HealNoRoom(r) \/ LockSlot(r) \/ BookInsert(r)
    BY <2>3 DEF Heal, HealNoRoom, LockSlot, BookInsert
  <2> QED
    BY <1>2, <2>1, <2>2, <2>3 DEF Proceed
<1> QED
  BY <1>1, <1>2

\* No step of the space's half puts an end to a booking.
LEMMA BookingsRest ==
  ASSUME SpaceInv, \/ \E r \in Requests : Arrive(r) \/ Proceed(r)
                   \/ \E s \in Slots : LockExpires(s)
                   \/ \E b \in Bookings : HoursPass(b)
  PROVE  \A b \in Bookings : booking'[b].st = "over" <=> booking[b].st = "over"
<1>0. BookingOK
  BY TypeParts DEF SpaceInv
<1>1. ASSUME NEW r \in Requests, Arrive(r) \/ Proceed(r), ~BookInsert(r) PROVE UNCHANGED booking
  BY <1>1, SpaceLeaves DEF Crash
<1>2. ASSUME NEW r \in Requests, BookInsert(r), booking' # booking
      PROVE  \A b \in Bookings : booking'[b].st = "over" <=> booking[b].st = "over"
  <2>1. PICK c \in NextBooking :
          booking' = [booking EXCEPT ![c] = [st |-> "open", slot |-> reqs[r].s, due |-> TRUE]]
    BY <1>2 DEF BookInsert
  <2>2. c \in Bookings /\ booking[c].st = "none"
    BY DEF NextBooking, Unused, Bookings
  <2> QED
    BY <1>0, <2>1, <2>2 DEF BookingOK
<1>3. ASSUME NEW b \in Bookings, HoursPass(b)
      PROVE  \A c \in Bookings : booking'[c].st = "over" <=> booking[c].st = "over"
  <2>1. booking' = [booking EXCEPT ![b].due = FALSE]
    BY <1>3 DEF HoursPass
  <2> QED
    BY <1>0, <2>1 DEF BookingOK
<1>4. ASSUME NEW s \in Slots, LockExpires(s) PROVE UNCHANGED booking
  BY <1>4 DEF LockExpires
<1> QED
  BY <1>1, <1>2, <1>3, <1>4

\* The invariant holds at the start.
LEMMA LifeStarts == LifeInit => LifeInv
<1> SUFFICES ASSUME LifeInit PROVE LifeInv
  OBVIOUS
<1>1. Busied /\ SpaceInv /\ StayInv
  BY SpaceStarts, StayStarts DEF LifeInit
<1>2. \A b \in Bookings : stay[b].st # "none" <=> booking[b].st = "over"
  BY SameHandlers DEF LifeInit, Init, After!Init, After!NoStay
<1> QED
  BY <1>1, <1>2 DEF LifeInv

\* Every step keeps it: those of one half leave the other alone, and the end of a booking is a
\* step of both.
LEMMA LifeContinues == LifeInv /\ [LifeNext]_<<vars, after>> => LifeInv'
<1> SUFFICES ASSUME LifeInv, [LifeNext]_<<vars, after>> PROVE LifeInv'
  OBVIOUS
<1> DEFINE Joined == \A b \in Bookings : stay[b].st # "none" <=> booking[b].st = "over"
<1>1. /\ Busied /\ SpaceInv /\ StayInv /\ Joined
      /\ load \in Workloads /\ crashes \in 0..MaxCrashes
  BY DEF LifeInv, SpaceInv, TypeOK
<1> HIDE DEF Joined
<1>2. ASSUME Busied', SpaceInv', StayInv', Joined' PROVE LifeInv'
  BY <1>2 DEF LifeInv, Joined
\* The space's half moves.
<1>3. ASSUME UNCHANGED after, SpaceInv', Busied', StayRests, load' = load, crashes' = crashes,
             \A b \in Bookings : booking'[b].st = "over" <=> booking[b].st = "over"
      PROVE  LifeInv'
  <2>1. \A q \in Requests : reqs'[q] = reqs[q] \/ reqs'[q].op \notin StayOps
    BY <1>3 DEF StayRests
  <2>2. StayInv'
    BY <1>1, <1>3, <2>1, StaySame
  <2>3. Joined'
    BY <1>1, <1>3 DEF Joined, after
  <2> QED
    BY <1>2, <1>3, <2>2, <2>3
\* The other half moves.
<1>4. ASSUME UNCHANGED before, StayKept, load' = load PROVE LifeInv'
  <2>1. \A q \in Requests : reqs'[q] = reqs[q] \/ reqs'[q].op \notin SpaceOps
    BY <1>4 DEF StayKept, SpaceRests
  <2>2. SpaceInv'
    BY <1>1, <1>4, <2>1, SpaceSame DEF StayKept
  <2>3. Joined'
    BY <1>1, <1>4 DEF Joined, StayKept, before
  <2> QED
    BY <1>2, <1>4, <2>2, <2>3 DEF StayKept
\* A handler stops.
<1>5. ASSUME UNCHANGED <<load, before, after>>, NEW r \in Requests, Stops(r) PROVE LifeInv'
  <2>1. /\ Busied' /\ crashes' \in 0..MaxCrashes /\ crashes' # 0
        /\ \A q \in Requests : reqs'[q] = reqs[q] \/ reqs'[q] = Idle
    BY <1>1, <1>5, StopsFrees
  <2>2. \A q \in Requests : reqs'[q] = reqs[q]
                            \/ (reqs'[q].op \notin SpaceOps /\ reqs'[q].op \notin StayOps)
    BY <2>1, IdleIsNone
  <2>3. SpaceInv'
    BY <1>1, <1>5, <2>1, <2>2, SpaceSame
  <2>4. StayInv'
    BY <1>1, <1>5, <2>1, <2>2, StaySame
  <2>5. Joined'
    BY <1>1, <1>5 DEF Joined, before, after
  <2> QED
    BY <1>2, <2>1, <2>3, <2>4, <2>5
<1>6. ASSUME UNCHANGED after, NEW r \in Requests, Arrive(r) \/ (Proceed(r) /\ ~Crash(r))
      PROVE  LifeInv'
  <2>1. SpaceInv' /\ Busied' /\ StayRests
    BY <1>1, <1>6, SpaceActs DEF SpaceKept
  <2>2. load' = load /\ crashes' = crashes
    BY <1>6, SpaceLeaves
  <2>3. \A b \in Bookings : booking'[b].st = "over" <=> booking[b].st = "over"
    BY <1>1, <1>6, BookingsRest
  <2> QED
    BY <1>3, <1>6, <2>1, <2>2, <2>3
<1>7. ASSUME UNCHANGED after, NEW r \in Requests, Crash(r) PROVE LifeInv'
  BY <1>5, <1>7 DEF Crash, before
<1>8. ASSUME UNCHANGED after, \/ \E s \in Slots : LockExpires(s)
                              \/ \E b \in Bookings : HoursPass(b)
      PROVE  LifeInv'
  <2>1. SpaceInv' /\ UNCHANGED reqs
    BY <1>1, <1>8, TimePasses
  <2>2. load' = load /\ crashes' = crashes
    BY <1>8 DEF LockExpires, HoursPass
  <2>3. \A b \in Bookings : booking'[b].st = "over" <=> booking[b].st = "over"
    BY <1>1, <1>8, BookingsRest
  <2>4. Busied' /\ StayRests
    BY <1>1, <2>1, <2>2 DEF Busied, StayRests
  <2> QED
    BY <1>3, <1>8, <2>1, <2>2, <2>3, <2>4
<1>9. ASSUME UNCHANGED before, After!Step PROVE LifeInv'
  <2>1. ASSUME NEW r \in Requests, After!Arrive(r) \/ (After!Proceed(r) /\ ~After!Crash(r))
        PROVE  LifeInv'
    <3>1. StayKept
      BY <1>1, <2>1, StayActs
    <3>2. load' = load
      <4>1. CASE After!Arrive(r)
        BY <4>1, Zenon DEF After!Arrive, After!ReviewRead, After!EditRead, After!ReportRead, After!RemoveRead,
           After!RespondRead, After!DisputeRead, After!TicketWrite, After!MessageRead,
           After!UpdateTicket, After!ResolveRead
      <4>2. CASE After!Proceed(r) /\ ~After!Crash(r)
        BY <4>2, Zenon DEF After!Proceed, After!ReviewWrite, After!EditWrite, After!ReportWrite,
           After!RemoveWrite, After!RespondWrite, After!Aggregate, After!StoreRating, After!LogTicket,
           After!MessageWrite, After!DisputeWrite, After!ResolveWrite, After!Refund,
           After!RefundThrows, After!Goodwill
      <4> QED
        BY <2>1, <4>1, <4>2
    <3> QED
      BY <1>4, <1>9, <3>1, <3>2
  <2>2. ASSUME NEW r \in Requests, After!Crash(r) PROVE LifeInv'
    <3>1. Stops(r) /\ UNCHANGED <<load, after>>
      BY <2>2, SameHandlers DEF After!Crash, after, After!desk
    <3> QED
      BY <1>5, <1>9, <3>1
  <2>3. ASSUME NEW b \in Bookings, After!Release(b) PROVE LifeInv'
    <3>1. StayKept /\ load' = load
      BY <1>1, <2>3, ReleaseKeeps DEF After!Release
    <3> QED
      BY <1>4, <1>9, <3>1
  <2> QED
    BY <1>9, <2>1, <2>2, <2>3, SameHandlers DEF After!Step
<1>10. ASSUME NEW b \in Bookings, NEW end \in After!Endings, NEW paid \in {0, Price},
              NEW back \in 0..Price, Ends(b, end, paid, back)
       PROVE  LifeInv'
  <2>1. BookingOver(b) /\ After!StayEnds(b, end, paid, back)
    BY <1>10 DEF Ends
  <2>2. SpaceInv'
    BY <1>1, <2>1, TimePasses
  <2>3. /\ StayInv' /\ Busied'
        /\ stay'[b].st # "none" /\ \A c \in Bookings : c # b => stay'[c] = stay[c]
    BY <1>1, <2>1, EndsKeeps
  <2>4. /\ booking'[b].st = "over" /\ \A c \in Bookings : c # b => booking'[c] = booking[c]
    <3>1. BookingOK
      BY <1>1, TypeParts DEF SpaceInv
    <3> QED
      BY <2>1, <3>1 DEF BookingOver, BookingOK
  <2>5. Joined'
    BY <1>1, <2>3, <2>4 DEF Joined
  <2> QED
    BY <1>2, <2>2, <2>3, <2>5
<1>11. CASE UNCHANGED <<vars, after>>
  <2>1. UNCHANGED <<doc, space, slot, locks, booking, seal, load, reqs, crashes, after>>
    BY <1>11 DEF vars
  <2>2. Busied' /\ StayRests /\ SpaceRests
    BY <1>1, <2>1 DEF Busied, StayRests, SpaceRests
  <2>3. SpaceInv'
    BY <1>1, <2>1, <2>2, SpaceSame DEF before
  <2> QED
    BY <1>3, <2>1, <2>2, <2>3
<1> QED
  BY <1>6, <1>7, <1>8, <1>9, <1>10, <1>11 DEF LifeNext

-----------------------------------------------------------------------------
\* The inductive invariant: in every state reached, a handler is idle or holds one of the
\* records above, what the record says of the tables is so, and what is not yet so in them
\* (a place, a rating, a refund) is what some handler is about to do.
THEOREM LifeInvariantHolds == LifeSpec => []LifeInv
<1>1. LifeInit => LifeInv
  BY LifeStarts
<1>2. LifeInv /\ [LifeNext]_<<vars, after>> => LifeInv'
  BY LifeContinues
<1> QED
  BY <1>1, <1>2, PTL DEF LifeSpec

\* The rows have their types, and what one table says of another is so: slot numbers are
\* unique, no booking loses its slot, a dispute's ticket is about its booking, and what is
\* reviewed or disputed is a booking that is over and still has its slot.
THEOREM LifeTypeCorrect == LifeSpec => []LifeTypeOK
<1>1. LifeInv => LifeTypeOK
  <2> SUFFICES ASSUME LifeInv PROVE LifeTypeOK
    OBVIOUS
  <2>1. /\ TypeOK /\ After!TypeOK /\ Filed
        /\ \A b \in Bookings : stay[b].st # "none" <=> booking[b].st = "over"
    BY DEF LifeInv, SpaceInv, StayInv
  <2>2. ASSUME NEW b \in Bookings, review[b].st # "none" \/ dispute[b].st # "none"
        PROVE  Rows(booking[b].slot)
    <3>1. booking[b].st # "none"
      BY <2>1, <2>2 DEF Filed
    <3> QED
      BY <2>1, <3>1 DEF TypeOK
  <2> QED
    BY <2>1, <2>2 DEF LifeTypeOK
<1> QED
  BY <1>1, LifeInvariantHolds, PTL

\* What drivers see and what they have booked is fit: whatever was read stale on the way, a
\* listed space was approved by an administrator and made by a verified host, or by the
\* wizard; of requests that come one at a time, the last booking of a space outlives it.
THEOREM ListedSpacesAreFit == LifeSpec => []SpaceIsFit
<1>1. LifeInv => SpaceIsFit
  <2> SUFFICES ASSUME LifeInv PROVE SpaceIsFit
    OBVIOUS
  <2>1. Standing /\ OpenBookingIsServed /\ (OneAtATime /\ crashes = 0 => Placed)
    BY DEF LifeInv, SpaceInv
  <2>2. Listed => seal.approved /\ (seal.verified \/ seal.wizard) /\ space.mapped
    BY <2>1 DEF Standing, Listed, OnMap
  <2>3. OneAtATime /\ crashes = 0 => (Shown => Found)
    BY <2>1 DEF Placed, Shown, Found
  <2> QED
    BY <2>1, <2>2, <2>3 DEF SpaceIsFit, ListedIsReviewed
<1> QED
  BY <1>1, LifeInvariantHolds, PTL

\* What FS_Interval says of the numbers from 1.
LEMMA FirstNumbers ==
  ASSUME NEW k \in Nat
  PROVE  IsFiniteSet(1..k) /\ Cardinality(1..k) = k
<1>1. PICK one \in Int : one = 1
  OBVIOUS
<1>2. /\ IsFiniteSet(one..k)
      /\ Cardinality(one..k) = IF one > k THEN 0 ELSE k - one + 1
  BY <1>1, FS_Interval
<1> QED
  BY <1>1, <1>2

\* Of requests that come one at a time, none but a lower capacity leaves more slots switched
\* on than the capacity of that moment: a new row, a slot switched on, and the slots that a
\* space without any makes up for.
LEMMA StepWithinCapacity ==
  ASSUME LifeInv, LifeNext, OneAtATime
  PROVE  Cardinality(Active') > Cardinality(Active) => Cardinality(Active') <= space'.capacity
<1>0. /\ Busied /\ SpaceInv /\ NSlots \in Nat /\ SlotOK
      /\ space.capacity \in 0..MaxCapacity /\ MaxCapacity \in Nat
  BY SlotRows, SpaceRow DEF LifeInv
<1>1. /\ Active \in SUBSET Slots /\ Active' \in SUBSET Slots
      /\ \A T \in SUBSET Slots : IsFiniteSet(T) /\ Cardinality(T) \in Nat
  BY <1>0, ActiveIsFinite DEF Active
<1>2. ASSUME Active' \in SUBSET Active PROVE Cardinality(Active') <= Cardinality(Active)
  BY <1>1, <1>2, FS_Subset
<1>3. ASSUME NEW new \in SUBSET Slots, Active' = Active \cup new
      PROVE  Cardinality(Active') <= Cardinality(Active) + Cardinality(new)
  <2>1. /\ IsFiniteSet(Active) /\ IsFiniteSet(new) /\ Active \cap new \in SUBSET Slots
        /\ Cardinality(Active) \in Nat /\ Cardinality(new) \in Nat
    BY <1>1
  <2>2. Cardinality(Active \cap new) \in Nat
    BY <1>1, <2>1
  <2>3. Cardinality(Active \cup new) =
          Cardinality(Active) + Cardinality(new) - Cardinality(Active \cap new)
    BY <2>1, FS_Union
  <2> QED
    BY <1>3, <2>1, <2>2, <2>3
<1>4. CASE UNCHANGED slot
  BY <1>1, <1>4 DEF Active, Rows
<1>5. ASSUME NEW r \in Requests, CreateWrite(r), ~UNCHANGED slot
      PROVE  Cardinality(Active') <= space'.capacity
  <2>1. /\ space.st = "none" /\ slot' = WithSlots(1..reqs[r].n)
        /\ space' = [NoSpace EXCEPT !.st = "draft", !.capacity = reqs[r].n, !.mapped = TRUE]
        /\ UNCHANGED booking /\ reqs[r].op = "createWrite"
    BY <1>5 DEF CreateWrite, At
  <2>2. reqs[r].n \in 1..MaxCapacity
    BY <1>0, <2>1, SpaceAt, SpaceFields DEF SpaceOps
  <2>3. PICK N \in SUBSET Numbers : N = 1..reqs[r].n
    BY <1>0, <2>2, SlotRows
  <2>4. IsFiniteSet(N) /\ Cardinality(N) = reqs[r].n
    BY <1>0, <2>2, <2>3, FirstNumbers
  <2>5. Taken = {} /\ Active = {}
    BY <1>0, <2>1, SlotRows DEF Taken, Active, Rows, SlotsInOrder
  <2>6. space'.st # "none" /\ space'.capacity = reqs[r].n
    BY <2>1 DEF NoSpace
  <2>7. PICK new \in SUBSET Slots : Cardinality(new) <= Cardinality(N) /\ Active' = Active \cup new
    BY <1>0, <2>1, <2>3, <2>4, <2>5, <2>6, SlotsAdded
  <2>8. Active' = new
    BY <2>5, <2>7
  <2> QED
    BY <2>4, <2>6, <2>7, <2>8
<1>6. ASSUME NEW r \in Requests, SlotWrite(r), ~UNCHANGED slot
      PROVE  Cardinality(Active') <= space'.capacity
  <2>1. /\ reqs[r].n \notin Taken /\ slot' = WithSlots({reqs[r].n})
        /\ UNCHANGED <<booking, space>> /\ reqs[r].op = "slotWrite"
    BY <1>6 DEF SlotWrite, At
  <2>2. /\ reqs[r].n \in Numbers /\ Cardinality(Active) < space.capacity /\ space.st # "none"
    BY <1>0, <2>1, SpaceAt, SpaceFields DEF SpaceOps, SpaceInv, SpaceAsks, SpaceFact, SpaceView
  <2>3. PICK N \in SUBSET Numbers : N = {reqs[r].n}
    BY <2>2
  <2>4. IsFiniteSet(N) /\ Cardinality(N) = 1
    BY <2>3, FS_Singleton
  <2>5. PICK new \in SUBSET Slots : Cardinality(new) <= Cardinality(N) /\ Active' = Active \cup new
    BY <1>0, <2>1, <2>2, <2>3, <2>4, SlotsAdded
  <2>6. Cardinality(Active') <= Cardinality(Active) + Cardinality(new)
    BY <1>3, <2>5
  <2>7. /\ Cardinality(Active) \in Nat /\ Cardinality(new) \in Nat
        /\ Cardinality(Active') \in Nat
    BY <1>1
  <2>8. space'.capacity = space.capacity
    BY <2>1
  <2> QED
    BY <1>0, <2>2, <2>4, <2>5, <2>6, <2>7, <2>8
<1>7. ASSUME NEW r \in Requests, Heal(r)
      PROVE  Cardinality(Active') <= space'.capacity
  <2>1. /\ slot' = WithSlots(1..reqs[r].n \ Taken)
        /\ UNCHANGED <<booking, space>> /\ reqs[r].op = "heal"
    BY <1>7 DEF Heal, At
  <2>2. Active = {} /\ reqs[r].n = space.capacity /\ space.st # "none"
    BY <1>0, <2>1 DEF SpaceInv, SpaceAsks, SpaceFact, SpaceView
  <2>3. PICK N \in SUBSET Numbers : N = 1..reqs[r].n \ Taken
    <3>1. 1..reqs[r].n \subseteq 1..MaxCapacity
      BY <1>0, <2>2
    <3> QED
      BY <1>0, <3>1, SlotRows
  <2>4. IsFiniteSet(N) /\ Cardinality(N) <= space.capacity
    <3>1. IsFiniteSet(1..space.capacity) /\ Cardinality(1..space.capacity) = space.capacity
      BY <1>0, FirstNumbers
    <3>2. N \subseteq 1..space.capacity
      BY <2>2, <2>3
    <3> QED
      BY <3>1, <3>2, FS_Subset
  <2>5. PICK new \in SUBSET Slots : Cardinality(new) <= Cardinality(N) /\ Active' = Active \cup new
    <3>1. N \cap Taken = {} /\ slot' = WithSlots(N) /\ space'.st # "none" /\ UNCHANGED booking
      BY <2>1, <2>2, <2>3
    <3> QED
      BY <1>0, <2>4, <3>1, SlotsAdded
  <2>6. Active' = new
    BY <2>2, <2>5
  <2>7. Cardinality(N) \in Nat /\ Cardinality(new) \in Nat
    BY <1>1, <2>4, FS_CardinalityType
  <2> QED
    BY <1>0, <2>1, <2>4, <2>5, <2>6, <2>7
<1>8. ASSUME NEW r \in Requests, FlipWrite(r), ~UNCHANGED slot
      PROVE  \/ Active' \in SUBSET Active
             \/ Cardinality(Active') <= space'.capacity
  <2>1. reqs[r].op = "flipWrite" /\ UNCHANGED space
    BY <1>8 DEF FlipWrite, At
  <2>2. PICK s \in Slots, active \in BOOLEAN, n \in Numbers :
          s = reqs[r].s /\ active = reqs[r].active /\ n = reqs[r].n
    BY <1>0, <2>1, SpaceAt, SpaceFields DEF SpaceOps
  <2>3. slot' = [slot EXCEPT ![s] = [@ EXCEPT !.active = active, !.number = n]] /\ Rows(s)
    BY <1>8, <2>2 DEF FlipWrite
  <2>4. PICK row : row = [slot[s] EXCEPT !.active = active, !.number = n]
    OBVIOUS
  <2>5. slot' = [slot EXCEPT ![s] = row]
    BY <2>3, <2>4
  <2>6. row.active = active /\ row.row = "live"
    BY <1>0, <2>3, <2>4 DEF SlotOK, Rows
  <2>7. slot'[s] = row /\ \A t \in Slots : t # s => slot'[t] = slot[t]
    BY <1>0, <2>5 DEF SlotOK
  <2>8. CASE ~active
    BY <2>6, <2>7, <2>8 DEF Active, Rows
  <2>9. CASE active
    <3>1. PICK others \in SUBSET Slots : others = Active \ {s}
      BY <1>1
    <3>2. Active' = others \cup {s}
      BY <2>6, <2>7, <2>9, <3>1 DEF Active, Rows
    <3>3. Cardinality(others) < space.capacity
      BY <1>0, <2>1, <2>2, <2>9, <3>1 DEF SpaceInv, SpaceAsks, SpaceView
    <3>4. Cardinality(others \cup {s}) = Cardinality(others) + 1
      BY <1>1, <3>1, FS_AddElement
    <3> QED
      BY <1>0, <1>1, <2>1, <3>2, <3>3, <3>4
  <2> QED
    BY <2>8, <2>9
<1>9. ASSUME NEW r \in Requests, DropWrite(r), ~UNCHANGED slot PROVE Active' \in SUBSET Active
  <2>1. reqs[r].op = "dropWrite"
    BY <1>9 DEF DropWrite, At
  <2>2. PICK s \in Slots : s = reqs[r].s
    BY <1>0, <2>1, SpaceAt, SpaceFields DEF SpaceOps
  <2>3. slot' = [slot EXCEPT ![s].row = "deleted"]
    BY <1>9, <2>2 DEF DropWrite
  <2> QED
    BY <1>0, <2>3 DEF SlotOK, Active, Rows
<1>10. \/ UNCHANGED slot
       \/ \E r \in Requests : CreateWrite(r) \/ SlotWrite(r) \/ Heal(r) \/ FlipWrite(r) \/ DropWrite(r)
  <2>1. ASSUME NEW r \in Requests, Arrive(r) PROVE UNCHANGED slot
    <3>1. ASSUME NEW n, NEW photos, CreateParkingSpace(r, n, photos) PROVE UNCHANGED slot
      BY <3>1 DEF CreateParkingSpace
    <3>2. CASE ~\E n \in 1..MaxCapacity, photos \in 0..MinPhotos : CreateParkingSpace(r, n, photos)
      BY <2>1, <3>2 DEF Arrive, KycRead, DecideRead, UpdateSpace, CreateRead, AddPhoto, RemovePhoto,
         SetPricing, UploadRead, DeleteImages, SubmitRead, PauseRead, UnpauseRead, RemoveRead,
         ReviewRead, SlotRead, FlipRead, DropRead, BookCheck, AskSlots
    <3> QED
      BY <3>1, <3>2
  <2>2. ASSUME NEW r \in Requests, Proceed(r)
        PROVE  \/ UNCHANGED slot
               \/ CreateWrite(r) \/ SlotWrite(r) \/ Heal(r) \/ FlipWrite(r) \/ DropWrite(r)
    <3>1. CASE KycWrite(r) \/ DecideWrite(r) \/ SetLocation(r) \/ UploadWrite(r) \/ UnpauseWrite(r)
      BY <3>1 DEF KycWrite, DecideWrite, SetLocation, UploadWrite, UnpauseWrite
    <3>2. CASE StatusWrite(r) \/ HealNoRoom(r) \/ LockSlot(r) \/ BookInsert(r) \/ Crash(r)
      BY <3>2 DEF StatusWrite, HealNoRoom, LockSlot, BookInsert, Crash
    <3> QED
      BY <2>2, <3>1, <3>2 DEF Proceed
  <2>3. ASSUME \/ \E s \in Slots : LockExpires(s)
               \/ \E b \in Bookings : HoursPass(b)
               \/ \E b \in Bookings, end \in After!Endings, paid \in {0, Price}, back \in 0..Price :
                    Ends(b, end, paid, back)
        PROVE  UNCHANGED slot
    <3>1. ASSUME NEW s \in Slots, LockExpires(s) PROVE UNCHANGED slot
      BY <3>1 DEF LockExpires
    <3>2. ASSUME NEW b \in Bookings, HoursPass(b) PROVE UNCHANGED slot
      BY <3>2 DEF HoursPass
    <3>3. ASSUME NEW b \in Bookings, NEW end \in After!Endings, NEW paid \in {0, Price},
                 NEW back \in 0..Price, Ends(b, end, paid, back)
          PROVE  UNCHANGED slot
      <4>1. BookingOver(b)
        BY <3>3 DEF Ends
      <4> QED
        BY <4>1, Zenon DEF BookingOver
    <3> QED
      BY <2>3, <3>1, <3>2, <3>3
  <2> QED
    BY <2>1, <2>2, <2>3 DEF LifeNext, before
<1> QED
  BY <1>1, <1>2, <1>4, <1>5, <1>6, <1>7, <1>8, <1>9, <1>10

\* No step of requests that come one at a time leaves more slots switched on than the
\* capacity, except by lowering the capacity (createSlot, updateSlot, checkAvailability).
THEOREM SlotsStayWithinCapacity == LifeSpec => SlotsWithinCapacity
<1>1. LifeInv /\ [LifeNext]_<<vars, after>> =>
        [OneAtATime /\ Cardinality(Active') > Cardinality(Active)
           => Cardinality(Active') <= space'.capacity]_vars
  BY StepWithinCapacity
<1> QED
  BY <1>1, LifeInvariantHolds, PTL DEF LifeSpec, SlotsWithinCapacity

\* Of a disputed booking the host gets nothing more, in every interleaving with the release
\* of earnings while the dispute is open.  Of requests that come one at a time, the driver
\* gets back at most what he paid, all of it after a full refund, and beside it the goodwill
\* that was decided on, once; unless he was suspended, or something throws.
THEOREM DisputesAreFair == LifeSpec => []DisputeIsFair
<1>1. LifeInv => DisputeIsFair
  <2> SUFFICES ASSUME LifeInv PROVE DisputeIsFair
    OBVIOUS
  <2>1. /\ After!DisputedIsHeld /\ PaidOK /\ DisputeOK
        /\ OneAtATime /\ crashes = 0 => Repaid
    BY StayParts DEF LifeInv, StayInv
  <2>2. ASSUME OneAtATime, crashes = 0, NEW b \in Bookings
        PROVE  /\ stay[b].end # "suspended" => stay[b].refunded + stay[b].returned <= stay[b].paid
               /\ stay[b].credited \in {0, dispute[b].granted}
               /\ Quiet => /\ stay[b].credited = dispute[b].granted
                           /\ dispute[b].how = "refund" => stay[b].refunded = stay[b].paid
    <3>1. /\ stay[b].refunded \in 0..Price /\ Price \in Nat /\ stay[b].refunded <= stay[b].paid
          /\ stay[b].end # "suspended" => stay[b].returned = 0
      BY <2>1, <2>2, LifeAssumption DEF PaidOK, Repaid, StayRow
    <3>2. Quiet => \A r \in Requests : reqs[r].op \notin {"refund", "goodwill"}
      BY IdleIsNone DEF Quiet, StayOps
    <3>3. stay[b].credited \in {0, dispute[b].granted}
      <4>1. ASSUME stay[b].credited # dispute[b].granted PROVE stay[b].credited = 0
        <5>1. PICK r \in Requests : reqs[r].op = "goodwill" /\ reqs[r].b = b
          BY <2>1, <2>2, <4>1 DEF Repaid
        <5> QED
          BY <2>2, <5>1 DEF LifeInv, StayInv, StayAsks, StayView
      <4> QED
        BY <4>1
    <3> QED
      BY <2>1, <2>2, <3>1, <3>2, <3>3 DEF Repaid
  <2>3. After!DisputeIsSettled
    BY <2>2, SameHandlers DEF After!DisputeIsSettled
  <2> QED
    BY <2>1, <2>3 DEF DisputeIsFair
<1> QED
  BY <1>1, LifeInvariantHolds, PTL

\* Between requests that come one at a time the stored rating is that of the reviews there
\* are: each active one counts with the stars it has now, and none that was removed.
THEOREM RatingsAreCurrent == LifeSpec => []RatingIsCurrent
<1>1. LifeInv => RatingIsCurrent
  <2> SUFFICES ASSUME LifeInv, OneAtATime, crashes = 0, Quiet PROVE CurrentIn(rating)
    BY SameHandlers DEF RatingIsCurrent, After!RatingIsCurrent, CurrentIn
  <2>1. Rated
    BY DEF LifeInv, StayInv
  <2>2. \A r \in Requests : reqs[r].op \notin {"aggregate", "store"}
    BY IdleIsNone DEF Quiet, StayOps
  <2> QED
    BY <2>1, <2>2 DEF Rated
<1> QED
  BY <1>1, LifeInvariantHolds, PTL
=============================================================================
