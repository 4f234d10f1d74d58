-------------------------- MODULE HostPayouts_proofs --------------------------
(***************************************************************************)
(* Proofs about HostPayouts, for any number of payouts, handlers and       *)
(* crashes, any amounts and any order of events.                           *)
(*                                                                         *)
(* A handler writes to the row it read some awaits ago.  What it relies on *)
(* cannot become stale: rows are never deleted, and a transfer that was    *)
(* made stays made (it may only be reversed).                              *)
(***************************************************************************)
EXTENDS HostPayouts, Sums

Row(p)  == payout[p] # NoPayout
Made(p) == transfer[p] \in {"processed", "reversed"}

\* What handlers in flight have established.
Informed(rec) ==
  /\ rec.op = "cronMark" => \A p \in rec.todo : Row(p)
  /\ rec.op \in {"cronSubmit", "cronWrite"} => Row(rec.p) /\ \A p \in rec.todo : Row(p)
  /\ rec.op \in {"hookWrite", "adminWrite"} => Row(rec.p)
  /\ rec.op = "cronWrite" /\ rec.answer = "completed" => Made(rec.p)
  /\ rec.op = "hookWrite" /\ rec.event = "processed" => Made(rec.p)

NoticesTrue == \A p \in Payouts : <<p, "processed">> \in notices => Made(p)

IInv == /\ TypeOK
        /\ NoFreeCredit
        /\ NoticesTrue
        /\ \A r \in Requests : Informed(reqs[r])

-----------------------------------------------------------------------------
\* TypeOK by the parts that a step changes.
IncomeOK == /\ earning \in [Earnings -> {"pending", "available", "on_hold"}]
            /\ dispute \in [Earnings -> {"none", "open", "closed"}]
            /\ matured \subseteq Earnings
MoneyOK  == /\ balance \in Nat /\ reserved \in Nat
            /\ payout \in [Payouts -> Payout]
            /\ NoFreeCredit
BankOK   == /\ transfer \in [Payouts -> TransferStates]
            /\ notices \subseteq Payouts \X AllEvents
            /\ NoticesTrue
FlightOK == /\ reqs \in [Requests -> Request]
            /\ \A r \in Requests : Informed(reqs[r])
CountOK  == crashes \in 0..MaxCrashes

LEMMA Parts ==
  /\ IInv <=> IncomeOK /\ MoneyOK /\ BankOK /\ FlightOK /\ CountOK
  /\ IInv' <=> IncomeOK' /\ MoneyOK' /\ BankOK' /\ FlightOK' /\ CountOK'
  BY DEF IInv, TypeOK, IncomeOK, MoneyOK, BankOK, FlightOK, CountOK

\* Nothing a handler knows is taken back.
RowsStay == \A p \in Payouts : Row(p) => Row(p)'
MadeStay == \A p \in Payouts : Made(p) => Made(p)'

LEMMA RecordsName ==
  ASSUME NEW rec \in Request
  PROVE  /\ rec.op \in {"cronSubmit", "cronWrite", "hookWrite", "adminWrite"} => rec.p \in Payouts
         /\ rec.op \in {"cronMark", "cronSubmit", "cronWrite"} => rec.todo \in SUBSET Payouts
         /\ rec.op \in {"payoutCreate", "withdrawReserve"} => rec.amount \in Amounts
         /\ rec.op = "hookWrite" => rec.event \in AllEvents
         /\ rec.op = "cronWrite" => rec.answer \in Statuses \cup {"error"}
  BY DEF Request, Idle

LEMMA InformedStays ==
  ASSUME RowsStay, MadeStay, NEW rec \in Request, Informed(rec)
  PROVE  Informed(rec)'
  BY RecordsName DEF Informed, RowsStay, MadeStay

LEMMA FlightSame ==
  ASSUME FlightOK, RowsStay, MadeStay, UNCHANGED reqs
  PROVE  FlightOK'
  BY InformedStays DEF FlightOK

LEMMA FlightGoto ==
  ASSUME FlightOK, RowsStay, MadeStay,
         NEW r \in Requests, NEW rec \in Request, Goto(r, rec), Informed(rec)'
  PROVE  FlightOK'
<1>1. reqs' \in [Requests -> Request]
  BY DEF FlightOK, Goto
<1>2. ASSUME NEW q \in Requests
      PROVE  Informed(reqs[q])'
  <2>1. CASE q = r
    BY <2>1 DEF FlightOK, Goto
  <2>2. CASE q # r
    <3>1. reqs'[q] = reqs[q] /\ reqs[q] \in Request /\ Informed(reqs[q])
      BY <2>2 DEF FlightOK, Goto
    <3>2. Informed(reqs[q])'
      BY <3>1, RecordsName DEF Informed, RowsStay, MadeStay, Row, Made
    <3> QED
      BY <3>2
  <2> QED
    BY <2>1, <2>2
<1> QED
  BY <1>1, <1>2 DEF FlightOK

LEMMA IdleIsInformed == Idle \in Request /\ Informed(Idle)'
  BY DEF Idle, Request, Informed

LEMMA FlightDone ==
  ASSUME FlightOK, RowsStay, MadeStay, NEW r \in Requests, Done(r)
  PROVE  FlightOK'
  BY FlightGoto, IdleIsInformed DEF Done

-----------------------------------------------------------------------------
\* Steps by what they write.

\* A read decides the next step of its handler.
LEMMA ReadKeeps ==
  ASSUME IInv, UNCHANGED <<wallet, payout, bank, crashes>>, IncomeOK',
         NEW r \in Requests, NEW rec \in Request, Goto(r, rec), Informed(rec)'
  PROVE  IInv'
<1> USE DEF wallet, bank
<1>1. RowsStay /\ MadeStay
  BY DEF RowsStay, MadeStay, Row, Made
<1>2. MoneyOK' /\ BankOK' /\ CountOK'
  BY Parts DEF MoneyOK, BankOK, CountOK, NoFreeCredit, NoticesTrue, Made
<1>3. FlightOK'
  BY <1>1, Parts, FlightGoto
<1> QED
  BY <1>2, <1>3, Parts

\* A statement on the payouts table and the wallet.
LEMMA MoneyKeeps ==
  ASSUME IInv, UNCHANGED <<income, transfer, crashes>>, notices' \subseteq notices,
         MoneyOK', RowsStay,
         NEW r \in Requests, NEW rec \in Request, Goto(r, rec), Informed(rec)'
  PROVE  IInv'
<1>1. MadeStay
  BY DEF MadeStay, Made
<1>2. IncomeOK' /\ BankOK' /\ CountOK'
  BY Parts DEF IncomeOK, BankOK, CountOK, NoticesTrue, Made, income
<1>3. FlightOK'
  BY <1>1, Parts, FlightGoto
<1> QED
  BY <1>2, <1>3, Parts

\* completePayout takes at most what is reserved.
LEMMA CompleteKeepsMoney ==
  ASSUME IInv, NEW p \in Payouts, NEW k \in BOOLEAN, Row(p), Complete(p, k)
  PROVE  MoneyOK' /\ RowsStay
<1>1. /\ payout \in [Payouts -> Payout] /\ payout[p].amount \in Nat
      /\ payout[p] \in [st : Statuses, amount : Amounts,
                        from : {"earnings", "wallet"}, known : BOOLEAN]
  BY PayoutsAssumption DEF IInv, TypeOK, Payout, Row
<1>2. payout'[p] \in [st : Statuses, amount : Amounts,
                      from : {"earnings", "wallet"}, known : BOOLEAN]
  BY <1>1 DEF Complete, Statuses
<1>3. payout' \in [Payouts -> Payout] /\ RowsStay
  BY <1>1, <1>2 DEF Complete, Payout, RowsStay, Row, NoPayout, Statuses
<1>4. balance' \in Nat /\ reserved' \in Nat /\ NoFreeCredit'
  BY <1>1, PayoutsAssumption DEF IInv, TypeOK, NoFreeCredit, Complete
<1> QED
  BY <1>3, <1>4 DEF MoneyOK

\* failPayout moves only what is reserved.
LEMMA FailKeepsMoney ==
  ASSUME IInv, NEW p \in Payouts, NEW k \in BOOLEAN, Row(p), Fail(p, k)
  PROVE  MoneyOK' /\ RowsStay
<1>1. /\ payout \in [Payouts -> Payout] /\ payout[p].amount \in Nat
      /\ payout[p] \in [st : Statuses, amount : Amounts,
                        from : {"earnings", "wallet"}, known : BOOLEAN]
  BY PayoutsAssumption DEF IInv, TypeOK, Payout, Row
<1>2. payout'[p] \in [st : Statuses, amount : Amounts,
                      from : {"earnings", "wallet"}, known : BOOLEAN]
  BY <1>1 DEF Fail, Statuses
<1>3. payout' \in [Payouts -> Payout] /\ RowsStay
  BY <1>1, <1>2 DEF Fail, Payout, RowsStay, Row, NoPayout, Statuses
<1>4. balance' \in Nat /\ reserved' \in Nat /\ NoFreeCredit'
  BY <1>1, PayoutsAssumption DEF IInv, TypeOK, NoFreeCredit, Fail, wallet
<1> QED
  BY <1>3, <1>4 DEF MoneyOK

\* A row that is there becomes processing, its id known or not.
LEMMA ProcessingKeepsMoney ==
  ASSUME IInv, NEW p \in Payouts, Row(p), UNCHANGED wallet,
         \/ payout' = [payout EXCEPT ![p].st = "processing"]
         \/ payout' = [payout EXCEPT ![p].st = "processing", ![p].known = TRUE]
  PROVE  MoneyOK' /\ RowsStay
<1>1. /\ payout \in [Payouts -> Payout]
      /\ payout[p] \in [st : Statuses, amount : Amounts,
                        from : {"earnings", "wallet"}, known : BOOLEAN]
  BY DEF IInv, TypeOK, Payout, Row
<1>2. payout'[p] \in [st : Statuses, amount : Amounts,
                      from : {"earnings", "wallet"}, known : BOOLEAN]
  BY <1>1 DEF Statuses
<1>3. payout' \in [Payouts -> Payout] /\ RowsStay
  BY <1>1, <1>2 DEF Payout, RowsStay, Row, NoPayout, Statuses
<1> QED
  BY <1>3 DEF MoneyOK, IInv, TypeOK, NoFreeCredit, wallet

-----------------------------------------------------------------------------
\* One lemma per group of actions.

LEMMA IncomeSteps ==
  ASSUME IInv, \/ ReleaseHeldEarnings
               \/ \E e \in Earnings : DisputeOpen(e) \/ DisputeReject(e)
  PROVE  IInv'
<1> USE DEF wallet, bank
<1>1. UNCHANGED <<wallet, payout, bank, crashes, reqs>>
  BY DEF ReleaseHeldEarnings, DisputeOpen, DisputeReject
<1>2. IncomeOK'
  <2>1. CASE ReleaseHeldEarnings
    BY <2>1 DEF IInv, TypeOK, IncomeOK, ReleaseHeldEarnings, Mature
  <2>2. CASE \E e \in Earnings : DisputeOpen(e) \/ DisputeReject(e)
    BY <2>2 DEF IInv, TypeOK, IncomeOK, DisputeOpen, DisputeReject
  <2> QED
    BY <2>1, <2>2
<1>3. RowsStay /\ MadeStay
  BY <1>1 DEF RowsStay, MadeStay, Row, Made
<1>4. MoneyOK' /\ BankOK' /\ CountOK'
  BY <1>1, Parts DEF MoneyOK, BankOK, CountOK, NoFreeCredit, NoticesTrue, Made
<1> QED
  BY <1>1, <1>2, <1>3, <1>4, Parts, FlightSame

\* What becomes of a transfer: none is unmade, and an event tells the truth.
LEMMA BecomesKeeps ==
  ASSUME IInv, NEW p \in Payouts, NEW t \in TransferStates \ {"none"},
         Becomes(p, t), Made(p) => t = "reversed"
  PROVE  BankOK' /\ MadeStay
<1>1. transfer' \in [Payouts -> TransferStates]
  BY DEF IInv, TypeOK, Becomes
<1>2. MadeStay
  BY DEF IInv, TypeOK, Becomes, MadeStay, Made
<1>3. notices' \subseteq Payouts \X AllEvents
  BY PayoutsAssumption DEF IInv, TypeOK, Becomes, EventOf, AllEvents, Handled, TransferStates
<1>4. NoticesTrue'
  <2> SUFFICES ASSUME NEW q \in Payouts, <<q, "processed">> \in notices'
               PROVE  Made(q)'
    BY DEF NoticesTrue
  <2>1. CASE <<q, "processed">> \in notices
    BY <1>2, <2>1 DEF IInv, NoticesTrue, MadeStay
  <2>2. CASE <<q, "processed">> = <<p, EventOf(t)>>
    BY <2>2 DEF IInv, TypeOK, Becomes, EventOf, Made
  <2> QED
    BY <2>1, <2>2 DEF Becomes
<1> QED
  BY <1>1, <1>2, <1>3, <1>4 DEF BankOK

LEMMA BankSteps ==
  ASSUME IInv, NEW p \in Payouts, BankSettle(p) \/ BankReverse(p)
  PROVE  IInv'
<1>1. BankOK' /\ MadeStay
  BY BecomesKeeps DEF BankSettle, BankReverse, Made, TransferStates
<1>2. UNCHANGED <<income, wallet, payout, crashes, reqs>>
  BY DEF BankSettle, BankReverse
<1>3. RowsStay
  BY <1>2 DEF RowsStay, Row
<1>4. IncomeOK' /\ MoneyOK' /\ CountOK'
  BY <1>2, Parts DEF IncomeOK, MoneyOK, CountOK, NoFreeCredit, income, wallet
<1> QED
  BY <1>1, <1>2, <1>3, <1>4, Parts, FlightSame

LEMMA RequestSteps ==
  ASSUME IInv, NEW r \in Requests,
         \/ PayoutStart(r) \/ PayoutCheck(r) \/ PayoutSum(r) \/ CronFind(r)
         \/ \E amount \in Amounts : WithdrawCheck(r, amount)
         \/ \E p \in Payouts, event \in Events : HookRead(r, p, event)
         \/ \E p \in Payouts, to \in Statuses : AdminRead(r, p, to)
         \/ CronRefused(r)
  PROVE  IInv'
<1>1. UNCHANGED <<wallet, payout, bank, crashes>>
  BY DEF PayoutStart, PayoutCheck, PayoutSum, CronFind, WithdrawCheck, HookRead, AdminRead,
         CronRefused
<1>2. IncomeOK'
  BY DEF IInv, TypeOK, IncomeOK, income, PayoutStart, Mature, PayoutCheck, PayoutSum, CronFind,
         WithdrawCheck, HookRead, AdminRead, CronRefused
<1>3. \E rec \in Request : Goto(r, rec) /\ Informed(rec)
  <2>1. CASE PayoutStart(r) \/ PayoutCheck(r) \/ PayoutSum(r)
    <3>1. \A rec \in {Idle, [op |-> "payoutCheck"], [op |-> "payoutSum"]} :
            rec \in Request /\ Informed(rec)
      BY DEF Request, Idle, Informed
    <3>2. \A amount \in Amounts : LET rec == [op |-> "payoutCreate", amount |-> amount] IN
            rec \in Request /\ Informed(rec)
      BY DEF Request, Informed
    <3> QED
      BY <2>1, <3>1, <3>2 DEF PayoutStart, PayoutCheck, PayoutSum, Done
  <2>2. CASE CronFind(r)
    BY <2>2 DEF CronFind, Request, Informed, InStatus, Row, NoPayout
  <2>3. CASE \E amount \in Amounts : WithdrawCheck(r, amount)
    BY <2>3 DEF WithdrawCheck, Request, Informed
  <2>4. CASE \E p \in Payouts, event \in Events : HookRead(r, p, event)
    BY <2>4, PayoutsAssumption
       DEF HookRead, Request, Informed, Row, NoPayout, IInv, NoticesTrue
  <2>5. CASE \E p \in Payouts, to \in Statuses : AdminRead(r, p, to)
    BY <2>5 DEF AdminRead, Request, Informed, Row, NoPayout
  <2>6. CASE CronRefused(r)
    <3>1. reqs[r] \in Request /\ Informed(reqs[r])
      BY DEF IInv, TypeOK
    <3> QED
      BY <2>6, <3>1, RecordsName DEF CronRefused, At, Request, Informed
  <2> QED
    BY <2>1, <2>2, <2>3, <2>4, <2>5, <2>6
<1>4. PICK rec \in Request : Goto(r, rec) /\ Informed(rec)
  BY <1>3
<1>5. Informed(rec)'
  BY <1>1, <1>4 DEF Informed, Row, Made, bank
<1> QED
  BY <1>1, <1>2, <1>4, <1>5, ReadKeeps

LEMMA CrashKeeps == ASSUME IInv, NEW r \in Requests, Crash(r) PROVE IInv'
<1>1. UNCHANGED <<income, wallet, payout, bank>> /\ Done(r)
  BY DEF Crash
<1>2. CountOK'
  BY PayoutsAssumption DEF IInv, TypeOK, Crash, CountOK
<1>3. RowsStay /\ MadeStay
  BY <1>1 DEF RowsStay, MadeStay, Row, Made, bank
<1>4. IncomeOK' /\ MoneyOK' /\ BankOK'
  BY <1>1, Parts DEF IncomeOK, MoneyOK, BankOK, NoFreeCredit, NoticesTrue, Made, income,
     wallet, bank
<1> QED
  BY <1>1, <1>2, <1>3, <1>4, Parts, FlightDone

\* A new row.
LEMMA CreateSteps ==
  ASSUME IInv, NEW r \in Requests, PayoutCreate(r) \/ WithdrawReserve(r)
  PROVE  IInv'
<1>1. reqs[r].amount \in Amounts /\ reqs[r].amount \in Nat
  BY RecordsName, PayoutsAssumption DEF IInv, TypeOK, PayoutCreate, WithdrawReserve, At
<1>2. MoneyOK' /\ RowsStay
  <2>1. ASSUME NEW p \in Payouts, NEW from \in {"earnings", "wallet"},
               NewPayout(p, reqs[r].amount, from)
        PROVE  payout' \in [Payouts -> Payout] /\ RowsStay
    BY <1>1, <2>1 DEF IInv, TypeOK, NewPayout, Payout, Statuses, RowsStay, Row
  <2>2. CASE PayoutCreate(r)
    BY <2>1, <2>2 DEF PayoutCreate, MoneyOK, IInv, TypeOK, NoFreeCredit, wallet
  <2>3. CASE WithdrawReserve(r)
    <3>1. CASE balance >= reqs[r].amount
      <4>1. /\ \E p \in Payouts : NewPayout(p, reqs[r].amount, "wallet")
            /\ balance' = balance - reqs[r].amount
            /\ reserved' = reserved + reqs[r].amount
        BY <2>3, <3>1 DEF WithdrawReserve
      <4>2. balance' \in Nat /\ reserved' \in Nat /\ NoFreeCredit'
        BY <1>1, <3>1, <4>1, PayoutsAssumption DEF IInv, TypeOK, NoFreeCredit
      <4> QED
        BY <2>1, <4>1, <4>2 DEF MoneyOK
    <3>2. CASE ~(balance >= reqs[r].amount)
      BY <2>3, <3>2 DEF WithdrawReserve, MoneyOK, IInv, TypeOK, NoFreeCredit, wallet,
         RowsStay, Row
    <3> QED
      BY <3>1, <3>2
  <2> QED
    BY <2>2, <2>3
<1>3. Done(r) /\ UNCHANGED <<income, bank, crashes>>
  BY DEF PayoutCreate, WithdrawReserve
<1> QED
  BY <1>2, <1>3, IdleIsInformed, MoneyKeeps DEF Done, bank

LEMMA CronMarkKeeps == ASSUME IInv, NEW r \in Requests, CronMark(r) PROVE IInv'
<1>1. reqs[r] \in Request /\ reqs[r].op = "cronMark" /\ Informed(reqs[r])
  BY DEF IInv, TypeOK, CronMark, At
<1>2. PICK p \in reqs[r].todo :
        /\ payout' = [payout EXCEPT ![p].st = "processing"]
        /\ Goto(r, [op |-> "cronSubmit", p |-> p, todo |-> reqs[r].todo \ {p}])
  BY DEF CronMark
<1>3. p \in Payouts /\ reqs[r].todo \in SUBSET Payouts
  BY <1>1, RecordsName
<1>4. Row(p) /\ \A q \in reqs[r].todo : Row(q)
  BY <1>1 DEF Informed
<1>5. UNCHANGED <<income, wallet, bank, crashes>>
  BY DEF CronMark
<1>6. MoneyOK' /\ RowsStay
  BY <1>2, <1>3, <1>4, <1>5, ProcessingKeepsMoney
<1>7. PICK todo \in SUBSET Payouts : todo = reqs[r].todo \ {p}
  BY <1>3
<1> DEFINE rec == [op |-> "cronSubmit", p |-> p, todo |-> todo]
<1>8. rec \in Request /\ Goto(r, rec)
  BY <1>2, <1>3, <1>7 DEF Request
<1>9. Informed(rec)'
  BY <1>3, <1>4, <1>6, <1>7 DEF Informed, RowsStay
<1> QED
  BY <1>5, <1>6, <1>8, <1>9, MoneyKeeps DEF bank

\* The gateway is asked: what it answers is what became of the transfer.
LEMMA CronSubmitKeeps == ASSUME IInv, NEW r \in Requests, CronSubmit(r) PROVE IInv'
<1>1. reqs[r] \in Request /\ reqs[r].op = "cronSubmit" /\ Informed(reqs[r])
  BY DEF IInv, TypeOK, CronSubmit, At
<1>2. PICK p \in Payouts, todo \in SUBSET Payouts : p = reqs[r].p /\ todo = reqs[r].todo
  BY <1>1, RecordsName
<1>3. Row(p) /\ \A q \in todo : Row(q)
  BY <1>1, <1>2 DEF Informed
<1>4. Submit(p) /\ UNCHANGED <<income, wallet, payout, crashes>>
  BY <1>2 DEF CronSubmit
<1>5. BankOK' /\ MadeStay
  <2>1. CASE transfer[p] = "none"
    BY <1>4, <2>1, BecomesKeeps DEF Submit, Made, TransferStates
  <2>2. CASE transfer[p] # "none"
    BY <1>4, <2>2, Parts DEF Submit, bank, BankOK, MadeStay, Made, NoticesTrue
  <2> QED
    BY <2>1, <2>2
<1>6. transfer'[p] \in TransferStates \ {"none"}
  BY <1>4, <1>5 DEF Submit, Becomes, bank, BankOK, IInv, TypeOK, TransferStates
<1>7. PICK answer \in Statuses \cup {"error"} :
        /\ answer = "completed" => Made(p)'
        /\ Goto(r, [op |-> "cronWrite", p |-> p, todo |-> todo, answer |-> answer])
  <2>1. Internal(transfer'[p]) \in Statuses
    BY <1>6 DEF Internal, Statuses, TransferStates
  <2>2. Internal(transfer'[p]) = "completed" => Made(p)'
    BY <1>6 DEF Internal, TransferStates, Made
  <2> QED
    BY <1>2, <2>1, <2>2 DEF CronSubmit
<1> DEFINE rec == [op |-> "cronWrite", p |-> p, todo |-> todo, answer |-> answer]
<1>8. RowsStay
  BY <1>4 DEF RowsStay, Row
<1>9. rec \in Request /\ Informed(rec)'
  BY <1>3, <1>7, <1>8 DEF Request, Informed, RowsStay
<1>10. FlightOK'
  BY <1>5, <1>7, <1>8, <1>9, Parts, FlightGoto
<1>11. IncomeOK' /\ MoneyOK' /\ CountOK'
  BY <1>4, Parts DEF IncomeOK, MoneyOK, CountOK, NoFreeCredit, income, wallet
<1> QED
  BY <1>5, <1>10, <1>11, Parts

LEMMA CronWriteKeeps == ASSUME IInv, NEW r \in Requests, CronWrite(r) PROVE IInv'
<1>1. reqs[r] \in Request /\ reqs[r].op = "cronWrite" /\ Informed(reqs[r])
  BY DEF IInv, TypeOK, CronWrite, At
<1>2. PICK p \in Payouts, todo \in SUBSET Payouts : p = reqs[r].p /\ todo = reqs[r].todo
  BY <1>1, RecordsName
<1>3. Row(p) /\ \A q \in todo : Row(q)
  BY <1>1, <1>2 DEF Informed
<1>4. UNCHANGED <<income, bank, crashes>> /\ Continue(r, todo)
  BY <1>2 DEF CronWrite
<1>5. MoneyOK' /\ RowsStay
  <2>1. \/ Complete(p, TRUE) \/ \E k \in BOOLEAN : Fail(p, k)
        \/ /\ payout' = [payout EXCEPT ![p].st = "processing", ![p].known = TRUE]
           /\ UNCHANGED wallet
    BY <1>2 DEF CronWrite
  <2> QED
    BY <1>3, <2>1, CompleteKeepsMoney, FailKeepsMoney, ProcessingKeepsMoney
<1>6. PICK rec \in {Idle, [op |-> "cronMark", todo |-> todo]} : Goto(r, rec)
  BY <1>4 DEF Continue, Done
<1>7. rec \in Request /\ Informed(rec)'
  BY <1>3, <1>5, <1>6 DEF Request, Informed, Idle, RowsStay
<1> QED
  BY <1>4, <1>5, <1>6, <1>7, MoneyKeeps DEF bank

LEMMA HookDroppedKeeps ==
  ASSUME IInv, NEW r \in Requests, NEW p \in Payouts, NEW event \in Events,
         HookDropped(r, p, event)
  PROVE  IInv'
<1>1. UNCHANGED <<income, wallet, payout, transfer, crashes, reqs>> /\ notices' \subseteq notices
  BY DEF HookDropped, Acknowledge
<1>2. RowsStay /\ MadeStay
  BY <1>1 DEF RowsStay, MadeStay, Row, Made
<1>3. IncomeOK' /\ MoneyOK' /\ BankOK' /\ CountOK'
  BY <1>1, Parts
     DEF IncomeOK, MoneyOK, BankOK, CountOK, NoFreeCredit, NoticesTrue, Made, income, wallet
<1> QED
  BY <1>1, <1>2, <1>3, Parts, FlightSame

LEMMA SettleKeeps ==
  ASSUME IInv, NEW r \in Requests, HookWrite(r) \/ AdminWrite(r)
  PROVE  IInv'
<1>1. reqs[r] \in Request /\ reqs[r].op \in {"hookWrite", "adminWrite"} /\ Informed(reqs[r])
  BY DEF IInv, TypeOK, HookWrite, AdminWrite, At
<1>2. PICK p \in Payouts : p = reqs[r].p
  BY <1>1, RecordsName
<1>3. Row(p)
  BY <1>1, <1>2 DEF Informed
<1>4. UNCHANGED <<income, transfer, crashes>> /\ notices' \subseteq notices /\ Done(r)
  BY DEF HookWrite, AdminWrite, Acknowledge, bank
<1>5. MoneyOK' /\ RowsStay
  <2>1. \/ Complete(p, FALSE) \/ Fail(p, FALSE)
        \/ /\ payout' = [payout EXCEPT ![p].st = "processing"]
           /\ UNCHANGED wallet
    <3>1. CASE HookWrite(r)
      BY <1>2, <3>1 DEF HookWrite
    <3>2. CASE AdminWrite(r)
      BY <1>2, <3>2 DEF AdminWrite
    <3> QED
      BY <3>1, <3>2
  <2> QED
    BY <1>3, <2>1, CompleteKeepsMoney, FailKeepsMoney, ProcessingKeepsMoney
<1> QED
  BY <1>4, <1>5, IdleIsInformed, MoneyKeeps DEF Done

-----------------------------------------------------------------------------
LEMMA InitHolds == Init => IInv
<1> SUFFICES ASSUME Init PROVE IInv
  OBVIOUS
<1>1. TypeOK
  BY PayoutsAssumption DEF Init, TypeOK, Payout, Request, TransferStates
<1>2. NoFreeCredit
  BY PayoutsAssumption DEF Init, NoFreeCredit
<1> QED
  BY <1>1, <1>2 DEF Init, IInv, NoticesTrue, Informed, Idle

LEMMA NextKeeps == IInv /\ [Next]_vars => IInv'
<1> SUFFICES ASSUME IInv, [Next]_vars PROVE IInv'
  OBVIOUS
<1>1. CASE UNCHANGED vars
  <2>1. UNCHANGED <<income, wallet, payout, bank, crashes, reqs>>
    BY <1>1 DEF vars
  <2>2. RowsStay /\ MadeStay
    BY <2>1 DEF RowsStay, MadeStay, Row, Made, bank
  <2>3. IncomeOK' /\ MoneyOK' /\ BankOK' /\ CountOK'
    BY <2>1, Parts DEF IncomeOK, MoneyOK, BankOK, CountOK, NoFreeCredit, NoticesTrue, Made,
                       income, wallet, bank
  <2> QED
    BY <2>1, <2>2, <2>3, Parts, FlightSame
<1>2. ASSUME NEW r \in Requests, Arrive(r) PROVE IInv'
  BY <1>2, RequestSteps, HookDroppedKeeps DEF Arrive, Deliver
<1>3. ASSUME NEW r \in Requests, Proceed(r) PROVE IInv'
  BY <1>3, RequestSteps, CreateSteps, CronMarkKeeps, CronSubmitKeeps, CronWriteKeeps, SettleKeeps
     DEF Proceed
<1> QED
  BY <1>1, <1>2, <1>3, CrashKeeps, IncomeSteps, BankSteps DEF Next

\* Every reachable state is well typed; in particular no reservation is ever negative.
THEOREM TypeCorrect == Spec => []TypeOK
<1>1. IInv => TypeOK
  BY DEF IInv
<1> QED
  BY <1>1, InitHolds, NextKeeps, PTL DEF Spec

\* However payouts, withdrawals, events, cron jobs, crashes and admin decisions
\* interleave, the wallet never holds more than was put into it.
THEOREM WalletBounded == Spec => []NoFreeCredit
<1>1. IInv => NoFreeCredit
  BY DEF IInv
<1> QED
  BY <1>1, InitHolds, NextKeeps, PTL DEF Spec

-----------------------------------------------------------------------------
\* What one step may turn to completed.
CompletionOK == \A p \in Payouts :
                  payout[p].st # "completed" /\ payout'[p].st = "completed"
                    => Made(p) \/ \E r \in Requests : At(r, "adminWrite")

LEMMA CreationIsNotCompletion ==
  ASSUME IInv, NEW r \in Requests, PayoutCreate(r) \/ WithdrawReserve(r)
  PROVE  CompletionOK
  BY DEF IInv, TypeOK, PayoutCreate, WithdrawReserve, NewPayout, CompletionOK, wallet

LEMMA CronCompletes ==
  ASSUME IInv, NEW r \in Requests, CronMark(r) \/ CronWrite(r)
  PROVE  CompletionOK
<1>1. reqs[r] \in Request /\ Informed(reqs[r]) /\ payout \in [Payouts -> Payout]
  BY DEF IInv, TypeOK
<1>2. CASE CronMark(r)
  BY <1>1, <1>2, RecordsName DEF CronMark, At, CompletionOK
<1>3. CASE CronWrite(r)
  <2>1. CASE reqs[r].answer = "completed"
    BY <1>1, <1>3, <2>1, RecordsName DEF CronWrite, At, Complete, CompletionOK, Informed
  <2>2. CASE reqs[r].answer # "completed"
    <3>1. PICK q \in Payouts : q = reqs[r].p
      BY <1>1, <1>3, RecordsName DEF CronWrite, At
    <3>2. \/ \E k \in BOOLEAN : Fail(q, k)
          \/ payout' = [payout EXCEPT ![q].st = "processing", ![q].known = TRUE]
      BY <1>3, <2>2, <3>1 DEF CronWrite
    <3> QED
      BY <1>1, <3>2 DEF Fail, CompletionOK, Payout, NoPayout
  <2> QED
    BY <2>1, <2>2
<1> QED
  BY <1>2, <1>3

LEMMA EventCompletes ==
  ASSUME IInv, NEW r \in Requests, HookWrite(r)
  PROVE  CompletionOK
<1>1. reqs[r] \in Request /\ Informed(reqs[r]) /\ payout \in [Payouts -> Payout]
  BY DEF IInv, TypeOK
<1>2. CASE reqs[r].event = "processed"
  BY <1>1, <1>2, RecordsName DEF HookWrite, At, Complete, CompletionOK, Informed
<1>3. CASE reqs[r].event # "processed"
  <2>1. PICK q \in Payouts : q = reqs[r].p
    BY <1>1, RecordsName DEF HookWrite, At
  <2>2. Fail(q, FALSE) \/ payout' = [payout EXCEPT ![q].st = "processing"]
    BY <1>3, <2>1 DEF HookWrite
  <2> QED
    BY <1>1, <2>2 DEF Fail, CompletionOK, Payout, NoPayout
<1> QED
  BY <1>2, <1>3

LEMMA NextCompletes == IInv /\ [Next]_vars => CompletionOK
<1> SUFFICES ASSUME IInv, [Next]_vars PROVE CompletionOK
  OBVIOUS
<1>1. CASE UNCHANGED payout
  BY <1>1 DEF CompletionOK
<1>2. ASSUME NEW r \in Requests, Arrive(r) \/ Crash(r) PROVE UNCHANGED payout
  BY <1>2 DEF Arrive, Deliver, PayoutStart, CronFind, WithdrawCheck, HookRead, HookDropped,
              AdminRead, Crash
<1>3. ASSUME NEW r \in Requests, Proceed(r) PROVE CompletionOK
  <2>1. CASE PayoutCheck(r) \/ PayoutSum(r) \/ CronSubmit(r) \/ CronRefused(r)
    BY <1>1, <2>1 DEF PayoutCheck, PayoutSum, CronSubmit, CronRefused
  <2>2. CASE AdminWrite(r)
    BY <2>2 DEF AdminWrite, CompletionOK
  <2> QED
    BY <1>3, <2>1, <2>2, CreationIsNotCompletion, CronCompletes, EventCompletes DEF Proceed
<1>4. ASSUME \/ \E e \in Earnings : DisputeOpen(e) \/ DisputeReject(e)
             \/ \E p \in Payouts : BankSettle(p) \/ BankReverse(p)
             \/ ReleaseHeldEarnings
      PROVE  UNCHANGED payout
  BY <1>4 DEF DisputeOpen, DisputeReject, BankSettle, BankReverse, ReleaseHeldEarnings
<1>5. CASE UNCHANGED vars
  BY <1>1, <1>5 DEF vars
<1> QED
  BY <1>1, <1>2, <1>3, <1>4, <1>5 DEF Next

\* Only a transfer the bank has made turns a payout to completed, unless an admin
\* says so: neither the cron job's answer nor an event can be out of date about it.
THEOREM CompletionIsTransfer == Spec => CompletedWasTransferred
<1>1. IInv /\ [Next]_vars => [\A p \in Payouts :
         payout[p].st # "completed" /\ payout'[p].st = "completed"
           => \/ transfer[p] \in {"processed", "reversed"}
              \/ \E r \in Requests : At(r, "adminWrite")]_payout
  BY NextCompletes DEF CompletionOK, Made
<1> QED
  BY <1>1, InitHolds, NextKeeps, PTL DEF Spec, CompletedWasTransferred

-----------------------------------------------------------------------------
(***************************************************************************)
(* MoneyOnce, for requests that come one at a time, without administrators *)
(* and without transfers that are reversed: with any of these the sums of  *)
(* requestPayout can be out of date when the payout is inserted.           *)
(***************************************************************************)
\* What becomes of a transfer the bank does not take back.
Settled == {"processed", "failed", "rejected"}
Refused == {"failed", "rejected"}

Serial == /\ \A q, r \in Requests : q = r
          /\ "admin" \notin Ops
          /\ Events \subseteq Settled

Paid(from, S) == {p \in Payouts : payout[p].from = from /\ payout[p].st \in S}
Drawn     == Paid("earnings", {"requested", "processing", "completed"})
Withdrawn == Paid("wallet", {"completed"})

\* One payout at most is in flight.
Solo == \A p, q \in InFlight : p = q

\* What is known of a transfer is final, and so is what a payout was settled by.
Truth == \A p \in Payouts :
  /\ transfer[p] # "reversed"
  /\ \A event \in AllEvents : <<p, event>> \in notices => event \in Settled /\ transfer[p] = event
  /\ payout[p].st = "requested" => ~payout[p].known
  /\ payout[p].known /\ payout[p].st = "completed" => transfer[p] = "processed"
  /\ payout[p].known /\ payout[p].st = "failed" => transfer[p] \in Refused

\* Nothing is reserved but for the withdrawal in flight.
Purse == /\ InFlight = {} => reserved = 0
         /\ \A p \in InFlight : reserved = IF payout[p].from = "wallet" THEN payout[p].amount ELSE 0
         /\ balance + reserved + Total(Withdrawn) = Deposits

Matured    == \A e \in Earnings : earning[e] = "available" => e \in matured
Covered(x) == Total(Drawn) + x <= Net * Cardinality(matured)

\* What the one handler in flight has established.
Alone(rec) ==
  /\ rec.op \in {"payoutSum", "payoutCreate", "withdrawReserve"} => InFlight = {}
  /\ rec.op = "payoutCreate" => Covered(rec.amount)
  /\ rec.op = "cronMark" => \A p \in rec.todo : payout[p].st = "requested"
  /\ rec.op \in {"cronSubmit", "cronWrite"}
       => payout[rec.p].st = "processing" /\ ~payout[rec.p].known /\ rec.todo = {}
  /\ rec.op = "cronWrite" /\ rec.answer = "completed" => transfer[rec.p] = "processed"
  /\ rec.op = "cronWrite" /\ rec.answer = "failed" => transfer[rec.p] \in Refused
  /\ rec.op = "hookWrite" => /\ payout[rec.p].st = "processing" /\ payout[rec.p].known
                             /\ rec.event \in {"processed", "failed"} /\ transfer[rec.p] = rec.event
  /\ rec.op # "adminWrite"

SInv == /\ Solo /\ Truth /\ Purse /\ Matured /\ Covered(0)
        /\ \A r \in Requests : Alone(reqs[r])

-----------------------------------------------------------------------------
\* Sums of amounts.
LEMMA Rows ==
  ASSUME TypeOK, NEW p \in Payouts
  PROVE  /\ payout[p].amount \in Nat /\ payout[p].known \in BOOLEAN
         /\ payout[p].st \in Statuses \cup {"none"}
         /\ payout[p].st = "none" <=> payout[p] = NoPayout
         /\ payout[p].st # "none" => payout[p].from \in {"earnings", "wallet"} /\ payout[p].amount > 0
<1>1. payout[p] \in Payout
  BY DEF TypeOK
<1>2. CASE payout[p] = NoPayout
  BY <1>2 DEF NoPayout
<1>3. CASE payout[p] \in [st : Statuses, amount : Amounts, from : {"earnings", "wallet"}, known : BOOLEAN]
  <2>1. payout[p].st \in Statuses /\ payout[p].amount \in Amounts /\ payout[p].known \in BOOLEAN
        /\ payout[p].from \in {"earnings", "wallet"}
    BY <1>3
  <2>2. payout[p].amount \in Nat /\ payout[p].amount > 0
    <3>1. payout[p].amount \in Nat \ {0}
      BY <2>1, PayoutsAssumption
    <3> QED
      BY <3>1
  <2>3. payout[p].st # "none" /\ payout[p] # NoPayout
    BY <2>1 DEF Statuses, NoPayout
  <2> QED
    BY <2>1, <2>2, <2>3
<1> QED
  BY <1>1, <1>2, <1>3 DEF Payout

LEMMA Totals ==
  ASSUME TypeOK, NEW P \in SUBSET Payouts
  PROVE  /\ Total(P) \in Nat
         /\ \A Q \in SUBSET P : Total(Q) <= Total(P)
         /\ \A p \in Payouts : p \notin P => Total(P \cup {p}) = Total(P) + payout[p].amount
<1> DEFINE amount == [p \in Payouts |-> payout[p].amount]
<1>1. \A p \in Payouts : amount[p] \in Nat
  BY Rows
<1>2. IsFiniteSet(P)
  BY PayoutsAssumption, FS_Subset
<1>3. \A Q \in SUBSET Payouts : Total(Q) = SumFunctionOnSet(amount, Q)
  BY DEF Total
<1> HIDE DEF amount
<1>4. Total(P) \in Nat
  BY <1>1, <1>2, <1>3, SumType
<1>5. \A Q \in SUBSET P : Total(Q) <= Total(P)
  BY <1>1, <1>2, <1>3, SumPart
<1>6. ASSUME NEW p \in Payouts, p \notin P PROVE Total(P \cup {p}) = Total(P) + payout[p].amount
  <2>1. SumFunctionOnSet(amount, P \cup {p}) = SumFunctionOnSet(amount, P) + amount[p]
    BY <1>1, <1>2, <1>6, SumAdd
  <2>2. amount[p] = payout[p].amount
    BY DEF amount
  <2> QED
    BY <1>3, <2>1, <2>2
<1> QED
  BY <1>4, <1>5, <1>6

LEMMA TotalNone == Total({}) = 0
  BY SumEmpty DEF Total

\* A sum changes with the amounts of its rows only.
LEMMA TotalStays ==
  ASSUME NEW P \in SUBSET Payouts, \A p \in P : payout'[p].amount = payout[p].amount
  PROVE  Total(P)' = Total(P)
<1> DEFINE old == [p \in Payouts |-> payout[p].amount]
           new == [p \in Payouts |-> payout'[p].amount]
<1>1. IsFiniteSet(P)
  BY PayoutsAssumption, FS_Subset
<1>2. \A p \in P : old[p] = new[p]
  OBVIOUS
<1>3. Total(P) = SumFunctionOnSet(old, P) /\ Total(P)' = SumFunctionOnSet(new, P)
  BY DEF Total
<1> HIDE DEF old, new
<1> QED
  BY <1>1, <1>2, <1>3, SumSame

\* The rows in flight, before and after one of them is written.
Rewrites(p) ==
  /\ \A q \in Payouts : q # p => payout'[q] = payout[q]
  /\ payout'[p].amount = payout[p].amount /\ payout'[p].from = payout[p].from

LEMMA SettledTotals ==
  ASSUME TypeOK, TypeOK', NEW p \in InFlight, Rewrites(p), payout'[p].st \in Statuses
  PROVE  /\ Total(Drawn)' <= Total(Drawn)
         /\ payout'[p].st = "completed" /\ payout[p].from = "wallet"
              => Total(Withdrawn)' = Total(Withdrawn) + payout[p].amount
         /\ ~(payout'[p].st = "completed" /\ payout[p].from = "wallet")
              => Total(Withdrawn)' = Total(Withdrawn)
<1>0. p \in Payouts /\ payout[p].st \in {"requested", "processing"}
  BY DEF InFlight, InStatus
<1>1. \A P \in SUBSET Payouts : Total(P)' = Total(P)
  BY <1>0, TotalStays DEF Rewrites
<1>2. PICK D \in SUBSET Payouts : D = Drawn'
  BY DEF Drawn, Paid
<1>3. PICK E \in SUBSET Payouts : E = Drawn
  BY DEF Drawn, Paid
<1>4. D \in SUBSET E
  BY <1>0, <1>2, <1>3 DEF Rewrites, Drawn, Paid
<1>5. Total(Drawn)' = Total(D)
  BY <1>1, <1>2
<1>6. PICK V \in SUBSET Payouts : V = Withdrawn'
  BY DEF Withdrawn, Paid
<1>7. PICK W \in SUBSET Payouts : W = Withdrawn
  BY DEF Withdrawn, Paid
<1>8. Total(Withdrawn)' = Total(V)
  BY <1>1, <1>6
<1>9. p \notin W
  BY <1>0, <1>7 DEF Withdrawn, Paid
<1>10. CASE payout'[p].st = "completed" /\ payout[p].from = "wallet"
  <2>1. V = W \cup {p}
    BY <1>0, <1>6, <1>7, <1>10 DEF Rewrites, Withdrawn, Paid
  <2> QED
    BY <1>0, <1>3, <1>4, <1>5, <1>7, <1>8, <1>9, <1>10, <2>1, Totals
<1>11. CASE ~(payout'[p].st = "completed" /\ payout[p].from = "wallet")
  <2>1. V = W
    BY <1>0, <1>6, <1>7, <1>11 DEF Rewrites, Withdrawn, Paid
  <2> QED
    BY <1>3, <1>4, <1>5, <1>7, <1>8, <1>11, <2>1, Totals
<1> QED
  BY <1>10, <1>11

\* A new row counts for what it was drawn on, if that is the earnings.
LEMMA NewTotals ==
  ASSUME TypeOK, TypeOK', NEW p \in Payouts, NEW amount \in Amounts,
         NEW from \in {"earnings", "wallet"}, NewPayout(p, amount, from)
  PROVE  /\ Total(Drawn)' = Total(Drawn) + (IF from = "earnings" THEN amount ELSE 0)
         /\ Total(Withdrawn)' = Total(Withdrawn)
         /\ InFlight' = InFlight \cup {p} /\ p \notin InFlight
         /\ payout'[p].amount = amount /\ payout'[p].from = from
<1>0. /\ payout'[p] = [st |-> "requested", amount |-> amount, from |-> from, known |-> FALSE]
      /\ \A q \in Payouts : q # p => payout'[q] = payout[q]
      /\ payout[p] = NoPayout /\ amount \in Nat
  BY PayoutsAssumption DEF NewPayout, TypeOK
<1>1. PICK E \in SUBSET Payouts : E = Drawn
  BY DEF Drawn, Paid
<1>2. PICK W \in SUBSET Payouts : W = Withdrawn
  BY DEF Withdrawn, Paid
<1>3. p \notin E /\ p \notin W
  BY <1>0, <1>1, <1>2 DEF Drawn, Withdrawn, Paid, NoPayout
<1>4. Total(E)' = Total(E) /\ Total(W)' = Total(W)
  BY <1>0, <1>3, TotalStays
<1>5. Total(E) \in Nat
  BY Totals
<1>6. Total(E \cup {p})' = Total(E)' + amount
  <2> DEFINE new == [q \in Payouts |-> payout'[q].amount]
  <2>1. \A q \in Payouts : payout[q].amount \in Nat
    BY Rows
  <2>2. \A q \in Payouts : new[q] \in Nat
    <3> TAKE q \in Payouts
    <3>1. CASE q = p
      BY <1>0, <3>1
    <3>2. CASE q # p
      BY <1>0, <2>1, <3>2
    <3> QED
      BY <3>1, <3>2
  <2>3. IsFiniteSet(E) /\ new[p] = amount
    BY <1>0, PayoutsAssumption, FS_Subset
  <2>4. /\ Total(E)' = SumFunctionOnSet(new, E)
        /\ Total(E \cup {p})' = SumFunctionOnSet(new, E \cup {p})
    BY DEF Total
  <2> HIDE DEF new
  <2> QED
    BY <1>3, <2>2, <2>3, <2>4, SumAdd
<1>7. Drawn' = IF from = "earnings" THEN E \cup {p} ELSE E
  BY <1>0, <1>1, <1>3 DEF Drawn, Paid
<1>8. Withdrawn' = W
  BY <1>0, <1>2, <1>3 DEF Withdrawn, Paid
<1>9. InFlight' = InFlight \cup {p} /\ p \notin InFlight
  BY <1>0 DEF InFlight, InStatus, NoPayout
<1>10. Total(Drawn)' = Total(Drawn) + (IF from = "earnings" THEN amount ELSE 0)
  BY <1>0, <1>1, <1>4, <1>5, <1>6, <1>7
<1>11. Total(Withdrawn)' = Total(Withdrawn)
  BY <1>2, <1>4, <1>8
<1> QED
  BY <1>0, <1>9, <1>10, <1>11

-----------------------------------------------------------------------------
LEMMA DrawnNat == TypeOK => Total(Drawn) \in Nat /\ Total(Withdrawn) \in Nat
<1>1. Drawn \in SUBSET Payouts /\ Withdrawn \in SUBSET Payouts
  BY DEF Drawn, Withdrawn, Paid
<1> QED
  BY <1>1, Totals

\* What has matured stays so.
LEMMA IncomeGrows ==
  ASSUME TypeOK, Matured,
         \/ Mature \/ UNCHANGED income
         \/ \E e \in Earnings : DisputeOpen(e) \/ DisputeReject(e)
  PROVE  Matured' /\ matured \subseteq matured'
<1>1. CASE Mature
  BY <1>1 DEF Mature, Matured, TypeOK
<1>2. CASE UNCHANGED income
  BY <1>2 DEF Matured, income
<1>3. ASSUME NEW e \in Earnings, DisputeOpen(e) \/ DisputeReject(e)
      PROVE  Matured' /\ matured \subseteq matured'
  BY <1>3 DEF DisputeOpen, DisputeReject, Matured, TypeOK
<1> QED
  BY <1>1, <1>2, <1>3

LEMMA MoreIsMore == ASSUME NEW n \in Nat, NEW a \in Nat, NEW b \in Nat, a <= b
                    PROVE  n * a \in Nat /\ n * b \in Nat /\ n * a <= n * b
<1>1. PICK d \in Nat : b = a + d
  <2>1. b - a \in Nat /\ b = a + (b - a)
    OBVIOUS
  <2> QED
    BY <2>1
<1>2. n * b = n * a + n * d /\ n * d \in Nat /\ n * a \in Nat
  BY <1>1
<1> QED
  BY <1>2

LEMMA CoveredStays ==
  ASSUME TypeOK, TypeOK', matured \subseteq matured', Total(Drawn)' <= Total(Drawn)
  PROVE  \A x \in Nat : Covered(x) => Covered(x)'
<1>1. Total(Drawn) \in Nat /\ (Total(Drawn) \in Nat)'
  BY DrawnNat, PTL
<1>2. /\ Cardinality(matured) \in Nat /\ Cardinality(matured') \in Nat
      /\ Cardinality(matured) <= Cardinality(matured')
  BY PayoutsAssumption, FS_Subset, FS_CardinalityType DEF TypeOK
<1>3. /\ Net * Cardinality(matured) \in Nat /\ Net * Cardinality(matured') \in Nat
      /\ Net * Cardinality(matured) <= Net * Cardinality(matured')
  BY <1>2, MoreIsMore, PayoutsAssumption
<1> QED
  BY <1>1, <1>3 DEF Covered

LEMMA AloneGoto ==
  ASSUME Serial, NEW r \in Requests, NEW rec \in Request, Goto(r, rec), TypeOK, Alone(rec)'
  PROVE  \A q \in Requests : Alone(reqs[q])'
<1>1. \A q \in Requests : reqs'[q] = rec
  BY DEF Serial, Goto, TypeOK
<1> QED
  BY <1>1 DEF Alone

\* A step of the handler that only reads.
LEMMA SerialRead ==
  ASSUME Serial, TypeOK, TypeOK', SInv, UNCHANGED <<wallet, payout>>, Truth', Matured', matured \subseteq matured',
         NEW r \in Requests, NEW rec \in Request, Goto(r, rec), Alone(rec)'
  PROVE  SInv'
<1>1. /\ InFlight' = InFlight /\ Drawn' = Drawn /\ Withdrawn' = Withdrawn
      /\ \A P \in SUBSET Payouts : Total(P)' = Total(P)
  BY DEF InFlight, InStatus, Drawn, Withdrawn, Paid, Total
<1>2. Drawn \in SUBSET Payouts /\ Withdrawn \in SUBSET Payouts
  BY DEF Drawn, Withdrawn, Paid
<1>3. Total(Drawn)' = Total(Drawn) /\ Total(Withdrawn)' = Total(Withdrawn)
  BY <1>1, <1>2
<1>4. Total(Drawn)' <= Total(Drawn)
  BY <1>3, DrawnNat
<1>5. Covered(0)'
  BY <1>4, CoveredStays DEF SInv
<1>6. Solo' /\ Purse'
  BY <1>1, <1>3 DEF SInv, Solo, Purse, wallet, InFlight, InStatus
<1>7. \A q \in Requests : Alone(reqs[q])'
  BY AloneGoto
<1> QED
  BY <1>5, <1>6, <1>7 DEF SInv

LEMMA TruthSame ==
  ASSUME Truth, UNCHANGED <<payout, transfer>>, notices' \subseteq notices
  PROVE  Truth'
  BY DEF Truth

LEMMA IdleIsAlone == Idle \in Request /\ Alone(Idle)'
  BY DEF Idle, Request, Alone

\* What requestPayout computes is there to be paid out.
LEMMA AvailableIsCovered ==
  ASSUME TypeOK, Matured, InFlight = {}, NEW amount \in Nat, amount <= Available
  PROVE  Covered(amount)
<1> DEFINE ready == {e \in Earnings : earning[e] = "available"}
           done  == InStatus({"completed"})
<1>1. Total(InFlight) = 0
  BY TotalNone
<1>2. done \in SUBSET Payouts /\ Drawn \in SUBSET done
  BY DEF InFlight, InStatus, Drawn, Paid
<1>3. Total(done) \in Nat /\ Total(Drawn) \in Nat /\ Total(Drawn) <= Total(done)
  BY <1>2, Totals, DrawnNat
<1>4. ready \in SUBSET matured /\ matured \in SUBSET Earnings
  BY DEF Matured, TypeOK
<1>5. /\ Cardinality(ready) \in Nat /\ Cardinality(matured) \in Nat
      /\ Cardinality(ready) <= Cardinality(matured)
  BY <1>4, PayoutsAssumption, FS_Subset, FS_CardinalityType
<1>6. /\ Net * Cardinality(ready) \in Nat /\ Net * Cardinality(matured) \in Nat
      /\ Net * Cardinality(ready) <= Net * Cardinality(matured)
  BY <1>5, MoreIsMore, PayoutsAssumption
<1>7. amount <= Net * Cardinality(ready) - Total(done) - 0
  BY <1>1 DEF Available
<1> HIDE DEF ready, done
<1> QED
  BY <1>3, <1>6, <1>7 DEF Covered

LEMMA SerialRequests ==
  ASSUME Serial, TypeOK, TypeOK', SInv, NEW r \in Requests,
         \/ PayoutStart(r) \/ PayoutCheck(r) \/ PayoutSum(r) \/ CronFind(r)
         \/ \E amount \in Amounts : WithdrawCheck(r, amount)
         \/ \E p \in Payouts, event \in Events : HookRead(r, p, event)
         \/ CronRefused(r) \/ Crash(r)
  PROVE  SInv'
<1> DEFINE Leads(rec) == rec \in Request /\ Goto(r, rec) /\ Alone(rec)'
<1>0. Truth /\ Matured /\ Alone(reqs[r]) /\ reqs[r] \in Request
  BY DEF SInv, TypeOK
<1>1. UNCHANGED <<wallet, payout, bank>> /\ (UNCHANGED income \/ Mature)
  BY DEF PayoutStart, PayoutCheck, PayoutSum, CronFind, WithdrawCheck, HookRead, CronRefused, Crash
<1>2. UNCHANGED <<payout, transfer, notices>> /\ InFlight' = InFlight
  BY <1>1 DEF bank, InFlight, InStatus
<1>3. \E rec : Leads(rec)
  <2>1. CASE PayoutStart(r)
    <3>1. Leads([op |-> "payoutCheck"])
      BY <2>1 DEF PayoutStart, Request, Alone
    <3> QED
      BY <3>1
  <2>2. CASE PayoutCheck(r)
    <3>1. \/ Goto(r, Idle)
          \/ InFlight = {} /\ Goto(r, [op |-> "payoutSum"])
      BY <2>2 DEF PayoutCheck, Done
    <3>2. [op |-> "payoutSum"] \in Request /\ (InFlight = {} => Alone([op |-> "payoutSum"])')
      BY <1>2 DEF Request, Alone
    <3> QED
      BY <3>1, <3>2, IdleIsAlone
  <2>3. CASE PayoutSum(r)
    <3>1. InFlight = {} /\ UNCHANGED income
      BY <1>0, <2>3 DEF PayoutSum, At, Alone
    <3>2. PICK amount \in Amounts :
            \/ Goto(r, Idle)
            \/ amount <= Available /\ Goto(r, [op |-> "payoutCreate", amount |-> amount])
      BY <2>3 DEF PayoutSum, Done
    <3>3. CASE Goto(r, Idle)
      BY <3>3, IdleIsAlone
    <3>4. CASE amount <= Available /\ Goto(r, [op |-> "payoutCreate", amount |-> amount])
      <4>1. amount \in Nat
        BY PayoutsAssumption
      <4>2. Covered(amount)
        BY <1>0, <3>1, <3>4, <4>1, AvailableIsCovered
      <4>3. Covered(amount)'
        BY <1>2, <3>1, <4>2 DEF Covered, Drawn, Paid, Total, income
      <4>4. Leads([op |-> "payoutCreate", amount |-> amount])
        BY <1>2, <3>1, <3>4, <4>3 DEF Request, Alone
      <4> QED
        BY <4>4
    <3> QED
      BY <3>2, <3>3, <3>4
  <2>4. CASE CronFind(r)
    <3>1. PICK todo \in SUBSET Payouts : todo = InStatus({"requested"})
      BY DEF InStatus
    <3>2. Leads([op |-> "cronMark", todo |-> todo])
      BY <1>2, <2>4, <3>1 DEF CronFind, Request, Alone, InStatus
    <3> QED
      BY <3>2
  <2>5. ASSUME NEW amount \in Amounts, WithdrawCheck(r, amount) PROVE \E rec : Leads(rec)
    <3>1. Leads([op |-> "withdrawReserve", amount |-> amount])
      BY <1>2, <2>5 DEF WithdrawCheck, Request, Alone
    <3> QED
      BY <3>1
  <2>6. ASSUME NEW p \in Payouts, NEW event \in Events, HookRead(r, p, event)
        PROVE  \E rec : Leads(rec)
    <3>1. event \in AllEvents /\ <<p, event>> \in notices /\ payout[p].known /\ ~Stale(p, event)
      BY <2>6, PayoutsAssumption DEF HookRead
    <3>2. event \in {"processed", "failed"} /\ transfer[p] = event
      BY <1>0, <2>6, <3>1 DEF Truth, Settled, HookRead, Handled
    <3>3. payout[p].st = "processing"
      <4>1. payout[p].st \in Statuses \cup {"none"} /\ (payout[p].st = "none" => ~payout[p].known)
        BY Rows DEF NoPayout
      <4> QED
        BY <1>0, <3>1, <3>2, <4>1 DEF Truth, Stale, Statuses, Refused
    <3>4. Leads([op |-> "hookWrite", p |-> p, event |-> event])
      BY <1>2, <2>6, <3>1, <3>2, <3>3 DEF HookRead, Request, Alone
    <3> QED
      BY <3>4
  <2>7. CASE CronRefused(r)
    <3>1. reqs[r].op = "cronSubmit" /\ reqs[r].p \in Payouts /\ reqs[r].todo \in SUBSET Payouts
      BY <1>0, <2>7, RecordsName DEF CronRefused, At
    <3>2. payout[reqs[r].p].st = "processing" /\ ~payout[reqs[r].p].known /\ reqs[r].todo = {}
      BY <1>0, <3>1 DEF Alone
    <3>3. PICK p \in Payouts, todo \in SUBSET Payouts : p = reqs[r].p /\ todo = reqs[r].todo
      BY <3>1
    <3>4. Leads([op |-> "cronWrite", p |-> p, todo |-> todo, answer |-> "error"])
      BY <1>2, <2>7, <3>2, <3>3 DEF CronRefused, Request, Alone
    <3> QED
      BY <3>4
  <2>8. CASE Crash(r)
    BY <2>8, IdleIsAlone DEF Crash, Done
  <2> QED
    BY <2>1, <2>2, <2>3, <2>4, <2>5, <2>6, <2>7, <2>8
<1>4. Truth'
  BY <1>0, <1>2, TruthSame
<1>5. Matured' /\ matured \subseteq matured'
  BY <1>0, <1>1, IncomeGrows
<1> QED
  BY <1>1, <1>3, <1>4, <1>5, SerialRead

\* The payout is inserted from sums that are still right: nothing is in flight.
LEMMA SerialCreate ==
  ASSUME Serial, TypeOK, TypeOK', SInv, NEW r \in Requests, PayoutCreate(r) \/ WithdrawReserve(r)
  PROVE  SInv'
<1>0. Solo /\ Truth /\ Purse /\ Matured /\ Covered(0) /\ Alone(reqs[r]) /\ reqs[r] \in Request
  BY DEF SInv, TypeOK
<1>1. /\ reqs[r].op \in {"payoutCreate", "withdrawReserve"} /\ InFlight = {} /\ reserved = 0
      /\ reqs[r].amount \in Amounts /\ reqs[r].amount \in Nat
  BY <1>0, RecordsName, PayoutsAssumption DEF PayoutCreate, WithdrawReserve, At, Alone, Purse
<1>2. Done(r) /\ UNCHANGED <<income, bank>>
  BY DEF PayoutCreate, WithdrawReserve
<1>3. Matured' /\ matured \subseteq matured'
  BY <1>0, <1>2, IncomeGrows
<1>4. CASE UNCHANGED <<payout, wallet>>
  BY <1>0, <1>2, <1>3, <1>4, TruthSame, IdleIsAlone, SerialRead DEF bank, Done
<1>5. ASSUME NEW p \in Payouts, NEW from \in {"earnings", "wallet"},
             NewPayout(p, reqs[r].amount, from),
             from = "earnings" => reqs[r].op = "payoutCreate" /\ UNCHANGED wallet,
             from = "wallet" => balance' = balance - reqs[r].amount /\ reserved' = reserved + reqs[r].amount
      PROVE  SInv'
  <2>1. /\ Total(Drawn)' = Total(Drawn) + (IF from = "earnings" THEN reqs[r].amount ELSE 0)
        /\ Total(Withdrawn)' = Total(Withdrawn)
        /\ InFlight' = {p} /\ payout'[p].amount = reqs[r].amount /\ payout'[p].from = from
    BY <1>1, <1>5, NewTotals
  <2>2. Solo'
    BY <2>1 DEF Solo
  <2>3. Truth'
    <3>1. /\ payout'[p].st = "requested" /\ ~payout'[p].known
          /\ \A q \in Payouts : q # p => payout'[q] = payout[q]
          /\ UNCHANGED <<transfer, notices>>
      BY <1>2, <1>5 DEF NewPayout, TypeOK, bank
    <3> QED
      BY <1>0, <3>1 DEF Truth
  <2>4. Purse'
    <3>1. balance \in Nat /\ Total(Withdrawn) \in Nat /\ balance + 0 + Total(Withdrawn) = Deposits
      BY <1>0, <1>1, DrawnNat DEF Purse, TypeOK
    <3>2. reserved' = IF payout'[p].from = "wallet" THEN payout'[p].amount ELSE 0
      BY <1>1, <1>5, <2>1 DEF wallet
    <3>3. balance' + reserved' + Total(Withdrawn)' = Deposits
      BY <1>1, <1>5, <2>1, <3>1 DEF wallet
    <3> QED
      BY <2>1, <3>2, <3>3 DEF Purse
  <2>5. Covered(0)'
    <3>1. Total(Drawn) \in Nat /\ (from = "earnings" => Covered(reqs[r].amount))
      BY <1>0, <1>5, DrawnNat DEF Alone
    <3> QED
      BY <1>0, <1>1, <1>2, <2>1, <3>1 DEF Covered, income
  <2>6. \A q \in Requests : Alone(reqs[q])'
    BY <1>2, AloneGoto, IdleIsAlone DEF Done
  <2> QED
    BY <1>3, <2>2, <2>3, <2>4, <2>5, <2>6 DEF SInv
<1>6. CASE PayoutCreate(r)
  <2>1. \E p \in Payouts : NewPayout(p, reqs[r].amount, "earnings")
    BY <1>6 DEF PayoutCreate
  <2> QED
    BY <1>5, <1>6, <2>1 DEF PayoutCreate, At
<1>7. CASE WithdrawReserve(r)
  <2>1. \/ UNCHANGED <<payout, wallet>>
        \/ /\ \E p \in Payouts : NewPayout(p, reqs[r].amount, "wallet")
           /\ balance' = balance - reqs[r].amount /\ reserved' = reserved + reqs[r].amount
    BY <1>7 DEF WithdrawReserve
  <2> QED
    BY <1>4, <1>5, <2>1
<1> QED
  BY <1>6, <1>7

\* The payout in flight is written.
LEMMA SerialWrite ==
  ASSUME Serial, TypeOK, TypeOK', SInv, UNCHANGED <<income, transfer>>, notices' \subseteq notices,
         NEW p \in InFlight, NEW k \in BOOLEAN,
         \/ Complete(p, k) /\ (payout'[p].known => transfer[p] = "processed")
         \/ Fail(p, k) /\ (payout'[p].known => transfer[p] \in Refused)
         \/ /\ UNCHANGED wallet
            /\ payout' = [payout EXCEPT ![p].st = "processing", ![p].known = @ \/ k],
         NEW r \in Requests, NEW rec \in Request, Goto(r, rec), Alone(rec)'
  PROVE  SInv'
<1>0. Solo /\ Truth /\ Purse /\ Matured /\ Covered(0)
  BY DEF SInv
<1>1. p \in Payouts /\ payout[p].st \in {"requested", "processing"}
  BY DEF InFlight, InStatus
<1>2. /\ payout[p].amount \in Nat /\ payout[p].amount > 0 /\ payout[p].known \in BOOLEAN
      /\ payout[p].from \in {"earnings", "wallet"} /\ balance \in Nat
  BY <1>1, Rows DEF TypeOK
<1>3. reserved = IF payout[p].from = "wallet" THEN payout[p].amount ELSE 0
  BY <1>0 DEF Purse
<1>4. /\ Rewrites(p) /\ payout'[p].st \in {"processing", "completed", "failed"}
      /\ \A q \in Payouts : q # p => payout'[q] = payout[q]
      /\ payout'[p].st = "completed" => Complete(p, k) /\ (payout'[p].known => transfer[p] = "processed")
      /\ payout'[p].st = "failed" => Fail(p, k) /\ (payout'[p].known => transfer[p] \in Refused)
      /\ payout'[p].st = "processing" => UNCHANGED wallet
  <2>1. CASE Complete(p, k) /\ (payout'[p].known => transfer[p] = "processed")
    BY <1>1, <2>1 DEF TypeOK, Complete, Rewrites
  <2>2. CASE Fail(p, k) /\ (payout'[p].known => transfer[p] \in Refused)
    BY <1>1, <2>2 DEF TypeOK, Fail, Rewrites
  <2>3. CASE /\ UNCHANGED wallet
             /\ payout' = [payout EXCEPT ![p].st = "processing", ![p].known = @ \/ k]
    BY <1>1, <2>3 DEF TypeOK, Rewrites
  <2> QED
    BY <2>1, <2>2, <2>3
<1>5. /\ Total(Drawn)' <= Total(Drawn)
      /\ payout'[p].st = "completed" /\ payout[p].from = "wallet"
           => Total(Withdrawn)' = Total(Withdrawn) + payout[p].amount
      /\ ~(payout'[p].st = "completed" /\ payout[p].from = "wallet")
           => Total(Withdrawn)' = Total(Withdrawn)
  BY <1>4, SettledTotals DEF Statuses
<1>6. InFlight = {p} /\ InFlight' = IF payout'[p].st = "processing" THEN {p} ELSE {}
  <2>1. InFlight = {p}
    BY <1>0 DEF Solo
  <2>2. \A q \in Payouts : q # p => payout'[q].st \notin {"requested", "processing"}
    BY <1>4, <2>1 DEF InFlight, InStatus
  <2> QED
    BY <1>1, <1>4, <2>1, <2>2 DEF InFlight, InStatus
<1>7. Solo'
  BY <1>6 DEF Solo
<1>8. Truth'
  BY <1>0, <1>1, <1>4 DEF Truth
<1>9. Purse'
  <2>1. Total(Withdrawn) \in Nat /\ balance + reserved + Total(Withdrawn) = Deposits
    BY <1>0, DrawnNat DEF Purse
  <2>2. CASE payout'[p].st = "processing"
    BY <1>3, <1>4, <1>5, <1>6, <2>1, <2>2 DEF Purse, wallet, Rewrites
  <2>3. CASE payout'[p].st = "completed"
    <3>1. /\ balance' = balance
          /\ reserved' = IF reserved >= payout[p].amount THEN reserved - payout[p].amount ELSE reserved
      BY <1>4, <2>3 DEF Complete
    <3>2. reserved' = 0
      BY <1>2, <1>3, <3>1
    <3>3. balance' + reserved' + Total(Withdrawn)' = Deposits
      BY <1>2, <1>3, <1>5, <2>1, <2>3, <3>1, <3>2
    <3> QED
      BY <1>6, <2>3, <3>2, <3>3 DEF Purse
  <2>4. CASE payout'[p].st = "failed"
    <3>1. \/ /\ reserved >= payout[p].amount
             /\ balance' = balance + payout[p].amount /\ reserved' = reserved - payout[p].amount
          \/ ~(reserved >= payout[p].amount) /\ balance' = balance /\ reserved' = reserved
      BY <1>4, <2>4 DEF Fail, wallet
    <3>2. reserved' = 0 /\ balance' + reserved' = balance + reserved
      BY <1>2, <1>3, <3>1
    <3>3. balance' + reserved' + Total(Withdrawn)' = Deposits
      BY <1>5, <2>1, <2>4, <3>2
    <3> QED
      BY <1>6, <2>4, <3>2, <3>3 DEF Purse
  <2> QED
    BY <1>4, <2>2, <2>3, <2>4
<1>10. Matured' /\ matured \subseteq matured'
  BY <1>0, IncomeGrows
<1>11. Covered(0)'
  BY <1>0, <1>5, <1>10, CoveredStays
<1>12. \A q \in Requests : Alone(reqs[q])'
  BY AloneGoto
<1> QED
  BY <1>7, <1>8, <1>9, <1>10, <1>11, <1>12 DEF SInv

LEMMA SerialMark ==
  ASSUME Serial, TypeOK, TypeOK', SInv, NEW r \in Requests, CronMark(r)
  PROVE  SInv'
<1>0. Solo /\ Alone(reqs[r]) /\ reqs[r] \in Request /\ reqs[r].op = "cronMark"
  BY DEF SInv, TypeOK, CronMark, At
<1>1. PICK p \in reqs[r].todo :
        /\ payout' = [payout EXCEPT ![p].st = "processing"]
        /\ Goto(r, [op |-> "cronSubmit", p |-> p, todo |-> reqs[r].todo \ {p}])
  BY DEF CronMark
<1>2. p \in Payouts /\ reqs[r].todo \in SUBSET Payouts
  BY <1>0, <1>1, RecordsName
<1>3. reqs[r].todo \ {p} = {} /\ p \in InFlight /\ payout[p].st = "requested"
  BY <1>0, <1>1, <1>2 DEF Alone, Solo, InFlight, InStatus
<1>4. payout[p].known = FALSE
  BY <1>2, <1>3, Rows DEF SInv, Truth
<1>5. payout' = [payout EXCEPT ![p].st = "processing", ![p].known = @ \/ FALSE]
  <2>1. \A q \in Payouts : payout'[q] = [payout EXCEPT ![p].st = "processing", ![p].known = @ \/ FALSE][q]
    <3> TAKE q \in Payouts
    <3>1. CASE q # p
      BY <1>1, <3>1 DEF TypeOK
    <3>2. CASE q = p
      <4>1. payout[p] \in Payout /\ payout[p] # NoPayout
        BY <1>2, <1>3 DEF TypeOK, NoPayout
      <4>2. payout[p] = [st |-> payout[p].st, amount |-> payout[p].amount,
                         from |-> payout[p].from, known |-> payout[p].known]
        BY <4>1 DEF Payout
      <4> QED
        BY <1>1, <1>2, <1>4, <3>2, <4>2 DEF TypeOK
    <3> QED
      BY <3>1, <3>2
  <2> QED
    BY <1>1, <2>1 DEF TypeOK
<1> DEFINE rec == [op |-> "cronSubmit", p |-> p, todo |-> {}]
<1>6. rec \in Request /\ Goto(r, rec)
  BY <1>1, <1>2, <1>3 DEF Request
<1>7. payout'[p].st = "processing" /\ ~payout'[p].known
  BY <1>1, <1>2, <1>4 DEF TypeOK
<1>8. Alone(rec)'
  BY <1>7 DEF Alone
<1>9. UNCHANGED <<income, transfer, wallet>> /\ notices' = notices
  BY DEF CronMark, bank
<1> QED
  BY <1>3, <1>5, <1>6, <1>8, <1>9, SerialWrite

\* What the gateway makes of a transfer that is not settled yet.
LEMMA TruthBecomes ==
  ASSUME Serial, TypeOK, Truth, NEW p \in Payouts, NEW t \in Settled \cup {"queued"},
         transfer[p] \in {"none", "queued"}, Becomes(p, t), UNCHANGED payout
  PROVE  Truth' /\ \A q \in Payouts : transfer[q] \in Settled => transfer'[q] = transfer[q]
<1>1. /\ transfer'[p] = t
      /\ \A q \in Payouts : q # p => transfer'[q] = transfer[q]
  BY DEF Becomes, TypeOK
<1>2. ASSUME NEW q \in Payouts, NEW event \in AllEvents, <<q, event>> \in notices'
      PROVE  event \in Settled /\ transfer'[q] = event
  <2>1. CASE <<q, event>> \in notices
    BY <1>1, <2>1 DEF Truth, Settled
  <2>2. CASE <<q, event>> \in {<<p, EventOf(t)>>} \cap (Payouts \X Events)
    <3>1. q = p /\ event = EventOf(t) /\ event \in Settled
      BY <2>2 DEF Serial
    <3> QED
      BY <1>1, <3>1 DEF EventOf, Settled
  <2> QED
    BY <1>2, <2>1, <2>2 DEF Becomes
<1>3. ASSUME NEW q \in Payouts
      PROVE  /\ transfer'[q] # "reversed"
             /\ payout'[q].st = "requested" => ~payout'[q].known
             /\ payout'[q].known /\ payout'[q].st = "completed" => transfer'[q] = "processed"
             /\ payout'[q].known /\ payout'[q].st = "failed" => transfer'[q] \in Refused
  BY <1>1 DEF Truth, Settled, Refused
<1> QED
  BY <1>1, <1>2, <1>3 DEF Truth, Settled

LEMMA SerialSubmit ==
  ASSUME Serial, TypeOK, TypeOK', SInv, NEW r \in Requests, CronSubmit(r)
  PROVE  SInv'
<1>0. Truth /\ Matured /\ Alone(reqs[r]) /\ reqs[r] \in Request /\ reqs[r].op = "cronSubmit"
  BY DEF SInv, TypeOK, CronSubmit, At
<1>1. PICK p \in Payouts : p = reqs[r].p /\ payout[p].st = "processing" /\ ~payout[p].known
  BY <1>0, RecordsName DEF Alone
<1>2. UNCHANGED <<income, wallet, payout>> /\ Submit(p)
  BY <1>1 DEF CronSubmit
<1>3. Truth'
  <2>1. CASE transfer[p] = "none"
    BY <1>0, <1>2, <2>1, TruthBecomes DEF Submit, Settled
  <2>2. CASE transfer[p] # "none"
    BY <1>0, <1>2, <2>2, TruthSame DEF Submit, bank
  <2> QED
    BY <2>1, <2>2
<1>4. transfer'[p] \in Settled \cup {"queued"}
  <2>1. transfer'[p] # "none"
    BY <1>2 DEF Submit, Becomes, bank, TypeOK
  <2> QED
    BY <1>3, <2>1 DEF TypeOK, TransferStates, Truth, Settled
<1>5. PICK answer \in Statuses \cup {"error"} :
        /\ answer = "completed" => transfer'[p] = "processed"
        /\ answer = "failed" => transfer'[p] \in Refused
        /\ Goto(r, [op |-> "cronWrite", p |-> p, todo |-> reqs[r].todo, answer |-> answer])
  <2>1. /\ Internal(transfer'[p]) \in Statuses
        /\ Internal(transfer'[p]) = "completed" => transfer'[p] = "processed"
        /\ Internal(transfer'[p]) = "failed" => transfer'[p] \in Refused
    BY <1>4 DEF Internal, Statuses, Settled, Refused
  <2> QED
    BY <1>1, <2>1 DEF CronSubmit
<1> DEFINE rec == [op |-> "cronWrite", p |-> p, todo |-> {}, answer |-> answer]
<1>6. rec \in Request /\ Goto(r, rec)
  BY <1>0, <1>5 DEF Request, Alone
<1>7. Alone(rec)'
  BY <1>1, <1>2, <1>5 DEF Alone
<1>8. Matured' /\ matured \subseteq matured'
  BY <1>0, <1>2, IncomeGrows
<1> QED
  BY <1>2, <1>3, <1>6, <1>7, <1>8, SerialRead

LEMMA SerialCronWrite ==
  ASSUME Serial, TypeOK, TypeOK', SInv, NEW r \in Requests, CronWrite(r)
  PROVE  SInv'
<1>0. Alone(reqs[r]) /\ reqs[r] \in Request /\ reqs[r].op = "cronWrite"
  BY DEF SInv, TypeOK, CronWrite, At
<1>1. PICK p \in Payouts : /\ p = reqs[r].p /\ payout[p].st = "processing" /\ ~payout[p].known
                           /\ reqs[r].todo = {}
                           /\ reqs[r].answer = "completed" => transfer[p] = "processed"
                           /\ reqs[r].answer = "failed" => transfer[p] \in Refused
  BY <1>0, RecordsName DEF Alone
<1>2. p \in InFlight
  BY <1>1 DEF InFlight, InStatus
<1>3. UNCHANGED <<income, transfer>> /\ notices' = notices /\ Goto(r, Idle)
  BY <1>1 DEF CronWrite, bank, Continue, Done
<1>4. CASE reqs[r].answer = "completed"
  <2>1. Complete(p, TRUE) /\ transfer[p] = "processed"
    BY <1>1, <1>4 DEF CronWrite
  <2> QED
    BY <1>2, <1>3, <2>1, IdleIsAlone, SerialWrite
<1>5. CASE reqs[r].answer = "failed"
  <2>1. Fail(p, TRUE) /\ transfer[p] \in Refused
    BY <1>1, <1>5 DEF CronWrite
  <2> QED
    BY <1>2, <1>3, <2>1, IdleIsAlone, SerialWrite
<1>6. CASE reqs[r].answer = "error"
  <2>1. Fail(p, FALSE)
    BY <1>1, <1>6 DEF CronWrite
  <2>2. ~payout'[p].known
    <3>1. payout'[p].known = (payout[p].known \/ FALSE)
      BY <2>1 DEF Fail, TypeOK
    <3> QED
      BY <1>1, <3>1, Zenon
  <2> QED
    BY <1>2, <1>3, <2>1, <2>2, IdleIsAlone, SerialWrite
<1>7. CASE reqs[r].answer \notin {"completed", "failed", "error"}
  <2>1. UNCHANGED wallet /\ payout' = [payout EXCEPT ![p].st = "processing", ![p].known = TRUE]
    BY <1>1, <1>7 DEF CronWrite
  <2>2. payout' = [payout EXCEPT ![p].st = "processing", ![p].known = @ \/ TRUE]
    BY <2>1
  <2> QED
    BY <1>2, <1>3, <2>1, <2>2, IdleIsAlone, SerialWrite
<1> QED
  BY <1>4, <1>5, <1>6, <1>7

LEMMA SerialHook ==
  ASSUME Serial, TypeOK, TypeOK', SInv, NEW r \in Requests, HookWrite(r)
  PROVE  SInv'
<1>0. Alone(reqs[r]) /\ reqs[r] \in Request /\ reqs[r].op = "hookWrite"
  BY DEF SInv, TypeOK, HookWrite, At
<1>1. PICK p \in Payouts : /\ p = reqs[r].p /\ payout[p].st = "processing"
                           /\ reqs[r].event \in {"processed", "failed"} /\ transfer[p] = reqs[r].event
  BY <1>0, RecordsName DEF Alone
<1>2. p \in InFlight
  BY <1>1 DEF InFlight, InStatus
<1>3. UNCHANGED <<income, transfer>> /\ notices' \subseteq notices /\ Goto(r, Idle)
  BY DEF HookWrite, Acknowledge, Done
<1>4. \/ Complete(p, FALSE) /\ transfer[p] = "processed"
      \/ Fail(p, FALSE) /\ transfer[p] \in Refused
  BY <1>1 DEF HookWrite, Refused
<1> QED
  BY <1>2, <1>3, <1>4, IdleIsAlone, SerialWrite

\* An event that says nothing new; what happens to transfers, disputes and earnings meanwhile.
LEMMA SerialOutside ==
  ASSUME Serial, IInv, TypeOK', SInv,
         \/ ReleaseHeldEarnings
         \/ \E e \in Earnings : DisputeOpen(e) \/ DisputeReject(e)
         \/ \E p \in Payouts : BankSettle(p) \/ BankReverse(p)
         \/ \E r \in Requests, p \in Payouts, event \in Events : HookDropped(r, p, event)
         \/ UNCHANGED vars
  PROVE  SInv'
<1>0. Solo /\ Truth /\ Purse /\ Matured /\ Covered(0) /\ TypeOK
  BY DEF SInv, IInv
<1>1. UNCHANGED <<wallet, payout, reqs>>
  BY DEF ReleaseHeldEarnings, DisputeOpen, DisputeReject, BankSettle, BankReverse, HookDropped, vars
<1>2. /\ Truth'
      /\ \A p \in Payouts : transfer[p] \in Settled => transfer'[p] = transfer[p]
  <2>1. ASSUME NEW p \in Payouts, BankSettle(p)
        PROVE  /\ Truth'
               /\ \A q \in Payouts : transfer[q] \in Settled => transfer'[q] = transfer[q]
    BY <1>0, <2>1, TruthBecomes DEF BankSettle, Settled
  <2>2. \A p \in Payouts : ~BankReverse(p)
    BY DEF BankReverse, Serial, Settled
  <2>3. CASE UNCHANGED transfer /\ notices' \subseteq notices
    BY <1>0, <1>1, <2>3, TruthSame
  <2>4. \/ \E p \in Payouts : BankSettle(p) \/ BankReverse(p)
        \/ UNCHANGED transfer /\ notices' \subseteq notices
    BY DEF ReleaseHeldEarnings, DisputeOpen, DisputeReject, HookDropped, Acknowledge, vars, bank
  <2> QED
    BY <2>1, <2>2, <2>3, <2>4
<1>3. Matured' /\ matured \subseteq matured'
  <2>1. \/ Mature \/ UNCHANGED income
        \/ \E e \in Earnings : DisputeOpen(e) \/ DisputeReject(e)
    BY DEF ReleaseHeldEarnings, BankSettle, BankReverse, HookDropped, vars
  <2> QED
    BY <1>0, <2>1, IncomeGrows
<1>4. InFlight' = InFlight /\ Total(Drawn)' = Total(Drawn) /\ Total(Withdrawn)' = Total(Withdrawn)
  BY <1>1 DEF InFlight, InStatus, Total, Drawn, Withdrawn, Paid
<1>5. Solo' /\ Purse'
  BY <1>0, <1>1, <1>4 DEF Solo, Purse, wallet, InFlight, InStatus
<1>6. Total(Drawn)' <= Total(Drawn)
  BY <1>0, <1>4, DrawnNat
<1>7. \A x \in Nat : Covered(x) => Covered(x)'
  BY <1>0, <1>3, <1>6, CoveredStays
<1>8. ASSUME NEW r \in Requests PROVE Alone(reqs[r])'
  <2>1. PICK rec \in Request : rec = reqs[r] /\ rec = reqs'[r] /\ Alone(rec)
    BY <1>0, <1>1 DEF SInv, TypeOK
  <2>2. rec.op = "payoutCreate" => rec.amount \in Nat
    BY RecordsName, PayoutsAssumption
  <2>3. rec.op \in {"cronSubmit", "cronWrite", "hookWrite"} => rec.p \in Payouts
    BY RecordsName
  <2>4. Alone(rec)'
    BY <1>1, <1>2, <1>4, <1>7, <2>1, <2>2, <2>3 DEF Alone, Settled, Refused
  <2> QED
    BY <2>1, <2>4 DEF Alone
<1> QED
  BY <1>0, <1>2, <1>3, <1>5, <1>7, <1>8 DEF SInv

LEMMA SerialInit == Init => SInv
<1> SUFFICES ASSUME Init PROVE SInv
  OBVIOUS
<1>1. InFlight = {} /\ Drawn = {} /\ Withdrawn = {}
  BY DEF Init, InFlight, InStatus, Drawn, Withdrawn, Paid, NoPayout
<1>2. Total(Drawn) = 0 /\ Total(Withdrawn) = 0
  BY <1>1, TotalNone
<1>3. matured = {} /\ Cardinality(matured) = 0
  BY FS_EmptySet DEF Init
<1>4. Net * Cardinality(matured) = 0
  BY <1>3, PayoutsAssumption
<1>5. Covered(0)
  BY <1>2, <1>4 DEF Covered
<1>6. Solo /\ Purse
  BY <1>1, <1>2, PayoutsAssumption DEF Init, Solo, Purse
<1>7. Truth /\ Matured
  BY DEF Init, Truth, Matured, NoPayout
<1>8. \A r \in Requests : Alone(reqs[r])
  BY DEF Init, Alone, Idle
<1> QED
  BY <1>5, <1>6, <1>7, <1>8 DEF SInv

LEMMA SerialNext == Serial /\ IInv /\ SInv /\ [Next]_vars => SInv'
<1> SUFFICES ASSUME Serial, IInv, SInv, [Next]_vars PROVE SInv'
  OBVIOUS
<1>0. TypeOK /\ TypeOK'
  BY NextKeeps DEF IInv
<1>1. ASSUME NEW r \in Requests, Arrive(r) PROVE SInv'
  <2>1. \A p \in Payouts, to \in Statuses : ~AdminRead(r, p, to)
    BY DEF AdminRead, Starts, Serial
  <2> QED
    BY <1>0, <1>1, <2>1, SerialRequests, SerialOutside DEF Arrive, Deliver
<1>2. ASSUME NEW r \in Requests, Proceed(r) PROVE SInv'
  <2>1. ~AdminWrite(r)
    BY DEF AdminWrite, At, SInv, Alone
  <2> QED
    BY <1>0, <1>2, <2>1, SerialRequests, SerialCreate, SerialMark, SerialSubmit, SerialCronWrite, SerialHook
       DEF Proceed
<1>3. ASSUME NEW r \in Requests, Crash(r) PROVE SInv'
  BY <1>0, <1>3, SerialRequests
<1> QED
  BY <1>0, <1>1, <1>2, <1>3, SerialOutside DEF Next

LEMMA SerialMoney == TypeOK /\ SInv => MoneyOnce
<1> SUFFICES ASSUME TypeOK, SInv PROVE MoneyOnce
  OBVIOUS
<1> DEFINE out == {p \in Payouts : /\ payout[p].from = "earnings" /\ payout[p].st # "failed"
                                   /\ transfer[p] \in {"queued", "processed"}}
<1>1. PICK D \in SUBSET Payouts : D = Drawn
  BY DEF Drawn, Paid
<1>2. out \in SUBSET D
  <2>1. \A p \in Payouts : payout[p].from = "earnings" => payout[p].st \in Statuses
    BY Rows DEF NoPayout
  <2> QED
    BY <1>1, <2>1 DEF Drawn, Paid, Statuses
<1>3. Total(D) \in Nat /\ Total(out) \in Nat /\ Total(out) <= Total(D)
  BY <1>2, Totals
<1>4. Net * Cardinality(matured) \in Nat
  BY MoreIsMore, PayoutsAssumption, FS_Subset, FS_CardinalityType DEF TypeOK
<1>5. Total(D) + 0 <= Net * Cardinality(matured)
  BY <1>1 DEF SInv, Covered
<1>6. Total(out) <= Net * Cardinality(matured)
  BY <1>3, <1>4, <1>5
<1>7. balance + reserved + Total({p \in Payouts : payout[p].from = "wallet" /\ payout[p].st = "completed"})
        = Deposits
  <2>1. Withdrawn = {p \in Payouts : payout[p].from = "wallet" /\ payout[p].st = "completed"}
    BY DEF Withdrawn, Paid
  <2> QED
    BY <2>1 DEF SInv, Purse
<1> HIDE DEF out
<1> QED
  BY <1>6, <1>7 DEF MoneyOnce, out

\* With requests that come one at a time, whichever of them stops half-way, whichever answers and
\* acknowledgements are lost and whatever is disputed meanwhile, a host is paid no more than has
\* matured, and every rupee put into the wallet is spendable, reserved or withdrawn.
THEOREM MoneyIsPaidOnce == ASSUME Serial PROVE Spec => []MoneyOnce
<1>1. Init => IInv /\ SInv
  BY InitHolds, SerialInit
<1>2. IInv /\ SInv /\ [Next]_vars => IInv' /\ SInv'
  BY NextKeeps, SerialNext
<1>3. IInv /\ SInv => MoneyOnce
  BY SerialMoney DEF IInv
<1> QED
  BY <1>1, <1>2, <1>3, PTL DEF Spec
=============================================================================
