------------------------ MODULE BookingPayments_proofs ------------------------
(***************************************************************************)
(* Proofs about BookingPayments, for any number of attempts, handlers and  *)
(* crashes.                                                                *)
(*                                                                         *)
(* NothingUnpaid is not inductive: an approval, a completion or a webhook  *)
(* that has passed its checks makes the booking firm later, so what those  *)
(* handlers have established has to be carried along.  A charge, once      *)
(* captured, stays captured, which is why none of it can become stale.     *)
(*                                                                         *)
(* CreditMatchesRecord needs what refunds in flight have still to record,  *)
(* and CancellationAddsUp what the one handler in flight has read.         *)
(***************************************************************************)
EXTENDS BookingPayments, Sums

\* What a handler in flight knows of the gateway.
Justified(rec) ==
  /\ rec.op \in {"confirmRead", "confirmWrite"} => rec.t \in Captured
  /\ rec.op \in {"approveWrite", "completeWrite", "earn"} => Captured # {}

\* Completed attempts were charged, unused ones were not even tried.
PaidIsCaptured ==
  \A t \in Attempts : /\ txn[t].st = "completed" => charge[t] = "captured"
                      /\ txn[t].st = "none" => charge[t] = "none"

IInv == /\ TypeOK
        /\ PaidIsCaptured
        /\ NothingUnpaid
        /\ \A r \in Requests : Justified(reqs[r])

LEMMA IInvImplies == IInv => TypeOK /\ NothingUnpaid
  BY DEF IInv

-----------------------------------------------------------------------------
\* Charges are never taken back.
ChargesStay == Captured \subseteq Captured'

\* A handler that moves on, justified, keeps the rest as it was.
LEMMA GotoKeepsHandlers ==
  ASSUME IInv, ChargesStay, NEW r \in Requests, NEW rec \in Request, Goto(r, rec),
         Justified(rec)'
  PROVE  /\ reqs' \in [Requests -> Request]
         /\ (\A q \in Requests : Justified(reqs[q]))'
<1>1. reqs' \in [Requests -> Request]
  BY DEF IInv, TypeOK, Goto
<1>2. ASSUME NEW q \in Requests
      PROVE  Justified(reqs[q])'
  <2>1. CASE q = r
    BY <2>1 DEF IInv, TypeOK, Goto, Justified, Captured
  <2>2. CASE q # r
    BY <2>2 DEF IInv, TypeOK, Goto, Justified, ChargesStay
  <2> QED
    BY <2>1, <2>2
<1> QED
  BY <1>1, <1>2

LEMMA SameHandlers ==
  ASSUME IInv, ChargesStay, UNCHANGED reqs
  PROVE  /\ reqs' \in [Requests -> Request]
         /\ (\A q \in Requests : Justified(reqs[q]))'
  BY DEF IInv, TypeOK, Justified, ChargesStay

\* A finished handler claims nothing.
LEMMA IdleIsRequest == Idle \in Request /\ Justified(Idle) /\ Justified(Idle)'
  BY DEF Idle, Request, Justified

\* A read leaves everything but the handlers as it is.
LEMMA ReadKeepsInv ==
  ASSUME IInv, ReadOnly, reqs' \in [Requests -> Request],
         (\A q \in Requests : Justified(reqs[q]))'
  PROVE  IInv'
<1> USE DEF ReadOnly, booking, gateway, ages, env
<1>1. TypeOK'
  BY DEF IInv, TypeOK
<1>2. PaidIsCaptured'
  BY DEF IInv, PaidIsCaptured
<1>3. NothingUnpaid'
  BY DEF IInv, NothingUnpaid, Captured
<1> QED
  BY <1>1, <1>2, <1>3 DEF IInv

LEMMA ReadStays == ReadOnly => ChargesStay /\ UNCHANGED Captured
  BY DEF ReadOnly, gateway, ChargesStay, Captured

LEMMA ReadGoto ==
  ASSUME IInv, ReadOnly, NEW r \in Requests, NEW rec \in Request, Goto(r, rec), Justified(rec)
  PROVE  IInv'
<1>1. Justified(rec)'
  BY ReadStays DEF Justified
<1> QED
  BY <1>1, ReadStays, GotoKeepsHandlers, ReadKeepsInv

\* TypeOK without the handlers.
RowsOK ==
  /\ instant \in BOOLEAN /\ status \in Statuses /\ by \in {"nobody", "user", "host", "admin"} /\ promised \in Nat
  /\ earning \in {"none", "pending", "on_hold"}
  /\ txn \in [Attempts -> [st : TxStatuses, method : Methods \cup {"wallet", "none"}]]
  /\ recorded \in [Attempts -> Nat] /\ credited \in [Attempts -> Nat]
  /\ charge \in [Attempts -> {"none", "open", "captured"}]
  /\ declined \subseteq Attempts /\ fresh \subseteq Attempts
  /\ overdue \in BOOLEAN /\ slotFree \in BOOLEAN /\ crashes \in 0..MaxCrashes

\* A statement of handler r, which then goes on to rec.
LEMMA WriteKeepsInv ==
  ASSUME IInv, ChargesStay, RowsOK', PaidIsCaptured', NothingUnpaid',
         NEW r \in Requests, NEW rec \in Request, Goto(r, rec), Justified(rec)'
  PROVE  IInv'
<1>1. /\ reqs' \in [Requests -> Request]
      /\ (\A q \in Requests : Justified(reqs[q]))'
  BY GotoKeepsHandlers
<1>2. TypeOK'
  BY <1>1 DEF TypeOK, RowsOK
<1> QED
  BY <1>1, <1>2 DEF IInv

\* A change of rows by which no handler moves.
LEMMA QuietWriteKeepsInv ==
  ASSUME IInv, ChargesStay, RowsOK', PaidIsCaptured', NothingUnpaid', UNCHANGED reqs
  PROVE  IInv'
<1>1. /\ reqs' \in [Requests -> Request]
      /\ (\A q \in Requests : Justified(reqs[q]))'
  BY SameHandlers
<1>2. TypeOK'
  BY <1>1 DEF TypeOK, RowsOK
<1> QED
  BY <1>1, <1>2 DEF IInv

\* What a handler carries at the steps that use it.
LEMMA RequestShape ==
  ASSUME IInv, NEW r \in Requests
  PROVE  /\ RowsOK
         /\ At(r, "intentInsert") => reqs[r].method \in Methods
         /\ At(r, "confirmRead") => reqs[r].t \in Captured
         /\ At(r, "confirmWrite") => reqs[r].t \in Captured /\ reqs[r].seen \in Statuses
         /\ reqs[r].op \in {"approveWrite", "completeWrite", "earn"} => Captured # {}
         /\ reqs[r].op \in {"findPaid", "adminFind"} => reqs[r].want \in 1..Price
         /\ At(r, "adminTotal") => reqs[r].base \in Nat /\ reqs[r].more \in 1..Price
         /\ At(r, "refundRead") =>
              reqs[r] \in [op : {"refundRead"}, t : Attempts, want : 1..Price,
                          then : {Idle} \cup AdminTotals]
         /\ reqs[r].op \in {"refundCredit", "refundRecord", "refundStatus"} =>
              reqs[r] \in [op : {"refundCredit", "refundRecord", "refundStatus"}, t : Attempts,
                          amount : 1..Price, prior : 0..Price, then : {Idle} \cup AdminTotals]
<1>1. RowsOK /\ reqs[r] \in Request /\ Justified(reqs[r])
  BY DEF IInv, TypeOK, RowsOK
<1> QED
  BY <1>1 DEF Request, Idle, AdminTotals, At, Justified

-----------------------------------------------------------------------------
\* Initiating and confirming a payment.
LEMMA PaymentKeepsInv ==
  ASSUME IInv, NEW r \in Requests,
         \/ \E m \in Methods : IntentRead(r, m)
         \/ IntentInsert(r) \/ WalletRead(r) \/ WalletWrite(r) \/ WalletRefused(r)
         \/ \E t \in Attempts : HookRead(r, t) \/ HookFailed(r, t) \/ ConfirmFails(r, t)
         \/ ConfirmRead(r) \/ ConfirmRefused(r) \/ ConfirmWrite(r)
  PROVE  IInv'
<1>0. RowsOK /\ PaidIsCaptured /\ NothingUnpaid
  BY RequestShape DEF IInv
<1>1. ASSUME NEW m \in Methods, IntentRead(r, m)
      PROVE  IInv'
  <2>1. PICK rec \in {[op |-> "intentInsert", method |-> m]}
                       \cup {[op |-> "confirmRead", t |-> t] : t \in Captured} : Goto(r, rec)
    BY <1>1 DEF IntentRead, Captured
  <2>2. rec \in Request /\ Justified(rec)
    BY <2>1 DEF Request, Justified, Captured
  <2> QED
    BY <1>1, <2>1, <2>2, ReadGoto DEF IntentRead
<1>2. CASE IntentInsert(r)
  <2>1. PICK t \in Attempts :
          /\ NewAttempt(t)
          /\ txn' = [txn EXCEPT ![t] = [st |-> "pending", method |-> reqs[r].method]]
          /\ charge' = [charge EXCEPT ![t] = "open"]
          /\ fresh' = fresh \cup {t}
    BY <1>2 DEF IntentInsert
  <2>2. /\ Goto(r, Idle)
        /\ UNCHANGED <<booking, earning, recorded, declined, credited, overdue, env>>
    BY <1>2 DEF IntentInsert, Done
  <2>3. reqs[r].method \in Methods
    BY <1>2, RequestShape DEF IntentInsert
  <2>4. RowsOK'
    BY <1>0, <2>1, <2>2, <2>3 DEF RowsOK, booking, env, TxStatuses
  <2>5. Captured' = Captured /\ PaidIsCaptured'
    BY <1>0, <2>1 DEF RowsOK, NewAttempt, PaidIsCaptured, Captured
  <2>6. NothingUnpaid'
    BY <1>0, <2>2, <2>5 DEF NothingUnpaid, booking
  <2> QED
    BY <2>2, <2>4, <2>5, <2>6, IdleIsRequest, WriteKeepsInv DEF ChargesStay
<1>3. CASE WalletRead(r)
  <2>1. /\ [op |-> "walletWrite", firm |-> instant] \in Request
        /\ Justified([op |-> "walletWrite", firm |-> instant])
    BY <1>0 DEF Request, Justified, RowsOK
  <2> QED
    BY <1>3, <2>1, ReadGoto DEF WalletRead
<1>4. CASE WalletWrite(r)
  <2>1. PICK t \in Attempts :
          /\ NewAttempt(t)
          /\ txn' = [txn EXCEPT ![t] = [st |-> "completed", method |-> "wallet"]]
          /\ charge' = [charge EXCEPT ![t] = "captured"]
    BY <1>4 DEF WalletWrite
  <2>2. /\ Goto(r, Idle)
        /\ status' \in {"confirmed", status} /\ earning' \in {"pending", earning}
        /\ UNCHANGED <<by, promised, recorded, declined, credited, ages, env>>
    BY <1>4 DEF WalletWrite, Done, EnsureEarning
  <2>3. RowsOK'
    BY <1>0, <2>1, <2>2 DEF RowsOK, ages, env, TxStatuses, Statuses
  <2>4. ChargesStay /\ t \in Captured' /\ PaidIsCaptured'
    BY <1>0, <2>1 DEF RowsOK, PaidIsCaptured, Captured, ChargesStay
  <2>5. NothingUnpaid'
    BY <2>4 DEF NothingUnpaid
  <2> QED
    BY <2>2, <2>3, <2>4, <2>5, IdleIsRequest, WriteKeepsInv
<1>5. CASE WalletRefused(r) \/ ConfirmRefused(r)
  BY <1>5, IdleIsRequest, ReadGoto DEF WalletRefused, ConfirmRefused, Done
<1>6. ASSUME NEW t \in Attempts, HookRead(r, t)
      PROVE  IInv'
  <2>1. [op |-> "confirmRead", t |-> t] \in Request /\ Justified([op |-> "confirmRead", t |-> t])
    BY <1>6 DEF Request, Justified, HookRead, Captured
  <2> QED
    BY <1>6, <2>1, ReadGoto DEF HookRead
<1>7. ASSUME NEW t \in Attempts, HookFailed(r, t) \/ ConfirmFails(r, t)
      PROVE  IInv'
  <2>1. /\ txn' = [txn EXCEPT ![t].st = "failed"] /\ UNCHANGED reqs
        /\ UNCHANGED <<booking, earning, recorded, gateway, credited, ages, env>>
    BY <1>7 DEF HookFailed, ConfirmFails, SetStatus
  <2>2. RowsOK'
    BY <1>0, <2>1 DEF RowsOK, booking, gateway, ages, env, TxStatuses
  <2>3. Captured' = Captured /\ PaidIsCaptured'
    BY <1>0, <2>1 DEF RowsOK, PaidIsCaptured, Captured, gateway
  <2>4. NothingUnpaid'
    BY <1>0, <2>1, <2>3 DEF NothingUnpaid, booking
  <2> QED
    BY <2>1, <2>2, <2>3, <2>4, QuietWriteKeepsInv DEF ChargesStay
<1>8. CASE ConfirmRead(r)
  <2>1. PICK rec \in {Idle} \cup {[op |-> "confirmWrite", t |-> reqs[r].t, seen |-> status,
                                  firm |-> f] : f \in BOOLEAN} : Goto(r, rec)
    BY <1>8 DEF ConfirmRead
  <2>2. reqs[r].t \in Captured
    BY <1>8, RequestShape DEF ConfirmRead
  <2>3. rec \in Request /\ Justified(rec)
    BY <1>0, <2>1, <2>2, IdleIsRequest DEF Request, Justified, Captured, RowsOK
  <2> QED
    BY <1>8, <2>1, <2>3, ReadGoto DEF ConfirmRead
<1>9. CASE ConfirmWrite(r)
  <2> DEFINE t == reqs[r].t
  <2>1. t \in Captured
    BY <1>9, RequestShape DEF ConfirmWrite
  <2>2. /\ txn' = [txn EXCEPT ![t].st = "completed"]
        /\ status' \in {"confirmed", status} /\ earning' \in {"pending", earning}
        /\ UNCHANGED <<by, promised, recorded, gateway, credited, ages, env>>
    BY <1>9 DEF ConfirmWrite, SetStatus, EnsureEarning
  <2>3. PICK rec \in {Idle, [op |-> "refundRead", t |-> t, want |-> Price, then |-> Idle]} : Goto(r, rec)
    BY <1>9 DEF ConfirmWrite
  <2>4. rec \in Request /\ Justified(rec)'
    BY <2>1, <2>3, IdleIsRequest, PaymentsAssumption DEF Request, Justified, Captured, Idle
  <2>5. RowsOK'
    BY <1>0, <2>1, <2>2 DEF RowsOK, gateway, ages, env, TxStatuses, Statuses, Captured
  <2>6. Captured' = Captured /\ PaidIsCaptured'
    BY <1>0, <2>1, <2>2 DEF RowsOK, PaidIsCaptured, Captured, gateway
  <2>7. NothingUnpaid'
    BY <2>1, <2>6 DEF NothingUnpaid
  <2> QED
    BY <2>3, <2>4, <2>5, <2>6, <2>7, WriteKeepsInv DEF ChargesStay
<1> QED
  BY <1>1, <1>2, <1>3, <1>4, <1>5, <1>6, <1>7, <1>8, <1>9

\* A statement that leaves transactions and charges alone keeps what is paid paid;
\* the booking may become firm only when somebody was charged.
LEMMA BookingWriteKeepsInv ==
  ASSUME IInv, NEW r \in Requests, NEW rec \in Request, Goto(r, rec), Justified(rec),
         UNCHANGED <<txn, gateway, ages, env>>,
         status' \in Statuses, by' \in {"nobody", "user", "host", "admin"}, promised' \in Nat,
         recorded' \in [Attempts -> Nat], credited' \in [Attempts -> Nat],
         earning' \in {"none", "pending", "on_hold"},
         \/ Captured # {}
         \/ status' \in {status, "cancelled"} /\ (earning = "none" => earning' = "none")
  PROVE  IInv'
<1>1. RowsOK /\ PaidIsCaptured /\ NothingUnpaid
  BY RequestShape DEF IInv
<1>2. Captured' = Captured /\ PaidIsCaptured'
  BY <1>1 DEF Captured, PaidIsCaptured, gateway
<1>3. RowsOK'
  BY <1>1 DEF RowsOK, gateway, ages, env
<1>4. NothingUnpaid'
  BY <1>1, <1>2 DEF NothingUnpaid
<1>5. Justified(rec)'
  BY <1>2 DEF Justified
<1> QED
  BY <1>2, <1>3, <1>4, <1>5, WriteKeepsInv DEF ChargesStay

\* Approval and completion.
LEMMA ApprovalKeepsInv ==
  ASSUME IInv, NEW r \in Requests,
         \/ ApproveRead(r) \/ ApproveWrite(r) \/ ApproveRefused(r) \/ Earn(r)
         \/ CompleteFind(r) \/ CompleteWrite(r) \/ Advance(r)
  PROVE  IInv'
<1>0. RowsOK /\ PaidIsCaptured /\ NothingUnpaid
  BY RequestShape DEF IInv
<1>1. CASE ApproveRead(r)
  <2>1. Captured # {}
    BY <1>0, <1>1 DEF ApproveRead, PaidIsCaptured, Paid, Captured
  <2>2. [op |-> "approveWrite"] \in Request /\ Justified([op |-> "approveWrite"])
    BY <2>1 DEF Request, Justified
  <2> QED
    BY <1>1, <2>2, ReadGoto DEF ApproveRead
<1>2. CASE ApproveWrite(r) \/ CompleteWrite(r)
  <2>1. Captured # {}
    BY <1>2, RequestShape DEF ApproveWrite, CompleteWrite, At
  <2>2. [op |-> "earn"] \in Request /\ Justified([op |-> "earn"])
    BY <2>1 DEF Request, Justified
  <2>3. /\ Goto(r, [op |-> "earn"]) /\ status' \in Statuses
        /\ UNCHANGED <<by, promised, earning, txn, recorded, gateway, credited, ages, env>>
    BY <1>2 DEF ApproveWrite, CompleteWrite, Statuses
  <2> QED
    BY <1>0, <2>1, <2>2, <2>3, BookingWriteKeepsInv DEF RowsOK
<1>3. CASE ApproveRefused(r)
  BY <1>3, IdleIsRequest, ReadGoto DEF ApproveRefused, Done
<1>4. CASE Earn(r)
  <2>1. Captured # {}
    BY <1>4, RequestShape DEF Earn, At
  <2>2. /\ Goto(r, Idle) /\ earning' \in {"pending", earning}
        /\ UNCHANGED <<status, by, promised, txn, recorded, gateway, credited, ages, env>>
    BY <1>4 DEF Earn, Done, EnsureEarning, booking
  <2> QED
    BY <1>0, <2>1, <2>2, IdleIsRequest, BookingWriteKeepsInv DEF RowsOK
<1>5. CASE CompleteFind(r)
  <2>1. Captured # {}
    BY <1>0, <1>5 DEF CompleteFind, NothingUnpaid
  <2>2. [op |-> "completeWrite"] \in Request /\ Justified([op |-> "completeWrite"])
    BY <2>1 DEF Request, Justified
  <2> QED
    BY <1>5, <2>2, ReadGoto DEF CompleteFind
<1>6. CASE Advance(r)
  <2>1. /\ status = "confirmed" /\ status' \in {"active", "no_show"} /\ UNCHANGED reqs
        /\ UNCHANGED <<by, promised, earning, txn, recorded, gateway, credited, ages, env>>
    BY <1>6 DEF Advance
  <2>2. Captured' = Captured /\ Captured # {} /\ PaidIsCaptured'
    BY <1>0, <2>1 DEF NothingUnpaid, Captured, PaidIsCaptured, gateway
  <2>3. RowsOK' /\ NothingUnpaid'
    BY <1>0, <2>1, <2>2 DEF RowsOK, NothingUnpaid, Statuses, gateway, ages, env
  <2> QED
    BY <2>1, <2>2, <2>3, QuietWriteKeepsInv DEF ChargesStay
<1> QED
  BY <1>1, <1>2, <1>3, <1>4, <1>5, <1>6

\* Cancellation by the driver, the host, an admin and the cron job.
LEMMA CancelKeepsInv ==
  ASSUME IInv, NEW r \in Requests,
         \/ \E a \in UserRefunds : CancelByDriver(r, a)
         \/ RejectRead(r) \/ RejectWrite(r) \/ HostCancelRead(r) \/ HostCancelWrite(r)
         \/ AdminCancelRead(r) \/ AdminCancelWrite(r) \/ AdminTotal(r)
         \/ SweepFind(r) \/ SweepWrite(r)
  PROVE  IInv'
<1>0. RowsOK /\ PaidIsCaptured /\ NothingUnpaid
  BY RequestShape DEF IInv
<1>p. Price \in Nat \ {0} /\ UserRefunds \subseteq 0..Price
  BY PaymentsAssumption
<1>1. ASSUME NEW a \in UserRefunds, CancelByDriver(r, a)
      PROVE  IInv'
  <2>1. PICK rec \in {Idle} \cup {[op |-> "findPaid", want |-> n] : n \in 1..Price} : Goto(r, rec)
    BY <1>p, <1>1 DEF CancelByDriver
  <2>2. rec \in Request /\ Justified(rec)
    BY <2>1, IdleIsRequest DEF Request, Justified
  <2>3. /\ status' = "cancelled" /\ by' = "user" /\ promised' = a /\ a \in Nat
        /\ earning' \in {"none", "pending", "on_hold"} /\ (earning = "none" => earning' = "none")
        /\ UNCHANGED <<txn, recorded, gateway, credited, ages, env>>
    BY <1>0, <1>p, <1>1 DEF CancelByDriver, RowsOK
  <2> QED
    BY <1>0, <2>1, <2>2, <2>3, BookingWriteKeepsInv DEF RowsOK, Statuses
<1>2. CASE RejectRead(r) \/ HostCancelRead(r) \/ AdminCancelRead(r) \/ SweepFind(r)
  <2>1. PICK rec \in {[op |-> o] : o \in {"rejectWrite", "hostCancelWrite", "sweepWrite"}}
                       \cup {[op |-> "adminWrite", seen |-> status]} : Goto(r, rec)
    BY <1>2 DEF RejectRead, HostCancelRead, AdminCancelRead, SweepFind
  <2>2. rec \in Request /\ Justified(rec)
    BY <1>0, <2>1 DEF Request, Justified, RowsOK
  <2> QED
    BY <1>2, <2>1, <2>2, ReadGoto DEF RejectRead, HostCancelRead, AdminCancelRead, SweepFind
<1>3. CASE RejectWrite(r) \/ HostCancelWrite(r)
  <2> DEFINE rec == [op |-> "findPaid", want |-> Price]
  <2>1. rec \in Request /\ Justified(rec)
    BY <1>p DEF Request, Justified
  <2>2. /\ Goto(r, rec) /\ status' = "cancelled" /\ by' = "host" /\ promised' = Price
        /\ earning' \in {"none", "pending", "on_hold"} /\ (earning = "none" => earning' = "none")
        /\ UNCHANGED <<txn, recorded, gateway, credited, ages, env>>
    BY <1>0, <1>3 DEF RejectWrite, HostCancelWrite, RowsOK
  <2> QED
    BY <1>0, <1>p, <2>1, <2>2, BookingWriteKeepsInv DEF RowsOK, Statuses
<1>4. CASE AdminCancelWrite(r)
  <2>1. PICK rec \in {Idle, [op |-> "adminFind", want |-> Price]} : Goto(r, rec)
    BY <1>4 DEF AdminCancelWrite
  <2>2. rec \in Request /\ Justified(rec)
    BY <1>p, <2>1, IdleIsRequest DEF Request, Justified
  <2>3. /\ status' = "cancelled"
        /\ UNCHANGED <<by, promised, earning, txn, recorded, gateway, credited, ages, env>>
    BY <1>4 DEF AdminCancelWrite
  <2> QED
    BY <1>0, <2>1, <2>2, <2>3, BookingWriteKeepsInv DEF RowsOK, Statuses
<1>5. CASE AdminTotal(r)
  <2>1. reqs[r].base \in Nat /\ reqs[r].more \in 1..Price
    BY <1>5, RequestShape DEF AdminTotal
  <2>2. /\ Goto(r, Idle) /\ promised' = reqs[r].base + reqs[r].more
        /\ UNCHANGED <<status, by, earning, txn, recorded, gateway, credited, ages, env>>
    BY <1>5 DEF AdminTotal, Done
  <2> QED
    BY <1>0, <1>p, <2>1, <2>2, IdleIsRequest, BookingWriteKeepsInv DEF RowsOK
<1>6. CASE SweepWrite(r)
  <2>1. /\ status' = "cancelled" /\ by' = "admin" /\ Goto(r, Idle)
        /\ txn' = [t \in Attempts |-> IF txn[t].st = "pending" THEN [txn[t] EXCEPT !.st = "failed"] ELSE txn[t]]
        /\ UNCHANGED <<promised, earning, recorded, gateway, credited, ages, env>>
    BY <1>6 DEF SweepWrite, Done
  <2>2. RowsOK'
    BY <1>0, <2>1 DEF RowsOK, gateway, ages, env, TxStatuses, Statuses
  <2>3. Captured' = Captured /\ PaidIsCaptured'
    BY <1>0, <2>1 DEF RowsOK, PaidIsCaptured, Captured, gateway
  <2>4. NothingUnpaid'
    BY <1>0, <2>1, <2>3 DEF NothingUnpaid
  <2> QED
    BY <2>1, <2>2, <2>3, <2>4, IdleIsRequest, WriteKeepsInv DEF ChargesStay
<1> QED
  BY <1>1, <1>2, <1>3, <1>4, <1>5, <1>6

\* Finding the attempt to refund, and the four statements of a refund.
LEMMA RefundKeepsInv ==
  ASSUME IInv, NEW r \in Requests,
         \/ (\E n \in AdminRefunds : AdminRefund(r, n)) \/ (\E t \in Attempts, n \in AdminRefunds : AdminRefundTx(r, t, n))
         \/ AdminFind(r) \/ FindPaid(r)
         \/ RefundRead(r) \/ RefundCredit(r) \/ RefundRecord(r) \/ RefundStatus(r)
  PROVE  IInv'
<1>0. RowsOK /\ PaidIsCaptured /\ NothingUnpaid
  BY RequestShape DEF IInv
<1>p. Price \in Nat \ {0} /\ AdminRefunds \subseteq 1..Price
  BY PaymentsAssumption
<1> DEFINE Step(op) == [op : {op}, t : Attempts, amount : 1..Price, prior : 0..Price,
                        then : {Idle} \cup AdminTotals]
<1>1. CASE \E n \in AdminRefunds : AdminRefund(r, n)
  <2>1. PICK n \in 1..Price : AdminRefund(r, n)
    BY <1>p, <1>1
  <2> DEFINE rec == [op |-> "adminFind", want |-> n]
  <2>2. rec \in Request /\ Justified(rec)
    BY DEF Request, Justified
  <2> QED
    BY <2>1, <2>2, ReadGoto DEF AdminRefund
<1>2. ASSUME NEW t \in Attempts, NEW want \in 1..Price, NEW then \in {Idle} \cup AdminTotals,
             Goto(r, [op |-> "refundRead", t |-> t, want |-> want, then |-> then]), ReadOnly
      PROVE  IInv'
  <2> DEFINE rec == [op |-> "refundRead", t |-> t, want |-> want, then |-> then]
  <2>1. rec \in Request /\ Justified(rec)
    BY DEF Request, Justified
  <2> QED
    BY <1>2, <2>1, ReadGoto
<1>3. CASE \E t \in Attempts, n \in AdminRefunds : AdminRefundTx(r, t, n)
  BY <1>p, <1>2, <1>3 DEF AdminRefundTx
<1>4. ASSUME NEW want \in 1..Price, NEW then \in {Idle} \cup AdminTotals,
             RefundLatest(r, want, then), ReadOnly
      PROVE  IInv'
  <2>1. CASE Done(r)
    BY <1>4, <2>1, IdleIsRequest, ReadGoto DEF Done
  <2> QED
    BY <1>2, <1>4, <2>1 DEF RefundLatest, Paid
<1>5. CASE AdminFind(r)
  <2>1. PICK n \in 1..Price : n = reqs[r].want
    BY <1>5, RequestShape DEF AdminFind, At
  <2>2. [op |-> "adminTotal", base |-> promised, more |-> n] \in AdminTotals
    BY <1>0 DEF AdminTotals, RowsOK
  <2> QED
    BY <1>4, <1>5, <2>1, <2>2 DEF AdminFind
<1>6. CASE FindPaid(r)
  BY <1>4, <1>6, RequestShape DEF FindPaid, At
<1>7. CASE RefundRead(r)
  <2>1. reqs[r] \in [op : {"refundRead"}, t : Attempts, want : 1..Price, then : {Idle} \cup AdminTotals]
    BY <1>7, RequestShape DEF RefundRead
  <2> DEFINE q    == reqs[r]
             left == Price - recorded[q.t]
  <2>2. recorded[q.t] \in Nat
    BY <1>0, <2>1 DEF RowsOK
  <2>3. PICK rec \in {Idle} \cup Step("refundCredit") : Goto(r, rec)
    BY <1>p, <1>7, <2>1, <2>2 DEF RefundRead
  <2>4. rec \in Request /\ Justified(rec)
    BY <2>3, IdleIsRequest DEF Request, Justified
  <2> QED
    BY <1>7, <2>3, <2>4, ReadGoto DEF RefundRead
<1>8. CASE RefundCredit(r) \/ RefundRecord(r)
  <2>1. reqs[r] \in [op : {"refundCredit", "refundRecord", "refundStatus"}, t : Attempts,
                    amount : 1..Price, prior : 0..Price, then : {Idle} \cup AdminTotals]
    BY <1>8, RequestShape DEF RefundCredit, RefundRecord, At
  <2>2. PICK o \in {"refundRecord", "refundStatus"} : Goto(r, [reqs[r] EXCEPT !.op = o])
    BY <1>8 DEF RefundCredit, RefundRecord
  <2>3. [reqs[r] EXCEPT !.op = o] \in Request /\ Justified([reqs[r] EXCEPT !.op = o])
    BY <2>1 DEF Request, Justified
  <2>4. recorded' \in [Attempts -> Nat] /\ credited' \in [Attempts -> Nat]
    BY <1>0, <1>8, <2>1 DEF RefundCredit, RefundRecord, RowsOK
  <2>5. UNCHANGED <<status, by, promised, earning, txn, gateway, ages, env>>
    BY <1>8 DEF RefundCredit, RefundRecord, booking
  <2> QED
    BY <1>0, <2>2, <2>3, <2>4, <2>5, BookingWriteKeepsInv DEF RowsOK
<1>9. CASE RefundStatus(r)
  <2>1. /\ reqs[r].t \in Attempts /\ reqs[r].then \in {Idle} \cup AdminTotals
    BY <1>9, RequestShape DEF RefundStatus, At
  <2>2. PICK st \in {"refunded", "partially_refunded"} : txn' = [txn EXCEPT ![reqs[r].t].st = st]
    BY <1>9 DEF RefundStatus, SetStatus
  <2>3. PICK rec \in {Idle} \cup AdminTotals :
          Goto(r, rec) /\ UNCHANGED <<booking, earning, recorded, gateway, credited, ages, env>>
    BY <1>9, <2>1 DEF RefundStatus
  <2>4. RowsOK'
    BY <1>0, <2>1, <2>2, <2>3 DEF RowsOK, booking, gateway, ages, env, TxStatuses
  <2>5. Captured' = Captured /\ PaidIsCaptured'
    BY <1>0, <2>1, <2>2, <2>3 DEF RowsOK, PaidIsCaptured, Captured, gateway
  <2>6. NothingUnpaid'
    BY <1>0, <2>3, <2>5 DEF NothingUnpaid, booking
  <2>7. rec \in Request /\ Justified(rec)'
    <3>1. rec.op \in {"idle", "adminTotal"}
      BY <2>3 DEF AdminTotals, Idle
    <3>2. rec \in Request
      BY <2>3 DEF Request
    <3> QED
      BY <3>1, <3>2 DEF Justified
  <2> QED
    BY <2>3, <2>4, <2>5, <2>6, <2>7, WriteKeepsInv DEF ChargesStay
<1> QED
  BY <1>1, <1>3, <1>5, <1>6, <1>7, <1>8, <1>9

\* The gateway, time, and handlers that stop.
LEMMA EnvironmentKeepsInv ==
  ASSUME IInv,
         \/ \E t \in Attempts : Capture(t) \/ Decline(t)
         \/ ToggleInstant \/ Elapse
         \/ \E r \in Requests : Crash(r)
         \/ UNCHANGED vars
  PROVE  IInv'
<1> USE DEF booking, gateway, ages, env
<1>0. RowsOK /\ PaidIsCaptured /\ NothingUnpaid
  BY DEF IInv, TypeOK, RowsOK
<1>1. ASSUME NEW t \in Attempts, Capture(t)
      PROVE  IInv'
  <2>1. ChargesStay /\ PaidIsCaptured'
    BY <1>0, <1>1 DEF Capture, RowsOK, ChargesStay, Captured, PaidIsCaptured
  <2>2. RowsOK' /\ NothingUnpaid'
    BY <1>0, <1>1, <2>1 DEF Capture, RowsOK, NothingUnpaid, ChargesStay
  <2> QED
    BY <1>1, <2>1, <2>2, QuietWriteKeepsInv DEF Capture
<1>2. ASSUME UNCHANGED <<booking, earning, txn, charge>>
      PROVE  ChargesStay /\ PaidIsCaptured' /\ NothingUnpaid'
  BY <1>0, <1>2 DEF ChargesStay, Captured, PaidIsCaptured, NothingUnpaid
<1>3. ASSUME NEW t \in Attempts, Decline(t)
      PROVE  IInv'
  <2>1. RowsOK'
    BY <1>0, <1>3 DEF Decline, RowsOK
  <2> QED
    BY <1>2, <1>3, <2>1, QuietWriteKeepsInv DEF Decline
<1>4. CASE Elapse
  <2>1. RowsOK'
    BY <1>0, <1>4 DEF Elapse, RowsOK
  <2> QED
    BY <1>2, <1>4, <2>1, QuietWriteKeepsInv DEF Elapse
<1>7. CASE ToggleInstant
  <2>1. RowsOK'
    BY <1>0, <1>7 DEF ToggleInstant, RowsOK
  <2> QED
    BY <1>2, <1>7, <2>1, QuietWriteKeepsInv DEF ToggleInstant
<1>5. ASSUME NEW r \in Requests, Crash(r)
      PROVE  IInv'
  <2>1. RowsOK'
    BY <1>0, <1>5, PaymentsAssumption DEF Crash, RowsOK
  <2> QED
    BY <1>2, <1>5, <2>1, IdleIsRequest, WriteKeepsInv DEF Crash, Done
<1>6. CASE UNCHANGED vars
  <2>1. RowsOK'
    BY <1>0, <1>6 DEF vars, RowsOK
  <2> QED
    BY <1>2, <1>6, <2>1, QuietWriteKeepsInv DEF vars
<1> QED
  BY <1>1, <1>3, <1>4, <1>5, <1>6, <1>7

-----------------------------------------------------------------------------
LEMMA InitEstablishesInv == Init => IInv
<1> SUFFICES ASSUME Init PROVE IInv
  OBVIOUS
<1>1. TypeOK
  <2>1. RowsOK
    <3>1. status \in Statuses /\ crashes \in 0..MaxCrashes
      BY PaymentsAssumption DEF Init, Statuses
    <3>2. txn \in [Attempts -> [st : TxStatuses, method : Methods \cup {"wallet", "none"}]]
      BY DEF Init, TxStatuses
    <3>3. /\ recorded \in [Attempts -> Nat] /\ credited \in [Attempts -> Nat]
          /\ charge \in [Attempts -> {"none", "open", "captured"}]
      BY DEF Init
    <3> QED
      BY <3>1, <3>2, <3>3 DEF Init, RowsOK
  <2>2. reqs \in [Requests -> Request]
    BY IdleIsRequest DEF Init
  <2> QED
    BY <2>1, <2>2 DEF TypeOK, RowsOK
<1>2. PaidIsCaptured /\ NothingUnpaid
  BY DEF Init, PaidIsCaptured, NothingUnpaid
<1>3. \A r \in Requests : Justified(reqs[r])
  BY DEF Init, Justified, Idle
<1> QED
  BY <1>1, <1>2, <1>3 DEF IInv

LEMMA NextKeepsInv == IInv /\ [Next]_vars => IInv'
  BY PaymentKeepsInv, ApprovalKeepsInv, CancelKeepsInv, RefundKeepsInv, EnvironmentKeepsInv
     DEF Next, Arrive, Proceed

\* Every reachable state satisfies the invariant.
THEOREM InvariantHolds == Spec => []IInv
  BY InitEstablishesInv, NextKeepsInv, PTL DEF Spec

\* Rows, charges and handlers keep their shape.
THEOREM TypeCorrect == Spec => []TypeOK
  BY InvariantHolds, IInvImplies, PTL

\* However deliveries, approvals, sweeps and crashes interleave, a booking becomes
\* firm, and the host earns, only when somebody was charged for it.
THEOREM NeverUnpaid == Spec => []NothingUnpaid
  BY InvariantHolds, IInvImplies, PTL

-----------------------------------------------------------------------------
\* Refunds.

RefundSteps == {"refundCredit", "refundRecord", "refundStatus"}

\* What a handler has given back for t and has still to record.
Mine(rec, t)  == IF rec.op = "refundRecord" /\ rec.t = t THEN rec.amount ELSE 0
Unrecorded(t) == SumFunctionOnSet([r \in Requests |-> Mine(reqs[r], t)], Requests)

\* A credit is recorded, or will be, unless a handler stopped in between.
Balanced(t) == /\ recorded[t] + Unrecorded(t) <= credited[t]
               /\ crashes = 0 => recorded[t] + Unrecorded(t) = credited[t]

Returned ==
  /\ \A t \in Attempts :
       /\ txn[t].st \in {"partially_refunded", "refunded"} \/ credited[t] > 0 => charge[t] = "captured"
       /\ Balanced(t)
  /\ \A r \in Requests : reqs[r].op \in RefundSteps => charge[reqs[r].t] = "captured"

LEMMA MineIsNat == \A rec \in Request, t \in Attempts : Mine(rec, t) \in Nat
  BY DEF Mine, Request, Idle, AdminTotals

LEMMA UnrecordedIsNat == ASSUME TypeOK, NEW t \in Attempts PROVE Unrecorded(t) \in Nat
<1> DEFINE f == [r \in Requests |-> Mine(reqs[r], t)]
<1>1. \A r \in Requests : f[r] \in Nat
  BY MineIsNat DEF TypeOK
<1>2. Unrecorded(t) = SumFunctionOnSet(f, Requests)
  BY DEF Unrecorded
<1> HIDE DEF f
<1> QED
  BY <1>1, <1>2, SumType, PaymentsAssumption DEF PaymentsAssumption

\* A handler that moves on changes the sum by what it had and has to record.
LEMMA UnrecordedMoves ==
  ASSUME TypeOK, NEW r \in Requests, NEW rec \in Request, Goto(r, rec), NEW t \in Attempts
  PROVE  Unrecorded(t)' = Unrecorded(t) - Mine(reqs[r], t) + Mine(rec, t)
<1> DEFINE f == [q \in Requests |-> Mine(reqs[q], t)]
           g == [q \in Requests |-> Mine(reqs'[q], t)]
<1>1. /\ reqs'[r] = rec /\ \A q \in Requests \ {r} : reqs'[q] = reqs[q]
      /\ \A q \in Requests : reqs[q] \in Request /\ reqs'[q] \in Request
  BY DEF TypeOK, Goto
<1>2. \A q \in Requests : f[q] \in Int /\ g[q] \in Int
  BY <1>1, MineIsNat
<1>3. \A q \in Requests \ {r} : g[q] = f[q]
  BY <1>1
<1>4. f[r] = Mine(reqs[r], t) /\ g[r] = Mine(rec, t)
  BY <1>1
<1>5. Unrecorded(t) = SumFunctionOnSet(f, Requests) /\ Unrecorded(t)' = SumFunctionOnSet(g, Requests)
  BY DEF Unrecorded, Mine
<1> HIDE DEF f, g
<1> QED
  BY <1>2, <1>3, <1>4, <1>5, SumUpdate, PaymentsAssumption DEF PaymentsAssumption

\* Handler r moves on to rec; what it gives back and records is what its records say.
LEMMA RefundMoves ==
  ASSUME IInv, TypeOK', Returned, ChargesStay, NEW r \in Requests, NEW rec \in Request, Goto(r, rec),
         \A t \in Attempts : txn'[t].st \in {"partially_refunded", "refunded"} =>
            txn'[t].st = txn[t].st \/ charge[t] = "captured",
         \A t \in Attempts : credited'[t] > credited[t] => charge[t] = "captured",
         \A t \in Attempts :
            credited'[t] = credited[t] + (recorded'[t] - recorded[t]) - Mine(reqs[r], t) + Mine(rec, t),
         rec.op \in RefundSteps => charge[rec.t] = "captured",
         UNCHANGED crashes
  PROVE  Returned'
<1>0. TypeOK
  BY DEF IInv
<1>1. \A t \in Attempts : charge[t] = "captured" => charge'[t] = "captured"
  BY DEF ChargesStay, Captured
<1>2. ASSUME NEW t \in Attempts PROVE Balanced(t)'
  <2>1. Unrecorded(t)' = Unrecorded(t) - Mine(reqs[r], t) + Mine(rec, t)
    BY <1>0, UnrecordedMoves
  <2>2. /\ Unrecorded(t) \in Int /\ Mine(reqs[r], t) \in Int /\ Mine(rec, t) \in Int
        /\ credited[t] \in Int /\ credited'[t] \in Int /\ recorded[t] \in Int /\ recorded'[t] \in Int
    BY <1>0, UnrecordedIsNat, MineIsNat DEF TypeOK
  <2>3. credited'[t] = credited[t] + (recorded'[t] - recorded[t]) - Mine(reqs[r], t) + Mine(rec, t)
    OBVIOUS
  <2>4. Balanced(t)
    BY DEF Returned
  <2> QED
    BY <2>1, <2>2, <2>3, <2>4 DEF Balanced
<1>3. ASSUME NEW t \in Attempts,
             txn'[t].st \in {"partially_refunded", "refunded"} \/ credited'[t] > 0
      PROVE  charge'[t] = "captured"
  <2>1. credited[t] \in Nat /\ credited'[t] \in Nat
    BY <1>0 DEF TypeOK
  <2> QED
    BY <1>1, <1>3, <2>1 DEF Returned
<1>4. ASSUME NEW q \in Requests, reqs'[q].op \in RefundSteps
      PROVE  charge'[reqs'[q].t] = "captured"
  <2>1. reqs'[q] = IF q = r THEN rec ELSE reqs[q]
    BY <1>0 DEF Goto, TypeOK
  <2>2. charge[reqs'[q].t] = "captured"
    BY <1>4, <2>1 DEF Returned
  <2>3. reqs'[q].t \in Attempts
    BY <1>4 DEF TypeOK, Request, Idle, AdminTotals, RefundSteps
  <2> QED
    BY <1>1, <2>2, <2>3
<1> QED
  BY <1>2, <1>3, <1>4 DEF Returned

\* A handler that neither refunds nor comes to refund.
LEMMA OthersKeepReturned ==
  ASSUME IInv, TypeOK', Returned, ChargesStay, NEW r \in Requests, NEW rec \in Request, Goto(r, rec),
         reqs[r].op \notin RefundSteps, rec.op \notin RefundSteps,
         \A t \in Attempts : txn'[t].st \in {"partially_refunded", "refunded"} => txn'[t].st = txn[t].st,
         UNCHANGED <<recorded, credited, crashes>>
  PROVE  Returned'
<1>1. \A t \in Attempts : Mine(reqs[r], t) = 0 /\ Mine(rec, t) = 0
  BY DEF Mine, RefundSteps
<1>2. \A t \in Attempts : credited[t] \in Int /\ recorded[t] \in Int
  BY DEF IInv, TypeOK
<1> QED
  BY <1>1, <1>2, RefundMoves

LEMMA ReadKeepsReturned ==
  ASSUME IInv, TypeOK', Returned, ReadOnly, NEW r \in Requests, NEW rec \in Request, Goto(r, rec),
         reqs[r].op \notin RefundSteps, rec.op \notin RefundSteps
  PROVE  Returned'
  BY OthersKeepReturned, ReadStays DEF ReadOnly, env

LEMMA PaymentKeepsReturned ==
  ASSUME IInv, IInv', Returned, NEW r \in Requests,
         \/ \E m \in Methods : IntentRead(r, m)
         \/ IntentInsert(r) \/ WalletRead(r) \/ WalletWrite(r) \/ WalletRefused(r)
         \/ \E t \in Attempts : HookRead(r, t) \/ HookFailed(r, t) \/ ConfirmFails(r, t)
         \/ ConfirmRead(r) \/ ConfirmRefused(r) \/ ConfirmWrite(r)
  PROVE  Returned'
<1>0. TypeOK /\ TypeOK' /\ reqs' \in [Requests -> Request]
  BY DEF IInv, TypeOK
<1>1. ASSUME NEW rec, Goto(r, rec) PROVE rec \in Request
  BY <1>0, <1>1 DEF Goto, TypeOK
<1>2. ASSUME NEW m \in Methods, IntentRead(r, m) PROVE Returned'
  <2>1. PICK rec \in {[op |-> "intentInsert", method |-> m]}
                       \cup {[op |-> "confirmRead", t |-> t] : t \in Attempts} : Goto(r, rec)
    BY <1>2 DEF IntentRead
  <2> QED
    BY <1>0, <1>1, <1>2, <2>1, ReadKeepsReturned DEF IntentRead, Starts, Idle, RefundSteps
<1>3. CASE IntentInsert(r)
  <2>1. PICK t \in Attempts :
          /\ NewAttempt(t)
          /\ txn' = [txn EXCEPT ![t] = [st |-> "pending", method |-> reqs[r].method]]
          /\ charge' = [charge EXCEPT ![t] = "open"]
    BY <1>3 DEF IntentInsert
  <2>2. ChargesStay
    BY <1>0, <2>1 DEF ChargesStay, Captured, TypeOK, IInv, PaidIsCaptured, NewAttempt
  <2>3. \A u \in Attempts : txn'[u].st \in {"partially_refunded", "refunded"} => txn'[u].st = txn[u].st
    BY <1>0, <2>1 DEF TypeOK
  <2> QED
    BY <1>0, <1>1, <1>3, <2>2, <2>3, OthersKeepReturned DEF IntentInsert, Done, At, Idle, RefundSteps, env
<1>4. CASE WalletRead(r)
  <2>1. PICK rec : Goto(r, rec) /\ rec.op = "walletWrite"
    BY <1>4 DEF WalletRead
  <2> QED
    BY <1>0, <1>1, <1>4, <2>1, ReadKeepsReturned DEF WalletRead, Starts, Idle, RefundSteps
<1>5. CASE WalletWrite(r)
  <2>1. PICK t \in Attempts :
          /\ txn' = [txn EXCEPT ![t] = [st |-> "completed", method |-> "wallet"]]
          /\ charge' = [charge EXCEPT ![t] = "captured"]
    BY <1>5 DEF WalletWrite
  <2>2. ChargesStay
    BY <1>0, <2>1 DEF ChargesStay, Captured, TypeOK
  <2>3. \A u \in Attempts : txn'[u].st \in {"partially_refunded", "refunded"} => txn'[u].st = txn[u].st
    BY <1>0, <2>1 DEF TypeOK
  <2> QED
    BY <1>0, <1>1, <1>5, <2>2, <2>3, OthersKeepReturned DEF WalletWrite, Done, At, Idle, RefundSteps, env
<1>6. CASE WalletRefused(r) \/ ConfirmRefused(r)
  BY <1>0, <1>1, <1>6, ReadKeepsReturned DEF WalletRefused, ConfirmRefused, Done, At, Idle, RefundSteps
<1>7. ASSUME NEW t \in Attempts, HookRead(r, t) PROVE Returned'
  <2>1. PICK rec : Goto(r, rec) /\ rec.op = "confirmRead"
    BY <1>7 DEF HookRead
  <2> QED
    BY <1>0, <1>1, <1>7, <2>1, ReadKeepsReturned DEF HookRead, Starts, Idle, RefundSteps
<1>8. ASSUME NEW t \in Attempts, HookFailed(r, t) \/ ConfirmFails(r, t) PROVE Returned'
  <2>1. /\ txn' = [txn EXCEPT ![t].st = "failed"] /\ UNCHANGED <<recorded, credited, gateway, env, reqs>>
        /\ reqs[r] = Idle
    BY <1>8 DEF HookFailed, ConfirmFails, SetStatus, Starts
  <2>2. ChargesStay
    BY <2>1 DEF ChargesStay, Captured, gateway
  <2>3. \A u \in Attempts : txn'[u].st \in {"partially_refunded", "refunded"} => txn'[u].st = txn[u].st
    BY <1>0, <2>1 DEF TypeOK
  <2>4. Goto(r, Idle)
    BY <1>0, <2>1 DEF Goto, TypeOK
  <2> QED
    BY <1>0, <1>1, <2>1, <2>2, <2>3, <2>4, OthersKeepReturned DEF Idle, RefundSteps, env
<1>9. CASE ConfirmRead(r)
  <2>1. PICK rec : Goto(r, rec) /\ rec.op \in {"idle", "confirmWrite"}
    BY <1>9 DEF ConfirmRead, Idle
  <2> QED
    BY <1>0, <1>1, <1>9, <2>1, ReadKeepsReturned DEF ConfirmRead, At, RefundSteps
<1>10. CASE ConfirmWrite(r)
  <2>1. PICK rec : Goto(r, rec) /\ rec.op \in {"idle", "refundRead"}
    BY <1>10 DEF ConfirmWrite, Idle
  <2>2. ChargesStay
    BY <1>10 DEF ConfirmWrite, ChargesStay, Captured, gateway
  <2>3. \A u \in Attempts : txn'[u].st \in {"partially_refunded", "refunded"} => txn'[u].st = txn[u].st
    BY <1>0, <1>10 DEF TypeOK, ConfirmWrite, SetStatus
  <2> QED
    BY <1>0, <1>1, <1>10, <2>1, <2>2, <2>3, OthersKeepReturned DEF ConfirmWrite, At, RefundSteps, env
<1> QED
  BY <1>2, <1>3, <1>4, <1>5, <1>6, <1>7, <1>8, <1>9, <1>10

\* Approval, completion and cancellation write no transaction but the sweep's.
LEMMA BookingKeepsReturned ==
  ASSUME IInv, IInv', Returned, NEW r \in Requests,
         \/ ApproveRead(r) \/ ApproveWrite(r) \/ ApproveRefused(r) \/ Earn(r)
         \/ CompleteFind(r) \/ CompleteWrite(r) \/ Advance(r)
         \/ \E a \in UserRefunds : CancelByDriver(r, a)
         \/ RejectRead(r) \/ RejectWrite(r) \/ HostCancelRead(r) \/ HostCancelWrite(r)
         \/ AdminCancelRead(r) \/ AdminCancelWrite(r) \/ AdminTotal(r)
         \/ SweepFind(r) \/ SweepWrite(r) \/ (\E n \in AdminRefunds : AdminRefund(r, n))
  PROVE  Returned'
<1>0. TypeOK /\ TypeOK' /\ reqs' \in [Requests -> Request]
  BY DEF IInv, TypeOK
<1>1. ASSUME NEW rec, Goto(r, rec) PROVE rec \in Request
  BY <1>0, <1>1 DEF Goto, TypeOK
<1>2. ASSUME NEW rec, Goto(r, rec), rec.op \notin RefundSteps, reqs[r].op \notin RefundSteps,
             UNCHANGED <<txn, recorded, credited, gateway, env>>
      PROVE  Returned'
  <2>1. ChargesStay
    BY <1>2 DEF ChargesStay, Captured, gateway
  <2> QED
    BY <1>0, <1>1, <1>2, <2>1, OthersKeepReturned DEF env
<1>3. CASE ApproveRead(r) \/ CompleteFind(r) \/ RejectRead(r) \/ HostCancelRead(r) \/ SweepFind(r)
           \/ AdminCancelRead(r) \/ (\E n \in AdminRefunds : AdminRefund(r, n))
  <2>1. PICK rec : /\ Goto(r, rec)
                   /\ rec.op \in {"approveWrite", "completeWrite", "rejectWrite", "hostCancelWrite",
                                  "sweepWrite", "adminWrite", "adminFind"}
    <3>1. CASE \E n \in AdminRefunds : AdminRefund(r, n)
      <4>1. PICK n \in AdminRefunds : AdminRefund(r, n)
        BY <3>1
      <4> QED
        BY <4>1 DEF AdminRefund
    <3> QED
      BY <1>3, <3>1 DEF ApproveRead, CompleteFind, RejectRead, HostCancelRead, SweepFind, AdminCancelRead
  <2>2. reqs[r] = Idle /\ ReadOnly
    BY <1>3 DEF ApproveRead, CompleteFind, RejectRead, HostCancelRead, SweepFind, AdminCancelRead,
       AdminRefund, Starts
  <2> QED
    BY <1>2, <2>1, <2>2 DEF ReadOnly, Idle, RefundSteps
<1>4. CASE ApproveWrite(r) \/ CompleteWrite(r)
  <2>1. PICK rec : Goto(r, rec) /\ rec.op = "earn"
    BY <1>4 DEF ApproveWrite, CompleteWrite
  <2> QED
    BY <1>2, <1>4, <2>1 DEF ApproveWrite, CompleteWrite, At, RefundSteps
<1>5. CASE ApproveRefused(r) \/ Earn(r) \/ AdminTotal(r)
  BY <1>2, <1>5 DEF ApproveRefused, Earn, AdminTotal, Done, At, Idle, RefundSteps, ReadOnly
<1>6. CASE Advance(r)
  <2>1. reqs[r] = Idle /\ Goto(r, Idle)
    BY <1>0, <1>6 DEF Advance, Starts, Goto, TypeOK
  <2> QED
    BY <1>2, <1>6, <2>1 DEF Advance, Idle, RefundSteps
<1>7. ASSUME NEW a \in UserRefunds, CancelByDriver(r, a) PROVE Returned'
  <2>1. PICK rec : Goto(r, rec) /\ rec.op \in {"idle", "findPaid"}
    BY <1>7 DEF CancelByDriver, Idle
  <2> QED
    BY <1>2, <1>7, <2>1 DEF CancelByDriver, Starts, Idle, RefundSteps
<1>8. CASE RejectWrite(r) \/ HostCancelWrite(r)
  <2>1. PICK rec : Goto(r, rec) /\ rec.op = "findPaid"
    BY <1>8 DEF RejectWrite, HostCancelWrite
  <2> QED
    BY <1>2, <1>8, <2>1 DEF RejectWrite, HostCancelWrite, At, RefundSteps
<1>9. CASE AdminCancelWrite(r)
  <2>1. PICK rec : Goto(r, rec) /\ rec.op \in {"idle", "adminFind"}
    BY <1>9 DEF AdminCancelWrite, Idle
  <2> QED
    BY <1>2, <1>9, <2>1 DEF AdminCancelWrite, At, RefundSteps
<1>10. CASE SweepWrite(r)
  <2>1. ChargesStay
    BY <1>10 DEF SweepWrite, ChargesStay, Captured, gateway
  <2>2. \A u \in Attempts : txn'[u].st \in {"partially_refunded", "refunded"} => txn'[u].st = txn[u].st
    BY <1>0, <1>10 DEF TypeOK, SweepWrite
  <2> QED
    BY <1>0, <1>1, <1>10, <2>1, <2>2, OthersKeepReturned DEF SweepWrite, Done, At, Idle, RefundSteps, env
<1> QED
  BY <1>3, <1>4, <1>5, <1>6, <1>7, <1>8, <1>9, <1>10

LEMMA RefundKeepsReturned ==
  ASSUME IInv, IInv', Returned, NEW r \in Requests,
         \/ \E t \in Attempts, n \in AdminRefunds : AdminRefundTx(r, t, n)
         \/ AdminFind(r) \/ FindPaid(r)
         \/ RefundRead(r) \/ RefundCredit(r) \/ RefundRecord(r) \/ RefundStatus(r)
  PROVE  Returned'
<1>0. TypeOK /\ TypeOK' /\ reqs' \in [Requests -> Request]
  BY DEF IInv, TypeOK
<1>1. ASSUME NEW rec, Goto(r, rec) PROVE rec \in Request
  BY <1>0, <1>1 DEF Goto, TypeOK
<1>2. ASSUME NEW t \in Attempts, NEW n \in AdminRefunds, AdminRefundTx(r, t, n) PROVE Returned'
  <2>1. PICK rec : Goto(r, rec) /\ rec.op = "refundRead"
    BY <1>2 DEF AdminRefundTx
  <2> QED
    BY <1>0, <1>1, <1>2, <2>1, ReadKeepsReturned DEF AdminRefundTx, Starts, Idle, RefundSteps
<1>3. CASE AdminFind(r) \/ FindPaid(r)
  <2>1. PICK want, then : RefundLatest(r, want, then)
    BY <1>3 DEF AdminFind, FindPaid
  <2>2. PICK rec \in {Idle} \cup {[op |-> "refundRead", t |-> t, want |-> want, then |-> then] :
                                  t \in Attempts} : Goto(r, rec)
    BY <2>1 DEF RefundLatest, Done, Paid
  <2>3. rec.op \in {"idle", "refundRead"}
    BY <2>2 DEF Idle
  <2> QED
    BY <1>0, <1>1, <1>3, <2>2, <2>3, ReadKeepsReturned DEF AdminFind, FindPaid, At, RefundSteps
<1>4. CASE RefundRead(r)
  <2>1. reqs[r].t \in Attempts
    BY <1>4, RequestShape DEF RefundRead
  <2>2. PICK rec : /\ Goto(r, rec)
                   /\ \/ rec.op = "idle"
                      \/ /\ rec.op = "refundCredit" /\ rec.t = reqs[r].t
                         /\ txn[reqs[r].t].st \in {"completed", "partially_refunded"}
    BY <1>4 DEF RefundRead, Idle
  <2>3. rec.op \in RefundSteps => charge[rec.t] = "captured"
    BY <2>1, <2>2 DEF RefundSteps, Returned, IInv, PaidIsCaptured
  <2>4. \A t \in Attempts : Mine(reqs[r], t) = 0 /\ Mine(rec, t) = 0
    BY <1>4, <2>2 DEF Mine, RefundRead, At
  <2>5. \A t \in Attempts : credited[t] \in Int /\ recorded[t] \in Int
    BY <1>0 DEF TypeOK
  <2>6. UNCHANGED <<txn, credited, recorded, crashes>> /\ ChargesStay
    BY <1>4, ReadStays DEF RefundRead, ReadOnly, env
  <2> QED
    BY <1>0, <1>1, <2>2, <2>3, <2>4, <2>5, <2>6, RefundMoves
<1>5. CASE RefundCredit(r) \/ RefundRecord(r)
  <2>1. reqs[r] \in [op : {"refundCredit", "refundRecord", "refundStatus"}, t : Attempts,
                    amount : 1..Price, prior : 0..Price, then : {Idle} \cup AdminTotals]
    BY <1>5, RequestShape DEF RefundCredit, RefundRecord, At
  <2>2. PICK u \in Attempts : u = reqs[r].t
    BY <2>1
  <2>3. PICK n \in 1..Price : n = reqs[r].amount
    BY <2>1
  <2>4. charge[u] = "captured"
    BY <1>5, <2>2 DEF RefundCredit, RefundRecord, At, Returned, RefundSteps
  <2>5. \A t \in Attempts : credited[t] \in Nat /\ recorded[t] \in Nat
    BY <1>0 DEF TypeOK
  <2>6. n \in Nat /\ Price \in Nat
    BY PaymentsAssumption
  <2>7. UNCHANGED <<txn, gateway, crashes>> /\ ChargesStay
    BY <1>5 DEF RefundCredit, RefundRecord, env, ChargesStay, Captured, gateway
  <2>8. CASE RefundCredit(r)
    <3>1. PICK rec : Goto(r, rec) /\ rec = [reqs[r] EXCEPT !.op = "refundRecord"]
      BY <2>8 DEF RefundCredit
    <3>2. \A t \in Attempts : Mine(reqs[r], t) = 0 /\ Mine(rec, t) = IF t = u THEN n ELSE 0
      BY <2>1, <2>2, <2>3, <2>8, <3>1 DEF Mine, RefundCredit, At
    <3>3. /\ \A t \in Attempts : credited'[t] = IF t = u THEN credited[t] + n ELSE credited[t]
          /\ UNCHANGED recorded
      BY <1>0, <2>2, <2>3, <2>8 DEF RefundCredit, TypeOK
    <3>4. \A t \in Attempts :
            credited'[t] = credited[t] + (recorded'[t] - recorded[t]) - Mine(reqs[r], t) + Mine(rec, t)
      BY <2>5, <2>6, <3>2, <3>3
    <3>5. rec.t = u
      BY <2>1, <2>2, <3>1
    <3>6. \A t \in Attempts : credited'[t] > credited[t] => charge[t] = "captured"
      BY <2>4, <2>5, <3>3
    <3> QED
      BY <1>0, <1>1, <2>4, <2>7, <3>1, <3>4, <3>5, <3>6, RefundMoves
  <2>9. CASE RefundRecord(r)
    <3>1. PICK rec : Goto(r, rec) /\ rec = [reqs[r] EXCEPT !.op = "refundStatus"]
      BY <2>9 DEF RefundRecord
    <3>2. \A t \in Attempts : Mine(rec, t) = 0 /\ Mine(reqs[r], t) = IF t = u THEN n ELSE 0
      BY <2>1, <2>2, <2>3, <2>9, <3>1 DEF Mine, RefundRecord, At
    <3>3. /\ \A t \in Attempts : recorded'[t] = IF t = u THEN recorded[t] + n ELSE recorded[t]
          /\ UNCHANGED credited
      BY <1>0, <2>2, <2>3, <2>9 DEF RefundRecord, TypeOK
    <3>4. \A t \in Attempts :
            credited'[t] = credited[t] + (recorded'[t] - recorded[t]) - Mine(reqs[r], t) + Mine(rec, t)
      BY <2>5, <2>6, <3>2, <3>3
    <3>5. rec.t = u
      BY <2>1, <2>2, <3>1
    <3>6. \A t \in Attempts : credited'[t] > credited[t] => charge[t] = "captured"
      BY <2>5, <3>3
    <3> QED
      BY <1>0, <1>1, <2>4, <2>7, <3>1, <3>4, <3>5, <3>6, RefundMoves
  <2> QED
    BY <1>5, <2>8, <2>9
<1>6. CASE RefundStatus(r)
  <2>1. reqs[r].t \in Attempts /\ reqs[r].then \in {Idle} \cup AdminTotals
    BY <1>6, RequestShape DEF RefundStatus, At
  <2>2. PICK rec \in {Idle} \cup AdminTotals : Goto(r, rec)
    BY <1>6, <2>1 DEF RefundStatus
  <2>3. rec.op \notin RefundSteps
    BY <2>2 DEF Idle, AdminTotals, RefundSteps
  <2>4. \A t \in Attempts : Mine(reqs[r], t) = 0 /\ Mine(rec, t) = 0
    BY <1>6, <2>3 DEF Mine, RefundStatus, At, RefundSteps
  <2>5. \A t \in Attempts : credited[t] \in Int /\ recorded[t] \in Int
    BY <1>0 DEF TypeOK
  <2>6. UNCHANGED <<credited, recorded, gateway, crashes>> /\ ChargesStay
    BY <1>6 DEF RefundStatus, env, ChargesStay, Captured, gateway
  <2>7. charge[reqs[r].t] = "captured"
    BY <1>6 DEF RefundStatus, At, Returned, RefundSteps
  <2>8. \A t \in Attempts : txn'[t].st = txn[t].st \/ t = reqs[r].t
    BY <1>0, <1>6, <2>1 DEF RefundStatus, SetStatus, TypeOK
  <2> QED
    BY <1>0, <1>1, <2>2, <2>3, <2>4, <2>5, <2>6, <2>7, <2>8, RefundMoves
<1> QED
  BY <1>2, <1>3, <1>4, <1>5, <1>6

\* The gateway and time know of no refund; a handler that stops loses at most a record.
LEMMA EnvironmentKeepsReturned ==
  ASSUME IInv, IInv', Returned,
         \/ \E t \in Attempts : Capture(t) \/ Decline(t)
         \/ ToggleInstant \/ Elapse
         \/ \E r \in Requests : Crash(r)
         \/ UNCHANGED vars
  PROVE  Returned'
<1>0. TypeOK /\ TypeOK'
  BY DEF IInv
<1>1. ASSUME UNCHANGED <<txn, recorded, credited, crashes, reqs>>,
             \A t \in Attempts : charge[t] = "captured" => charge'[t] = "captured"
      PROVE  Returned'
  <2>1. \A t \in Attempts : Unrecorded(t)' = Unrecorded(t)
    BY <1>1 DEF Unrecorded, Mine
  <2>2. ASSUME NEW r \in Requests, reqs[r].op \in RefundSteps PROVE reqs[r].t \in Attempts
    BY <1>0, <2>2 DEF TypeOK, Request, Idle, AdminTotals, RefundSteps
  <2> QED
    BY <1>1, <2>1, <2>2 DEF Returned, Balanced
<1>2. ASSUME NEW t \in Attempts, Capture(t) PROVE Returned'
  BY <1>0, <1>1, <1>2 DEF Capture, TypeOK, env
<1>3. CASE (\E t \in Attempts : Decline(t)) \/ ToggleInstant \/ Elapse \/ UNCHANGED vars
  BY <1>1, <1>3 DEF Decline, ToggleInstant, Elapse, vars, env, gateway
<1>4. ASSUME NEW r \in Requests, Crash(r) PROVE Returned'
  <2>1. /\ crashes' = crashes + 1 /\ Goto(r, Idle)
        /\ UNCHANGED <<txn, recorded, gateway, credited>>
    BY <1>4 DEF Crash, Done
  <2>2. ASSUME NEW t \in Attempts PROVE Balanced(t)'
    <3>1. Unrecorded(t)' = Unrecorded(t) - Mine(reqs[r], t) + Mine(Idle, t)
      BY <1>0, <2>1, IdleIsRequest, UnrecordedMoves
    <3>2. Mine(Idle, t) = 0 /\ Mine(reqs[r], t) \in Nat
      BY <1>0, MineIsNat DEF Mine, Idle, TypeOK
    <3>3. Unrecorded(t) \in Nat /\ credited[t] \in Nat /\ recorded[t] \in Nat /\ crashes \in Nat
      BY <1>0, UnrecordedIsNat, PaymentsAssumption DEF TypeOK
    <3>4. recorded[t] + Unrecorded(t) <= credited[t]
      BY DEF Returned, Balanced
    <3>5. recorded[t] + Unrecorded(t)' <= credited[t] /\ crashes' # 0
      BY <2>1, <3>1, <3>2, <3>3, <3>4
    <3> QED
      BY <2>1, <3>5 DEF Balanced
  <2>3. ASSUME NEW q \in Requests, reqs'[q].op \in RefundSteps
        PROVE  charge[reqs'[q].t] = "captured"
    <3>1. reqs'[q] = IF q = r THEN Idle ELSE reqs[q]
      BY <1>0, <2>1 DEF Goto, TypeOK
    <3> QED
      BY <2>3, <3>1 DEF Returned, RefundSteps, Idle
  <2> QED
    BY <2>1, <2>2, <2>3 DEF Returned, gateway
<1> QED
  BY <1>2, <1>3, <1>4

LEMMA InitEstablishesReturned == Init => Returned
<1> SUFFICES ASSUME Init PROVE Returned
  OBVIOUS
<1>1. TypeOK
  BY InitEstablishesInv DEF IInv
<1>2. ASSUME NEW t \in Attempts PROVE Unrecorded(t) = 0
  <2> DEFINE f == [r \in Requests |-> Mine(reqs[r], t)]
  <2>1. \A r \in Requests : f[r] = 0
    BY DEF Init, Mine, Idle
  <2>2. Unrecorded(t) = SumFunctionOnSet(f, Requests)
    BY DEF Unrecorded
  <2> HIDE DEF f
  <2> QED
    BY <2>1, <2>2, SumZero, PaymentsAssumption DEF PaymentsAssumption
<1>3. \A t \in Attempts : Balanced(t)
  BY <1>2 DEF Init, Balanced
<1> QED
  BY <1>3 DEF Init, Returned, RefundSteps, Idle

LEMMA NextKeepsReturned == IInv /\ Returned /\ [Next]_vars => Returned'
  BY NextKeepsInv, PaymentKeepsReturned, BookingKeepsReturned, RefundKeepsReturned,
     EnvironmentKeepsReturned DEF Next, Arrive, Proceed

\* What has been credited is what has been recorded and what is about to be.
LEMMA ReturnedHolds == Spec => [](IInv /\ Returned)
  BY InvariantHolds, InitEstablishesReturned, NextKeepsReturned, PTL DEF Spec

\* A handler that stops between credit and record loses the record, never the driver's
\* money; where none stopped, credits and records agree once nothing is in flight, however
\* many refunds of a payment interleave; and only charges that were made are given back.
THEOREM RecordsMatchCredits == Spec => []CreditMatchesRecord
<1>1. IInv /\ Returned => CreditMatchesRecord
  <2> SUFFICES ASSUME IInv, Returned PROVE CreditMatchesRecord
    OBVIOUS
  <2>0. TypeOK
    BY DEF IInv
  <2>1. ASSUME NEW t \in Attempts
        PROVE  recorded[t] <= credited[t] /\ (credited[t] > 0 => t \in Captured)
    <3>1. Unrecorded(t) \in Nat /\ credited[t] \in Nat /\ recorded[t] \in Nat
      BY <2>0, UnrecordedIsNat DEF TypeOK
    <3>2. recorded[t] + Unrecorded(t) <= credited[t] /\ (credited[t] > 0 => charge[t] = "captured")
      BY DEF Returned, Balanced
    <3> QED
      BY <3>1, <3>2 DEF Captured
  <2>2. ASSUME Quiet, crashes = 0, NEW t \in Attempts PROVE credited[t] = recorded[t]
    <3> DEFINE f == [r \in Requests |-> Mine(reqs[r], t)]
    <3>1. \A r \in Requests : f[r] = 0
      BY <2>2 DEF Quiet, Mine, Idle
    <3>2. Unrecorded(t) = SumFunctionOnSet(f, Requests)
      BY DEF Unrecorded
    <3> HIDE DEF f
    <3>3. Unrecorded(t) = 0
      BY <3>1, <3>2, SumZero, PaymentsAssumption DEF PaymentsAssumption
    <3>4. recorded[t] + Unrecorded(t) = credited[t] /\ recorded[t] \in Nat
      BY <2>0, <2>2 DEF Returned, Balanced, TypeOK
    <3> QED
      BY <3>3, <3>4
  <2>3. Quiet /\ crashes = 0 => credited = recorded
    BY <2>0, <2>2 DEF TypeOK
  <2> QED
    BY <2>1, <2>3 DEF CreditMatchesRecord
<1> QED
  BY <1>1, ReturnedHolds, PTL

-----------------------------------------------------------------------------
\* A cancellation, where handlers come one at a time, none stops half-way and no admin
\* cancels: a crash between credit and record, a second refund or an admin's
\* cancellation that leaves the earning as it is would each break what follows.
OneByOne == /\ \A q, r \in Requests : q = r
            /\ MaxCrashes = 0
            /\ "adminCancel" \notin Ops

\* What the one handler in flight still has right.
Current(rec) ==
  /\ rec.op = "refundCredit" => recorded[rec.t] + rec.amount <= Price
  /\ rec.op = "confirmWrite" => rec.seen = status /\ (rec.firm => status = "pending")
  /\ rec.op = "earn" => status \in {"confirmed", "completed"}
  /\ rec.op \in {"rejectWrite", "sweepWrite"} => status = "pending"
  /\ rec.op # "adminWrite"

\* A booking that waits has no earning, a cancelled one none that will mature.
EarningFits == /\ status = "pending" => earning = "none"
               /\ status = "cancelled" => earning # "pending"

CInv == /\ IInv /\ Returned /\ EarningFits
        /\ \A t \in Attempts : credited[t] <= Price
        /\ \A r \in Requests : Current(reqs[r])

LEMMA SerialStep ==
  ASSUME OneByOne, CInv, IInv', Returned', EarningFits', \A t \in Attempts : credited'[t] <= Price,
         NEW r \in Requests, NEW rec, Goto(r, rec), Current(rec)'
  PROVE  CInv'
<1>1. reqs'[r] = rec
  BY DEF CInv, IInv, TypeOK, Goto
<1>2. \A q \in Requests : q = r
  BY DEF OneByOne
<1>3. (\A q \in Requests : Current(reqs[q]))'
  BY <1>1, <1>2 DEF Current
<1> QED
  BY <1>3 DEF CInv

LEMMA SerialPayment ==
  ASSUME OneByOne, CInv, IInv', Returned', NEW r \in Requests,
         \/ \E m \in Methods : IntentRead(r, m)
         \/ IntentInsert(r) \/ WalletRead(r) \/ WalletWrite(r) \/ WalletRefused(r)
         \/ \E t \in Attempts : HookRead(r, t) \/ HookFailed(r, t) \/ ConfirmFails(r, t)
         \/ ConfirmRead(r) \/ ConfirmRefused(r) \/ ConfirmWrite(r)
  PROVE  CInv'
<1>0. TypeOK /\ TypeOK' /\ EarningFits /\ Current(reqs[r]) /\ \A t \in Attempts : credited[t] <= Price
  BY DEF CInv, IInv
<1>1. ASSUME NEW rec, Goto(r, rec), rec.op \in {"idle", "intentInsert", "walletWrite", "confirmRead"},
             UNCHANGED <<status, earning, credited>>
      PROVE  CInv'
  <2>1. Current(rec)' /\ EarningFits'
    BY <1>0, <1>1 DEF Current, EarningFits
  <2> QED
    BY <1>0, <1>1, <2>1, SerialStep
<1>2. ASSUME NEW m \in Methods, IntentRead(r, m) PROVE CInv'
  <2>1. PICK rec \in {[op |-> "intentInsert", method |-> m]}
                       \cup {[op |-> "confirmRead", t |-> t] : t \in Attempts} : Goto(r, rec)
    BY <1>2 DEF IntentRead
  <2> QED
    BY <1>1, <1>2, <2>1 DEF IntentRead, ReadOnly, booking
<1>3. CASE IntentInsert(r) \/ WalletRefused(r) \/ ConfirmRefused(r)
  BY <1>1, <1>3 DEF IntentInsert, WalletRefused, ConfirmRefused, Done, Idle, ReadOnly, booking
<1>4. CASE WalletRead(r) \/ \E t \in Attempts : HookRead(r, t)
  <2>1. PICK rec \in {[op |-> "walletWrite", firm |-> instant]}
                       \cup {[op |-> "confirmRead", t |-> t] : t \in Attempts} : Goto(r, rec)
    BY <1>4 DEF WalletRead, HookRead
  <2> QED
    BY <1>1, <1>4, <2>1 DEF WalletRead, HookRead, ReadOnly, booking
<1>5. CASE WalletWrite(r)
  <2>1. /\ Goto(r, Idle) /\ UNCHANGED credited
        /\ \/ status' = "confirmed"
           \/ UNCHANGED <<status, earning>>
    BY <1>5 DEF WalletWrite, Done
  <2>2. EarningFits' /\ Current(Idle)'
    BY <1>0, <2>1 DEF EarningFits, Current, Idle
  <2> QED
    BY <1>0, <2>1, <2>2, SerialStep
<1>6. ASSUME NEW t \in Attempts, HookFailed(r, t) \/ ConfirmFails(r, t) PROVE CInv'
  <2>1. Goto(r, Idle) /\ UNCHANGED <<booking, earning, credited>>
    BY <1>0, <1>6 DEF HookFailed, ConfirmFails, Starts, Goto, TypeOK
  <2> QED
    BY <1>1, <2>1 DEF Idle, booking
<1>7. CASE ConfirmRead(r)
  <2>a. PICK f \in BOOLEAN : f <=> status = "pending" /\ instant
    OBVIOUS
  <2> DEFINE next == [op |-> "confirmWrite", t |-> reqs[r].t, seen |-> status, firm |-> f]
  <2>0. PICK rec \in {Idle, next} : Goto(r, rec)
    BY <1>0, <1>7, <2>a DEF ConfirmRead, TypeOK
  <2>b. next.op = "confirmWrite" /\ next.seen = status /\ (next.firm <=> f)
    OBVIOUS
  <2>1. \/ rec.op = "idle"
        \/ rec.op = "confirmWrite" /\ rec.seen = status /\ (rec.firm => status = "pending")
    <3> HIDE DEF next
    <3> QED
      BY <2>a, <2>b, <2>0 DEF Idle
  <2> HIDE DEF next
  <2>2. UNCHANGED <<status, earning, credited>>
    BY <1>7 DEF ConfirmRead, ReadOnly, booking
  <2>3. Current(rec)' /\ EarningFits'
    BY <1>0, <2>1, <2>2 DEF Current, EarningFits
  <2> QED
    BY <1>0, <2>0, <2>2, <2>3, SerialStep
<1>8. CASE ConfirmWrite(r)
  <2>1. PICK rec : Goto(r, rec) /\ rec.op \in {"idle", "refundRead"}
    BY <1>8 DEF ConfirmWrite, Idle
  <2>2. /\ UNCHANGED credited
        /\ \/ status' = "confirmed"
           \/ UNCHANGED <<status, earning>>
    BY <1>0, <1>8 DEF ConfirmWrite, Current, At
  <2>3. Current(rec)' /\ EarningFits'
    BY <1>0, <2>1, <2>2 DEF Current, EarningFits
  <2> QED
    BY <1>0, <2>1, <2>2, <2>3, SerialStep
<1> QED
  BY <1>2, <1>3, <1>4, <1>5, <1>6, <1>7, <1>8

LEMMA SerialBooking ==
  ASSUME OneByOne, CInv, IInv', Returned', NEW r \in Requests,
         \/ ApproveRead(r) \/ ApproveWrite(r) \/ ApproveRefused(r) \/ Earn(r)
         \/ CompleteFind(r) \/ CompleteWrite(r) \/ Advance(r)
         \/ \E a \in UserRefunds : CancelByDriver(r, a)
         \/ RejectRead(r) \/ RejectWrite(r) \/ HostCancelRead(r) \/ HostCancelWrite(r)
         \/ AdminCancelRead(r) \/ AdminCancelWrite(r) \/ AdminTotal(r)
         \/ SweepFind(r) \/ SweepWrite(r) \/ (\E n \in AdminRefunds : AdminRefund(r, n))
  PROVE  CInv'
<1>0. TypeOK /\ TypeOK' /\ EarningFits /\ Current(reqs[r]) /\ \A t \in Attempts : credited[t] <= Price
  BY DEF CInv, IInv
<1>1. ASSUME NEW rec, Goto(r, rec), EarningFits', UNCHANGED credited, Current(rec)' PROVE CInv'
  BY <1>0, <1>1, SerialStep
<1>2. ASSUME NEW rec, Goto(r, rec), UNCHANGED <<status, earning, credited>>,
             \/ rec.op \in {"idle", "approveWrite", "completeWrite", "hostCancelWrite", "adminFind"}
             \/ rec.op \in {"rejectWrite", "sweepWrite"} /\ status = "pending"
      PROVE  CInv'
  <2>1. Current(rec)' /\ EarningFits'
    BY <1>0, <1>2 DEF Current, EarningFits
  <2> QED
    BY <1>1, <1>2, <2>1
<1>3. CASE ApproveRead(r) \/ CompleteFind(r) \/ HostCancelRead(r) \/ (\E n \in AdminRefunds : AdminRefund(r, n))
  <2>1. PICK rec : /\ Goto(r, rec)
                   /\ rec.op \in {"approveWrite", "completeWrite", "hostCancelWrite", "adminFind"}
    <3>1. CASE \E n \in AdminRefunds : AdminRefund(r, n)
      <4>1. PICK n \in AdminRefunds : AdminRefund(r, n)
        BY <3>1
      <4> QED
        BY <4>1 DEF AdminRefund
    <3> QED
      BY <1>3, <3>1 DEF ApproveRead, CompleteFind, HostCancelRead
  <2> QED
    BY <1>2, <1>3, <2>1 DEF ApproveRead, CompleteFind, HostCancelRead, AdminRefund, ReadOnly, booking
<1>4. CASE RejectRead(r) \/ SweepFind(r)
  <2>1. PICK rec : Goto(r, rec) /\ rec.op \in {"rejectWrite", "sweepWrite"}
    BY <1>4 DEF RejectRead, SweepFind
  <2> QED
    BY <1>2, <1>4, <2>1 DEF RejectRead, SweepFind, ReadOnly, booking
<1>5. CASE ApproveRefused(r) \/ AdminTotal(r)
  BY <1>2, <1>5 DEF ApproveRefused, AdminTotal, Done, Idle, ReadOnly, booking
<1>6. CASE ApproveWrite(r) \/ CompleteWrite(r)
  <2>1. PICK rec : Goto(r, rec) /\ rec.op = "earn"
    BY <1>6 DEF ApproveWrite, CompleteWrite
  <2>2. status' \in {"confirmed", "completed"} /\ UNCHANGED credited
    BY <1>6 DEF ApproveWrite, CompleteWrite
  <2>3. Current(rec)' /\ EarningFits'
    BY <2>1, <2>2 DEF Current, EarningFits
  <2> QED
    BY <1>1, <2>1, <2>2, <2>3
<1>7. CASE Earn(r)
  <2>1. Goto(r, Idle) /\ UNCHANGED <<status, credited>> /\ status \in {"confirmed", "completed"}
    BY <1>0, <1>7 DEF Earn, Done, booking, At, Current
  <2>2. Current(Idle)' /\ EarningFits'
    BY <2>1 DEF Current, EarningFits, Idle
  <2> QED
    BY <1>1, <2>1, <2>2
<1>8. CASE Advance(r)
  <2>1. Goto(r, Idle) /\ status' \in {"active", "no_show"} /\ UNCHANGED credited
    BY <1>0, <1>8 DEF Advance, Starts, Goto, TypeOK
  <2>2. Current(Idle)' /\ EarningFits'
    BY <2>1 DEF Current, EarningFits, Idle
  <2> QED
    BY <1>1, <2>1, <2>2
<1>9. CASE (\E a \in UserRefunds : CancelByDriver(r, a)) \/ RejectWrite(r) \/ HostCancelWrite(r)
  <2>0. PICK rec \in {Idle} \cup {[op |-> "findPaid", want |-> n] : n \in UserRefunds \cup {Price}} :
          Goto(r, rec)
    BY <1>9 DEF CancelByDriver, RejectWrite, HostCancelWrite
  <2>1. Goto(r, rec) /\ rec.op \in {"idle", "findPaid"}
    BY <2>0 DEF Idle
  <2>2. status' = "cancelled" /\ earning' # "pending" /\ UNCHANGED credited
    BY <1>0, <1>9 DEF CancelByDriver, RejectWrite, HostCancelWrite, At, Current, EarningFits
  <2>3. Current(rec)' /\ EarningFits'
    BY <2>1, <2>2 DEF Current, EarningFits
  <2> QED
    BY <1>1, <2>1, <2>2, <2>3
<1>10. CASE SweepWrite(r)
  <2>1. Goto(r, Idle) /\ UNCHANGED credited /\ status' = "cancelled" /\ earning' # "pending"
    BY <1>0, <1>10 DEF SweepWrite, Done, At, Current, EarningFits
  <2>2. Current(Idle)' /\ EarningFits'
    BY <2>1 DEF Current, EarningFits, Idle
  <2> QED
    BY <1>1, <2>1, <2>2
<1>11. ~AdminCancelRead(r) /\ ~AdminCancelWrite(r)
  BY <1>0 DEF AdminCancelRead, AdminCancelWrite, Starts, OneByOne, At, Current
<1> QED
  BY <1>3, <1>4, <1>5, <1>6, <1>7, <1>8, <1>9, <1>10, <1>11

LEMMA SerialRefund ==
  ASSUME OneByOne, CInv, IInv', Returned', NEW r \in Requests,
         \/ \E t \in Attempts, n \in AdminRefunds : AdminRefundTx(r, t, n)
         \/ AdminFind(r) \/ FindPaid(r)
         \/ RefundRead(r) \/ RefundCredit(r) \/ RefundRecord(r) \/ RefundStatus(r)
  PROVE  CInv'
<1>0. TypeOK /\ TypeOK' /\ EarningFits /\ Current(reqs[r]) /\ \A t \in Attempts : credited[t] <= Price
  BY DEF CInv, IInv
<1>1. UNCHANGED <<status, earning>>
  BY DEF AdminRefundTx, AdminFind, FindPaid, RefundRead, RefundCredit, RefundRecord, RefundStatus,
     ReadOnly, booking
<1>2. EarningFits'
  BY <1>0, <1>1 DEF EarningFits
<1>3. ASSUME NEW rec, Goto(r, rec),
             rec.op \in {"idle", "adminTotal", "refundRead", "refundRecord", "refundStatus"},
             \A t \in Attempts : credited'[t] <= Price
      PROVE  CInv'
  <2>1. Current(rec)'
    BY <1>3 DEF Current
  <2> QED
    BY <1>2, <1>3, <2>1, SerialStep
<1>4. CASE \E t \in Attempts, n \in AdminRefunds : AdminRefundTx(r, t, n)
  <2>1. PICK rec : Goto(r, rec) /\ rec.op = "refundRead"
    BY <1>4 DEF AdminRefundTx
  <2> QED
    BY <1>0, <1>3, <1>4, <2>1 DEF AdminRefundTx, ReadOnly
<1>5. CASE AdminFind(r) \/ FindPaid(r)
  <2>1. PICK want, then : RefundLatest(r, want, then)
    BY <1>5 DEF AdminFind, FindPaid
  <2>2. PICK rec \in {Idle} \cup {[op |-> "refundRead", t |-> t, want |-> want, then |-> then] :
                                  t \in Attempts} : Goto(r, rec)
    BY <2>1 DEF RefundLatest, Done, Paid
  <2>3. rec.op \in {"idle", "refundRead"}
    BY <2>2 DEF Idle
  <2> QED
    BY <1>0, <1>3, <1>5, <2>2, <2>3 DEF AdminFind, FindPaid, ReadOnly
<1>6. CASE RefundRead(r)
  <2>1. reqs[r] \in [op : {"refundRead"}, t : Attempts, want : 1..Price, then : {Idle} \cup AdminTotals]
    BY <1>6, RequestShape DEF RefundRead, CInv
  <2>2. PICK u \in Attempts : u = reqs[r].t
    BY <2>1
  <2>3. recorded[u] \in Nat /\ Price \in Nat /\ reqs[r].want \in Nat
    BY <1>0, <2>1, PaymentsAssumption DEF TypeOK
  <2>4. PICK rec : /\ Goto(r, rec)
                   /\ \/ rec.op = "idle"
                      \/ /\ rec.op = "refundCredit" /\ rec.t = u
                         /\ rec.amount = IF reqs[r].want < Price - recorded[u]
                                         THEN reqs[r].want ELSE Price - recorded[u]
    BY <1>6, <2>2 DEF RefundRead, Idle
  <2>5. UNCHANGED <<recorded, credited>>
    BY <1>6 DEF RefundRead, ReadOnly
  <2>6. rec.op = "refundCredit" => recorded[rec.t] + rec.amount <= Price
    BY <2>3, <2>4
  <2>7. Current(rec)'
    BY <2>4, <2>5, <2>6 DEF Current
  <2> QED
    BY <1>0, <1>2, <2>4, <2>5, <2>7, SerialStep
<1>7. CASE RefundCredit(r)
  <2>1. reqs[r] \in [op : {"refundCredit", "refundRecord", "refundStatus"}, t : Attempts,
                    amount : 1..Price, prior : 0..Price, then : {Idle} \cup AdminTotals]
    BY <1>7, RequestShape DEF RefundCredit, At, CInv
  <2>2. PICK u \in Attempts : u = reqs[r].t
    BY <2>1
  <2>3. recorded[u] + reqs[r].amount <= Price
    BY <1>0, <1>7, <2>2 DEF RefundCredit, At, Current
  <2>4. credited[u] = recorded[u]
    <3> DEFINE f == [q \in Requests |-> Mine(reqs[q], u)]
    <3>1. \A q \in Requests : f[q] = 0
      BY <1>7 DEF OneByOne, Mine, RefundCredit, At
    <3>2. Unrecorded(u) = SumFunctionOnSet(f, Requests)
      BY DEF Unrecorded
    <3> HIDE DEF f
    <3>3. Unrecorded(u) = 0
      BY <3>1, <3>2, SumZero, PaymentsAssumption DEF PaymentsAssumption
    <3>4. crashes = 0
      BY <1>0 DEF TypeOK, OneByOne
    <3>5. recorded[u] + Unrecorded(u) = credited[u] /\ recorded[u] \in Nat
      BY <1>0, <3>4 DEF CInv, Returned, Balanced, TypeOK
    <3> QED
      BY <3>3, <3>5
  <2>5. \A t \in Attempts : credited'[t] = IF t = u THEN credited[t] + reqs[r].amount ELSE credited[t]
    BY <1>0, <1>7, <2>2 DEF RefundCredit, TypeOK
  <2>6. \A t \in Attempts : credited'[t] <= Price
    BY <1>0, <2>3, <2>4, <2>5
  <2>7. PICK rec : Goto(r, rec) /\ rec = [reqs[r] EXCEPT !.op = "refundRecord"]
    BY <1>7 DEF RefundCredit
  <2>8. rec.op = "refundRecord"
    BY <2>1, <2>7
  <2> QED
    BY <1>3, <2>6, <2>7, <2>8
<1>8. CASE RefundRecord(r)
  <2>1. reqs[r] \in [op : {"refundCredit", "refundRecord", "refundStatus"}, t : Attempts,
                    amount : 1..Price, prior : 0..Price, then : {Idle} \cup AdminTotals]
    BY <1>8, RequestShape DEF RefundRecord, At, CInv
  <2>2. PICK rec : Goto(r, rec) /\ rec = [reqs[r] EXCEPT !.op = "refundStatus"]
    BY <1>8 DEF RefundRecord
  <2>3. rec.op = "refundStatus"
    BY <2>1, <2>2
  <2> QED
    BY <1>0, <1>3, <1>8, <2>2, <2>3 DEF RefundRecord
<1>9. CASE RefundStatus(r)
  <2>1. reqs[r].then \in {Idle} \cup AdminTotals
    BY <1>9, RequestShape DEF RefundStatus, At, CInv
  <2>2. PICK rec \in {Idle} \cup AdminTotals : Goto(r, rec)
    BY <1>9, <2>1 DEF RefundStatus
  <2>3. rec.op \in {"idle", "adminTotal"}
    BY <2>2 DEF Idle, AdminTotals
  <2> QED
    BY <1>0, <1>3, <1>9, <2>2, <2>3 DEF RefundStatus
<1> QED
  BY <1>4, <1>5, <1>6, <1>7, <1>8, <1>9

LEMMA SerialEnvironment ==
  ASSUME OneByOne, CInv, IInv', Returned',
         \/ \E t \in Attempts : Capture(t) \/ Decline(t)
         \/ ToggleInstant \/ Elapse
         \/ \E r \in Requests : Crash(r)
         \/ UNCHANGED vars
  PROVE  CInv'
<1>1. UNCHANGED <<status, earning, recorded, credited, reqs>>
  <2>1. \A r \in Requests : ~Crash(r)
    BY DEF Crash, OneByOne, CInv, IInv, TypeOK
  <2> QED
    BY <2>1 DEF Capture, Decline, ToggleInstant, Elapse, vars, booking
<1> QED
  BY <1>1 DEF CInv, EarningFits, Current

\* A cancellation is paid for once: where handlers come one at a time and none stops,
\* the driver gets no more back than he paid for an attempt, whoever cancels, sweeps
\* or refunds, and the host keeps no earning of a cancelled booking that would mature.
THEOREM CancellationIsPaidOnce == ASSUME OneByOne PROVE Spec => []CancellationAddsUp
<1>1. Init => CInv
  <2> SUFFICES ASSUME Init PROVE CInv
    OBVIOUS
  <2>1. EarningFits /\ \A r \in Requests : Current(reqs[r])
    BY DEF Init, EarningFits, Current, Idle
  <2>2. \A t \in Attempts : credited[t] <= Price
    BY PaymentsAssumption DEF Init, PaymentsAssumption
  <2> QED
    BY <2>1, <2>2, InitEstablishesInv, InitEstablishesReturned DEF CInv
<1>2. CInv /\ [Next]_vars => CInv'
  <2> SUFFICES ASSUME CInv, [Next]_vars PROVE CInv'
    OBVIOUS
  <2>1. IInv' /\ Returned'
    BY NextKeepsInv, NextKeepsReturned DEF CInv
  <2> QED
    BY <2>1, SerialPayment, SerialBooking, SerialRefund, SerialEnvironment
       DEF Next, Arrive, Proceed
<1>3. CInv => CancellationAddsUp
  BY DEF CInv, CancellationAddsUp, EarningFits
<1> QED
  BY <1>1, <1>2, <1>3, PTL DEF Spec

=============================================================================
