------------------------ MODULE DriverAccount_proofs ------------------------
(***************************************************************************)
(* Proofs about DriverAccount, for any number of handlers, top-ups,        *)
(* attempts, orders, refunds, vehicles and payment methods, any prices,    *)
(* and any workload.                                                       *)
(*                                                                         *)
(* The four components share the handlers.  What a handler carries is of   *)
(* one of them (Due says of which, where a credit is made for another), so *)
(* each component's invariant is kept by the steps of the others because   *)
(* they leave its rows and its handlers alone (Elsewhere).                 *)
(***************************************************************************)
EXTENDS DriverAccount, Sums

-----------------------------------------------------------------------------
\* The records that handlers carry.
Asks        == {"yes", "no", "leave"}
Causes      == {"late", "driver", "host", "admin"}
OnlyOps     == {"idle", "splitInsert", "hostCancelWrite", "methodNext"}
TopUpOps    == {"topupStore", "applyRead", "applyMark", "applyUnmark", "applyDelete"}
SplitOps    == {"splitDebit", "splitConfirm", "refundRead", "refundRecord", "refundStatus"}

Only        == [op : OnlyOps]
ForTopUps   == [op : TopUpOps, t : TopUps]
ForSplits   == [op : SplitOps, s : Splits]
Paying      == [op : {"payWrite"}, base : {n \in Nat : Price <= n}]
Suspending  == [op : {"suspendWrite"}, amount : Nat]
Ordering    == {x \in [op : {"orderInsert"}, ext : BOOLEAN, from : Nat, upto : Nat] : x.from <= x.upto}
ForOrders   == [op : {"orderConfirm", "extendWrite"}, o : Orders]
Cancelling  == [op : {"cancelWrite"}, share : Nat]
Finding     == [op : {"cancelFind"}, share : Nat, by : Causes]
Returning   == [op : {"returnRead"}, o : Orders, most : Nat, to : {"wallet", "original"}, by : Causes]
AtGateway   == [op : {"gateway"}, o : Orders, before : Nat, by : Causes, amount : Nat]
Recording   == [op : {"returnRecord"}, o : Orders, amount : Nat, before : Nat, n : {0} \cup Refunds,
                by : Causes, rec : {"pending", "completed"}]
Closing     == [op : {"returnStatus"}, o : Orders, by : Causes, sum : Nat]
Adding      == [op : {"vehicleAdd"}, clear : SUBSET Garage!Vehicles, default : BOOLEAN]
Setting     == [op : {"vehicleSet"}, v : Garage!Vehicles, ask : Asks, clear : SUBSET Garage!Vehicles]
Dropping    == [op : {"vehicleDrop"}, v : Garage!Vehicles, default : BOOLEAN]
Saving      == [op : {"methodAdd"}, default : BOOLEAN, clear : SUBSET Cards!Methods]
Deleting    == [op : {"methodDrop"}, k : Cards!Methods, default : BOOLEAN]
Promoting   == [op : {"methodPromote"}, k : Cards!Methods]

Plain == Only \cup ForTopUps \cup ForSplits \cup Paying \cup Suspending \cup Ordering \cup ForOrders
         \cup Cancelling \cup Finding \cup Returning \cup AtGateway \cup Recording \cup Closing
         \cup Adding \cup Setting \cup Dropping \cup Saving \cup Deleting \cup Promoting

\* What is done after a credit.
NextOps == {"idle", "applyDelete", "refundRecord", "returnRecord"}
Later   == {x \in Plain : x.op \in NextOps}

ToCredit  == [op : {"creditRead"}, amount : Nat, next : Later]
Crediting == [op : {"creditWrite"}, amount : Nat, next : Later, base : Nat]
Request   == Plain \cup ToCredit \cup Crediting

LEMMA RequestShape ==
  ASSUME NEW rec \in Request
  PROVE  /\ rec.op \in TopUpOps => rec \in ForTopUps
         /\ rec.op \in SplitOps => rec \in ForSplits
         /\ rec.op = "payWrite" => rec \in Paying
         /\ rec.op = "suspendWrite" => rec \in Suspending
         /\ rec.op = "orderInsert" => rec \in Ordering
         /\ rec.op \in {"orderConfirm", "extendWrite"} => rec \in ForOrders
         /\ rec.op = "cancelWrite" => rec \in Cancelling
         /\ rec.op = "cancelFind" => rec \in Finding
         /\ rec.op = "returnRead" => rec \in Returning
         /\ rec.op = "gateway" => rec \in AtGateway
         /\ rec.op = "returnRecord" => rec \in Recording
         /\ rec.op = "returnStatus" => rec \in Closing
         /\ rec.op = "vehicleAdd" => rec \in Adding
         /\ rec.op = "vehicleSet" => rec \in Setting
         /\ rec.op = "vehicleDrop" => rec \in Dropping
         /\ rec.op = "methodAdd" => rec \in Saving
         /\ rec.op = "methodDrop" => rec \in Deleting
         /\ rec.op = "methodPromote" => rec \in Promoting
         /\ rec.op = "creditRead" => rec \in ToCredit
         /\ rec.op = "creditWrite" => rec \in Crediting
  BY DEF Request, Plain, OnlyOps, TopUpOps, SplitOps, Only, ForTopUps, ForSplits, Paying, Suspending,
         Ordering, ForOrders, Cancelling, Finding, Returning, AtGateway, Recording, Closing, Adding,
         Setting, Dropping, Saving, Deleting, Promoting, ToCredit, Crediting

LEMMA IdleIsRequest == Idle \in Plain /\ Idle \in Later /\ Idle \in Request /\ Idle.op = "idle"
  BY DEF Idle, Later, NextOps, Request, Plain, Only, OnlyOps

-----------------------------------------------------------------------------
\* Rows and handlers are well typed, and only the workload's crew is at work.
Handlers == reqs \in [Requests -> Request] /\ \A r \in Requests : reqs[r] # Idle => r \in load.crew
Spans    == \A o \in Orders : order[o].from <= order[o].upto

\* The row of a vehicle, and of a payment method.
DefaultRow == [row : {"none", "live", "deleted"}, default : BOOLEAN]
GarageRows == vehicle \in [Garage!Vehicles -> DefaultRow]
              /\ unset \in BOOLEAN

DInv == TypeOK /\ TripTypeOK /\ GarageRows /\ Cards!TypeOK /\ Spans /\ Handlers

LEMMA WorkloadIs ==
  ASSUME TypeOK
  PROVE  /\ load.crew \subseteq Requests /\ IsFiniteSet(load.crew)
         /\ load.faults \in 0..MaxFaults /\ load.splits \in 0..NSplits /\ load.orders \in 0..NOrders
         /\ load.vehicles \in Nat
         /\ NTopUps \in Nat /\ NSplits \in Nat /\ MaxAdjusts \in Nat /\ MaxFaults \in Nat
         /\ CardPart \in Nat /\ WalletPart \in Nat /\ Price \in Nat
         /\ CardPart > 0 /\ WalletPart > 0 /\ Price > 0
  BY WalletAssumption, TripAssumption, AccountAssumption
     DEF TypeOK, WalletAssumption, TripAssumption, AccountAssumption, Price

LEMMA GotoKeeps ==
  ASSUME Handlers, NEW r \in load.crew, UNCHANGED load, NEW rec \in Request, Goto(r, rec)
  PROVE  Handlers'
  BY DEF Handlers, Goto

-----------------------------------------------------------------------------
\* Types: the wallet.

\* Where handler r of the crew goes; other handlers stay where they are.
Moves(r) == /\ r \in load.crew /\ UNCHANGED load
            /\ reqs' = reqs \/ \E rec \in Request : Goto(r, rec)

LEMMA MovesKeep == ASSUME Handlers, NEW r, Moves(r) PROVE Handlers'
  BY GotoKeeps DEF Moves, Handlers

LEMMA AtWork ==
  ASSUME Handlers, NEW r \in Requests, NEW step, At(r, step), step # "idle"
  PROVE  r \in load.crew /\ reqs[r] \in Request /\ reqs[r].op = step
  BY IdleIsRequest DEF Handlers, At

LEMMA LatestIs ==
  ASSUME NEW n \in Nat, NEW S \in SUBSET (1..n), S # {}
  PROVE  Latest(S) \in S /\ \A u \in S : u <= Latest(S)
<1> DEFINE T == {n - s : s \in S}
<1>1. T \subseteq Nat /\ T # {}
  OBVIOUS
<1>2. PICK k \in T : \A m \in T : k <= m
  <2> HIDE DEF T
  <2> QED
    BY <1>1, LeastNatural
<1>3. PICK s \in S : k = n - s
  OBVIOUS
<1>4. \A u \in S : u <= s
  <2> TAKE u \in S
  <2>1. n - s <= n - u
    BY <1>2, <1>3
  <2> QED
    BY <2>1
<1>5. \E x \in S : \A u \in S : u <= x
  BY <1>4
<1> QED
  BY <1>5 DEF Latest

LEMMA PendingIs ==
  ASSUME TypeOK, Pending # {}
  PROVE  Latest(Pending) \in Splits /\ split[Latest(Pending)].st = "pending"
<1>1. NSplits \in Nat /\ Pending \in SUBSET (1..NSplits)
  BY WorkloadIs DEF Pending, Splits
<1>2. Latest(Pending) \in Pending
  BY <1>1, LatestIs
<1> QED
  BY <1>2 DEF Pending

\* A credit is asked for, with what is to be done after it.
LEMMA GoCreditIs ==
  ASSUME NEW r \in load.crew, UNCHANGED load, NEW amount \in Nat, NEW next \in Later, GoCredit(r, amount, next)
  PROVE  Moves(r)
  BY DEF GoCredit, Moves, Request, ToCredit

LEMMA WalletArriveTyped ==
  ASSUME DInv, NEW r \in Requests, Arrive(r)
  PROVE  TypeOK' /\ Moves(r)
<1>0. TypeOK /\ Handlers /\ reqs[r] \in Request
  BY DEF DInv, Handlers
<1>1. ASSUME NEW t \in TopUps, CreateTopUpIntent(r, t)
      PROVE  TypeOK' /\ Moves(r)
  <2>1. [op |-> "topupStore", t |-> t] \in Request
    BY DEF Request, Plain, ForTopUps, TopUpOps
  <2>2. Moves(r)
    BY <1>1, <2>1 DEF CreateTopUpIntent, Starts, Moves
  <2> QED
    BY <1>0, <1>1, <2>2 DEF CreateTopUpIntent, TypeOK, TopUp, wallet
<1>2. ASSUME NEW t \in TopUps, HookTopUp(r, t) \/ ConfirmTopUpStripe(r, t) \/ VerifyTopUpRazorpay(r, t)
      PROVE  TypeOK' /\ Moves(r)
  <2>1. [op |-> "applyRead", t |-> t] \in Request
    BY DEF Request, Plain, ForTopUps, TopUpOps
  <2>2. Moves(r)
    BY <1>2, <2>1 DEF HookTopUp, ConfirmTopUpStripe, VerifyTopUpRazorpay, Apply, Starts, Moves
  <2> QED
    BY <1>0, <1>2, <2>2 DEF HookTopUp, ConfirmTopUpStripe, VerifyTopUpRazorpay, Apply, TypeOK, wallet
<1>3. ASSUME NEW s \in Splits, HookSplit(r, s)
      PROVE  TypeOK' /\ Moves(r)
  <2>1. [op |-> "splitDebit", s |-> s] \in Request
    BY DEF Request, Plain, ForSplits, SplitOps
  <2>2. Moves(r)
    BY <1>3, <2>1 DEF HookSplit, Starts, Moves
  <2> QED
    BY <1>0, <1>3, <2>2 DEF HookSplit, TypeOK, wallet
<1>4. ASSUME NEW s \in Splits, ConfirmSplit(r, s)
      PROVE  TypeOK' /\ Moves(r)
  <2>1. [op |-> "splitConfirm", s |-> s] \in Request
    BY DEF Request, Plain, ForSplits, SplitOps
  <2>2. Moves(r)
    BY <1>4, <2>1 DEF ConfirmSplit, Starts, Moves
  <2> QED
    BY <1>0, <1>4, <2>2 DEF ConfirmSplit, TypeOK, wallet
<1>5. ASSUME NEW s \in Splits, HookDeclined(r, s)
      PROVE  TypeOK' /\ Moves(r)
  <2>1. Moves(r)
    BY <1>5 DEF HookDeclined, Starts, Moves
  <2> QED
    BY <1>0, <1>5, <2>1 DEF HookDeclined, TypeOK, Split, wallet
<1>6. CASE AdminCredit(r)
  <2>1. Moves(r)
    BY <1>6, GoCreditIs, IdleIsRequest DEF AdminCredit, Starts, Unit
  <2>2. past.adjusts + 1 \in 0..MaxAdjusts
    BY <1>0, <1>6, WorkloadIs DEF AdminCredit, TypeOK
  <2> QED
    BY <1>0, <1>6, <2>1, <2>2 DEF AdminCredit, TypeOK, wallet
<1>7. CASE AdminDebit(r)
  <2>1. Moves(r)
    BY <1>7 DEF AdminDebit, Starts, Moves
  <2> QED
    BY <1>0, <1>7, <2>1 DEF AdminDebit, Debit, Post, Unit, TypeOK
<1>8. CASE WalletPaymentRead(r)
  <2>1. [op |-> "payWrite", base |-> balance] \in Request
    BY <1>0, <1>8 DEF WalletPaymentRead, Request, Plain, Paying, TypeOK
  <2>2. Moves(r)
    BY <1>8, <2>1 DEF WalletPaymentRead, Starts, Moves
  <2> QED
    BY <1>0, <1>8, <2>2 DEF WalletPaymentRead, TypeOK, wallet
<1>9. CASE SuspendRead(r)
  <2>1. PICK amount \in Nat : Goto(r, [op |-> "suspendWrite", amount |-> amount])
    BY <1>0, <1>9, WorkloadIs DEF SuspendRead, PaidAmounts
  <2>2. [op |-> "suspendWrite", amount |-> amount] \in Request
    BY DEF Request, Plain, Suspending
  <2>3. Moves(r)
    BY <1>9, <2>1, <2>2 DEF SuspendRead, Starts, Moves
  <2> QED
    BY <1>0, <1>9, <2>3 DEF SuspendRead, TypeOK, wallet
<1>10. CASE SplitRead(r)
  <2>1. [op |-> "splitInsert"] \in Request
    BY DEF Request, Plain, Only, OnlyOps
  <2>2. Pending # {} => [op |-> "splitConfirm", s |-> Latest(Pending)] \in Request
    BY <1>0, PendingIs DEF Request, Plain, ForSplits, SplitOps
  <2>3. Moves(r)
    BY <1>10, <2>1, <2>2 DEF SplitRead, Starts, Moves
  <2> QED
    BY <1>0, <1>10, <2>3 DEF SplitRead, TypeOK, wallet
<1>11. CASE Withdraw(r) \/ WithdrawalPaid(r) \/ WithdrawalFailed(r)
  <2>1. Moves(r)
    BY <1>11 DEF Withdraw, WithdrawalPaid, WithdrawalFailed, Starts, Moves
  <2> QED
    BY <1>0, <1>11, <2>1 DEF Withdraw, WithdrawalPaid, WithdrawalFailed, Debit, Post, Unit, TypeOK
<1> QED
  BY <1>1, <1>2, <1>3, <1>4, <1>5, <1>6, <1>7, <1>8, <1>9, <1>10, <1>11 DEF Arrive

LEMMA WalletProceedTyped ==
  ASSUME DInv, NEW r \in Requests, Proceed(r)
  PROVE  TypeOK' /\ Moves(r)
<1>0. TypeOK /\ Handlers /\ reqs[r] \in Request
  BY DEF DInv, Handlers
<1>1. CASE StoreTopUp(r)
  <2>1. r \in load.crew /\ reqs[r].t \in TopUps
    BY <1>0, <1>1, AtWork, RequestShape DEF StoreTopUp, At, TopUpOps, ForTopUps
  <2>2. Moves(r)
    BY <1>1, <2>1, IdleIsRequest DEF StoreTopUp, Done, Moves
  <2> QED
    BY <1>0, <1>1, <2>1, <2>2 DEF StoreTopUp, TypeOK, TopUp, wallet
<1>2. CASE ApplyRead(r)
  <2>1. r \in load.crew /\ reqs[r].t \in TopUps
    BY <1>0, <1>2, AtWork, RequestShape DEF ApplyRead, At, TopUpOps, ForTopUps
  <2>2. [op |-> "applyMark", t |-> reqs[r].t] \in Request
    BY <2>1 DEF Request, Plain, ForTopUps, TopUpOps
  <2>3. Moves(r)
    BY <1>2, <2>1, <2>2, IdleIsRequest DEF ApplyRead, Done, Moves
  <2> QED
    BY <1>0, <1>2, <2>3 DEF ApplyRead, TypeOK, wallet
<1>3. CASE ApplyMark(r)
  <2>1. r \in load.crew /\ reqs[r].t \in TopUps
    BY <1>0, <1>3, AtWork, RequestShape DEF ApplyMark, At, TopUpOps, ForTopUps
  <2>2. [op |-> "applyDelete", t |-> reqs[r].t] \in Later
    BY <2>1 DEF Later, NextOps, Plain, ForTopUps, TopUpOps
  <2>3. Moves(r)
    BY <1>3, <2>1, <2>2, GoCreditIs DEF ApplyMark, Unit
  <2> QED
    BY <1>0, <1>3, <2>1, <2>3 DEF ApplyMark, TypeOK, TopUp, wallet
<1>4. CASE ApplyUnmark(r) \/ ApplyDelete(r)
  <2>1. r \in load.crew /\ reqs[r].t \in TopUps
    BY <1>0, <1>4, AtWork, RequestShape DEF ApplyUnmark, ApplyDelete, At, TopUpOps, ForTopUps
  <2>2. Moves(r)
    BY <1>4, <2>1, IdleIsRequest DEF ApplyUnmark, ApplyDelete, Done, Moves
  <2> QED
    BY <1>0, <1>4, <2>1, <2>2 DEF ApplyUnmark, ApplyDelete, TypeOK, TopUp, wallet
<1>5. CASE CreditRead(r)
  <2>1. r \in load.crew /\ reqs[r] \in ToCredit
    BY <1>0, <1>5, AtWork, RequestShape DEF CreditRead, At
  <2>2. [op |-> "creditWrite", amount |-> reqs[r].amount, next |-> reqs[r].next, base |-> balance] \in Request
    BY <1>0, <2>1 DEF Request, ToCredit, Crediting, TypeOK
  <2>3. Moves(r)
    BY <1>5, <2>1, <2>2 DEF CreditRead, Moves
  <2> QED
    BY <1>0, <1>5, <2>3 DEF CreditRead, TypeOK, wallet
<1>6. CASE CreditWrite(r)
  <2>1. r \in load.crew /\ reqs[r] \in Crediting
    BY <1>0, <1>6, AtWork, RequestShape DEF CreditWrite, At
  <2>2. reqs[r].next \in Later /\ reqs[r].amount \in Nat /\ reqs[r].base \in Nat
    BY <2>1 DEF Crediting
  <2>3. reqs[r].next \in Request /\ (ForTopUp(r) => reqs[r].next.t \in TopUps)
    BY <2>2, RequestShape DEF ForTopUp, Later, Request, TopUpOps, ForTopUps
  <2>4. Moves(r)
    BY <1>6, <2>1, <2>3 DEF CreditWrite, Moves
  <2>5. past' \in [credits : [TopUps -> Nat], expired : SUBSET TopUps,
                   debits : [Splits -> Nat], adjusts : 0..MaxAdjusts, stopped : BOOLEAN]
    BY <1>0, <1>6, <2>3 DEF CreditWrite, TypeOK
  <2>6. balance' \in Nat /\ ledger' \in Int
    BY <1>0, <1>6, <2>2 DEF CreditWrite, TypeOK
  <2> QED
    BY <1>0, <1>6, <2>4, <2>5, <2>6 DEF CreditWrite, TypeOK
<1>7. CASE CreditFails(r)
  <2>1. r \in load.crew /\ reqs[r] \in ToCredit \cup Crediting
    BY <1>0, <1>7, AtWork, RequestShape DEF CreditFails, At
  <2>2. reqs[r].next \in Later
    BY <2>1 DEF Crediting, ToCredit
  <2>3. ForTopUp(r) => reqs[r].next.t \in TopUps
    BY <2>2, RequestShape DEF ForTopUp, Later, Request, TopUpOps, ForTopUps
  <2>4. ForTopUp(r) => [op |-> "applyUnmark", t |-> reqs[r].next.t] \in Request
    BY <2>3 DEF Request, Plain, ForTopUps, TopUpOps
  <2>5. Moves(r)
    BY <1>7, <2>1, <2>4, IdleIsRequest DEF CreditFails, Done, Moves
  <2> QED
    BY <1>0, <1>7, <2>5, WorkloadIs DEF CreditFails, Fault, MayFault, TypeOK, wallet
<1>8. CASE WalletPaymentWrite(r)
  <2>1. r \in load.crew /\ reqs[r].base \in Nat /\ Price <= reqs[r].base
    BY <1>0, <1>8, AtWork, RequestShape DEF WalletPaymentWrite, At, Paying
  <2>2. Moves(r)
    BY <1>8, <2>1, IdleIsRequest DEF WalletPaymentWrite, Done, Moves
  <2> QED
    BY <1>0, <1>8, <2>1, <2>2, WorkloadIs DEF WalletPaymentWrite, TypeOK
<1>9. CASE SuspendWrite(r)
  <2>1. r \in load.crew /\ reqs[r].amount \in Nat
    BY <1>0, <1>9, AtWork, RequestShape DEF SuspendWrite, At, Suspending
  <2>2. Moves(r)
    BY <1>9, <2>1, GoCreditIs, IdleIsRequest DEF SuspendWrite
  <2> QED
    BY <1>0, <1>9, <2>2 DEF SuspendWrite, TypeOK, wallet
<1>10. CASE SplitInsert(r) \/ SplitNoRoom(r)
  <2>1. r \in load.crew
    BY <1>0, <1>10, AtWork DEF SplitInsert, SplitNoRoom
  <2>2. Moves(r)
    BY <1>10, <2>1, IdleIsRequest DEF SplitInsert, SplitNoRoom, Done, Moves
  <2>3. split' \in [Splits -> Split]
    <3>1. 1..load.splits \subseteq Splits
      BY <1>0, WorkloadIs DEF Splits
    <3>2. CASE SplitInsert(r)
      <4>1. PICK s \in Splits : split' = [split EXCEPT ![s] = [@ EXCEPT !.st = "pending", !.card = "open"]]
        BY <3>1, <3>2 DEF SplitInsert
      <4>2. [split[s] EXCEPT !.st = "pending", !.card = "open"] \in Split
        BY <1>0, <4>1 DEF TypeOK, Split
      <4> QED
        BY <1>0, <4>1, <4>2 DEF TypeOK
    <3> QED
      BY <1>0, <1>10, <3>2 DEF SplitNoRoom, TypeOK
  <2> QED
    BY <1>0, <1>10, <2>2, <2>3 DEF SplitInsert, SplitNoRoom, TypeOK, wallet
<1>11. CASE SplitDebit(r)
  <2>1. r \in load.crew /\ reqs[r].s \in Splits
    BY <1>0, <1>11, AtWork, RequestShape DEF SplitDebit, At, SplitOps, ForSplits
  <2>2. [op |-> "splitConfirm", s |-> reqs[r].s] \in Request
    BY <2>1 DEF Request, Plain, ForSplits, SplitOps
  <2>3. Moves(r)
    BY <1>11, <2>1, <2>2, IdleIsRequest DEF SplitDebit, Done, Moves
  <2>4. past' \in [credits : [TopUps -> Nat], expired : SUBSET TopUps,
                   debits : [Splits -> Nat], adjusts : 0..MaxAdjusts, stopped : BOOLEAN]
    BY <1>0, <1>11, <2>1 DEF SplitDebit, TypeOK
  <2>5. balance' \in Nat /\ ledger' \in Int
    BY <1>0, <1>11, WorkloadIs DEF SplitDebit, Debit, Post, TypeOK
  <2> QED
    BY <1>0, <1>11, <2>3, <2>4, <2>5 DEF SplitDebit, TypeOK
<1>12. CASE SplitConfirm(r)
  <2>1. r \in load.crew /\ reqs[r].s \in Splits
    BY <1>0, <1>12, AtWork, RequestShape DEF SplitConfirm, At, SplitOps, ForSplits
  <2>2. [op |-> "refundRead", s |-> reqs[r].s] \in Request
    BY <2>1 DEF Request, Plain, ForSplits, SplitOps
  <2>3. Moves(r)
    BY <1>12, <2>1, <2>2, IdleIsRequest DEF SplitConfirm, Done, Moves
  <2> QED
    BY <1>0, <1>12, <2>1, <2>3 DEF SplitConfirm, TypeOK, Split, wallet
<1>13. CASE SplitConfirmFails(r) \/ Crash(r)
  <2>1. r \in load.crew
    BY <1>0, <1>13, AtWork DEF SplitConfirmFails, Crash, Handlers
  <2>2. Moves(r)
    BY <1>13, <2>1, IdleIsRequest DEF SplitConfirmFails, Crash, Done, Moves
  <2>3. faults' \in 0..MaxFaults /\ UNCHANGED <<wallet, topup, split, booking>>
    BY <1>0, <1>13, WorkloadIs DEF SplitConfirmFails, Crash, Fault, MayFault, TypeOK
  <2>4. past' = past \/ past' = [past EXCEPT !.stopped = TRUE]
    BY <1>13 DEF SplitConfirmFails, Crash
  <2> QED
    BY <1>0, <2>2, <2>3, <2>4 DEF Moves, TypeOK, wallet
<1>14. CASE RefundRead(r)
  <2>1. r \in load.crew /\ reqs[r].s \in Splits
    BY <1>0, <1>14, AtWork, RequestShape DEF RefundRead, At, SplitOps, ForSplits
  <2>2. [op |-> "refundRecord", s |-> reqs[r].s] \in Later
    BY <2>1 DEF Later, NextOps, Plain, ForSplits, SplitOps
  <2>3. Moves(r)
    <3>1. CASE Done(r) /\ UNCHANGED load
      BY <2>1, <3>1, IdleIsRequest DEF Done, Moves
    <3>2. CASE GoCredit(r, CardPart, [op |-> "refundRecord", s |-> reqs[r].s]) /\ UNCHANGED load
      BY <1>0, <2>1, <2>2, <3>2, GoCreditIs, WorkloadIs
    <3> QED
      BY <1>14, <3>1, <3>2 DEF RefundRead
  <2> QED
    BY <1>0, <1>14, <2>3 DEF RefundRead, TypeOK, wallet
<1>15. CASE RefundRecord(r) \/ RefundStatus(r)
  <2>1. r \in load.crew /\ reqs[r].s \in Splits
    BY <1>0, <1>15, AtWork, RequestShape DEF RefundRecord, RefundStatus, At, SplitOps, ForSplits
  <2>2. [op |-> "refundStatus", s |-> reqs[r].s] \in Request
    BY <2>1 DEF Request, Plain, ForSplits, SplitOps
  <2>3. Moves(r)
    BY <1>15, <2>1, <2>2, IdleIsRequest DEF RefundRecord, RefundStatus, Done, Moves
  <2>4. split' \in [Splits -> Split] /\ UNCHANGED <<load, wallet, topup, booking, faults, past>>
    <3>1. CASE RefundRecord(r)
      BY <1>0, <2>1, <3>1 DEF RefundRecord, TypeOK, Split
    <3>2. CASE RefundStatus(r)
      BY <1>0, <2>1, <3>2 DEF RefundStatus, TypeOK, Split
    <3> QED
      BY <1>15, <3>1, <3>2
  <2> QED
    BY <1>0, <2>3, <2>4 DEF TypeOK, wallet
<1> QED
  BY <1>1, <1>2, <1>3, <1>4, <1>5, <1>6, <1>7, <1>8, <1>9, <1>10, <1>11, <1>12, <1>13, <1>14, <1>15
     DEF Proceed

LEMMA OutsideTyped ==
  ASSUME TypeOK, Outside
  PROVE  TypeOK' /\ UNCHANGED <<load, reqs>>
<1>1. ASSUME NEW t \in TopUps, TopUpPaid(t) \/ TopUpExpires(t)
      PROVE  TypeOK' /\ UNCHANGED <<load, reqs>>
  BY <1>1 DEF TopUpPaid, TopUpExpires, TypeOK, TopUp, wallet
<1>2. ASSUME NEW s \in Splits, CardCaptured(s) \/ CardDeclined(s)
      PROVE  TypeOK' /\ UNCHANGED <<load, reqs>>
  <2>1. split' \in [Splits -> Split]
    <3>1. CASE CardCaptured(s)
      BY <3>1 DEF CardCaptured, TypeOK, Split
    <3>2. CASE CardDeclined(s)
      BY <3>2 DEF CardDeclined, TypeOK, Split
    <3> QED
      BY <1>2, <3>1, <3>2
  <2> QED
    BY <1>2, <2>1 DEF CardCaptured, CardDeclined, TypeOK, wallet
<1>3. CASE CancelBooking
  BY <1>3 DEF CancelBooking, TypeOK, wallet
<1> QED
  BY <1>1, <1>2, <1>3 DEF Outside

-----------------------------------------------------------------------------
\* Types: the trip.

TripRow   == [st : {"none", "pending", "confirmed", "active", "completed", "cancelled"},
              vehicle : Nat, end : Nat, total : Nat, earning : Nat]
OrderRow  == [st : {"none", "pending", "completed", "failed"} \cup Refunded, ext : BOOLEAN,
              from : Nat, upto : Nat, ref : {"order", "payment"},
              gw : {"none", "open", "paid"}, declined : BOOLEAN]
RefundRow == [o : {0} \cup Orders, amount : Nat, rec : {"none", "pending", "completed"},
              gw : {"none", "asked", "done"}]

LEMMA TripRows ==
  TripTypeOK <=> /\ trip \in TripRow
                 /\ order \in [Orders -> OrderRow]
                 /\ refund \in [Refunds -> RefundRow]
                 /\ applied \in [Orders -> Nat]
  BY DEF TripTypeOK, TripRow, OrderRow, RefundRow

LEMMA NumbersAre ==
  /\ NOrders \in Nat /\ NRefunds \in Nat /\ MaxHours \in Nat /\ NVehicles \in Nat /\ NMethods \in Nat
  /\ IsFiniteSet(Orders) /\ IsFiniteSet(Refunds) /\ Orders \subseteq Nat /\ Refunds \subseteq Nat
  /\ \A S \in SUBSET Refunds : IsFiniteSet(S)
  /\ \A S \in SUBSET Orders : IsFiniteSet(S)
<1>1. IsFiniteSet(Orders) /\ IsFiniteSet(Refunds)
  BY TripAssumption, FS_Interval DEF TripAssumption, Orders, Refunds
<1>2. /\ \A S \in SUBSET Refunds : IsFiniteSet(S)
      /\ \A S \in SUBSET Orders : IsFiniteSet(S)
  BY <1>1, FS_Subset
<1>3. Orders \subseteq Nat /\ Refunds \subseteq Nat
  BY TripAssumption DEF TripAssumption, Orders, Refunds
<1> QED
  BY <1>1, <1>2, <1>3, TripAssumption, AccountAssumption DEF TripAssumption, AccountAssumption

LEMMA TotalIsNat == ASSUME TripTypeOK, NEW S \in SUBSET Refunds PROVE Total(S) \in Nat
<1> DEFINE f == [n \in Refunds |-> refund[n].amount]
<1>1. \A n \in S : f[n] \in Nat
  BY TripRows DEF RefundRow
<1>2. Total(S) = SumFunctionOnSet(f, S) /\ IsFiniteSet(S)
  BY NumbersAre DEF Total
<1> HIDE DEF f
<1> QED
  BY <1>1, <1>2, SumType

LEMMA AmountIsNat == ASSUME TripTypeOK, Spans, NEW o \in Orders PROVE Amount(o) \in Nat
<1>1. order[o].from \in Nat /\ order[o].upto \in Nat /\ order[o].from <= order[o].upto
  BY TripRows DEF OrderRow, Spans
<1> QED
  BY <1>1 DEF Amount

\* An order gets a row of its own, or changes its status only.
LEMMA OrderStatus ==
  ASSUME TripTypeOK, Spans, NEW o \in Orders,
         order' = [order EXCEPT ![o] = order'[o]], order'[o] \in OrderRow, order'[o].from <= order'[o].upto
  PROVE  order' \in [Orders -> OrderRow] /\ Spans'
  BY TripRows DEF Spans

LEMMA TripArriveTyped ==
  ASSUME DInv, NEW r \in Requests, TripArrive(r)
  PROVE  TripTypeOK' /\ Spans' /\ Moves(r) /\ UNCHANGED <<load, wallet, topup, split, booking, faults, past>>
<1>0. /\ TypeOK /\ Handlers /\ TripTypeOK /\ Spans /\ reqs[r] \in Request
      /\ trip \in TripRow /\ order \in [Orders -> OrderRow] /\ refund \in [Refunds -> RefundRow]
  BY TripRows DEF DInv, Handlers
<1> DEFINE Same == UNCHANGED <<load, wallet, topup, split, booking, faults, past, account>>
<1>a. ASSUME Same, Moves(r)
      PROVE  TripTypeOK' /\ Spans' /\ Moves(r) /\ UNCHANGED <<load, wallet, topup, split, booking, faults, past>>
  BY <1>0, <1>a DEF account, TripTypeOK, Spans
<1>1. CASE CreateRazorpayOrder(r)
  <2>1. [op |-> "orderInsert", ext |-> FALSE, from |-> 0, upto |-> trip.total] \in Request
    BY <1>0 DEF Request, Plain, Ordering, TripRow
  <2> QED
    BY <1>1, <1>a, <2>1 DEF CreateRazorpayOrder, Starts, Moves
<1>2. ASSUME NEW hours \in 1..MaxHours, ExtendBooking(r, hours)
      PROVE  Same /\ Moves(r)
  <2>1. hours \in Nat /\ trip.end \in Nat /\ trip.end + hours \in Nat /\ trip.end <= trip.end + hours
    BY <1>0, NumbersAre DEF TripRow
  <2>2. [op |-> "orderInsert", ext |-> TRUE, from |-> trip.end, upto |-> trip.end + hours] \in Request
    BY <2>1 DEF Request, Plain, Ordering
  <2> QED
    BY <1>2, <2>2 DEF ExtendBooking, Starts, Moves
<1>3. ASSUME NEW o \in Orders, VerifyRazorpayPayment(r, o) \/ HookCaptured(r, o) \/ VerifyExtension(r, o)
      PROVE  Same /\ Moves(r)
  <2>1. [op |-> "orderConfirm", o |-> o] \in Request /\ [op |-> "extendWrite", o |-> o] \in Request
    BY DEF Request, Plain, ForOrders
  <2> QED
    BY <1>3, <2>1 DEF VerifyRazorpayPayment, HookCaptured, VerifyExtension, Starts, Moves
<1>4. ASSUME NEW o \in Orders, HookFailed(r, o)
      PROVE  TripTypeOK' /\ Spans' /\ Moves(r) /\ UNCHANGED <<load, wallet, topup, split, booking, faults, past>>
  <2>1. UNCHANGED <<vars, trip, refund, applied>> /\ r \in load.crew
    BY <1>4 DEF HookFailed, Starts
  <2>2. order' = [order EXCEPT ![o].st = "failed"]
    BY <1>4 DEF HookFailed
  <2>3. order' = [order EXCEPT ![o] = order'[o]] /\ order'[o] \in OrderRow /\ order'[o].from <= order'[o].upto
    BY <1>0, <2>2 DEF OrderRow, Spans
  <2>4. order' \in [Orders -> OrderRow] /\ Spans'
    BY <1>0, <2>3, OrderStatus
  <2>5. TripTypeOK'
    BY <1>0, <2>1, <2>4 DEF TripTypeOK, OrderRow
  <2> QED
    BY <2>1, <2>4, <2>5 DEF vars, Moves
<1>5. ASSUME NEW o \in Orders, NEW most \in 1..MaxHours, NEW to \in {"wallet", "original"},
             AdminInitiateRefund(r, o, most, to)
      PROVE  Same /\ Moves(r)
  <2>1. [op |-> "returnRead", o |-> o, most |-> most, to |-> to, by |-> "admin"] \in Request
    BY NumbersAre DEF Request, Plain, Returning, Causes
  <2> QED
    BY <1>5, <2>1 DEF AdminInitiateRefund, GiveBack, Starts, Moves
<1>6. CASE HostCancelRead(r)
  <2>1. [op |-> "hostCancelWrite"] \in Request
    BY DEF Request, Plain, Only, OnlyOps
  <2> QED
    BY <1>6, <1>a, <2>1 DEF HostCancelRead, Starts, Moves
<1>7. ASSUME NEW share \in 0..MaxHours, CancelRead(r, share)
      PROVE  Same /\ Moves(r)
  <2>1. [op |-> "cancelWrite", share |-> share] \in Request
    BY NumbersAre DEF Request, Plain, Cancelling
  <2> QED
    BY <1>7, <2>1 DEF CancelRead, Starts, Moves
<1>8. ASSUME NEW n \in Refunds, HookRefund(r, n)
      PROVE  TripTypeOK' /\ Spans' /\ Moves(r) /\ UNCHANGED <<load, wallet, topup, split, booking, faults, past>>
  <2>1. UNCHANGED <<vars, trip, order, applied>> /\ r \in load.crew
    BY <1>8 DEF HookRefund, Starts
  <2>2. refund' \in [Refunds -> RefundRow]
    BY <1>0, <1>8 DEF HookRefund, RefundRow
  <2>3. TripTypeOK'
    BY <1>0, <2>1, <2>2 DEF TripTypeOK, RefundRow
  <2> QED
    BY <1>0, <2>1, <2>3 DEF vars, Moves, Spans
<1> HIDE DEF Same
<1> QED
  BY <1>a, <1>1, <1>2, <1>3, <1>4, <1>5, <1>6, <1>7, <1>8 DEF TripArrive

\* Rows that only handlers and faults change leave the wallet typed.
LEMMA WalletUntouched ==
  ASSUME TypeOK, UNCHANGED <<load, wallet, topup, split, booking, past>>, faults' = faults \/ Fault
  PROVE  TypeOK'
<1>1. faults' \in 0..MaxFaults
  BY WorkloadIs DEF Fault, MayFault, TypeOK
<1> QED
  BY <1>1 DEF TypeOK, wallet

LEMMA NextOnes ==
  ASSUME TypeOK
  PROVE  NextOrder \subseteq Orders /\ NextRefund \subseteq Refunds
<1>1. load.orders \in 0..NOrders /\ NOrders \in Nat
  BY WorkloadIs, NumbersAre
<1> QED
  BY <1>1 DEF NextOrder, NextRefund, Least, Orders

LEMMA CompletedRow ==
  ASSUME order \in [Orders -> OrderRow], Spans, NEW o \in Orders,
         order' = [order EXCEPT ![o].st = "completed", ![o].ref = "payment"]
  PROVE  /\ order'[o] = [order[o] EXCEPT !.st = "completed", !.ref = "payment"]
         /\ order' = [order EXCEPT ![o] = order'[o]]
         /\ order'[o] \in OrderRow /\ order'[o].from <= order'[o].upto
<1>1. order' = [order EXCEPT ![o] = [order[o] EXCEPT !.st = "completed", !.ref = "payment"]]
  OBVIOUS
<1>2. order'[o] = [order[o] EXCEPT !.st = "completed", !.ref = "payment"]
  BY <1>1
<1>3. order[o] \in OrderRow /\ order[o].from <= order[o].upto
  BY DEF Spans
<1> HIDE DEF OrderRow
<1>4. [order[o] EXCEPT !.st = "completed", !.ref = "payment"] \in OrderRow
  BY <1>3 DEF OrderRow
<1> QED
  BY <1>1, <1>2, <1>3, <1>4 DEF OrderRow

LEMMA OrderProceedTyped ==
  ASSUME DInv, NEW r \in Requests, OrderInsert(r) \/ OrderConfirm(r) \/ ExtendWrite(r)
  PROVE  TripTypeOK' /\ Spans' /\ Moves(r) /\ TypeOK'
<1>0. /\ TypeOK /\ Handlers /\ TripTypeOK /\ Spans /\ reqs[r] \in Request
      /\ trip \in TripRow /\ order \in [Orders -> OrderRow] /\ refund \in [Refunds -> RefundRow]
      /\ applied \in [Orders -> Nat]
  BY TripRows DEF DInv, Handlers
<1>1. UNCHANGED <<load, wallet, topup, split, booking, faults, past, refund>>
  BY DEF OrderInsert, OrderConfirm, ExtendWrite
<1>2. TypeOK'
  BY <1>0, <1>1, WalletUntouched
<1>3. CASE OrderInsert(r)
  <2>1. r \in load.crew /\ reqs[r] \in Ordering
    BY <1>0, <1>3, AtWork, RequestShape DEF OrderInsert, At
  <2>2. Moves(r)
    BY <1>3, <2>1, IdleIsRequest DEF OrderInsert, Done, Moves
  <2>3. order' \in [Orders -> OrderRow] /\ Spans'
    <3>1. ASSUME NEW o \in NextOrder,
                 order' = [order EXCEPT ![o] = [NoOrder EXCEPT !.st = "pending", !.ext = reqs[r].ext,
                                                  !.from = reqs[r].from, !.upto = reqs[r].upto, !.gw = "open"]]
          PROVE  order' \in [Orders -> OrderRow] /\ Spans'
      <4>1. o \in Orders
        BY <1>0, NextOnes
      <4>2. /\ order'[o] = [NoOrder EXCEPT !.st = "pending", !.ext = reqs[r].ext, !.from = reqs[r].from,
                                           !.upto = reqs[r].upto, !.gw = "open"]
            /\ order' = [order EXCEPT ![o] = order'[o]]
        BY <1>0, <3>1, <4>1
      <4>3. order'[o] \in OrderRow /\ order'[o].from <= order'[o].upto
        BY <2>1, <4>2 DEF Ordering, NoOrder, OrderRow
      <4> QED
        BY <1>0, <4>1, <4>2, <4>3, OrderStatus
    <3>2. CASE UNCHANGED order
      BY <1>0, <3>2 DEF Spans
    <3> QED
      BY <1>3, <3>1, <3>2 DEF OrderInsert
  <2>4. UNCHANGED <<trip, applied>>
    BY <1>3 DEF OrderInsert
  <2>5. TripTypeOK'
    BY <1>0, <1>1, <2>3, <2>4 DEF TripTypeOK, OrderRow
  <2> QED
    BY <1>2, <2>2, <2>3, <2>4, <2>5
<1>4. CASE OrderConfirm(r)
  <2> DEFINE o == reqs[r].o
  <2>1. r \in load.crew /\ o \in Orders
    BY <1>0, <1>4, AtWork, RequestShape DEF OrderConfirm, At, ForOrders
  <2>2. Amount(o) \in Nat
    BY <1>0, <2>1, AmountIsNat
  <2>3. Moves(r)
    <3>1. [op |-> "returnRead", o |-> o, most |-> Amount(o), to |-> "wallet", by |-> "late"] \in Request
      BY <2>1, <2>2 DEF Request, Plain, Returning, Causes
    <3> QED
      BY <1>4, <2>1, <3>1, IdleIsRequest DEF OrderConfirm, GiveBack, Done, Moves
  <2>4. order'[o] \in OrderRow /\ order'[o].from <= order'[o].upto /\ order' = [order EXCEPT ![o] = order'[o]]
    <3>1. CASE order' = [order EXCEPT ![o].ref = "payment"]
      BY <1>0, <2>1, <3>1 DEF OrderRow, Spans
    <3>2. CASE order' = [order EXCEPT ![o].st = "completed", ![o].ref = "payment"]
      BY <1>0, <2>1, <3>2, CompletedRow
    <3> QED
      BY <1>4, <3>1, <3>2 DEF OrderConfirm
  <2>5. order' \in [Orders -> OrderRow] /\ Spans'
    BY <1>0, <2>1, <2>4, OrderStatus
  <2>6. trip' \in TripRow /\ UNCHANGED applied
    BY <1>0, <1>4 DEF OrderConfirm, TripRow
  <2>7. TripTypeOK'
    BY <1>0, <1>1, <2>5, <2>6 DEF TripTypeOK, OrderRow, TripRow
  <2> QED
    BY <1>2, <2>3, <2>5, <2>6, <2>7
<1>5. CASE ExtendWrite(r)
  <2> DEFINE o == reqs[r].o
  <2>1. r \in load.crew /\ o \in Orders
    BY <1>0, <1>5, AtWork, RequestShape DEF ExtendWrite, At, ForOrders
  <2>2. Amount(o) \in Nat
    BY <1>0, <2>1, AmountIsNat
  <2>3. Moves(r)
    BY <1>5, <2>1, IdleIsRequest DEF ExtendWrite, Done, Moves
  <2>4. order' = [order EXCEPT ![o].st = "completed", ![o].ref = "payment"]
    BY <1>5 DEF ExtendWrite
  <2>5. order'[o] \in OrderRow /\ order'[o].from <= order'[o].upto /\ order' = [order EXCEPT ![o] = order'[o]]
    BY <1>0, <2>1, <2>4, CompletedRow
  <2>6. order' \in [Orders -> OrderRow] /\ Spans'
    BY <1>0, <2>1, <2>5, OrderStatus
  <2>7. trip' = [trip EXCEPT !.end = order[o].upto, !.total = @ + Amount(o), !.earning = IF @ = 0 THEN 0 ELSE @ + Amount(o)]
        /\ applied' = [applied EXCEPT ![o] = @ + 1]
    BY <1>5 DEF ExtendWrite
  <2>8. order[o].upto \in Nat
    BY <1>0, <2>1 DEF OrderRow
  <2> HIDE DEF o
  <2>9. trip' \in TripRow
    <3>1. PICK e \in Nat : e = IF trip.earning = 0 THEN 0 ELSE trip.earning + Amount(o)
      BY <1>0, <2>2 DEF TripRow
    <3>2. trip.total + Amount(o) \in Nat
      BY <1>0, <2>2 DEF TripRow
    <3>3. trip' = [trip EXCEPT !.end = order[o].upto, !.total = trip.total + Amount(o), !.earning = e]
      BY <2>7, <3>1
    <3> QED
      BY <1>0, <2>8, <3>2, <3>3 DEF TripRow
  <2>10. applied' \in [Orders -> Nat]
    BY <1>0, <2>1, <2>7
  <2>11. TripTypeOK'
    BY <1>0, <1>1, <2>6, <2>9, <2>10 DEF TripTypeOK, OrderRow, TripRow
  <2> QED
    BY <1>2, <2>3, <2>6, <2>9, <2>11
<1> QED
  BY <1>3, <1>4, <1>5

LEMMA CancelProceedTyped ==
  ASSUME DInv, NEW r \in Requests, HostCancelWrite(r) \/ CancelWrite(r) \/ CancelFind(r)
  PROVE  TripTypeOK' /\ Spans' /\ Moves(r) /\ TypeOK'
<1>0. /\ TypeOK /\ Handlers /\ TripTypeOK /\ Spans /\ reqs[r] \in Request
      /\ trip \in TripRow /\ order \in [Orders -> OrderRow] /\ refund \in [Refunds -> RefundRow]
  BY TripRows DEF DInv, Handlers
<1>1. UNCHANGED <<load, wallet, topup, split, booking, faults, past, order, refund, applied>>
  BY DEF HostCancelWrite, CancelWrite, CancelFind, account
<1>2. TypeOK' /\ Spans'
  BY <1>0, <1>1, WalletUntouched DEF Spans
<1>3. trip' \in TripRow
  <2>1. CASE HostCancelWrite(r)
    BY <1>0, <2>1, AtWork DEF HostCancelWrite, TripRow
  <2>2. CASE CancelWrite(r)
    BY <1>0, <2>2 DEF CancelWrite, TripRow, Cancellable
  <2>3. CASE CancelFind(r)
    BY <1>0, <2>3 DEF CancelFind, TripRow, account
  <2> QED
    BY <2>1, <2>2, <2>3
<1>4. TripTypeOK'
  BY <1>0, <1>1, <1>3 DEF TripTypeOK, TripRow
<1>5. Moves(r)
  <2>1. CASE HostCancelWrite(r)
    <3>1. [op |-> "cancelFind", share |-> 0, by |-> "host"] \in Request
      BY DEF Request, Plain, Finding, Causes
    <3> QED
      BY <1>0, <1>1, <2>1, <3>1, AtWork DEF HostCancelWrite, Moves
  <2>2. CASE CancelWrite(r)
    <3>1. r \in load.crew /\ reqs[r].share \in Nat
      BY <1>0, <2>2, AtWork, RequestShape DEF CancelWrite, At, Cancelling
    <3>2. [op |-> "cancelFind", share |-> reqs[r].share, by |-> "driver"] \in Request
      BY <3>1 DEF Request, Plain, Finding, Causes
    <3> QED
      BY <1>1, <2>2, <3>1, <3>2, IdleIsRequest DEF CancelWrite, Done, Moves
  <2>3. CASE CancelFind(r)
    <3> DEFINE paid == {o \in Orders : order[o].st = "completed"}
    <3>1. r \in load.crew /\ reqs[r].share \in Nat /\ reqs[r].by \in Causes
      BY <1>0, <2>3, AtWork, RequestShape DEF CancelFind, At, Finding
    <3>2. ASSUME paid # {} PROVE Latest(paid) \in Orders /\ Amount(Latest(paid)) \in Nat
      <4>1. paid \in SUBSET (1..NOrders) /\ NOrders \in Nat
        BY NumbersAre DEF Orders
      <4>2. Latest(paid) \in Orders
        BY <3>2, <4>1, LatestIs DEF Orders
      <4> QED
        BY <1>0, <4>2, AmountIsNat
    <3>3. \A most \in Nat : paid # {} =>
            [op |-> "returnRead", o |-> Latest(paid), most |-> most, to |-> "wallet", by |-> reqs[r].by] \in Request
      BY <3>1, <3>2 DEF Request, Plain, Returning
    <3>4. CASE Compensate(r)
      BY <1>1, <3>1, <3>4, GoCreditIs, IdleIsRequest DEF Compensate, Unit
    <3>5. CASE Done(r)
      BY <1>1, <3>1, <3>5, IdleIsRequest DEF Done, Moves
    <3>6. CASE paid # {} /\ \E most \in Nat : GiveBack(r, Latest(paid), most, "wallet", reqs[r].by)
      BY <1>1, <3>1, <3>3, <3>6 DEF GiveBack, Moves
    <3> HIDE DEF paid
    <3>7. \/ Compensate(r) \/ Done(r)
          \/ paid # {} /\ GiveBack(r, Latest(paid), IF reqs[r].by = "host" THEN Amount(Latest(paid)) ELSE reqs[r].share,
                                   "wallet", reqs[r].by)
      BY <2>3 DEF CancelFind, paid
    <3> QED
      BY <3>1, <3>2, <3>4, <3>5, <3>6, <3>7
  <2> QED
    BY <2>1, <2>2, <2>3
<1> QED
  BY <1>2, <1>3, <1>4, <1>5

\* What is recorded after a credit, and where the credit is asked for.
LEMMA CreditedIs ==
  ASSUME NEW r \in load.crew, UNCHANGED load, NEW q \in AtGateway, Credited(r, q)
  PROVE  Moves(r)
<1>1. q.o \in Orders /\ q.amount \in Nat /\ q.before \in Nat /\ q.by \in Causes
  BY DEF AtGateway
<1>2. PICK next : next = [op |-> "returnRecord", o |-> q.o, amount |-> q.amount, before |-> q.before,
                          n |-> 0, by |-> q.by, rec |-> "completed"]
  OBVIOUS
<1>3. next \in Later
  <2>1. next \in Recording /\ next.op = "returnRecord"
    BY <1>1, <1>2 DEF Recording
  <2> QED
    BY <2>1 DEF Later, NextOps, Plain
<1>4. GoCredit(r, q.amount, next)
  BY <1>2 DEF Credited
<1> QED
  BY <1>1, <1>3, <1>4, GoCreditIs

LEMMA ReturnReadTyped ==
  ASSUME DInv, NEW r \in Requests, ReturnRead(r)
  PROVE  Moves(r) /\ UNCHANGED <<load, wallet, topup, split, booking, faults, past, account>>
<1>0. TypeOK /\ Handlers /\ TripTypeOK /\ Spans /\ reqs[r] \in Request
  BY DEF DInv, Handlers
<1>1. r \in load.crew /\ reqs[r] \in Returning
  BY <1>0, AtWork, RequestShape DEF ReturnRead, At
<1> DEFINE o      == reqs[r].o
           before == Total(Of(o) \cap {n \in Refunds : refund[n].rec # "none"})
           left   == Amount(o) - before
           amount == IF reqs[r].most < left THEN reqs[r].most ELSE left
           q      == [op |-> "gateway", o |-> o, before |-> before, by |-> reqs[r].by, amount |-> amount]
           rec    == [op |-> "returnRecord", o |-> o, amount |-> q.amount, before |-> before,
                      n |-> 0, by |-> q.by, rec |-> "pending"]
<1>2. o \in Orders /\ reqs[r].most \in Nat /\ reqs[r].by \in Causes
  BY <1>1 DEF Returning
<1>3. Amount(o) \in Nat /\ before \in Nat
  <2>1. Of(o) \cap {n \in Refunds : refund[n].rec # "none"} \in SUBSET Refunds
    BY DEF Of
  <2> QED
    BY <1>0, <1>2, <2>1, AmountIsNat, TotalIsNat
<1>4. left \in Int /\ (left > 0 => amount \in Nat)
  <2> HIDE DEF before, o
  <2> QED
    BY <1>2, <1>3
<1>5. left > 0 => q \in AtGateway /\ q \in Request /\ rec \in Request
  <2> SUFFICES ASSUME left > 0 PROVE q \in AtGateway /\ q \in Request /\ rec \in Request
    OBVIOUS
  <2>1. amount \in Nat
    BY <1>4
  <2> HIDE DEF before, o, amount
  <2>2. q \in AtGateway /\ rec \in Recording
    BY <1>2, <1>3, <2>1 DEF AtGateway, Recording
  <2> QED
    BY <2>2 DEF Request, Plain
<1>6. UNCHANGED <<load, wallet, topup, split, booking, faults, past, account>>
  BY DEF ReturnRead
<1>7. \/ Done(r)
      \/ left > 0 /\ (Credited(r, q) \/ Goto(r, q) \/ Goto(r, rec))
  <2>1. IF order[o].st \notin {"completed", "partially_refunded"} \/ left <= 0 THEN Done(r)
        ELSE IF reqs[r].to = "wallet" THEN Credited(r, q)
        ELSE IF order[o].ref = "payment" THEN Goto(r, q)
        ELSE Goto(r, rec)
    BY DEF ReturnRead
  <2> HIDE DEF o, before, left, q, rec, amount
  <2> QED
    BY <1>4, <2>1
<1> HIDE DEF left, q, rec
<1> QED
  BY <1>1, <1>5, <1>6, <1>7, CreditedIs, IdleIsRequest DEF Done, Moves

LEMMA GatewayTyped ==
  ASSUME DInv, NEW r \in Requests,
         GatewayRefuses(r) \/ \E n \in Refunds, gw \in {"asked", "done"} : GatewayRefund(r, n, gw)
  PROVE  TripTypeOK' /\ Spans' /\ Moves(r) /\ TypeOK'
<1>0. TypeOK /\ Handlers /\ TripTypeOK /\ Spans /\ reqs[r] \in Request /\ refund \in [Refunds -> RefundRow]
  BY TripRows DEF DInv, Handlers
<1>1. r \in load.crew /\ reqs[r] \in AtGateway
  BY <1>0, AtWork, RequestShape DEF GatewayRefuses, GatewayRefund, At
<1>2. reqs[r].o \in Orders /\ reqs[r].amount \in Nat /\ reqs[r].before \in Nat /\ reqs[r].by \in Causes
  BY <1>1 DEF AtGateway
<1>3. UNCHANGED <<load, wallet, topup, split, booking, past, trip, order, applied>>
  BY DEF GatewayRefuses, GatewayRefund, account
<1>4. faults' = faults \/ Fault
  BY DEF GatewayRefuses, GatewayRefund
<1>5. TypeOK' /\ Spans'
  BY <1>0, <1>3, <1>4, WalletUntouched DEF Spans
<1>6. refund' \in [Refunds -> RefundRow]
  <2>1. ASSUME NEW n \in Refunds, NEW gw \in {"asked", "done"}, GatewayRefund(r, n, gw)
        PROVE  refund' \in [Refunds -> RefundRow]
    <3>1. [o |-> reqs[r].o, amount |-> reqs[r].amount, rec |-> "none", gw |-> gw] \in RefundRow
      BY <1>2 DEF RefundRow
    <3> QED
      BY <1>0, <2>1, <3>1 DEF GatewayRefund
  <2>2. CASE GatewayRefuses(r)
    BY <1>0, <2>2 DEF GatewayRefuses, account
  <2> QED
    BY <2>1, <2>2
<1>7. TripTypeOK'
  BY <1>0, <1>3, <1>6 DEF TripTypeOK, RefundRow
<1>8. CASE GatewayRefuses(r)
  <2>1. Moves(r)
    BY <1>1, <1>3, <1>8, CreditedIs DEF GatewayRefuses
  <2> QED
    BY <1>5, <1>7, <2>1
<1>9. ASSUME NEW n \in Refunds, NEW gw \in {"asked", "done"}, GatewayRefund(r, n, gw)
      PROVE  Moves(r)
  <2>1. PICK rec : rec = [op |-> "returnRecord", o |-> reqs[r].o, amount |-> reqs[r].amount,
                          before |-> reqs[r].before, n |-> n, by |-> reqs[r].by,
                          rec |-> IF gw = "done" THEN "completed" ELSE "pending"]
    OBVIOUS
  <2>2. rec \in Recording
    BY <1>2, <2>1 DEF Recording
  <2>3. rec \in Request
    BY <2>2 DEF Request, Plain
  <2>4. Goto(r, rec) \/ Credited(r, reqs[r])
    BY <1>9, <2>1 DEF GatewayRefund
  <2> QED
    BY <1>1, <1>3, <2>3, <2>4, CreditedIs DEF Moves
<1> QED
  BY <1>5, <1>7, <1>8, <1>9

LEMMA RecordTyped ==
  ASSUME DInv, NEW r \in Requests, ReturnRecord(r) \/ ReturnStatus(r)
  PROVE  TripTypeOK' /\ Spans' /\ Moves(r) /\ TypeOK'
<1>0. /\ TypeOK /\ Handlers /\ TripTypeOK /\ Spans /\ reqs[r] \in Request
      /\ order \in [Orders -> OrderRow] /\ refund \in [Refunds -> RefundRow]
  BY TripRows DEF DInv, Handlers
<1>1. UNCHANGED <<load, wallet, topup, split, booking, faults, past, trip, applied>>
  BY DEF ReturnRecord, ReturnStatus
<1>2. TypeOK'
  BY <1>0, <1>1, WalletUntouched
<1>3. CASE ReturnRecord(r)
  <2>1. r \in load.crew /\ reqs[r] \in Recording
    BY <1>0, <1>3, AtWork, RequestShape DEF ReturnRecord, At
  <2>2. /\ reqs[r].o \in Orders /\ reqs[r].amount \in Nat /\ reqs[r].before \in Nat /\ reqs[r].by \in Causes
        /\ reqs[r].n \in {0} \cup Refunds /\ reqs[r].rec \in {"pending", "completed"}
    BY <2>1 DEF Recording
  <2>3. refund' \in [Refunds -> RefundRow]
    <3>1. CASE reqs[r].n # 0
      BY <1>0, <1>3, <2>2, <3>1 DEF ReturnRecord, RefundRow
    <3>2. CASE reqs[r].n = 0
      <4>1. PICK n \in NextRefund :
              refund' = [refund EXCEPT ![n] = [o |-> reqs[r].o, amount |-> reqs[r].amount,
                                               rec |-> reqs[r].rec, gw |-> "none"]]
        BY <1>3, <3>2 DEF ReturnRecord
      <4> QED
        BY <1>0, <2>2, <4>1 DEF RefundRow
    <3> QED
      BY <3>1, <3>2
  <2>4. [op |-> "returnStatus", o |-> reqs[r].o, by |-> reqs[r].by,
         sum |-> reqs[r].before + reqs[r].amount] \in Request
    BY <2>2 DEF Request, Plain, Closing
  <2>5. Moves(r) /\ UNCHANGED order
    BY <1>3, <2>1, <2>4 DEF ReturnRecord, Moves
  <2>6. TripTypeOK'
    BY <1>0, <1>1, <2>3, <2>5 DEF TripTypeOK, RefundRow
  <2> QED
    BY <1>0, <1>2, <2>5, <2>6 DEF Spans
<1>4. CASE ReturnStatus(r)
  <2>1. r \in load.crew /\ reqs[r].o \in Orders
    BY <1>0, <1>4, AtWork, RequestShape DEF ReturnStatus, At, Closing
  <2>2. Moves(r)
    BY <1>1, <1>4, <2>1, GoCreditIs, IdleIsRequest DEF ReturnStatus, Compensate, Unit, Done, Moves
  <2>3. PICK st \in Refunded : order' = [order EXCEPT ![reqs[r].o].st = st]
    BY <1>4 DEF ReturnStatus, Refunded
  <2>4. order' \in [Orders -> OrderRow] /\ Spans' /\ UNCHANGED refund
    BY <1>0, <1>4, <2>1, <2>3 DEF ReturnStatus, OrderRow, Spans
  <2>5. TripTypeOK'
    BY <1>0, <1>1, <2>4 DEF TripTypeOK, OrderRow
  <2> QED
    BY <1>2, <2>2, <2>4, <2>5
<1> QED
  BY <1>3, <1>4

LEMMA TripAloneTyped ==
  ASSUME DInv, \/ \E o \in Orders : OrderPaid(o) \/ OrderDeclined(o)
               \/ TripStarts \/ TripEnds
  PROVE  TripTypeOK' /\ Spans' /\ UNCHANGED vars
<1>0. /\ TripTypeOK /\ Spans /\ trip \in TripRow /\ order \in [Orders -> OrderRow]
  BY TripRows DEF DInv
<1>1. ASSUME NEW o \in Orders, OrderPaid(o) \/ OrderDeclined(o)
      PROVE  TripTypeOK' /\ Spans' /\ UNCHANGED vars
  <2>1. /\ order' = [order EXCEPT ![o] = order'[o]]
        /\ order'[o] \in OrderRow /\ order'[o].from <= order'[o].upto
    <3>1. CASE OrderPaid(o)
      BY <1>0, <3>1 DEF OrderPaid, OrderRow, Spans
    <3>2. CASE OrderDeclined(o)
      BY <1>0, <3>2 DEF OrderDeclined, OrderRow, Spans
    <3> QED
      BY <1>1, <3>1, <3>2
  <2>2. order' \in [Orders -> OrderRow] /\ Spans'
    BY <1>0, <2>1, OrderStatus
  <2> QED
    BY <1>0, <1>1, <2>2 DEF OrderPaid, OrderDeclined, TripTypeOK, OrderRow
<1>2. CASE TripStarts \/ TripEnds
  <2>1. trip' \in TripRow
    BY <1>0, <1>2 DEF TripStarts, TripEnds, TripRow
  <2> QED
    BY <1>0, <1>2, <2>1 DEF TripStarts, TripEnds, TripTypeOK, TripRow, Spans
<1> QED
  BY <1>1, <1>2

-----------------------------------------------------------------------------
\* Types: vehicles, payment methods, and all together.

LEMMA BookTyped ==
  ASSUME DInv, NEW r \in Requests, NEW v \in Garage!Owned, BookTrip(r, v)
  PROVE  TripTypeOK' /\ Spans' /\ UNCHANGED <<vars, order, refund, applied>>
<1>1. trip' = [st |-> "pending", vehicle |-> v, end |-> 1, total |-> 1, earning |-> 0]
  BY DEF BookTrip, NoTrip, Stay
<1>2. v \in Nat
  BY DEF Garage!Owned, Garage!Vehicles
<1>3. UNCHANGED <<vars, order, refund, applied>>
  BY DEF BookTrip
<1> QED
  BY <1>1, <1>2, <1>3 DEF DInv, TripTypeOK, Spans

LEMMA WithoutTyped ==
  ASSUME GarageRows, NEW S
  PROVE  Garage!Without(S) \in [Garage!Vehicles -> DefaultRow]
<1>1. \A v \in Garage!Vehicles : vehicle[v] \in DefaultRow /\ [vehicle[v] EXCEPT !.default = FALSE] \in DefaultRow
  BY DEF GarageRows, DefaultRow
<1> QED
  BY <1>1 DEF Garage!Without

LEMMA GarageTyped ==
  ASSUME DInv, NEW r \in Requests,
         \/ \E default \in BOOLEAN : Garage!CreateVehicle(r, default)
         \/ \E v \in Garage!Vehicles :
              \/ Garage!DeleteVehicle(r, v)
              \/ \E ask \in {"yes", "no", "leave"} : Garage!UpdateVehicle(r, v, ask)
         \/ Garage!VehicleAdd(r) \/ Garage!VehicleSet(r) \/ Garage!VehicleDrop(r)
  PROVE  GarageRows' /\ Moves(r) /\ UNCHANGED <<load, trip>>
<1>0. /\ Handlers /\ reqs[r] \in Request /\ GarageRows
      /\ Garage!Defaults \subseteq Garage!Vehicles
  BY DEF DInv, Handlers, Garage!Defaults, Garage!Owned
<1>1. ASSUME NEW default \in BOOLEAN, Garage!CreateVehicle(r, default)
      PROVE  GarageRows' /\ Moves(r) /\ UNCHANGED <<load, trip>>
  <2>1. PICK f \in BOOLEAN : f <=> default \/ Garage!Owned = {}
    OBVIOUS
  <2>2. PICK S \in SUBSET Garage!Vehicles : S = IF default THEN Garage!Defaults ELSE {}
    BY <1>0
  <2>3. [op |-> "vehicleAdd", clear |-> S, default |-> f] \in Request
    BY DEF Request, Plain, Adding
  <2>4. Goto(r, [op |-> "vehicleAdd", clear |-> S, default |-> f])
    BY <1>1, <2>1, <2>2 DEF Garage!CreateVehicle, Garage!Goto, Goto
  <2> QED
    BY <1>0, <1>1, <2>3, <2>4 DEF Garage!CreateVehicle, Garage!Starts, Garage!garage, GarageRows, Moves
<1>2. ASSUME NEW v \in Garage!Vehicles, Garage!DeleteVehicle(r, v)
      PROVE  GarageRows' /\ Moves(r) /\ UNCHANGED <<load, trip>>
  <2>1. [op |-> "vehicleDrop", v |-> v, default |-> vehicle[v].default] \in Request
    BY <1>0 DEF Request, Plain, Dropping, GarageRows, DefaultRow
  <2> QED
    BY <1>0, <1>2, <2>1
       DEF Garage!DeleteVehicle, Garage!Starts, Garage!Goto, Garage!garage, Goto, GarageRows, Moves
<1>3. ASSUME NEW v \in Garage!Vehicles, NEW ask \in {"yes", "no", "leave"}, Garage!UpdateVehicle(r, v, ask)
      PROVE  GarageRows' /\ Moves(r) /\ UNCHANGED <<load, trip>>
  <2>1. PICK S \in SUBSET Garage!Vehicles : S = IF ask = "yes" THEN Garage!Defaults \ {v} ELSE {}
    BY <1>0
  <2>2. [op |-> "vehicleSet", v |-> v, ask |-> ask, clear |-> S] \in Request
    BY DEF Request, Plain, Setting, Asks
  <2> QED
    BY <1>0, <1>3, <2>1, <2>2
       DEF Garage!UpdateVehicle, Garage!Starts, Garage!Goto, Garage!garage, Goto, GarageRows, Moves
<1>4. ASSUME r \in load.crew, Garage!Done(r), UNCHANGED load PROVE Moves(r)
  BY <1>4, IdleIsRequest DEF Garage!Done, Garage!Goto, Garage!Idle, Idle, Goto, Moves
<1>5. CASE Garage!VehicleAdd(r)
  <2>1. r \in load.crew /\ reqs[r] \in Adding
    BY <1>0, <1>5, AtWork, RequestShape DEF Garage!VehicleAdd, Garage!At, At
  <2>2. reqs[r].default \in BOOLEAN
    BY <2>1 DEF Adding
  <2>3. vehicle' \in [Garage!Vehicles -> DefaultRow]
    <3>1. [row |-> "live", default |-> reqs[r].default] \in DefaultRow
      BY <2>2 DEF DefaultRow
    <3>2. Garage!Without(reqs[r].clear) \in [Garage!Vehicles -> DefaultRow]
      BY <1>0, WithoutTyped
    <3> QED
      BY <1>0, <1>5, <3>1, <3>2 DEF Garage!VehicleAdd, GarageRows
  <2> QED
    BY <1>0, <1>4, <1>5, <2>1, <2>3 DEF Garage!VehicleAdd, GarageRows
<1>6. CASE Garage!VehicleSet(r)
  <2>1. r \in load.crew /\ reqs[r] \in Setting
    BY <1>0, <1>6, AtWork, RequestShape DEF Garage!VehicleSet, Garage!At, At
  <2>3. vehicle' \in [Garage!Vehicles -> DefaultRow]
    <3> DEFINE W == Garage!Without(reqs[r].clear)
    <3>1. W \in [Garage!Vehicles -> DefaultRow] /\ reqs[r].v \in Garage!Vehicles
      BY <1>0, <2>1, WithoutTyped DEF Setting
    <3>2. PICK f \in BOOLEAN : f = IF reqs[r].ask = "leave" THEN W[reqs[r].v].default ELSE reqs[r].ask = "yes"
      <4>1. W[reqs[r].v].default \in BOOLEAN
        BY <3>1 DEF DefaultRow
      <4> HIDE DEF W
      <4> QED
        BY <4>1
    <3>3. [W[reqs[r].v] EXCEPT !.default = f] \in DefaultRow
      <4> HIDE DEF W
      <4> QED
        BY <3>1 DEF DefaultRow
    <3>4. CASE reqs[r].v \notin Garage!Owned
      BY <1>0, <1>6, <3>4 DEF Garage!VehicleSet, Garage!garage, GarageRows
    <3>5. CASE reqs[r].v \in Garage!Owned
      <4>1. vehicle' = [W EXCEPT ![reqs[r].v].default = IF reqs[r].ask = "leave" THEN @ ELSE reqs[r].ask = "yes"]
        BY <1>6, <3>5 DEF Garage!VehicleSet
      <4>2. vehicle' = [W EXCEPT ![reqs[r].v] = [W[reqs[r].v] EXCEPT !.default = f]]
        BY <3>2, <4>1
      <4> HIDE DEF W
      <4> QED
        BY <3>1, <3>3, <4>2
    <3> QED
      BY <3>4, <3>5
  <2>4. unset' \in BOOLEAN
    BY <1>0, <1>6 DEF Garage!VehicleSet, Garage!garage, GarageRows
  <2> QED
    BY <1>0, <1>4, <1>6, <2>1, <2>3, <2>4 DEF Garage!VehicleSet, GarageRows
<1>7. CASE Garage!VehicleDrop(r)
  <2>1. r \in load.crew /\ reqs[r] \in Dropping
    BY <1>0, <1>7, AtWork, RequestShape DEF Garage!VehicleDrop, Garage!At, At
  <2>2. vehicle' \in [Garage!Vehicles -> DefaultRow]
    <3>1. /\ [row |-> "deleted", default |-> FALSE] \in DefaultRow
          /\ \A w \in Garage!Vehicles : vehicle[w] \in DefaultRow /\ [vehicle[w] EXCEPT !.default = TRUE] \in DefaultRow
      BY <1>0 DEF DefaultRow, GarageRows
    <3>2. CASE UNCHANGED vehicle
      BY <1>0, <3>2 DEF GarageRows
    <3>3. CASE vehicle' = [w \in Garage!Vehicles |->
                 CASE w = reqs[r].v -> [row |-> "deleted", default |-> FALSE]
                   [] w # reqs[r].v /\ reqs[r].default /\ w \in Garage!First(Garage!Owned \ {reqs[r].v})
                        -> [vehicle[w] EXCEPT !.default = TRUE]
                   [] OTHER -> vehicle[w]]
      BY <3>1, <3>3
    <3> QED
      BY <1>7, <3>2, <3>3 DEF Garage!VehicleDrop
  <2> QED
    BY <1>0, <1>4, <1>7, <2>1, <2>2 DEF Garage!VehicleDrop, GarageRows
<1> QED
  BY <1>1, <1>2, <1>3, <1>5, <1>6, <1>7

LEMMA CardsTyped ==
  ASSUME DInv, NEW r \in Requests,
         \/ \E default \in BOOLEAN : Cards!SavePaymentMethod(r, default)
         \/ \E k \in Cards!Methods : Cards!DeletePaymentMethod(r, k)
         \/ Cards!MethodAdd(r) \/ Cards!MethodDrop(r) \/ Cards!MethodNext(r) \/ Cards!MethodPromote(r)
  PROVE  Cards!TypeOK' /\ Moves(r) /\ UNCHANGED <<load, faults>>
<1>0. /\ Handlers /\ reqs[r] \in Request /\ Cards!TypeOK
      /\ Cards!Defaults \subseteq Cards!Methods
  BY DEF DInv, Handlers, Cards!Defaults, Cards!Saved
<1>1. ASSUME NEW default \in BOOLEAN, Cards!SavePaymentMethod(r, default)
      PROVE  Cards!TypeOK' /\ Moves(r) /\ UNCHANGED <<load, faults>>
  <2>1. PICK S \in SUBSET Cards!Methods : S = IF default THEN Cards!Defaults ELSE {}
    BY <1>0
  <2>2. [op |-> "methodAdd", default |-> default, clear |-> S] \in Request
    BY DEF Request, Plain, Saving
  <2> QED
    BY <1>0, <1>1, <2>1, <2>2
       DEF Cards!SavePaymentMethod, Cards!Starts, Cards!Goto, Cards!methods, Goto, Cards!TypeOK, Moves
<1>2. ASSUME NEW k \in Cards!Methods, Cards!DeletePaymentMethod(r, k)
      PROVE  Cards!TypeOK' /\ Moves(r) /\ UNCHANGED <<load, faults>>
  <2>1. [op |-> "methodDrop", k |-> k, default |-> method[k].default] \in Request
    BY <1>0 DEF Request, Plain, Deleting, Cards!TypeOK
  <2> QED
    BY <1>0, <1>2, <2>1
       DEF Cards!DeletePaymentMethod, Cards!Starts, Cards!Goto, Cards!methods, Goto, Cards!TypeOK, Moves
<1>3. ASSUME r \in load.crew, Cards!Done(r), UNCHANGED load PROVE Moves(r)
  BY <1>3, IdleIsRequest DEF Cards!Done, Cards!Goto, Cards!Idle, Idle, Goto, Moves
<1>4. CASE Cards!MethodAdd(r)
  <2>1. r \in load.crew /\ reqs[r] \in Saving
    BY <1>0, <1>4, AtWork, RequestShape DEF Cards!MethodAdd, Cards!At, At
  <2>2. reqs[r].default \in BOOLEAN
    BY <2>1 DEF Saving
  <2>3. method' \in [Cards!Methods -> DefaultRow]
    <3>1. PICK k \in Cards!Methods :
            method' = [w \in Cards!Methods |->
              IF w = k THEN [row |-> "live", default |-> reqs[r].default]
              ELSE [method[w] EXCEPT !.default = @ /\ w \notin reqs[r].clear]]
      BY <1>4 DEF Cards!MethodAdd
    <3>2. [row |-> "live", default |-> reqs[r].default] \in DefaultRow
      BY <2>2 DEF DefaultRow
    <3>3. ASSUME NEW w \in Cards!Methods
          PROVE  [method[w] EXCEPT !.default = @ /\ w \notin reqs[r].clear] \in DefaultRow
      <4>1. PICK f \in BOOLEAN : f = (method[w].default /\ w \notin reqs[r].clear)
        OBVIOUS
      <4>2. [method[w] EXCEPT !.default = f] \in DefaultRow
        BY <1>0 DEF Cards!TypeOK, DefaultRow
      <4> QED
        BY <4>1, <4>2
    <3> QED
      BY <3>1, <3>2, <3>3
  <2>4. chosen' \in BOOLEAN
    BY <1>4 DEF Cards!MethodAdd
  <2> QED
    BY <1>3, <1>4, <2>1, <2>3, <2>4 DEF Cards!MethodAdd, Cards!TypeOK, DefaultRow
<1>5. CASE Cards!MethodDrop(r)
  <2>1. r \in load.crew /\ reqs[r] \in Deleting
    BY <1>0, <1>5, AtWork, RequestShape DEF Cards!MethodDrop, Cards!At, At
  <2>2. method' \in [Cards!Methods -> DefaultRow]
    <3>1. [row |-> "deleted", default |-> FALSE] \in DefaultRow
      BY DEF DefaultRow
    <3> QED
      BY <1>0, <1>5, <3>1 DEF Cards!MethodDrop, Cards!methods, Cards!TypeOK, DefaultRow
  <2>3. chosen' \in BOOLEAN
    BY <1>0, <1>5 DEF Cards!MethodDrop, Cards!methods, Cards!TypeOK
  <2>4. [op |-> "methodNext"] \in Request
    BY DEF Request, Plain, Only, OnlyOps
  <2>5. Moves(r) /\ UNCHANGED <<load, faults>>
    BY <1>3, <1>5, <2>1, <2>4 DEF Cards!MethodDrop, Cards!Goto, Goto, Moves
  <2> QED
    BY <2>2, <2>3, <2>5 DEF Cards!TypeOK, DefaultRow
<1>6. CASE Cards!MethodNext(r)
  <2>1. r \in load.crew
    BY <1>0, <1>6, AtWork DEF Cards!MethodNext, Cards!At, At
  <2>2. \A k \in Cards!Oldest : [op |-> "methodPromote", k |-> k] \in Request
    BY DEF Request, Plain, Promoting, Cards!Oldest, Cards!Saved
  <2>3. Moves(r)
    BY <1>3, <1>6, <2>1, <2>2 DEF Cards!MethodNext, Cards!Goto, Goto, Moves
  <2> QED
    BY <1>0, <1>6, <2>3 DEF Cards!MethodNext, Cards!methods, Cards!TypeOK
<1>7. CASE Cards!MethodPromote(r)
  <2>1. r \in load.crew /\ reqs[r].k \in Cards!Methods
    BY <1>0, <1>7, AtWork, RequestShape DEF Cards!MethodPromote, Cards!At, At, Promoting
  <2> QED
    BY <1>0, <1>3, <1>7, <2>1 DEF Cards!MethodPromote, Cards!TypeOK
<1> QED
  BY <1>1, <1>2, <1>4, <1>5, <1>6, <1>7

allVars == <<vars, account, garage, methods>>

LEMMA InitTyped == AccountInit => DInv
<1> SUFFICES ASSUME AccountInit PROVE DInv
  OBVIOUS
<1>1. load \in Workloads /\ load.purse \subseteq Nat /\ balance \in load.purse
  BY WalletAssumption DEF AccountInit, Init, WalletAssumption
<1>2. NSplits \in Nat /\ MaxAdjusts \in Nat /\ MaxFaults \in Nat
  BY WalletAssumption DEF WalletAssumption
<1>3. TypeOK
  BY <1>1, <1>2 DEF AccountInit, Init, TypeOK, TopUp, Split
<1>4. TripTypeOK /\ Spans
  BY DEF AccountInit, TripInit, TripTypeOK, Spans, NoTrip, NoOrder, NoRefund
<1>5. GarageRows
  <2>1. \A v \in Garage!Vehicles : [row |-> "live", default |-> v = 1] \in DefaultRow /\ Garage!New \in DefaultRow
    BY DEF DefaultRow, Garage!New
  <2>2. vehicle \in [Garage!Vehicles -> DefaultRow]
    BY <2>1 DEF AccountInit, Garage!Init
  <2> QED
    BY <2>2 DEF AccountInit, Garage!Init, GarageRows
<1>6. Cards!TypeOK
  BY DEF AccountInit, Cards!Init, Cards!TypeOK, Cards!New
<1>7. Handlers
  BY IdleIsRequest DEF AccountInit, Init, Handlers
<1> QED
  BY <1>3, <1>4, <1>5, <1>6, <1>7 DEF DInv

\* Every step is one of these; in the order of the components.
WalletStep(r) == (Arrive(r) \/ Proceed(r)) /\ UNCHANGED <<account, garage, methods>>
WalletAlone   == Outside /\ UNCHANGED <<account, garage, methods>>
OrderStep(r)  == (TripArrive(r) \/ TripProceed(r)) /\ UNCHANGED <<garage, methods>>
TripAlone     == /\ \/ \E o \in Orders : OrderPaid(o) \/ OrderDeclined(o)
                    \/ TripStarts \/ TripEnds
                 /\ UNCHANGED <<garage, methods>>
BookStep(r)   == \E v \in Garage!Owned : BookTrip(r, v) /\ UNCHANGED <<garage, methods>>
GarageStep(r) ==
  /\ \/ \E default \in BOOLEAN : Garage!CreateVehicle(r, default)
     \/ \E v \in Garage!Vehicles :
          \/ Garage!DeleteVehicle(r, v)
          \/ \E ask \in {"yes", "no", "leave"} : Garage!UpdateVehicle(r, v, ask)
     \/ Garage!VehicleAdd(r) \/ Garage!VehicleSet(r) \/ Garage!VehicleDrop(r)
  /\ UNCHANGED <<wallet, topup, split, booking, faults, past, order, refund, applied, methods>>
CardStep(r) ==
  /\ \/ \E default \in BOOLEAN : Cards!SavePaymentMethod(r, default)
     \/ \E k \in Cards!Methods : Cards!DeletePaymentMethod(r, k)
     \/ Cards!MethodAdd(r) \/ Cards!MethodDrop(r) \/ Cards!MethodNext(r) \/ Cards!MethodPromote(r)
  /\ UNCHANGED <<wallet, topup, split, booking, past, account, garage>>

LEMMA StepIs ==
  ASSUME AccountNext
  PROVE  \/ WalletAlone \/ TripAlone
         \/ \E r \in Requests : WalletStep(r) \/ OrderStep(r) \/ BookStep(r) \/ GarageStep(r) \/ CardStep(r)
<1>1. CASE Next /\ UNCHANGED <<account, garage, methods>>
  BY <1>1 DEF Next, WalletAlone, WalletStep
<1>2. CASE TripStep /\ UNCHANGED <<garage, methods>>
  BY <1>2 DEF TripStep, TripAlone, OrderStep
<1>3. CASE \E r \in Requests, v \in Garage!Owned : BookTrip(r, v) /\ UNCHANGED <<garage, methods>>
  BY <1>3 DEF BookStep
<1>4. CASE Garage!Step /\ UNCHANGED <<wallet, topup, split, booking, faults, past, order, refund, applied, methods>>
  BY <1>4 DEF Garage!Step, GarageStep
<1>5. CASE Cards!Step /\ UNCHANGED <<wallet, topup, split, booking, past, account, garage>>
  BY <1>5 DEF Cards!Step, CardStep
<1> QED
  BY <1>1, <1>2, <1>3, <1>4, <1>5 DEF AccountNext

LEMMA OrderStepTyped ==
  ASSUME DInv, NEW r \in Requests, OrderStep(r)
  PROVE  TypeOK' /\ TripTypeOK' /\ Spans' /\ Moves(r)
<1>0. TypeOK /\ TripTypeOK /\ Spans
  BY DEF DInv
<1>1. CASE TripArrive(r)
  <2>1. UNCHANGED <<load, wallet, topup, split, booking, faults, past>> /\ TripTypeOK' /\ Spans' /\ Moves(r)
    BY <1>1, TripArriveTyped
  <2> QED
    BY <1>0, <2>1, WalletUntouched
<1>2. CASE ReturnRead(r)
  <2>1. Moves(r) /\ UNCHANGED <<load, wallet, topup, split, booking, faults, past, account>>
    BY <1>2, ReturnReadTyped
  <2>2. TripTypeOK' /\ Spans'
    BY <1>0, <2>1 DEF account, TripTypeOK, Spans
  <2> QED
    BY <1>0, <2>1, <2>2, WalletUntouched
<1>3. CASE OrderInsert(r) \/ OrderConfirm(r) \/ ExtendWrite(r)
  BY <1>3, OrderProceedTyped
<1>4. CASE HostCancelWrite(r) \/ CancelWrite(r) \/ CancelFind(r)
  BY <1>4, CancelProceedTyped
<1>5. CASE GatewayRefuses(r) \/ \E n \in Refunds, gw \in {"asked", "done"} : GatewayRefund(r, n, gw)
  BY <1>5, GatewayTyped
<1>6. CASE ReturnRecord(r) \/ ReturnStatus(r)
  BY <1>6, RecordTyped
<1> QED
  BY <1>1, <1>2, <1>3, <1>4, <1>5, <1>6 DEF OrderStep, TripProceed

LEMMA NextTyped ==
  ASSUME DInv, AccountNext
  PROVE  DInv'
<1>0. TypeOK /\ TripTypeOK /\ GarageRows /\ Cards!TypeOK /\ Spans /\ Handlers
  BY DEF DInv
<1>1. UNCHANGED garage => GarageRows'
  BY <1>0 DEF garage, GarageRows
<1>2. UNCHANGED methods => Cards!TypeOK'
  BY <1>0 DEF methods, Cards!TypeOK
<1>3. UNCHANGED account => TripTypeOK' /\ Spans'
  BY <1>0 DEF account, TripTypeOK, Spans
<1>4. UNCHANGED <<load, reqs>> => Handlers'
  BY <1>0 DEF Handlers
<1>5. CASE WalletAlone
  BY <1>0, <1>1, <1>2, <1>3, <1>4, <1>5, OutsideTyped DEF WalletAlone, DInv
<1>6. CASE TripAlone
  <2>1. TripTypeOK' /\ Spans' /\ UNCHANGED vars
    BY <1>6, TripAloneTyped DEF TripAlone
  <2>2. TypeOK' /\ Handlers'
    BY <1>0, <1>4, <2>1 DEF vars, TypeOK, wallet
  <2> QED
    BY <1>1, <1>2, <1>6, <2>1, <2>2 DEF TripAlone, DInv
<1>7. ASSUME NEW r \in Requests, WalletStep(r) PROVE DInv'
  <2>1. TypeOK' /\ Moves(r)
    BY <1>7, WalletArriveTyped, WalletProceedTyped DEF WalletStep
  <2> QED
    BY <1>0, <1>1, <1>2, <1>3, <1>7, <2>1, MovesKeep DEF WalletStep, DInv
<1>8. ASSUME NEW r \in Requests, OrderStep(r) PROVE DInv'
  BY <1>0, <1>1, <1>2, <1>8, OrderStepTyped, MovesKeep DEF OrderStep, DInv
<1>9. ASSUME NEW r \in Requests, BookStep(r) PROVE DInv'
  <2>1. TripTypeOK' /\ Spans' /\ UNCHANGED vars
    BY <1>9, BookTyped DEF BookStep
  <2>2. TypeOK' /\ Handlers'
    BY <1>0, <1>4, <2>1 DEF vars, TypeOK, wallet
  <2> QED
    BY <1>1, <1>2, <1>9, <2>1, <2>2 DEF BookStep, DInv
<1>10. ASSUME NEW r \in Requests, GarageStep(r) PROVE DInv'
  <2>1. GarageRows' /\ Moves(r) /\ UNCHANGED <<load, trip>>
    BY <1>10, GarageTyped DEF GarageStep
  <2>2. UNCHANGED <<wallet, topup, split, booking, faults, past, account>>
    BY <1>10, <2>1 DEF GarageStep, account
  <2>3. TypeOK'
    BY <1>0, <2>1, <2>2, WalletUntouched
  <2> QED
    BY <1>0, <1>2, <1>3, <1>10, <2>1, <2>2, <2>3, MovesKeep DEF GarageStep, DInv
<1>11. ASSUME NEW r \in Requests, CardStep(r) PROVE DInv'
  <2>1. Cards!TypeOK' /\ Moves(r) /\ UNCHANGED <<load, faults>>
    BY <1>11, CardsTyped DEF CardStep
  <2>2. TypeOK'
    BY <1>0, <1>11, <2>1, WalletUntouched DEF CardStep
  <2> QED
    BY <1>0, <1>1, <1>3, <1>11, <2>1, <2>2, MovesKeep DEF CardStep, DInv
<1> QED
  BY <1>5, <1>6, <1>7, <1>8, <1>9, <1>10, <1>11, StepIs

LEMMA Typed == AccountSpec => []DInv
<1>1. DInv /\ UNCHANGED allVars => DInv'
  BY DEF allVars, vars, wallet, account, garage, methods, DInv, TypeOK, TripTypeOK, GarageRows, Cards!TypeOK,
         Spans, Handlers
<1>2. DInv /\ [AccountNext]_allVars => DInv'
  BY <1>1, NextTyped
<1> QED
  BY <1>2, InitTyped, PTL DEF AccountSpec, allVars

-----------------------------------------------------------------------------
\* Which component a handler works for.  One that makes a credit works for what it
\* does after the credit.
Due(rec) == IF rec.op \in {"creditRead", "creditWrite"} THEN rec.next ELSE rec

MoneyOps  == TopUpOps \cup SplitOps \cup {"splitInsert", "payWrite", "suspendWrite"}
OrderOps  == {"orderInsert", "orderConfirm", "extendWrite", "cancelWrite", "hostCancelWrite", "cancelFind",
              "returnRead", "gateway", "returnRecord", "returnStatus"}
GarageOps == {"vehicleAdd", "vehicleSet", "vehicleDrop"}
CardOps   == {"methodAdd", "methodDrop", "methodNext", "methodPromote"}

\* A handler of component Ops, at work or starting, goes on for that component.
WorksFor(r, Ops) ==
  /\ Due(reqs[r]).op \in Ops \cup {"idle"}
  /\ Due(reqs'[r]).op \in Ops \cup {"idle"}
  /\ \A q \in Requests \ {r} : reqs'[q] = reqs[q]

LEMMA DueIs ==
  ASSUME NEW rec \in Request
  PROVE  /\ rec.op \in {"creditRead", "creditWrite"} => Due(rec) = rec.next /\ Due(rec).op \in NextOps
         /\ rec.op \notin {"creditRead", "creditWrite"} => Due(rec) = rec
         /\ Due(rec).op \in MoneyOps \cup OrderOps \cup GarageOps \cup CardOps \cup {"idle"}
<1>1. rec.op \in {"creditRead", "creditWrite"} => rec.next \in Later
  BY RequestShape DEF ToCredit, Crediting
<1>2. rec.op \notin {"creditRead", "creditWrite"} =>
        rec.op \in MoneyOps \cup OrderOps \cup GarageOps \cup CardOps \cup {"idle"}
  BY DEF Request, Plain, OnlyOps, TopUpOps, SplitOps, Only, ForTopUps, ForSplits, Paying, Suspending,
         Ordering, ForOrders, Cancelling, Finding, Returning, AtGateway, Recording, Closing, Adding,
         Setting, Dropping, Saving, Deleting, Promoting, ToCredit, Crediting,
         MoneyOps, OrderOps, GarageOps, CardOps
<1> QED
  BY <1>1, <1>2 DEF Due, Later, NextOps, MoneyOps, TopUpOps, SplitOps, OrderOps

LEMMA GoesIdle ==
  ASSUME reqs \in [Requests -> Request], NEW r \in Requests, Goto(r, Idle) \/ Garage!Done(r) \/ Cards!Done(r)
  PROVE  reqs'[r] = Idle /\ Due(reqs'[r]).op = "idle" /\ \A q \in Requests \ {r} : reqs'[q] = reqs[q]
  BY IdleIsRequest DEF Goto, Due, Idle, Garage!Done, Garage!Goto, Garage!Idle, Cards!Done, Cards!Goto, Cards!Idle

LEMMA IdleDue == Due(Idle) = Idle /\ Due(Idle).op = "idle"
  BY DEF Due, Idle

LEMMA GarageWorks ==
  ASSUME DInv, NEW r \in Requests, GarageStep(r)
  PROVE  WorksFor(r, GarageOps)
<1>0. reqs \in [Requests -> Request]
  BY DEF DInv, Handlers
<1>1. ASSUME NEW default \in BOOLEAN, Garage!CreateVehicle(r, default)
      PROVE  WorksFor(r, GarageOps)
  BY <1>0, <1>1, IdleDue DEF Garage!CreateVehicle, Garage!Starts, Garage!Idle, Idle, Garage!Goto, WorksFor, Due, GarageOps
<1>2. ASSUME NEW v \in Garage!Vehicles, Garage!DeleteVehicle(r, v)
      PROVE  WorksFor(r, GarageOps)
  BY <1>0, <1>2, IdleDue DEF Garage!DeleteVehicle, Garage!Starts, Garage!Idle, Idle, Garage!Goto, WorksFor, Due, GarageOps
<1>3. ASSUME NEW v \in Garage!Vehicles, NEW ask \in {"yes", "no", "leave"}, Garage!UpdateVehicle(r, v, ask)
      PROVE  WorksFor(r, GarageOps)
  BY <1>0, <1>3, IdleDue DEF Garage!UpdateVehicle, Garage!Starts, Garage!Idle, Idle, Garage!Goto, WorksFor, Due, GarageOps
<1>4. CASE Garage!VehicleAdd(r) \/ Garage!VehicleSet(r) \/ Garage!VehicleDrop(r)
  <2>1. Garage!Done(r) /\ reqs[r].op \in GarageOps
    BY <1>4 DEF Garage!VehicleAdd, Garage!VehicleSet, Garage!VehicleDrop, Garage!At, GarageOps
  <2> QED
    BY <1>0, <2>1, GoesIdle DEF WorksFor, Due, GarageOps
<1> QED
  BY <1>1, <1>2, <1>3, <1>4 DEF GarageStep

LEMMA CardsWork ==
  ASSUME DInv, NEW r \in Requests, CardStep(r)
  PROVE  WorksFor(r, CardOps)
<1>0. reqs \in [Requests -> Request]
  BY DEF DInv, Handlers
<1>1. ASSUME NEW default \in BOOLEAN, Cards!SavePaymentMethod(r, default)
      PROVE  WorksFor(r, CardOps)
  BY <1>0, <1>1, IdleDue DEF Cards!SavePaymentMethod, Cards!Starts, Cards!Idle, Idle, Cards!Goto, WorksFor, Due, CardOps
<1>2. ASSUME NEW k \in Cards!Methods, Cards!DeletePaymentMethod(r, k)
      PROVE  WorksFor(r, CardOps)
  BY <1>0, <1>2, IdleDue DEF Cards!DeletePaymentMethod, Cards!Starts, Cards!Idle, Idle, Cards!Goto, WorksFor, Due, CardOps
<1>3. CASE Cards!MethodAdd(r) \/ Cards!MethodDrop(r) \/ Cards!MethodNext(r) \/ Cards!MethodPromote(r)
  <2>1. reqs[r].op \in CardOps
    BY <1>3 DEF Cards!MethodAdd, Cards!MethodDrop, Cards!MethodNext, Cards!MethodPromote, Cards!At, CardOps
  <2>2. \/ Cards!Done(r) \/ Cards!Goto(r, [op |-> "methodNext"])
        \/ \E k : Cards!Goto(r, [op |-> "methodPromote", k |-> k])
    BY <1>3 DEF Cards!MethodAdd, Cards!MethodDrop, Cards!MethodNext, Cards!MethodPromote
  <2>3. CASE Cards!Done(r)
    BY <1>0, <2>1, <2>3, GoesIdle DEF WorksFor, Due, CardOps
  <2>4. CASE Cards!Goto(r, [op |-> "methodNext"])
    BY <1>0, <2>1, <2>4 DEF Cards!Goto, WorksFor, Due, CardOps
  <2>5. CASE \E k : Cards!Goto(r, [op |-> "methodPromote", k |-> k])
    BY <1>0, <2>1, <2>5 DEF Cards!Goto, WorksFor, Due, CardOps
  <2> QED
    BY <2>2, <2>3, <2>4, <2>5
<1> QED
  BY <1>1, <1>2, <1>3 DEF CardStep

LEMMA MovesWork ==
  ASSUME reqs \in [Requests -> Request], NEW r \in Requests, NEW Ops, Due(reqs[r]).op \in Ops \cup {"idle"},
         NEW rec, Goto(r, rec), Due(rec).op \in Ops \cup {"idle"}
  PROVE  WorksFor(r, Ops)
  BY DEF Goto, WorksFor

LEMMA OrdersWork ==
  ASSUME DInv, NEW r \in Requests, OrderStep(r)
  PROVE  WorksFor(r, OrderOps)
<1>0. reqs \in [Requests -> Request]
  BY DEF DInv, Handlers
<1>1. ASSUME NEW q, GoCredit(r, q, Idle), Due(reqs[r]).op \in OrderOps \cup {"idle"} PROVE WorksFor(r, OrderOps)
  BY <1>0, <1>1, MovesWork DEF GoCredit, Due, Idle
<1>2. ASSUME NEW q, Credited(r, q), Due(reqs[r]).op \in OrderOps \cup {"idle"} PROVE WorksFor(r, OrderOps)
  BY <1>0, <1>2, MovesWork DEF Credited, GoCredit, Due, OrderOps
<1>3. ASSUME Done(r), Due(reqs[r]).op \in OrderOps \cup {"idle"} PROVE WorksFor(r, OrderOps)
  BY <1>0, <1>3, MovesWork, IdleDue DEF Done
<1>4. ASSUME NEW o, NEW most, NEW to, NEW by, GiveBack(r, o, most, to, by), Due(reqs[r]).op \in OrderOps \cup {"idle"}
      PROVE  WorksFor(r, OrderOps)
  BY <1>0, <1>4, MovesWork DEF GiveBack, Due, OrderOps
<1>5. ASSUME reqs[r] = Idle \/ reqs[r].op \in OrderOps PROVE Due(reqs[r]).op \in OrderOps \cup {"idle"}
  BY <1>5, IdleDue DEF Due, OrderOps
<1>6. ASSUME reqs' = reqs, Due(reqs[r]).op \in OrderOps \cup {"idle"} PROVE WorksFor(r, OrderOps)
  BY <1>6 DEF WorksFor
<1>7. CASE TripArrive(r)
  <2>1. reqs[r] = Idle
    BY <1>7 DEF TripArrive, CreateRazorpayOrder, ExtendBooking, VerifyRazorpayPayment, HookCaptured, HookFailed,
                VerifyExtension, AdminInitiateRefund, HostCancelRead, CancelRead, HookRefund, Starts
  <2>2. CASE \E o \in Orders : HookFailed(r, o)
    BY <1>5, <1>6, <2>1, <2>2 DEF HookFailed, vars
  <2>3. CASE \E n \in Refunds : HookRefund(r, n)
    BY <1>5, <1>6, <2>1, <2>3 DEF HookRefund, vars
  <2>4. CASE CreateRazorpayOrder(r)
    BY <1>0, <1>5, <2>1, <2>4, MovesWork DEF CreateRazorpayOrder, Due, OrderOps
  <2>5. ASSUME NEW hours, ExtendBooking(r, hours) PROVE WorksFor(r, OrderOps)
    BY <1>0, <1>5, <2>1, <2>5, MovesWork DEF ExtendBooking, Due, OrderOps
  <2>6. ASSUME NEW o, VerifyRazorpayPayment(r, o) \/ HookCaptured(r, o) PROVE WorksFor(r, OrderOps)
    BY <1>0, <1>5, <2>1, <2>6, MovesWork DEF VerifyRazorpayPayment, HookCaptured, Due, OrderOps
  <2>7. ASSUME NEW o, VerifyExtension(r, o) PROVE WorksFor(r, OrderOps)
    BY <1>0, <1>5, <2>1, <2>7, MovesWork DEF VerifyExtension, Due, OrderOps
  <2>8. ASSUME NEW o, NEW most, NEW to, AdminInitiateRefund(r, o, most, to) PROVE WorksFor(r, OrderOps)
    BY <1>4, <1>5, <2>1, <2>8 DEF AdminInitiateRefund
  <2>9. CASE HostCancelRead(r)
    BY <1>0, <1>5, <2>1, <2>9, MovesWork DEF HostCancelRead, Due, OrderOps
  <2>10. ASSUME NEW share, CancelRead(r, share) PROVE WorksFor(r, OrderOps)
    BY <1>0, <1>5, <2>1, <2>10, MovesWork DEF CancelRead, Due, OrderOps
  <2> QED
    BY <1>7, <2>2, <2>3, <2>4, <2>5, <2>6, <2>7, <2>8, <2>9, <2>10 DEF TripArrive
<1>8. CASE TripProceed(r)
  <2>1. reqs[r].op \in OrderOps
    BY <1>8 DEF TripProceed, OrderInsert, OrderConfirm, ExtendWrite, HostCancelWrite, CancelWrite, CancelFind,
                ReturnRead, GatewayRefuses, ReturnRecord, ReturnStatus, GatewayRefund, At, OrderOps
  <2>2. CASE OrderInsert(r) \/ ExtendWrite(r)
    BY <1>3, <1>5, <2>1, <2>2 DEF OrderInsert, ExtendWrite
  <2>3. CASE OrderConfirm(r)
    BY <1>3, <1>4, <1>5, <2>1, <2>3 DEF OrderConfirm
  <2>4. CASE HostCancelWrite(r)
    BY <1>0, <1>5, <2>1, <2>4, MovesWork DEF HostCancelWrite, Due, OrderOps
  <2>5. CASE CancelWrite(r)
    <3>1. CASE Done(r)
      BY <1>3, <1>5, <2>1, <3>1
    <3>2. CASE Goto(r, [op |-> "cancelFind", share |-> reqs[r].share, by |-> "driver"])
      BY <1>0, <1>5, <2>1, <3>2, MovesWork DEF Due, OrderOps
    <3> QED
      BY <2>5, <3>1, <3>2 DEF CancelWrite
  <2>6. CASE CancelFind(r)
    BY <1>1, <1>3, <1>4, <1>5, <2>1, <2>6 DEF CancelFind, Compensate
  <2>7. CASE ReturnRead(r)
    <3>1. \/ Done(r) \/ \E q : Credited(r, q)
          \/ \E rec : Goto(r, rec) /\ rec.op \in {"gateway", "returnRecord"}
      BY <2>7 DEF ReturnRead
    <3>2. CASE \E rec : Goto(r, rec) /\ rec.op \in {"gateway", "returnRecord"}
      BY <1>0, <1>5, <2>1, <3>2, MovesWork DEF Due, OrderOps
    <3> QED
      BY <1>2, <1>3, <1>5, <2>1, <3>1, <3>2
  <2>8. CASE GatewayRefuses(r)
    BY <1>2, <1>5, <2>1, <2>8 DEF GatewayRefuses
  <2>9. ASSUME NEW n, NEW gw, GatewayRefund(r, n, gw) PROVE WorksFor(r, OrderOps)
    <3>1. \/ Credited(r, reqs[r])
          \/ \E rec : Goto(r, rec) /\ rec.op = "returnRecord"
      BY <2>9 DEF GatewayRefund
    <3>2. CASE \E rec : Goto(r, rec) /\ rec.op = "returnRecord"
      BY <1>0, <1>5, <2>1, <3>2, MovesWork DEF Due, OrderOps
    <3> QED
      BY <1>2, <1>5, <2>1, <3>1, <3>2
  <2>10. CASE ReturnRecord(r)
    BY <1>0, <1>5, <2>1, <2>10, MovesWork DEF ReturnRecord, Due, OrderOps
  <2>11. CASE ReturnStatus(r)
    BY <1>1, <1>3, <1>5, <2>1, <2>11 DEF ReturnStatus, Compensate
  <2> QED
    BY <1>8, <2>2, <2>3, <2>4, <2>5, <2>6, <2>7, <2>8, <2>9, <2>10, <2>11 DEF TripProceed
<1> QED
  BY <1>7, <1>8 DEF OrderStep

\* A handler of the wallet goes on for the wallet, or for what its credit was made for.
MoneyMoves(r) ==
  /\ \A q \in Requests \ {r} : reqs'[q] = reqs[q]
  /\ Due(reqs'[r]).op \in MoneyOps \cup {"idle"} \/ Due(reqs'[r]) = Due(reqs[r])

LEMMA MoneyGoes ==
  ASSUME reqs \in [Requests -> Request], NEW r \in Requests, NEW rec, Goto(r, rec),
         Due(rec).op \in MoneyOps \cup {"idle"} \/ Due(rec) = Due(reqs[r])
  PROVE  MoneyMoves(r)
  BY DEF Goto, MoneyMoves

LEMMA MoneyWorks ==
  ASSUME DInv, NEW r \in Requests, WalletStep(r)
  PROVE  MoneyMoves(r)
<1>0. reqs \in [Requests -> Request] /\ reqs[r] \in Request
  BY DEF DInv, Handlers
<1>3. ASSUME reqs' = reqs PROVE MoneyMoves(r)
  BY <1>3 DEF MoneyMoves
<1>4. ASSUME Done(r) PROVE MoneyMoves(r)
  BY <1>0, <1>4, IdleDue, MoneyGoes DEF Done
<1>5. ASSUME NEW amount, NEW next, GoCredit(r, amount, next), next.op \in MoneyOps \cup {"idle"} PROVE MoneyMoves(r)
  BY <1>0, <1>5, MoneyGoes DEF GoCredit, Due
<1>6. \A rec : rec.op \in MoneyOps => Due(rec) = rec
  BY DEF Due, MoneyOps, TopUpOps, SplitOps
<1>1. ASSUME NEW rec, Goto(r, rec), rec.op \in MoneyOps PROVE MoneyMoves(r)
  BY <1>0, <1>1, <1>6, MoneyGoes
<1>7. CASE Arrive(r)
  <2>1. ASSUME NEW t, CreateTopUpIntent(r, t) PROVE MoneyMoves(r)
    BY <1>1, <2>1 DEF CreateTopUpIntent, MoneyOps, TopUpOps
  <2>2. ASSUME NEW t, HookTopUp(r, t) \/ ConfirmTopUpStripe(r, t) \/ VerifyTopUpRazorpay(r, t) PROVE MoneyMoves(r)
    BY <1>1, <2>2 DEF HookTopUp, ConfirmTopUpStripe, VerifyTopUpRazorpay, Apply, MoneyOps, TopUpOps
  <2>3. ASSUME NEW s, HookSplit(r, s) PROVE MoneyMoves(r)
    BY <1>1, <2>3 DEF HookSplit, MoneyOps, SplitOps
  <2>4. ASSUME NEW s, ConfirmSplit(r, s) PROVE MoneyMoves(r)
    BY <1>1, <2>4 DEF ConfirmSplit, MoneyOps, SplitOps
  <2>5. ASSUME NEW s, HookDeclined(r, s) PROVE MoneyMoves(r)
    BY <1>3, <2>5 DEF HookDeclined
  <2>6. CASE AdminCredit(r)
    BY <1>5, <2>6, IdleIsRequest DEF AdminCredit
  <2>7. CASE AdminDebit(r) \/ Withdraw(r) \/ WithdrawalPaid(r) \/ WithdrawalFailed(r)
    BY <1>3, <2>7 DEF AdminDebit, Withdraw, WithdrawalPaid, WithdrawalFailed
  <2>8. CASE WalletPaymentRead(r)
    BY <1>1, <2>8 DEF WalletPaymentRead, MoneyOps
  <2>9. CASE SuspendRead(r)
    BY <1>1, <2>9 DEF SuspendRead, MoneyOps
  <2>10. CASE SplitRead(r)
    BY <1>1, <2>10 DEF SplitRead, MoneyOps, SplitOps
  <2> QED
    BY <1>7, <2>1, <2>2, <2>3, <2>4, <2>5, <2>6, <2>7, <2>8, <2>9, <2>10 DEF Arrive
<1>8. CASE Proceed(r)
  <2>1. CASE StoreTopUp(r) \/ ApplyUnmark(r) \/ ApplyDelete(r)
    BY <1>4, <2>1 DEF StoreTopUp, ApplyUnmark, ApplyDelete
  <2>2. CASE ApplyRead(r)
    BY <1>4, <1>1, <2>2 DEF ApplyRead, MoneyOps, TopUpOps
  <2>3. CASE ApplyMark(r)
    BY <1>5, <2>3 DEF ApplyMark, MoneyOps, TopUpOps
  <2>4. CASE CreditRead(r)
    BY <1>0, MoneyGoes, <2>4 DEF CreditRead, Due, At
  <2>5. CASE CreditWrite(r)
    <3>1. reqs[r].op = "creditWrite" /\ reqs[r].next \in Request /\ reqs[r].next.op \in NextOps
      BY <1>0, <2>5, RequestShape DEF CreditWrite, At, Crediting, Later, Request
    <3>2. Due(reqs[r].next) = reqs[r].next /\ Due(reqs[r]) = reqs[r].next
      BY <3>1 DEF Due, NextOps
    <3> QED
      BY <1>0, MoneyGoes, <2>5, <3>2 DEF CreditWrite
  <2>6. CASE CreditFails(r)
    BY <1>4, <1>1, <2>6 DEF CreditFails, MoneyOps, TopUpOps
  <2>7. CASE WalletPaymentWrite(r) \/ SplitInsert(r) \/ SplitNoRoom(r) \/ SplitConfirmFails(r) \/ RefundStatus(r) \/ Crash(r)
    BY <1>4, <2>7 DEF WalletPaymentWrite, SplitInsert, SplitNoRoom, SplitConfirmFails, RefundStatus, Crash
  <2>8. CASE SuspendWrite(r)
    BY <1>5, <2>8, IdleIsRequest DEF SuspendWrite
  <2>9. CASE SplitDebit(r)
    BY <1>4, <1>1, <2>9 DEF SplitDebit, MoneyOps, SplitOps
  <2>10. CASE SplitConfirm(r)
    BY <1>4, <1>1, <2>10 DEF SplitConfirm, MoneyOps, SplitOps
  <2>11. CASE RefundRead(r)
    BY <1>4, <1>5, <2>11 DEF RefundRead, MoneyOps, SplitOps
  <2>12. CASE RefundRecord(r)
    BY <1>1, <2>12 DEF RefundRecord, MoneyOps, SplitOps
  <2> QED
    BY <1>8, <2>1, <2>2, <2>3, <2>4, <2>5, <2>6, <2>7, <2>8, <2>9, <2>10, <2>11, <2>12 DEF Proceed
<1> QED
  BY <1>7, <1>8 DEF WalletStep

\* A step that is not one of Ops' component brings no handler of it anywhere.
Elsewhere(Ops) == \A q \in Requests : Due(reqs'[q]).op \in Ops => Due(reqs'[q]) = Due(reqs[q])

LEMMA StepElsewhere ==
  ASSUME DInv, NEW r \in Requests
  PROVE  /\ WalletStep(r) => Elsewhere(OrderOps) /\ Elsewhere(GarageOps) /\ Elsewhere(CardOps)
         /\ OrderStep(r)  => Elsewhere(MoneyOps) /\ Elsewhere(GarageOps) /\ Elsewhere(CardOps)
         /\ GarageStep(r) => Elsewhere(MoneyOps) /\ Elsewhere(OrderOps) /\ Elsewhere(CardOps)
         /\ CardStep(r)   => Elsewhere(MoneyOps) /\ Elsewhere(OrderOps) /\ Elsewhere(GarageOps)
<1>1. WalletStep(r) => Elsewhere(OrderOps) /\ Elsewhere(GarageOps) /\ Elsewhere(CardOps)
  <2>1. /\ MoneyOps \cap OrderOps = {} /\ MoneyOps \cap GarageOps = {} /\ MoneyOps \cap CardOps = {}
        /\ "idle" \notin OrderOps \cup GarageOps \cup CardOps
    BY DEF MoneyOps, TopUpOps, SplitOps, OrderOps, GarageOps, CardOps
  <2> QED
    BY <2>1, MoneyWorks DEF MoneyMoves, Elsewhere
<1>2. ASSUME NEW Ops, NEW Others, WorksFor(r, Ops), Ops \cap Others = {}, "idle" \notin Others
      PROVE  Elsewhere(Others)
  BY <1>2 DEF WorksFor, Elsewhere
<1>3. OrderStep(r) => Elsewhere(MoneyOps) /\ Elsewhere(GarageOps) /\ Elsewhere(CardOps)
  <2>1. /\ OrderOps \cap MoneyOps = {} /\ OrderOps \cap GarageOps = {} /\ OrderOps \cap CardOps = {}
        /\ "idle" \notin MoneyOps /\ "idle" \notin GarageOps /\ "idle" \notin CardOps
    BY DEF MoneyOps, TopUpOps, SplitOps, OrderOps, GarageOps, CardOps
  <2> QED
    BY <1>2, <2>1, OrdersWork
<1>4. GarageStep(r) => Elsewhere(MoneyOps) /\ Elsewhere(OrderOps) /\ Elsewhere(CardOps)
  <2>1. /\ GarageOps \cap MoneyOps = {} /\ GarageOps \cap OrderOps = {} /\ GarageOps \cap CardOps = {}
        /\ "idle" \notin MoneyOps /\ "idle" \notin OrderOps /\ "idle" \notin CardOps
    BY DEF MoneyOps, TopUpOps, SplitOps, OrderOps, GarageOps, CardOps
  <2> QED
    BY <1>2, <2>1, GarageWorks
<1>5. CardStep(r) => Elsewhere(MoneyOps) /\ Elsewhere(OrderOps) /\ Elsewhere(GarageOps)
  <2>1. /\ CardOps \cap MoneyOps = {} /\ CardOps \cap OrderOps = {} /\ CardOps \cap GarageOps = {}
        /\ "idle" \notin MoneyOps /\ "idle" \notin OrderOps /\ "idle" \notin GarageOps
    BY DEF MoneyOps, TopUpOps, SplitOps, OrderOps, GarageOps, CardOps
  <2> QED
    BY <1>2, <2>1, CardsWork
<1> QED
  BY <1>1, <1>3, <1>4, <1>5

LEMMA NobodyMoves == ASSUME UNCHANGED reqs, NEW Ops PROVE Elsewhere(Ops)
  BY DEF Elsewhere

-----------------------------------------------------------------------------
\* The vehicle of the trip.

\* What the three statements do to the sets of vehicles.
LEMMA VehicleEffect ==
  ASSUME DInv, NEW r \in Requests
  PROVE  /\ Garage!VehicleAdd(r) =>
              \/ UNCHANGED vehicle
              \/ \E v \in Garage!Vehicles \ Garage!Owned :
                   /\ Garage!Owned' = Garage!Owned \cup {v}
                   /\ Garage!Defaults' = (Garage!Defaults \ reqs[r].clear)
                                         \cup (IF reqs[r].default THEN {v} ELSE {})
         /\ Garage!VehicleSet(r) =>
              IF reqs[r].v \notin Garage!Owned THEN UNCHANGED garage
              ELSE /\ Garage!Owned' = Garage!Owned
                   /\ unset' = (unset \/ reqs[r].ask = "no")
                   /\ reqs[r].ask = "yes" => Garage!Defaults' = (Garage!Defaults \ reqs[r].clear) \cup {reqs[r].v}
                   /\ reqs[r].ask = "no" => Garage!Defaults' = (Garage!Defaults \ reqs[r].clear) \ {reqs[r].v}
                   /\ reqs[r].ask = "leave" => Garage!Defaults' = Garage!Defaults \ reqs[r].clear
         /\ Garage!VehicleDrop(r) =>
              IF reqs[r].v \notin Garage!Owned \/ Garage!Named(reqs[r].v) THEN UNCHANGED vehicle
              ELSE /\ Garage!Owned' = Garage!Owned \ {reqs[r].v}
                   /\ Garage!Defaults' = (Garage!Defaults \ {reqs[r].v})
                        \cup (IF reqs[r].default THEN Garage!First(Garage!Owned \ {reqs[r].v}) ELSE {})
<1>0. vehicle \in [Garage!Vehicles -> DefaultRow] /\ reqs[r] \in Request
  BY DEF DInv, GarageRows, Handlers
<1>1. ASSUME NEW S, NEW v \in Garage!Vehicles
      PROVE  /\ Garage!Without(S)[v].row = vehicle[v].row
             /\ Garage!Without(S)[v].default = (vehicle[v].default /\ v \notin S)
             /\ Garage!Without(S)[v] \in DefaultRow
  <2>1. vehicle[v] \in DefaultRow
    BY <1>0
  <2>2. CASE v \in S
    BY <2>1, <2>2 DEF Garage!Without, DefaultRow
  <2>3. CASE v \notin S
    <3>1. Garage!Without(S)[v] = vehicle[v]
      BY <2>3 DEF Garage!Without
    <3>2. vehicle[v].default = (vehicle[v].default /\ v \notin S)
      BY <2>1, <2>3 DEF DefaultRow
    <3> QED
      BY <2>1, <3>1, <3>2
  <2> QED
    BY <2>2, <2>3
<1>2. ASSUME Garage!VehicleAdd(r), ~ UNCHANGED vehicle
      PROVE  \E v \in Garage!Vehicles \ Garage!Owned :
                   /\ Garage!Owned' = Garage!Owned \cup {v}
                   /\ Garage!Defaults' = (Garage!Defaults \ reqs[r].clear)
                                         \cup (IF reqs[r].default THEN {v} ELSE {})
  <2>1. PICK v \in Garage!First({w \in Garage!Vehicles : vehicle[w].row = "none"}) :
          vehicle' = [Garage!Without(reqs[r].clear) EXCEPT ![v] = [row |-> "live", default |-> reqs[r].default]]
    BY <1>2 DEF Garage!VehicleAdd
  <2>2. v \in Garage!Vehicles \ Garage!Owned
    BY <2>1 DEF Garage!First, Garage!Owned
  <2>3. /\ vehicle'[v] = [row |-> "live", default |-> reqs[r].default]
        /\ \A w \in Garage!Vehicles \ {v} : vehicle'[w] = Garage!Without(reqs[r].clear)[w]
    BY <2>1, <2>2 DEF Garage!Without
  <2>4. Garage!Owned' = Garage!Owned \cup {v}
    BY <1>1, <2>2, <2>3 DEF Garage!Owned
  <2>5. \A w \in Garage!Vehicles \ {v} : w \in Garage!Defaults' <=> w \in Garage!Defaults \ reqs[r].clear
    BY <1>1, <2>3, <2>4 DEF Garage!Owned, Garage!Defaults
  <2>6. v \in Garage!Defaults' <=> reqs[r].default
    BY <2>2, <2>3, <2>4 DEF Garage!Defaults
  <2>7. v \notin Garage!Defaults /\ Garage!Defaults \subseteq Garage!Vehicles /\ Garage!Defaults' \subseteq Garage!Vehicles
    BY <2>2 DEF Garage!Defaults, Garage!Owned
  <2>8. Garage!Defaults' = (Garage!Defaults \ reqs[r].clear) \cup (IF reqs[r].default THEN {v} ELSE {})
    BY <2>2, <2>5, <2>6, <2>7
  <2> QED
    BY <2>2, <2>4, <2>8
<1>3. ASSUME Garage!VehicleSet(r), reqs[r].v \in Garage!Owned
      PROVE  /\ Garage!Owned' = Garage!Owned
             /\ unset' = (unset \/ reqs[r].ask = "no")
             /\ reqs[r].ask = "yes" => Garage!Defaults' = (Garage!Defaults \ reqs[r].clear) \cup {reqs[r].v}
             /\ reqs[r].ask = "no" => Garage!Defaults' = (Garage!Defaults \ reqs[r].clear) \ {reqs[r].v}
             /\ reqs[r].ask = "leave" => Garage!Defaults' = Garage!Defaults \ reqs[r].clear
  <2> DEFINE W == Garage!Without(reqs[r].clear)
  <2>1. PICK v : v = reqs[r].v
    OBVIOUS
  <2>2. v \in Garage!Vehicles /\ vehicle[v].row = "live"
    BY <1>3, <2>1 DEF Garage!Owned
  <2>3. /\ vehicle' = [W EXCEPT ![v].default = IF reqs[r].ask = "leave" THEN @ ELSE reqs[r].ask = "yes"]
        /\ unset' = (unset \/ reqs[r].ask = "no")
    BY <1>3, <2>1 DEF Garage!VehicleSet
  <2>4. W \in [Garage!Vehicles -> DefaultRow]
    BY WithoutTyped DEF DInv
  <2>5. /\ vehicle'[v] = [W[v] EXCEPT !.default = IF reqs[r].ask = "leave" THEN W[v].default ELSE reqs[r].ask = "yes"]
        /\ \A w \in Garage!Vehicles \ {v} : vehicle'[w] = W[w]
    <3> HIDE DEF W
    <3> QED
      BY <2>2, <2>3, <2>4
  <2>6. /\ vehicle'[v].row = W[v].row
        /\ vehicle'[v].default = IF reqs[r].ask = "leave" THEN W[v].default ELSE reqs[r].ask = "yes"
    <3>1. W[v] \in DefaultRow
      BY <2>2, <2>4
    <3> HIDE DEF W
    <3> QED
      BY <2>5, <3>1 DEF DefaultRow
  <2>7. Garage!Owned' = Garage!Owned
    <3>1. \A w \in Garage!Vehicles : vehicle'[w].row = vehicle[w].row
      <4> TAKE w \in Garage!Vehicles
      <4>1. W[w].row = vehicle[w].row
        BY <1>1
      <4> HIDE DEF W
      <4> QED
        BY <2>5, <2>6, <4>1
    <3> QED
      BY <3>1 DEF Garage!Owned
  <2>8. \A w \in Garage!Vehicles \ {v} : w \in Garage!Defaults' <=> w \in Garage!Defaults \ reqs[r].clear
    BY <1>1, <2>5, <2>7 DEF Garage!Defaults
  <2>9. v \in Garage!Defaults' <=> IF reqs[r].ask = "leave" THEN v \in Garage!Defaults \ reqs[r].clear ELSE reqs[r].ask = "yes"
    BY <1>1, <1>3, <2>1, <2>2, <2>6, <2>7 DEF Garage!Defaults
  <2>10. Garage!Defaults \subseteq Garage!Vehicles /\ Garage!Defaults' \subseteq Garage!Vehicles
    BY DEF Garage!Defaults, Garage!Owned
  <2> HIDE DEF W
  <2> QED
    BY <2>1, <2>2, <2>3, <2>7, <2>8, <2>9, <2>10
<1>4. ASSUME Garage!VehicleDrop(r), ~(reqs[r].v \notin Garage!Owned \/ Garage!Named(reqs[r].v))
      PROVE  /\ Garage!Owned' = Garage!Owned \ {reqs[r].v}
             /\ Garage!Defaults' = (Garage!Defaults \ {reqs[r].v})
                  \cup (IF reqs[r].default THEN Garage!First(Garage!Owned \ {reqs[r].v}) ELSE {})
  <2>1. PICK v : v = reqs[r].v
    OBVIOUS
  <2>2. PICK F : F = IF reqs[r].default THEN Garage!First(Garage!Owned \ {v}) ELSE {}
    OBVIOUS
  <2>3. v \in Garage!Owned /\ F \subseteq Garage!Owned \ {v}
    BY <1>4, <2>1, <2>2 DEF Garage!First
  <2>4. vehicle' = [w \in Garage!Vehicles |->
                 CASE w = v -> [row |-> "deleted", default |-> FALSE]
                   [] w # v /\ reqs[r].default /\ w \in Garage!First(Garage!Owned \ {v})
                        -> [vehicle[w] EXCEPT !.default = TRUE]
                   [] OTHER -> vehicle[w]]
    BY <1>4, <2>1 DEF Garage!VehicleDrop
  <2>5. \A w \in Garage!Vehicles : vehicle'[w] = IF w = v THEN [row |-> "deleted", default |-> FALSE]
                                                ELSE IF w \in F THEN [vehicle[w] EXCEPT !.default = TRUE] ELSE vehicle[w]
    BY <2>2, <2>3, <2>4
  <2>6. \A w \in Garage!Vehicles : vehicle'[w].row = IF w = v THEN "deleted" ELSE vehicle[w].row
    <3> TAKE w \in Garage!Vehicles
    <3>1. vehicle[w] \in DefaultRow
      BY <1>0
    <3>2. vehicle'[w] = IF w = v THEN [row |-> "deleted", default |-> FALSE]
                        ELSE IF w \in F THEN [vehicle[w] EXCEPT !.default = TRUE] ELSE vehicle[w]
      BY <2>5
    <3> QED
      BY <3>1, <3>2 DEF DefaultRow
  <2>7. \A w \in Garage!Vehicles : vehicle'[w].default <=> w # v /\ (w \in F \/ vehicle[w].default)
    <3> TAKE w \in Garage!Vehicles
    <3>1. vehicle[w] \in DefaultRow
      BY <1>0
    <3>2. vehicle'[w] = IF w = v THEN [row |-> "deleted", default |-> FALSE]
                        ELSE IF w \in F THEN [vehicle[w] EXCEPT !.default = TRUE] ELSE vehicle[w]
      BY <2>5
    <3> QED
      BY <3>1, <3>2 DEF DefaultRow
  <2>8. Garage!Owned' = Garage!Owned \ {v}
    BY <2>6 DEF Garage!Owned
  <2>9. Garage!Defaults' = (Garage!Defaults \ {v}) \cup F
    BY <2>3, <2>7, <2>8 DEF Garage!Defaults, Garage!Owned
  <2> QED
    BY <2>1, <2>2, <2>8, <2>9
<1>5. Garage!VehicleSet(r) /\ reqs[r].v \notin Garage!Owned => UNCHANGED garage
  BY DEF Garage!VehicleSet, Garage!garage, garage
<1>6. Garage!VehicleDrop(r) /\ (reqs[r].v \notin Garage!Owned \/ Garage!Named(reqs[r].v)) => UNCHANGED vehicle
  BY DEF Garage!VehicleDrop
<1> QED
  BY <1>2, <1>3, <1>4, <1>5, <1>6

\* A trip that was booked keeps its vehicle, and the host cancels only one that was.
VehicleKept == trip.st # "none" => trip.vehicle \in Garage!Owned
HostKnows   == \A r \in Requests : Due(reqs[r]).op = "hostCancelWrite" => trip.st # "none"

\* Where a handler of the trip goes.
LEMMA OrderGoes ==
  ASSUME NEW r \in Requests
  PROVE  /\ TripArrive(r) =>
              \/ reqs' = reqs
              \/ \E rec : /\ Goto(r, rec)
                          /\ rec.op \in {"orderInsert", "orderConfirm", "extendWrite", "returnRead", "cancelWrite",
                                        "hostCancelWrite"}
                          /\ (rec.op = "hostCancelWrite" => HostCancelRead(r))
                          /\ (rec.op = "cancelWrite" => "cancelTrip" \in load.ops)
                          /\ (rec.op = "returnRead" => "refund" \in load.ops)
         /\ TripProceed(r) =>
              \E rec : /\ Goto(r, rec)
                       /\ rec.op \in {"idle", "creditRead", "cancelFind", "returnRead", "gateway", "returnRecord",
                                     "returnStatus"}
                       /\ (rec.op = "creditRead" => rec.next.op \in {"idle", "returnRecord"})
<1>1. ASSUME TripArrive(r)
      PROVE  \/ reqs' = reqs
             \/ \E rec : /\ Goto(r, rec)
                         /\ rec.op \in {"orderInsert", "orderConfirm", "extendWrite", "returnRead", "cancelWrite",
                                       "hostCancelWrite"}
                         /\ (rec.op = "hostCancelWrite" => HostCancelRead(r))
                         /\ (rec.op = "cancelWrite" => "cancelTrip" \in load.ops)
                         /\ (rec.op = "returnRead" => "refund" \in load.ops)
  <2>1. CASE \/ \E o \in Orders : HookFailed(r, o)
             \/ \E n \in Refunds : HookRefund(r, n)
    BY <2>1 DEF HookFailed, HookRefund, vars
  <2>2. CASE CreateRazorpayOrder(r)
    <3>1. PICK rec : rec = [op |-> "orderInsert", ext |-> FALSE, from |-> 0, upto |-> trip.total]
      OBVIOUS
    <3>2. Goto(r, rec) /\ rec.op = "orderInsert"
      BY <2>2, <3>1 DEF CreateRazorpayOrder
    <3> QED
      BY <3>2
  <2>3. CASE \E hours \in 1..MaxHours : ExtendBooking(r, hours)
    <3>1. PICK hours : ExtendBooking(r, hours)
      BY <2>3
    <3>2. PICK rec : rec = [op |-> "orderInsert", ext |-> TRUE, from |-> trip.end, upto |-> trip.end + hours]
      OBVIOUS
    <3>3. Goto(r, rec) /\ rec.op = "orderInsert"
      BY <3>1, <3>2 DEF ExtendBooking
    <3> QED
      BY <3>3
  <2>4. CASE \E o \in Orders : VerifyRazorpayPayment(r, o) \/ HookCaptured(r, o) \/ VerifyExtension(r, o)
    BY <2>4 DEF VerifyRazorpayPayment, HookCaptured, VerifyExtension
  <2>5. CASE \E o \in Orders, most \in 1..MaxHours, to \in {"wallet", "original"} : AdminInitiateRefund(r, o, most, to)
    BY <2>5 DEF AdminInitiateRefund, GiveBack, Starts
  <2>6. CASE \E share \in 0..MaxHours : CancelRead(r, share)
    BY <2>6 DEF CancelRead, Starts
  <2>7. CASE HostCancelRead(r)
    BY <2>7 DEF HostCancelRead
  <2> QED
    BY <1>1, <2>1, <2>2, <2>3, <2>4, <2>5, <2>6, <2>7 DEF TripArrive
<1> DEFINE Goes == \E rec : /\ Goto(r, rec)
                            /\ rec.op \in {"idle", "creditRead", "cancelFind", "returnRead", "gateway",
                                           "returnRecord", "returnStatus"}
                            /\ (rec.op = "creditRead" => rec.next.op \in {"idle", "returnRecord"})
<1>2. ASSUME TripProceed(r) PROVE Goes
  <2>1. ASSUME Done(r) PROVE Goes
    BY <2>1, IdleIsRequest DEF Done
  <2>2. ASSUME NEW q, GoCredit(r, q, Idle) PROVE Goes
    BY <2>2, IdleIsRequest DEF GoCredit
  <2>3. ASSUME NEW q, Credited(r, q) PROVE Goes
    BY <2>3 DEF Credited, GoCredit
  <2>4. ASSUME NEW o, NEW most, NEW to, NEW by, GiveBack(r, o, most, to, by) PROVE Goes
    BY <2>4 DEF GiveBack
  <2>5. CASE HostCancelWrite(r)
    BY <2>5 DEF HostCancelWrite
  <2>6. CASE OrderInsert(r) \/ ExtendWrite(r)
    BY <2>1, <2>6 DEF OrderInsert, ExtendWrite
  <2>7. CASE OrderConfirm(r)
    BY <2>1, <2>4, <2>7 DEF OrderConfirm
  <2>8. CASE CancelWrite(r)
    BY <2>1, <2>8 DEF CancelWrite
  <2>9. CASE CancelFind(r)
    BY <2>1, <2>2, <2>4, <2>9 DEF CancelFind, Compensate
  <2>10. CASE ReturnRead(r)
    <3>1. \/ Done(r) \/ \E q : Credited(r, q)
          \/ \E rec : Goto(r, rec) /\ rec.op \in {"gateway", "returnRecord"}
      BY <2>10 DEF ReturnRead
    <3> QED
      BY <2>1, <2>3, <3>1
  <2>11. CASE GatewayRefuses(r)
    BY <2>3, <2>11 DEF GatewayRefuses
  <2>12. ASSUME NEW n, NEW gw, GatewayRefund(r, n, gw) PROVE Goes
    <3>1. \/ Credited(r, reqs[r])
          \/ \E rec : Goto(r, rec) /\ rec.op = "returnRecord"
      BY <2>12 DEF GatewayRefund
    <3> QED
      BY <2>3, <3>1
  <2>13. CASE ReturnRecord(r)
    BY <2>13 DEF ReturnRecord
  <2>14. CASE ReturnStatus(r)
    BY <2>1, <2>2, <2>14 DEF ReturnStatus, Compensate
  <2> QED
    BY <1>2, <2>5, <2>6, <2>7, <2>8, <2>9, <2>10, <2>11, <2>12, <2>13, <2>14 DEF TripProceed
<1> QED
  BY <1>1, <1>2

LEMMA TripGoesOn ==
  ASSUME DInv, HostKnows, NEW r \in Requests, OrderStep(r)
  PROVE  trip'.vehicle = trip.vehicle /\ (trip'.st # "none" <=> trip.st # "none") /\ HostKnows'
<1>0. /\ trip \in [st : {"none", "pending", "confirmed", "active", "completed", "cancelled"},
                   vehicle : Nat, end : Nat, total : Nat, earning : Nat]
      /\ reqs \in [Requests -> Request] /\ WorksFor(r, OrderOps)
  BY OrdersWork DEF DInv, TripTypeOK, Handlers
<1>1. ASSUME trip'.vehicle = trip.vehicle, trip'.st # "none" <=> trip.st # "none",
             Due(reqs'[r]).op = "hostCancelWrite" => trip.st # "none"
      PROVE  trip'.vehicle = trip.vehicle /\ (trip'.st # "none" <=> trip.st # "none") /\ HostKnows'
  BY <1>0, <1>1 DEF HostKnows, WorksFor
<1>2. CASE HostCancelRead(r)
  <2>1. trip.st # "none" /\ UNCHANGED trip
    BY <1>2 DEF HostCancelRead, account
  <2> QED
    BY <1>1, <2>1
<1>3. CASE HostCancelWrite(r)
  <2>1. trip.st # "none" /\ trip' = [trip EXCEPT !.st = "cancelled"]
    BY <1>3 DEF HostCancelWrite, HostKnows, At, Due
  <2>2. trip'.vehicle = trip.vehicle /\ trip'.st # "none"
    BY <1>0, <2>1
  <2> QED
    BY <1>1, <2>1, <2>2
<1>4. ASSUME Due(reqs'[r]).op # "hostCancelWrite" \/ reqs'[r] = reqs[r], UNCHANGED trip
      PROVE  trip'.vehicle = trip.vehicle /\ (trip'.st # "none" <=> trip.st # "none") /\ HostKnows'
  BY <1>1, <1>4 DEF HostKnows
<1>5. CASE TripArrive(r) /\ ~ HostCancelRead(r)
  <2>1. UNCHANGED trip
    BY <1>5 DEF TripArrive, CreateRazorpayOrder, ExtendBooking, VerifyRazorpayPayment, HookCaptured, HookFailed,
                VerifyExtension, AdminInitiateRefund, CancelRead, HookRefund, account
  <2>3. Due(reqs'[r]).op # "hostCancelWrite" \/ reqs'[r] = reqs[r]
    BY <1>0, <1>5, OrderGoes DEF Goto, Due
  <2> QED
    BY <1>4, <2>1, <2>3
<1>6. CASE TripProceed(r) /\ ~ HostCancelWrite(r)
  <2>2. Due(reqs'[r]).op # "hostCancelWrite"
    BY <1>0, <1>6, OrderGoes DEF Goto, Due
  <2>3. CASE UNCHANGED trip
    BY <1>4, <2>2, <2>3
  <2>4. CASE CancelWrite(r) /\ ~ UNCHANGED trip
    <3>1. trip' = [trip EXCEPT !.st = "cancelled"] /\ trip.st \in Cancellable
      BY <2>4 DEF CancelWrite
    <3>2. trip'.vehicle = trip.vehicle /\ trip'.st # "none" /\ trip.st # "none"
      BY <1>0, <3>1 DEF Cancellable
    <3> QED
      BY <1>1, <2>2, <3>2
  <2>5. CASE OrderConfirm(r) /\ ~ UNCHANGED trip
    <3>1. PICK e : trip' = [trip EXCEPT !.st = IF @ = "pending" THEN "confirmed" ELSE @, !.earning = e]
      BY <2>5 DEF OrderConfirm
    <3>2. trip'.vehicle = trip.vehicle /\ (trip'.st # "none" <=> trip.st # "none")
      BY <1>0, <3>1
    <3> QED
      BY <1>1, <2>2, <3>2
  <2>6. CASE ExtendWrite(r)
    <3>1. PICK e, t, m : trip' = [trip EXCEPT !.end = e, !.total = t, !.earning = m]
      BY <2>6 DEF ExtendWrite
    <3>2. trip'.vehicle = trip.vehicle /\ (trip'.st # "none" <=> trip.st # "none")
      BY <1>0, <3>1
    <3> QED
      BY <1>1, <2>2, <3>2
  <2>7. OrderInsert(r) \/ CancelFind(r) \/ ReturnRead(r) \/ GatewayRefuses(r) \/ ReturnRecord(r) \/ ReturnStatus(r)
        \/ (\E n, gw : GatewayRefund(r, n, gw)) => UNCHANGED trip
    BY DEF OrderInsert, CancelFind, ReturnRead, GatewayRefuses, ReturnRecord, ReturnStatus, GatewayRefund, account
  <2> QED
    BY <1>6, <2>3, <2>4, <2>5, <2>6, <2>7 DEF TripProceed
<1> QED
  BY <1>2, <1>3, <1>5, <1>6 DEF OrderStep

LEMMA KeptInvariant ==
  ASSUME DInv, VehicleKept, HostKnows, AccountNext
  PROVE  VehicleKept' /\ HostKnows'
<1>1. CASE WalletAlone
  <2>1. UNCHANGED <<trip, vehicle, reqs>>
    BY <1>1 DEF WalletAlone, Outside, TopUpPaid, TopUpExpires, CardCaptured, CardDeclined, CancelBooking, account, garage
  <2> QED
    BY <2>1 DEF VehicleKept, HostKnows, Garage!Owned
<1>2. CASE TripAlone
  <2>1. UNCHANGED <<vehicle, reqs>> /\ trip'.vehicle = trip.vehicle /\ (trip'.st # "none" <=> trip.st # "none")
    BY <1>2 DEF TripAlone, OrderPaid, OrderDeclined, TripStarts, TripEnds, vars, garage, DInv, TripTypeOK
  <2> QED
    BY <2>1 DEF VehicleKept, HostKnows, Garage!Owned
<1>3. ASSUME NEW r \in Requests, WalletStep(r) PROVE VehicleKept' /\ HostKnows'
  <2>1. UNCHANGED <<trip, vehicle>> /\ Elsewhere(OrderOps)
    BY <1>3, StepElsewhere DEF WalletStep, account, garage
  <2> QED
    BY <2>1 DEF VehicleKept, HostKnows, Garage!Owned, Elsewhere, OrderOps
<1>4. ASSUME NEW r \in Requests, OrderStep(r) PROVE VehicleKept' /\ HostKnows'
  <2>1. UNCHANGED vehicle
    BY <1>4 DEF OrderStep, garage
  <2> QED
    BY <1>4, <2>1, TripGoesOn DEF VehicleKept, Garage!Owned
<1>5. ASSUME NEW r \in Requests, BookStep(r) PROVE VehicleKept' /\ HostKnows'
  <2>1. PICK v \in Garage!Owned : BookTrip(r, v) /\ UNCHANGED vehicle
    BY <1>5 DEF BookStep, garage
  <2>2. trip'.vehicle = v /\ trip'.st = "pending" /\ UNCHANGED reqs
    BY <2>1 DEF BookTrip, NoTrip, vars
  <2> QED
    BY <2>1, <2>2 DEF VehicleKept, HostKnows, Garage!Owned
<1>6. ASSUME NEW r \in Requests, GarageStep(r) PROVE VehicleKept' /\ HostKnows'
  <2>1. UNCHANGED trip /\ Elsewhere(OrderOps)
    BY <1>6, GarageTyped, StepElsewhere DEF GarageStep
  <2>2. CASE Garage!VehicleAdd(r)
    <3>1. Garage!Owned \subseteq Garage!Owned'
      BY <2>2, VehicleEffect DEF Garage!Owned
    <3> QED
      BY <2>1, <3>1 DEF VehicleKept, HostKnows, Elsewhere, OrderOps
  <2>3. CASE Garage!VehicleSet(r)
    <3>1. Garage!Owned' = Garage!Owned
      BY <2>3, VehicleEffect DEF garage, Garage!Owned
    <3> QED
      BY <2>1, <3>1 DEF VehicleKept, HostKnows, Elsewhere, OrderOps
  <2>4. CASE Garage!VehicleDrop(r)
    <3>1. \A v \in Garage!Owned : Garage!Named(v) => v \in Garage!Owned'
      BY <2>4, VehicleEffect DEF Garage!Owned
    <3> QED
      BY <2>1, <3>1 DEF VehicleKept, HostKnows, Elsewhere, OrderOps, Garage!Named
  <2>5. CASE UNCHANGED vehicle
    BY <2>1, <2>5 DEF VehicleKept, HostKnows, Garage!Owned, Elsewhere, OrderOps
  <2> QED
    BY <1>6, <2>2, <2>3, <2>4, <2>5 DEF GarageStep, Garage!CreateVehicle, Garage!DeleteVehicle, Garage!UpdateVehicle,
                                        Garage!garage
<1>7. ASSUME NEW r \in Requests, CardStep(r) PROVE VehicleKept' /\ HostKnows'
  <2>1. UNCHANGED <<trip, vehicle>> /\ Elsewhere(OrderOps)
    BY <1>7, StepElsewhere DEF CardStep, account, garage
  <2> QED
    BY <2>1 DEF VehicleKept, HostKnows, Garage!Owned, Elsewhere, OrderOps
<1> QED
  BY <1>1, <1>2, <1>3, <1>4, <1>5, <1>6, <1>7, StepIs

\* Every row and every handler is well typed; and the vehicle that a trip was booked with is
\* there, however deleting it and booking with it interleave (deleteVehicle, createBooking).
THEOREM TypeCorrect == AccountSpec => []AccountTypeOK
<1>1. AccountInit => VehicleKept /\ HostKnows
  BY IdleDue DEF AccountInit, Init, TripInit, NoTrip, VehicleKept, HostKnows
<1>2. DInv /\ VehicleKept /\ HostKnows /\ [AccountNext]_allVars => (VehicleKept /\ HostKnows)'
  BY KeptInvariant DEF allVars, vars, account, garage, VehicleKept, HostKnows, Garage!Owned
<1>3. DInv /\ VehicleKept => AccountTypeOK
  BY DEF DInv, GarageRows, DefaultRow, VehicleKept, AccountTypeOK, Garage!TypeOK
<1> QED
  BY <1>1, <1>2, <1>3, Typed, PTL DEF AccountSpec, allVars

-----------------------------------------------------------------------------
\* What the steps of handler r leave alone, whatever they are.
LEMMA OrderLeaves ==
  ASSUME NEW r \in Requests, OrderStep(r)
  PROVE  UNCHANGED <<load, wallet, topup, split, booking, past, garage, methods>>
<1>1. CASE TripArrive(r)
  BY <1>1 DEF OrderStep, TripArrive, CreateRazorpayOrder, ExtendBooking, VerifyRazorpayPayment, HookCaptured,
              HookFailed, VerifyExtension, AdminInitiateRefund, HostCancelRead, CancelRead, HookRefund, vars
<1>2. CASE TripProceed(r)
  BY <1>2 DEF OrderStep, TripProceed, OrderInsert, OrderConfirm, ExtendWrite, HostCancelWrite, CancelWrite,
              CancelFind, ReturnRead, GatewayRefuses, ReturnRecord, ReturnStatus, GatewayRefund
<1> QED
  BY <1>1, <1>2 DEF OrderStep

LEMMA BookLeaves ==
  ASSUME NEW r \in Requests, BookStep(r)
  PROVE  UNCHANGED <<load, wallet, topup, split, booking, reqs, faults, past, order, refund, applied, garage, methods>>
         /\ r \in load.crew /\ reqs[r] = Idle /\ trip.st = "none"
  BY DEF BookStep, BookTrip, vars, Starts

HandlerStep(r) == WalletStep(r) \/ OrderStep(r) \/ BookStep(r) \/ GarageStep(r) \/ CardStep(r)

LEMMA HandlerSteps ==
  ASSUME DInv, NEW r \in Requests, HandlerStep(r)
  PROVE  UNCHANGED load /\ r \in load.crew /\ \A q \in Requests \ {r} : reqs'[q] = reqs[q]
<1>0. Handlers
  BY DEF DInv
<1>1. CASE WalletStep(r)
  BY <1>1, WalletArriveTyped, WalletProceedTyped, MoneyWorks DEF WalletStep, Moves, MoneyMoves
<1>2. CASE OrderStep(r)
  BY <1>2, OrderStepTyped, OrdersWork DEF Moves, WorksFor
<1>3. CASE BookStep(r)
  BY <1>3, BookLeaves
<1>4. CASE GarageStep(r)
  BY <1>4, GarageTyped, GarageWorks DEF GarageStep, Moves, WorksFor
<1>5. CASE CardStep(r)
  BY <1>5, CardsTyped, CardsWork DEF CardStep, Moves, WorksFor
<1> QED
  BY <1>1, <1>2, <1>3, <1>4, <1>5 DEF HandlerStep

\* Of the vehicles and the payment methods, no handler makes a credit.
LEMMA SmallSteps ==
  ASSUME DInv, NEW r \in Requests
  PROVE  /\ GarageStep(r) => reqs'[r].op \in GarageOps \cup {"idle"}
         /\ CardStep(r) => reqs'[r].op \in CardOps \cup {"idle"}
<1>0. reqs \in [Requests -> Request]
  BY DEF DInv, Handlers
<1>1. ASSUME GarageStep(r) PROVE reqs'[r].op \in GarageOps \cup {"idle"}
  <2>1. ASSUME NEW default \in BOOLEAN, Garage!CreateVehicle(r, default) PROVE reqs'[r].op \in GarageOps
    BY <1>0, <2>1 DEF Garage!CreateVehicle, Garage!Goto, GarageOps
  <2>2. ASSUME NEW v \in Garage!Vehicles, Garage!DeleteVehicle(r, v) PROVE reqs'[r].op \in GarageOps
    BY <1>0, <2>2 DEF Garage!DeleteVehicle, Garage!Goto, GarageOps
  <2>3. ASSUME NEW v \in Garage!Vehicles, NEW ask \in {"yes", "no", "leave"}, Garage!UpdateVehicle(r, v, ask)
        PROVE  reqs'[r].op \in GarageOps
    BY <1>0, <2>3 DEF Garage!UpdateVehicle, Garage!Goto, GarageOps
  <2>4. CASE Garage!VehicleAdd(r) \/ Garage!VehicleSet(r) \/ Garage!VehicleDrop(r)
    <3>1. Garage!Done(r)
      BY <2>4 DEF Garage!VehicleAdd, Garage!VehicleSet, Garage!VehicleDrop
    <3> QED
      BY <1>0, <3>1, GoesIdle, IdleIsRequest
  <2> QED
    BY <1>1, <2>1, <2>2, <2>3, <2>4 DEF GarageStep
<1>2. ASSUME CardStep(r) PROVE reqs'[r].op \in CardOps \cup {"idle"}
  <2>1. ASSUME NEW default \in BOOLEAN, Cards!SavePaymentMethod(r, default) PROVE reqs'[r].op \in CardOps
    BY <1>0, <2>1 DEF Cards!SavePaymentMethod, Cards!Goto, CardOps
  <2>2. ASSUME NEW k \in Cards!Methods, Cards!DeletePaymentMethod(r, k) PROVE reqs'[r].op \in CardOps
    BY <1>0, <2>2 DEF Cards!DeletePaymentMethod, Cards!Goto, CardOps
  <2>3. CASE Cards!MethodAdd(r) \/ Cards!MethodDrop(r) \/ Cards!MethodNext(r) \/ Cards!MethodPromote(r)
    <3>1. \/ Cards!Done(r) \/ Cards!Goto(r, [op |-> "methodNext"])
          \/ \E k : Cards!Goto(r, [op |-> "methodPromote", k |-> k])
      BY <2>3 DEF Cards!MethodAdd, Cards!MethodDrop, Cards!MethodNext, Cards!MethodPromote
    <3>2. ASSUME Cards!Done(r) PROVE reqs'[r].op = "idle"
      BY <1>0, <3>2, GoesIdle, IdleIsRequest
    <3> QED
      BY <1>0, <3>1, <3>2 DEF Cards!Goto, CardOps
  <2> QED
    BY <1>2, <2>1, <2>2, <2>3 DEF CardStep
<1> QED
  BY <1>1, <1>2

\* The steps of nobody leave the handlers alone.
LEMMA NobodysSteps ==
  ASSUME WalletAlone \/ TripAlone
  PROVE  UNCHANGED <<load, balance, ledger, reqs, faults, garage, methods>>
         /\ (WalletAlone => UNCHANGED account) /\ (TripAlone => UNCHANGED vars)
  BY DEF WalletAlone, Outside, TopUpPaid, TopUpExpires, CardCaptured, CardDeclined, CancelBooking, wallet,
         TripAlone, OrderPaid, OrderDeclined, TripStarts, TripEnds, vars

LEMMA LoadStays == ASSUME DInv, AccountNext PROVE UNCHANGED load
  BY StepIs, HandlerSteps, NobodysSteps DEF HandlerStep

\* With a crew of one, nobody else has anything to do.
LEMMA Lonely ==
  ASSUME DInv, OneAtATime, NEW r \in load.crew, NEW q \in Requests, q # r
  PROVE  reqs[q] = Idle
<1>1. IsFiniteSet(load.crew) /\ Cardinality(load.crew) = 1
  BY WorkloadIs DEF DInv, OneAtATime
<1>2. \E x : load.crew = {x}
  BY <1>1, FS_Singleton
<1> QED
  BY <1>2 DEF DInv, Handlers

-----------------------------------------------------------------------------
\* The balance.  Where no operation of Unlocked runs, no handler is ever at a step of one.
Closed == load.ops \cap Unlocked = {}

UnlockedOps == TopUpOps \cup {"creditRead", "creditWrite", "payWrite", "suspendWrite", "refundRead", "refundRecord",
                              "refundStatus", "cancelWrite", "hostCancelWrite", "cancelFind", "returnRead", "gateway",
                              "returnRecord", "returnStatus"}

Gated ==
  Closed => /\ \A t \in TopUps : topup[t].gw = "none"
            /\ booking.status # "cancelled" /\ trip.st # "cancelled"
            /\ \A r \in Requests : reqs[r].op \notin UnlockedOps

WriteOps == {"creditWrite", "payWrite"}
Ledger ==
  OneAtATime \/ Closed =>
    /\ balance = ledger
    /\ \A r \in Requests : reqs[r].op \in WriteOps => reqs[r].base = balance

LEMMA GatedWallet ==
  ASSUME DInv, Gated, Closed, NEW r \in Requests, WalletStep(r)
  PROVE  /\ \A t \in TopUps : topup'[t].gw = "none"
         /\ booking'.status # "cancelled" /\ reqs'[r].op \notin UnlockedOps
<1>0. /\ \A t \in TopUps : topup[t].gw = "none"
      /\ booking.status # "cancelled" /\ reqs[r].op \notin UnlockedOps
      /\ \A op \in Unlocked : op \notin load.ops
      /\ reqs \in [Requests -> Request]
      /\ booking \in [status : {"pending", "confirmed", "cancelled"}, wallet : BOOLEAN]
  BY DEF Gated, Closed, DInv, Handlers, TypeOK
<1>1. ASSUME UNCHANGED <<topup, booking>>, reqs' = reqs \/ \E rec : Goto(r, rec) /\ rec.op \notin UnlockedOps
      PROVE  /\ \A t \in TopUps : topup'[t].gw = "none"
             /\ booking'.status # "cancelled" /\ reqs'[r].op \notin UnlockedOps
  BY <1>0, <1>1 DEF Goto
<1>2. Idle.op \notin UnlockedOps
  BY DEF Idle, UnlockedOps, TopUpOps
<1>3. CASE Arrive(r)
  <2>1. ASSUME NEW t \in TopUps, CreateTopUpIntent(r, t) PROVE FALSE
    BY <1>0, <2>1 DEF CreateTopUpIntent, Starts, Unlocked
  <2>2. ASSUME NEW t \in TopUps, HookTopUp(r, t) \/ ConfirmTopUpStripe(r, t) \/ VerifyTopUpRazorpay(r, t) PROVE FALSE
    BY <1>0, <2>2 DEF HookTopUp, ConfirmTopUpStripe, VerifyTopUpRazorpay, Apply
  <2>3. CASE AdminCredit(r) \/ WalletPaymentRead(r) \/ SuspendRead(r)
    BY <1>0, <2>3 DEF AdminCredit, WalletPaymentRead, SuspendRead, Starts, Unlocked
  <2>4. CASE AdminDebit(r) \/ Withdraw(r) \/ WithdrawalPaid(r) \/ WithdrawalFailed(r)
    BY <1>1, <2>4 DEF AdminDebit, Withdraw, WithdrawalPaid, WithdrawalFailed
  <2>5. ASSUME NEW s \in Splits, HookDeclined(r, s)
        PROVE  UNCHANGED <<topup, booking, reqs>>
    BY <2>5 DEF HookDeclined
  <2>6. ASSUME NEW s \in Splits, HookSplit(r, s) \/ ConfirmSplit(r, s)
        PROVE  UNCHANGED <<topup, booking>> /\ \E rec : Goto(r, rec) /\ rec.op \notin UnlockedOps
    BY <2>6 DEF HookSplit, ConfirmSplit, UnlockedOps, TopUpOps
  <2>7. CASE SplitRead(r)
    <3>1. UNCHANGED <<topup, booking>> /\ \E rec : Goto(r, rec) /\ rec.op \notin UnlockedOps
      BY <2>7 DEF SplitRead, UnlockedOps, TopUpOps
    <3> QED
      BY <1>1, <3>1
  <2> QED
    BY <1>1, <1>3, <2>1, <2>2, <2>3, <2>4, <2>5, <2>6, <2>7 DEF Arrive
<1>4. CASE Proceed(r)
  <2>1. CASE SplitInsert(r) \/ SplitNoRoom(r) \/ SplitConfirmFails(r) \/ Crash(r)
    BY <1>1, <1>2, <2>1 DEF SplitInsert, SplitNoRoom, SplitConfirmFails, Crash, Done
  <2>2. CASE SplitDebit(r)
    <3>1. UNCHANGED <<topup, booking>> /\ \E rec : Goto(r, rec) /\ rec.op \in {"idle", "splitConfirm"}
      BY <2>2, IdleIsRequest DEF SplitDebit, Done
    <3> QED
      BY <1>1, <3>1 DEF UnlockedOps, TopUpOps
  <2>3. CASE SplitConfirm(r)
    <3>1. UNCHANGED topup /\ Done(r)
          /\ (booking' = booking \/ booking' = [booking EXCEPT !.status = IF @ = "pending" THEN "confirmed" ELSE @])
      BY <1>0, <2>3 DEF SplitConfirm
    <3>2. booking'.status # "cancelled"
      BY <1>0, <3>1
    <3> QED
      BY <1>0, <1>2, <3>1, <3>2 DEF Done, Goto
  <2>4. reqs[r].op \in UnlockedOps => FALSE
    BY <1>0
  <2>5. CASE StoreTopUp(r) \/ ApplyRead(r) \/ ApplyMark(r) \/ ApplyUnmark(r) \/ ApplyDelete(r)
             \/ CreditRead(r) \/ CreditWrite(r) \/ CreditFails(r) \/ WalletPaymentWrite(r) \/ SuspendWrite(r)
             \/ RefundRead(r) \/ RefundRecord(r) \/ RefundStatus(r)
    BY <2>4, <2>5 DEF StoreTopUp, ApplyRead, ApplyMark, ApplyUnmark, ApplyDelete, CreditRead, CreditWrite, CreditFails,
             WalletPaymentWrite, SuspendWrite, RefundRead, RefundRecord, RefundStatus, At, UnlockedOps, TopUpOps
  <2> QED
    BY <1>4, <2>1, <2>2, <2>3, <2>5 DEF Proceed
<1> QED
  BY <1>3, <1>4 DEF WalletStep

LEMMA GatedOrders ==
  ASSUME DInv, Gated, Closed, NEW r \in Requests, OrderStep(r)
  PROVE  trip'.st # "cancelled" /\ reqs'[r].op \notin UnlockedOps
<1>0. /\ trip.st # "cancelled" /\ reqs[r].op \notin UnlockedOps
      /\ \A op \in Unlocked : op \notin load.ops
      /\ reqs \in [Requests -> Request]
      /\ trip \in [st : {"none", "pending", "confirmed", "active", "completed", "cancelled"},
                   vehicle : Nat, end : Nat, total : Nat, earning : Nat]
  BY DEF Gated, Closed, DInv, Handlers, TripTypeOK
<1>1. ASSUME NEW share, CancelRead(r, share) PROVE FALSE
  BY <1>0, <1>1 DEF CancelRead, Starts, Unlocked
<1>2. ASSUME HostCancelRead(r) PROVE FALSE
  BY <1>0, <1>2 DEF HostCancelRead, Starts, Unlocked
<1>3. ASSUME NEW o, NEW most, NEW to, AdminInitiateRefund(r, o, most, to) PROVE FALSE
  BY <1>0, <1>3 DEF AdminInitiateRefund, Starts, Unlocked
<1>4. CASE TripArrive(r)
  <2>1. UNCHANGED trip
    BY <1>1, <1>2, <1>3, <1>4 DEF TripArrive, CreateRazorpayOrder, ExtendBooking, VerifyRazorpayPayment, HookCaptured,
        HookFailed, VerifyExtension, HookRefund, account
  <2>2. reqs' = reqs \/ \E rec : Goto(r, rec) /\ rec.op \in {"orderInsert", "orderConfirm", "extendWrite"}
    BY <1>0, <1>2, <1>4, OrderGoes DEF Unlocked
  <2> QED
    BY <1>0, <2>1, <2>2 DEF Goto, UnlockedOps, TopUpOps
<1>5. CASE TripProceed(r)
  <2>1. CASE OrderInsert(r)
    <3>1. Done(r) /\ UNCHANGED trip
      BY <2>1 DEF OrderInsert
    <3> QED
      BY <1>0, <3>1 DEF Done, Goto, Idle, UnlockedOps, TopUpOps
  <2>2. CASE OrderConfirm(r)
    <3>1. PICK e : Done(r) /\ (trip' = trip \/ trip' = [trip EXCEPT !.st = IF @ = "pending" THEN "confirmed" ELSE @,
                                                                     !.earning = e])
      BY <1>0, <2>2 DEF OrderConfirm
    <3>2. trip'.st # "cancelled"
      BY <1>0, <3>1
    <3> QED
      BY <1>0, <3>1, <3>2 DEF Done, Goto, Idle, UnlockedOps, TopUpOps
  <2>3. CASE ExtendWrite(r)
    <3>1. PICK e, t, m : Done(r) /\ trip' = [trip EXCEPT !.end = e, !.total = t, !.earning = m]
      BY <2>3 DEF ExtendWrite
    <3>2. trip'.st # "cancelled"
      BY <1>0, <3>1
    <3> QED
      BY <1>0, <3>1, <3>2 DEF Done, Goto, Idle, UnlockedOps, TopUpOps
  <2>4. \A n, gw : ~ GatewayRefund(r, n, gw)
    BY <1>0 DEF GatewayRefund, At, UnlockedOps
  <2>5. ~ (\/ HostCancelWrite(r) \/ CancelWrite(r) \/ CancelFind(r) \/ ReturnRead(r) \/ GatewayRefuses(r)
           \/ ReturnRecord(r) \/ ReturnStatus(r))
    BY <1>0 DEF HostCancelWrite, CancelWrite, CancelFind, ReturnRead, GatewayRefuses, ReturnRecord, ReturnStatus, At,
                UnlockedOps
  <2> QED
    BY <1>5, <2>1, <2>2, <2>3, <2>4, <2>5 DEF TripProceed
<1> QED
  BY <1>4, <1>5 DEF OrderStep

LEMMA GatedInvariant ==
  ASSUME DInv, Gated, AccountNext
  PROVE  Gated'
<1>1. SUFFICES ASSUME Closed
               PROVE  /\ \A t \in TopUps : topup'[t].gw = "none"
                      /\ booking'.status # "cancelled" /\ trip'.st # "cancelled"
                      /\ \A q \in Requests : reqs'[q].op \notin UnlockedOps
  BY LoadStays DEF Gated, Closed
<1>0. /\ \A t \in TopUps : topup[t].gw = "none"
      /\ booking.status # "cancelled" /\ trip.st # "cancelled"
      /\ \A q \in Requests : reqs[q].op \notin UnlockedOps
      /\ TripTypeOK /\ TypeOK
  BY <1>1 DEF Gated, DInv
<1>2. CASE WalletAlone
  <2>1. \A t \in TopUps : topup'[t].gw = "none"
    <3>1. UNCHANGED topup \/ \E t \in TopUps : TopUpExpires(t)
      BY <1>0, <1>2 DEF WalletAlone, Outside, TopUpPaid, CardCaptured, CardDeclined, CancelBooking
    <3>2. ASSUME NEW t \in TopUps, TopUpExpires(t)
          PROVE  \A u \in TopUps : topup'[u].gw = "none"
      BY <1>0, <3>2 DEF TopUpExpires, TypeOK, TopUp
    <3> QED
      BY <1>0, <3>1, <3>2
  <2>2. UNCHANGED booking
    <3>1. ~ CancelBooking
      BY <1>1 DEF CancelBooking, Closed, Unlocked
    <3> QED
      BY <1>2, <3>1 DEF WalletAlone, Outside, TopUpPaid, TopUpExpires, CardCaptured, CardDeclined
  <2> QED
    BY <1>0, <1>2, <2>1, <2>2, NobodysSteps DEF account
<1>3. CASE TripAlone
  <2>1. trip'.st # "cancelled"
    BY <1>0, <1>3 DEF TripAlone, OrderPaid, OrderDeclined, TripStarts, TripEnds, TripTypeOK
  <2> QED
    BY <1>0, <1>3, <2>1, NobodysSteps DEF vars
<1>4. ASSUME NEW r \in Requests, HandlerStep(r)
      PROVE  /\ \A t \in TopUps : topup'[t].gw = "none"
             /\ booking'.status # "cancelled" /\ trip'.st # "cancelled"
             /\ reqs'[r].op \notin UnlockedOps
  <2>1. CASE WalletStep(r)
    BY <1>0, <1>1, <2>1, GatedWallet DEF WalletStep, account
  <2>2. CASE OrderStep(r)
    BY <1>0, <1>1, <2>2, GatedOrders, OrderLeaves
  <2>3. CASE BookStep(r)
    <3>1. trip'.st = "pending"
      BY <2>3 DEF BookStep, BookTrip, NoTrip
    <3> QED
      BY <1>0, <2>3, <3>1, BookLeaves
  <2>4. CASE GarageStep(r)
    <3>1. reqs'[r].op \notin UnlockedOps
      BY <2>4, SmallSteps DEF UnlockedOps, TopUpOps, GarageOps, CardOps
    <3> QED
      BY <1>0, <2>4, <3>1, GarageTyped DEF GarageStep
  <2>5. CASE CardStep(r)
    <3>1. reqs'[r].op \notin UnlockedOps
      BY <2>5, SmallSteps DEF UnlockedOps, TopUpOps, GarageOps, CardOps
    <3> QED
      BY <1>0, <2>5, <3>1 DEF CardStep, account
  <2> QED
    BY <1>4, <2>1, <2>2, <2>3, <2>4, <2>5 DEF HandlerStep
<1>5. ASSUME NEW r \in Requests, HandlerStep(r)
      PROVE  \A q \in Requests : reqs'[q].op \notin UnlockedOps
  BY <1>0, <1>4, <1>5, HandlerSteps
<1> QED
  BY <1>2, <1>3, <1>4, <1>5, StepIs DEF HandlerStep

\* What a step of the wallet does to the balance: nothing, but it may be read; an entry,
\* from the balance as it is; or an entry from the balance that was read.
LEMMA BalanceEffect ==
  ASSUME DInv, NEW r \in Requests, WalletStep(r)
  PROVE  \/ /\ balance' = balance /\ ledger' = ledger
            /\ reqs'[r].op \in WriteOps => reqs'[r] = reqs[r] \/ reqs'[r].base = balance
         \/ /\ \E d \in Int : balance' = balance + d /\ ledger' = ledger + d
            /\ reqs'[r].op \notin WriteOps \/ reqs'[r] = Idle
         \/ /\ reqs[r].op \in WriteOps /\ reqs'[r].op \notin WriteOps
            /\ \E d \in Int : balance' = reqs[r].base + d /\ ledger' = ledger + d
<1>0. /\ reqs \in [Requests -> Request] /\ reqs[r] \in Request
      /\ balance \in Nat /\ ledger \in Int /\ Price \in Nat /\ WalletPart \in Nat
  BY WorkloadIs DEF DInv, Handlers, TypeOK
<1>1. Idle.op \notin WriteOps
  BY DEF Idle, WriteOps
<1>2. ASSUME UNCHANGED <<balance, ledger>>, reqs' = reqs \/ \E rec : Goto(r, rec) /\ (rec.op \in WriteOps => rec.base = balance)
      PROVE  /\ balance' = balance /\ ledger' = ledger
             /\ reqs'[r].op \in WriteOps => reqs'[r] = reqs[r] \/ reqs'[r].base = balance
  BY <1>0, <1>2 DEF Goto
<1>3. ASSUME UNCHANGED <<balance, ledger>>, Done(r)
      PROVE  /\ balance' = balance /\ ledger' = ledger
             /\ reqs'[r].op \in WriteOps => reqs'[r] = reqs[r] \/ reqs'[r].base = balance
  BY <1>1, <1>2, <1>3 DEF Done
<1>4. CASE Arrive(r)
  <2>1. ASSUME NEW t \in TopUps,
               CreateTopUpIntent(r, t) \/ HookTopUp(r, t) \/ ConfirmTopUpStripe(r, t) \/ VerifyTopUpRazorpay(r, t)
        PROVE  UNCHANGED <<balance, ledger>> /\ \E rec : Goto(r, rec) /\ rec.op \notin WriteOps
    BY <2>1 DEF CreateTopUpIntent, HookTopUp, ConfirmTopUpStripe, VerifyTopUpRazorpay, Apply, wallet, WriteOps
  <2>2. ASSUME NEW s \in Splits, HookSplit(r, s) \/ ConfirmSplit(r, s) \/ HookDeclined(r, s)
        PROVE  UNCHANGED <<balance, ledger>> /\ (reqs' = reqs \/ \E rec : Goto(r, rec) /\ rec.op \notin WriteOps)
    BY <2>2 DEF HookSplit, ConfirmSplit, HookDeclined, wallet, WriteOps
  <2>3. CASE AdminCredit(r)
    BY <1>2, <2>3 DEF AdminCredit, GoCredit, wallet, WriteOps
  <2>4. CASE WalletPaymentRead(r)
    BY <1>2, <2>4 DEF WalletPaymentRead, wallet, WriteOps
  <2>5. CASE SuspendRead(r)
    <3>1. UNCHANGED <<balance, ledger>> /\ \E rec : Goto(r, rec) /\ rec.op \notin WriteOps
      BY <2>5 DEF SuspendRead, wallet, WriteOps
    <3> QED
      BY <1>2, <3>1
  <2>6. CASE SplitRead(r)
    <3>1. UNCHANGED <<balance, ledger>> /\ \E rec : Goto(r, rec) /\ rec.op \notin WriteOps
      BY <2>6 DEF SplitRead, wallet, WriteOps
    <3> QED
      BY <1>2, <3>1
  <2>7. CASE WithdrawalPaid(r)
    BY <1>2, <2>7 DEF WithdrawalPaid
  <2>8. CASE AdminDebit(r) \/ Withdraw(r) \/ WithdrawalFailed(r)
    <3>1. Post(Unit) \/ Post(0 - Unit)
      BY <2>8 DEF AdminDebit, Withdraw, WithdrawalFailed, Debit
    <3>2. \E d \in Int : balance' = balance + d /\ ledger' = ledger + d
      BY <3>1 DEF Post, Unit
    <3>3. reqs' = reqs /\ reqs[r] = Idle
      BY <2>8 DEF AdminDebit, Withdraw, WithdrawalFailed, Starts
    <3> QED
      BY <3>2, <3>3
  <2> QED
    BY <1>2, <1>4, <2>1, <2>2, <2>3, <2>4, <2>5, <2>6, <2>7, <2>8 DEF Arrive
<1>5. CASE Proceed(r)
  <2>1. CASE StoreTopUp(r) \/ ApplyUnmark(r) \/ ApplyDelete(r) \/ SplitInsert(r) \/ SplitNoRoom(r)
             \/ SplitConfirmFails(r) \/ RefundStatus(r) \/ Crash(r)
    BY <1>3, <2>1 DEF StoreTopUp, ApplyUnmark, ApplyDelete, SplitInsert, SplitNoRoom, SplitConfirmFails,
             RefundStatus, Crash, wallet
  <2>2. CASE ApplyRead(r) \/ ApplyMark(r) \/ CreditFails(r) \/ SuspendWrite(r) \/ RefundRead(r)
    <3>1. UNCHANGED <<balance, ledger>> /\ (Done(r) \/ \E rec : Goto(r, rec) /\ rec.op \notin WriteOps)
      BY <2>2 DEF ApplyRead, ApplyMark, CreditFails, SuspendWrite, RefundRead, GoCredit, wallet, WriteOps
    <3> QED
      BY <1>2, <1>3, <3>1
  <2>3. CASE SplitConfirm(r)
    <3>1. UNCHANGED <<balance, ledger>> /\ (Done(r) \/ \E rec : Goto(r, rec) /\ rec.op \notin WriteOps)
      BY <2>3 DEF SplitConfirm, wallet, WriteOps
    <3> QED
      BY <1>2, <1>3, <3>1
  <2>4. CASE RefundRecord(r)
    BY <1>2, <2>4 DEF RefundRecord, wallet, WriteOps
  <2>5. CASE CreditRead(r)
    BY <1>2, <2>5 DEF CreditRead, wallet
  <2>6. CASE CreditWrite(r)
    <3>1. reqs[r] \in Crediting /\ reqs[r].op = "creditWrite"
      BY <1>0, <2>6, RequestShape DEF CreditWrite, At
    <3>2. reqs[r].amount \in Nat /\ reqs[r].base \in Nat /\ reqs[r].next.op \in NextOps
      BY <3>1 DEF Crediting, Later
    <3>3. balance' = reqs[r].base + reqs[r].amount /\ ledger' = ledger + reqs[r].amount /\ reqs'[r] = reqs[r].next
      BY <1>0, <2>6 DEF CreditWrite, Goto
    <3>4. reqs[r].op \in WriteOps /\ reqs'[r].op \notin WriteOps
      BY <3>1, <3>2, <3>3 DEF WriteOps, NextOps
    <3>5. reqs[r].amount \in Int
      BY <3>2
    <3> QED
      BY <3>3, <3>4, <3>5
  <2>7. CASE WalletPaymentWrite(r)
    <3>1. reqs[r] \in Paying /\ reqs[r].op = "payWrite"
      BY <1>0, <2>7, RequestShape DEF WalletPaymentWrite, At
    <3>2. reqs[r].base \in Nat
      BY <3>1 DEF Paying
    <3>3. balance' = reqs[r].base + (0 - Price) /\ ledger' = ledger + (0 - Price)
      BY <1>0, <2>7, <3>2 DEF WalletPaymentWrite
    <3>4. reqs[r].op \in WriteOps /\ reqs'[r].op \notin WriteOps
      BY <1>0, <1>1, <2>7, <3>1 DEF WalletPaymentWrite, Done, Goto, WriteOps
    <3>5. 0 - Price \in Int
      BY <1>0
    <3> QED
      BY <3>3, <3>4, <3>5
  <2>8. CASE SplitDebit(r)
    <3>1. CASE balance < WalletPart /\ Done(r) /\ UNCHANGED <<balance, ledger>>
      BY <1>3, <3>1
    <3>2. CASE Debit(WalletPart) /\ \E rec : Goto(r, rec) /\ rec.op = "splitConfirm"
      <4>1. 0 - WalletPart \in Int /\ balance' = balance + (0 - WalletPart) /\ ledger' = ledger + (0 - WalletPart)
        BY <1>0, <3>2 DEF Debit, Post
      <4>2. reqs'[r].op \notin WriteOps
        BY <1>0, <3>2 DEF Goto, WriteOps
      <4> QED
        BY <4>1, <4>2
    <3>3. \/ balance < WalletPart /\ Done(r) /\ UNCHANGED <<balance, ledger>>
          \/ Debit(WalletPart) /\ \E rec : Goto(r, rec) /\ rec.op = "splitConfirm"
      BY <2>8 DEF SplitDebit
    <3> QED
      BY <3>1, <3>2, <3>3
  <2> QED
    BY <1>5, <2>1, <2>2, <2>3, <2>4, <2>5, <2>6, <2>7, <2>8 DEF Proceed
<1> QED
  BY <1>4, <1>5 DEF WalletStep

\* Where an order's handler is when it is done with a step, no balance has been read yet.
LEMMA OthersDontWrite ==
  ASSUME DInv, NEW r \in Requests, OrderStep(r) \/ BookStep(r) \/ GarageStep(r) \/ CardStep(r)
  PROVE  UNCHANGED <<balance, ledger>> /\ (reqs'[r].op \notin WriteOps \/ reqs'[r] = reqs[r])
<1>0. reqs \in [Requests -> Request]
  BY DEF DInv, Handlers
<1>1. CASE OrderStep(r)
  <2>1. reqs'[r].op \notin WriteOps \/ reqs'[r] = reqs[r]
    BY <1>0, <1>1, OrderGoes DEF OrderStep, Goto, WriteOps
  <2> QED
    BY <1>1, <2>1, OrderLeaves DEF wallet
<1>2. CASE BookStep(r)
  BY <1>2, BookLeaves DEF wallet
<1>3. CASE GarageStep(r)
  BY <1>3, SmallSteps DEF GarageStep, GarageOps, WriteOps, wallet
<1>4. CASE CardStep(r)
  BY <1>4, SmallSteps DEF CardStep, CardOps, WriteOps, wallet
<1> QED
  BY <1>1, <1>2, <1>3, <1>4

LEMMA LedgerInvariant ==
  ASSUME DInv, Gated, Ledger, AccountNext
  PROVE  Ledger'
<1>0. UNCHANGED load /\ Gated' /\ Idle.op \notin WriteOps
  BY LoadStays, GatedInvariant DEF Idle, WriteOps
<1>1. SUFFICES ASSUME OneAtATime \/ Closed
               PROVE  /\ balance' = ledger'
                      /\ \A q \in Requests : reqs'[q].op \in WriteOps => reqs'[q].base = balance'
  BY <1>0 DEF Ledger, OneAtATime, Closed
<1>2. balance = ledger /\ \A q \in Requests : reqs[q].op \in WriteOps => reqs[q].base = balance
  BY <1>1 DEF Ledger
<1>3. Closed => \A q \in Requests : reqs[q].op \notin WriteOps /\ reqs'[q].op \notin WriteOps
  BY <1>0 DEF Gated, Closed, WriteOps, UnlockedOps
<1>4. CASE WalletAlone \/ TripAlone
  BY <1>2, <1>4, NobodysSteps
<1>5. ASSUME NEW r \in Requests, HandlerStep(r)
      PROVE  /\ balance' = ledger'
             /\ \A q \in Requests : reqs'[q].op \in WriteOps => reqs'[q].base = balance'
  <2>1. r \in load.crew /\ \A q \in Requests \ {r} : reqs'[q] = reqs[q]
    BY <1>5, HandlerSteps
  <2>2. \A q \in Requests \ {r} : reqs'[q].op \notin WriteOps
    BY <1>0, <1>1, <1>3, <2>1, Lonely
  <2>3. /\ balance' = ledger'
        /\ reqs'[r].op \in WriteOps => reqs'[r].base = balance'
    <3>1. CASE WalletStep(r)
      <4>1. CASE /\ balance' = balance /\ ledger' = ledger
                 /\ reqs'[r].op \in WriteOps => reqs'[r] = reqs[r] \/ reqs'[r].base = balance
        BY <1>2, <4>1
      <4>2. CASE /\ \E d \in Int : balance' = balance + d /\ ledger' = ledger + d
                 /\ reqs'[r].op \notin WriteOps \/ reqs'[r] = Idle
        BY <1>0, <1>2, <4>2
      <4>3. CASE /\ reqs[r].op \in WriteOps /\ reqs'[r].op \notin WriteOps
                 /\ \E d \in Int : balance' = reqs[r].base + d /\ ledger' = ledger + d
        BY <1>2, <4>3
      <4> QED
        BY <3>1, <4>1, <4>2, <4>3, BalanceEffect
    <3>2. CASE OrderStep(r) \/ BookStep(r) \/ GarageStep(r) \/ CardStep(r)
      BY <1>2, <3>2, OthersDontWrite
    <3> QED
      BY <1>5, <3>1, <3>2 DEF HandlerStep
  <2> QED
    BY <2>2, <2>3
<1> QED
  BY <1>4, <1>5, StepIs DEF HandlerStep

\* The balance of a wallet is the sum of its entries as long as requests come one at a time,
\* and at all times when nothing runs but what locks the wallet's row (debitWallet,
\* requestWithdrawal and the payouts' own updates, against creditWallet and
\* processWalletPayment).
THEOREM EntriesAddUp == AccountSpec => []BalanceIsSum
<1>1. AccountInit => Gated /\ Ledger
  BY IdleIsRequest DEF AccountInit, Init, TripInit, NoTrip, Gated, Ledger, Idle, UnlockedOps, TopUpOps, WriteOps
<1>2. DInv /\ Gated /\ Ledger /\ [AccountNext]_allVars => (Gated /\ Ledger)'
  <2>1. Gated /\ Ledger /\ UNCHANGED allVars => (Gated /\ Ledger)'
    BY DEF allVars, vars, wallet, account, Gated, Closed, Ledger, OneAtATime
  <2> QED
    BY <2>1, GatedInvariant, LedgerInvariant
<1>3. Ledger => BalanceIsSum
  BY DEF Ledger, Closed, BalanceIsSum
<1> QED
  BY <1>1, <1>2, <1>3, Typed, PTL DEF AccountSpec, allVars

-----------------------------------------------------------------------------
\* Top-ups.  A handler that is not at a step of Ops, nor comes to one.
AwayFrom(Ops) ==
  \A q \in Requests : reqs'[q] = reqs[q] \/ (Due(reqs[q]).op \notin Ops /\ Due(reqs'[q]).op \notin Ops)

LEMMA OthersAway ==
  ASSUME DInv, NEW r \in Requests, OrderStep(r) \/ BookStep(r) \/ GarageStep(r) \/ CardStep(r)
  PROVE  AwayFrom(MoneyOps) /\ UNCHANGED <<topup, split, booking, past>>
<1>1. ASSUME NEW Ops, WorksFor(r, Ops), Ops \cap MoneyOps = {}
      PROVE  AwayFrom(MoneyOps)
  <2>1. "idle" \notin MoneyOps
    BY DEF MoneyOps, TopUpOps, SplitOps
  <2> QED
    BY <1>1, <2>1 DEF WorksFor, AwayFrom
<1>2. OrderOps \cap MoneyOps = {} /\ GarageOps \cap MoneyOps = {} /\ CardOps \cap MoneyOps = {}
  BY DEF OrderOps, GarageOps, CardOps, MoneyOps, TopUpOps, SplitOps
<1>3. CASE OrderStep(r)
  BY <1>1, <1>2, <1>3, OrdersWork, OrderLeaves
<1>4. CASE BookStep(r)
  BY <1>4, BookLeaves DEF AwayFrom
<1>5. CASE GarageStep(r)
  BY <1>1, <1>2, <1>5, GarageWorks DEF GarageStep
<1>6. CASE CardStep(r)
  BY <1>1, <1>2, <1>6, CardsWork DEF CardStep
<1> QED
  BY <1>3, <1>4, <1>5, <1>6

\* What is applied was paid; what is about to be stored is not offered yet, and by one
\* handler; a key is deleted after a credit; a top-up is offered with its key; none is lost;
\* and of one handler, no second credit is under way.
ApplyOps == {"applyRead", "applyMark", "applyUnmark", "applyDelete"}
Applying == \A r \in Requests : Due(reqs[r]).op \in ApplyOps => topup[Due(reqs[r]).t].gw = "paid"
Storing  == \A r \in Requests : reqs[r].op = "topupStore" =>
              /\ topup[reqs[r].t].gw = "created"
              /\ \A q \in Requests : reqs[q].op = "topupStore" /\ reqs[q].t = reqs[r].t => q = r
Counted  == \A r \in Requests : reqs[r].op = "applyDelete" => past.credits[reqs[r].t] > 0
Offered  == \A t \in TopUps : topup[t].gw = "offered" => topup[t].marker = "open" \/ t \in past.expired
NotLost  == \A t \in TopUps :
              topup[t].gw = "paid" /\ t \notin past.expired /\ ~past.stopped
                => past.credits[t] > 0 \/ topup[t].marker = "open" \/ InFlight(t)
Once ==
  OneAtATime =>
    /\ \A t \in TopUps : /\ past.credits[t] <= 1
                         /\ topup[t].gw # "paid" \/ topup[t].marker = "open" => past.credits[t] = 0
    /\ \A r \in Requests :
         /\ reqs[r].op \in {"applyMark", "applyUnmark"} => past.credits[reqs[r].t] = 0
         /\ reqs[r].op \in {"creditRead", "creditWrite"} /\ Due(reqs[r]).op = "applyDelete" =>
              past.credits[Due(reqs[r]).t] = 0 /\ topup[Due(reqs[r]).t].marker # "open"

TopUpInv == Applying /\ Storing /\ Counted /\ Offered /\ NotLost /\ Once

LEMMA TopUpTypes ==
  ASSUME DInv
  PROVE  /\ topup \in [TopUps -> TopUp] /\ reqs \in [Requests -> Request]
         /\ past \in [credits : [TopUps -> Nat], expired : SUBSET TopUps,
                      debits : [Splits -> Nat], adjusts : 0..MaxAdjusts, stopped : BOOLEAN]
         /\ \A q \in Requests : /\ reqs[q].op \in TopUpOps => reqs[q] \in ForTopUps
                                /\ reqs[q].op \in {"creditRead", "creditWrite"} => reqs[q].next \in Later
                                /\ reqs[q].op \in {"creditRead", "creditWrite"} /\ Due(reqs[q]).op = "applyDelete"
                                     => Due(reqs[q]) \in ForTopUps /\ Due(reqs[q]) = reqs[q].next
                                /\ Due(reqs[q]).op \in TopUpOps => Due(reqs[q]) \in ForTopUps
<1>1. \A q \in Requests : reqs[q] \in Request
  BY DEF DInv, Handlers
<1>2. ASSUME NEW q \in Requests
      PROVE  /\ reqs[q].op \in TopUpOps => reqs[q] \in ForTopUps
             /\ reqs[q].op \in {"creditRead", "creditWrite"} => reqs[q].next \in Later
             /\ reqs[q].op \in {"creditRead", "creditWrite"} /\ Due(reqs[q]).op = "applyDelete"
                  => Due(reqs[q]) \in ForTopUps /\ Due(reqs[q]) = reqs[q].next
             /\ Due(reqs[q]).op \in TopUpOps => Due(reqs[q]) \in ForTopUps
  <2>1. reqs[q].op \in TopUpOps => reqs[q] \in ForTopUps
    BY <1>1, RequestShape
  <2>2. reqs[q].op \in {"creditRead", "creditWrite"} => reqs[q].next \in Later
    BY <1>1, RequestShape DEF ToCredit, Crediting
  <2>3. \A x \in Later : x \in Request
    BY DEF Later, Request
  <2>4. \A x \in Later : x.op \in TopUpOps => x \in ForTopUps
    BY <2>3, RequestShape
  <2> QED
    BY <2>1, <2>2, <2>4 DEF Due, TopUpOps
<1> QED
  BY <1>1, <1>2 DEF DInv, Handlers, TypeOK

LEMMA InFlightElsewhere ==
  ASSUME DInv, AwayFrom(TopUpOps), NEW t
  PROVE  InFlight(t)' <=> InFlight(t)
<1>1. ASSUME NEW q \in Requests
      PROVE  (\/ reqs'[q].op \in {"applyMark", "applyUnmark"} /\ reqs'[q].t = t
              \/ /\ reqs'[q].op \in {"creditRead", "creditWrite"}
                 /\ reqs'[q].next = [op |-> "applyDelete", t |-> t])
             <=>
             (\/ reqs[q].op \in {"applyMark", "applyUnmark"} /\ reqs[q].t = t
              \/ /\ reqs[q].op \in {"creditRead", "creditWrite"}
                 /\ reqs[q].next = [op |-> "applyDelete", t |-> t])
  BY DEF AwayFrom, Due, TopUpOps
<1> QED
  BY <1>1 DEF InFlight

\* Steps that are not about top-ups.
TopUpsRest ==
  /\ UNCHANGED <<load, topup>> /\ AwayFrom(TopUpOps)
  /\ past'.credits = past.credits /\ past'.expired = past.expired /\ past'.stopped = past.stopped

LEMMA TopUpsKept ==
  ASSUME DInv, TopUpInv, TopUpsRest
  PROVE  TopUpInv'
<1>0. "idle" \notin TopUpOps /\ ApplyOps \subseteq TopUpOps /\ "topupStore" \in TopUpOps
  BY DEF TopUpOps, ApplyOps
<1>1. \A q \in Requests : Due(reqs'[q]).op \in TopUpOps => reqs'[q] = reqs[q]
  BY DEF TopUpsRest, AwayFrom
<1>2. \A rec : rec.op \in TopUpOps => Due(rec) = rec
  BY DEF Due, TopUpOps
<1>3. Applying'
  BY <1>0, <1>1 DEF Applying, TopUpInv, TopUpsRest
<1>4. Storing'
  BY <1>0, <1>1, <1>2 DEF Storing, TopUpInv, TopUpsRest
<1>5. Counted'
  BY <1>0, <1>1, <1>2 DEF Counted, TopUpInv, TopUpsRest, ApplyOps
<1>6. Offered'
  BY DEF Offered, TopUpInv, TopUpsRest
<1>7. NotLost'
  BY InFlightElsewhere DEF NotLost, TopUpInv, TopUpsRest
<1>8. Once'
  <2>1. SUFFICES ASSUME OneAtATime PROVE Once'
    BY DEF Once, OneAtATime, TopUpsRest
  <2>2. ASSUME NEW q \in Requests
        PROVE  /\ reqs'[q].op \in {"applyMark", "applyUnmark"} => past'.credits[reqs'[q].t] = 0
               /\ reqs'[q].op \in {"creditRead", "creditWrite"} /\ Due(reqs'[q]).op = "applyDelete" =>
                    past'.credits[Due(reqs'[q]).t] = 0 /\ topup'[Due(reqs'[q]).t].marker # "open"
    <3>1. CASE reqs'[q] = reqs[q]
      BY <2>1, <3>1 DEF Once, TopUpInv, TopUpsRest
    <3>2. CASE reqs'[q] # reqs[q]
      BY <1>0, <1>1, <1>2, <3>2 DEF ApplyOps
    <3> QED
      BY <3>1, <3>2
  <2> QED
    BY <2>1, <2>2 DEF Once, TopUpInv, TopUpsRest
<1> QED
  BY <1>3, <1>4, <1>5, <1>6, <1>7, <1>8 DEF TopUpInv

\* Which steps of the wallet are about top-ups: a credit may be one.
TopUpStep(r) ==
  \/ \E t \in TopUps : \/ CreateTopUpIntent(r, t) \/ HookTopUp(r, t)
                       \/ ConfirmTopUpStripe(r, t) \/ VerifyTopUpRazorpay(r, t)
  \/ StoreTopUp(r) \/ ApplyRead(r) \/ ApplyMark(r) \/ ApplyUnmark(r) \/ ApplyDelete(r)
  \/ (CreditRead(r) \/ CreditWrite(r) \/ CreditFails(r)) /\ ForTopUp(r)
  \/ Crash(r)

LEMMA GoesAway ==
  ASSUME DInv, NEW r \in Requests, NEW Ops, Due(reqs[r]).op \notin Ops, NEW rec, Goto(r, rec), Due(rec).op \notin Ops
  PROVE  AwayFrom(Ops)
  BY DEF AwayFrom, Goto, DInv, Handlers

LEMMA TopUpsAside ==
  ASSUME DInv, NEW r \in Requests, WalletStep(r), ~TopUpStep(r)
  PROVE  TopUpsRest
<1>0. "idle" \notin TopUpOps /\ reqs \in [Requests -> Request] /\ reqs[r] \in Request
  BY DEF TopUpOps, DInv, Handlers
<1>1. UNCHANGED load
  BY HandlerSteps DEF HandlerStep
<1>2. ASSUME UNCHANGED topup, reqs' = reqs, past' = past
      PROVE  TopUpsRest
  BY <1>1, <1>2 DEF TopUpsRest, AwayFrom
<1>3. ASSUME UNCHANGED topup, Due(reqs[r]).op \notin TopUpOps, NEW rec, Goto(r, rec), Due(rec).op \notin TopUpOps,
             past'.credits = past.credits, past'.expired = past.expired, past'.stopped = past.stopped
      PROVE  TopUpsRest
  BY <1>1, <1>3, GoesAway DEF TopUpsRest
<1>4. ASSUME reqs[r].op \in SplitOps \cup {"splitInsert", "payWrite", "suspendWrite"} \/ reqs[r] = Idle
      PROVE  Due(reqs[r]).op \notin TopUpOps
  BY <1>4 DEF Due, SplitOps, TopUpOps, Idle
<1>5. ASSUME NEW q, GoCredit(r, q, Idle), UNCHANGED topup, Due(reqs[r]).op \notin TopUpOps,
             past'.credits = past.credits, past'.expired = past.expired, past'.stopped = past.stopped
      PROVE  TopUpsRest
  BY <1>3, <1>5, IdleIsRequest DEF GoCredit, Due, TopUpOps
<1>6. ASSUME Done(r), UNCHANGED <<topup, past>>, Due(reqs[r]).op \notin TopUpOps
      PROVE  TopUpsRest
  BY <1>0, <1>3, <1>6, IdleDue DEF Done
<1>7. ASSUME NEW rec, Goto(r, rec), rec.op \in SplitOps \cup {"splitInsert", "payWrite", "suspendWrite"},
             UNCHANGED <<topup>>, Due(reqs[r]).op \notin TopUpOps,
             past'.credits = past.credits, past'.expired = past.expired, past'.stopped = past.stopped
      PROVE  TopUpsRest
  BY <1>3, <1>7 DEF Due, SplitOps, TopUpOps
<1>8. CASE Arrive(r)
  <2>1. ~ \E t \in TopUps : \/ CreateTopUpIntent(r, t) \/ HookTopUp(r, t)
                            \/ ConfirmTopUpStripe(r, t) \/ VerifyTopUpRazorpay(r, t)
    BY DEF TopUpStep
  <2>2. ASSUME NEW s \in Splits, HookSplit(r, s) \/ ConfirmSplit(r, s)
        PROVE  TopUpsRest
    BY <1>4, <1>7, <2>2 DEF HookSplit, ConfirmSplit, Starts, SplitOps
  <2>3. ASSUME NEW s \in Splits, HookDeclined(r, s)
        PROVE  TopUpsRest
    BY <1>2, <2>3 DEF HookDeclined
  <2>4. CASE AdminCredit(r)
    <3>1. past' = [past EXCEPT !.adjusts = @ + 1] /\ past \in [credits : [TopUps -> Nat], expired : SUBSET TopUps,
                      debits : [Splits -> Nat], adjusts : 0..MaxAdjusts, stopped : BOOLEAN]
      BY <2>4, TopUpTypes DEF AdminCredit
    <3>2. past'.credits = past.credits /\ past'.expired = past.expired /\ past'.stopped = past.stopped
      BY <3>1
    <3> QED
      BY <1>4, <1>5, <2>4, <3>2 DEF AdminCredit, Starts
  <2>5. CASE AdminDebit(r) \/ Withdraw(r) \/ WithdrawalPaid(r) \/ WithdrawalFailed(r)
    BY <1>2, <2>5 DEF AdminDebit, Withdraw, WithdrawalPaid, WithdrawalFailed
  <2>6. CASE WalletPaymentRead(r)
    BY <1>4, <1>7, <2>6 DEF WalletPaymentRead, Starts
  <2>7. CASE SuspendRead(r)
    <3>1. \E rec : Goto(r, rec) /\ rec.op = "suspendWrite"
      BY <2>7 DEF SuspendRead
    <3> QED
      BY <1>4, <1>7, <2>7, <3>1 DEF SuspendRead, Starts
  <2>8. CASE SplitRead(r)
    <3>1. \E rec : Goto(r, rec) /\ rec.op \in {"splitInsert", "splitConfirm"}
      BY <2>8 DEF SplitRead
    <3> QED
      BY <1>4, <1>7, <2>8, <3>1 DEF SplitRead, Starts, SplitOps
  <2> QED
    BY <1>8, <2>1, <2>2, <2>3, <2>4, <2>5, <2>6, <2>7, <2>8 DEF Arrive
<1>9. CASE Proceed(r)
  <2>1. ~ (StoreTopUp(r) \/ ApplyRead(r) \/ ApplyMark(r) \/ ApplyUnmark(r) \/ ApplyDelete(r) \/ Crash(r))
        /\ (CreditRead(r) \/ CreditWrite(r) \/ CreditFails(r) => ~ForTopUp(r))
    BY DEF TopUpStep
  <2>2. CASE CreditRead(r) \/ CreditWrite(r) \/ CreditFails(r)
    <3>1. reqs[r].op \in {"creditRead", "creditWrite"} /\ ~ForTopUp(r)
      BY <2>1, <2>2 DEF CreditRead, CreditWrite, CreditFails, At
    <3>2. reqs[r].next.op \in NextOps /\ Due(reqs[r]) = reqs[r].next
      BY <1>0, <3>1, DueIs
    <3>3. reqs[r].next.op \notin TopUpOps /\ Due(reqs[r].next).op \notin TopUpOps
      BY <3>1, <3>2 DEF ForTopUp, NextOps, TopUpOps, Due
    <3>4. CASE CreditRead(r)
      BY <1>3, <3>2, <3>3, <3>4 DEF CreditRead, Due
    <3>5. CASE CreditWrite(r)
      BY <1>3, <3>1, <3>2, <3>3, <3>5 DEF CreditWrite
    <3>6. CASE CreditFails(r)
      BY <1>6, <3>1, <3>2, <3>3, <3>6 DEF CreditFails
    <3> QED
      BY <2>2, <3>4, <3>5, <3>6
  <2>3. CASE WalletPaymentWrite(r) \/ SplitInsert(r) \/ SplitNoRoom(r) \/ SplitConfirmFails(r) \/ RefundStatus(r)
    <3>1. Due(reqs[r]).op \notin TopUpOps
      BY <1>4, <2>3 DEF WalletPaymentWrite, SplitInsert, SplitNoRoom, SplitConfirmFails, RefundStatus, At, SplitOps
    <3> QED
      BY <1>6, <2>3, <3>1 DEF WalletPaymentWrite, SplitInsert, SplitNoRoom, SplitConfirmFails, RefundStatus
  <2>4. CASE SuspendWrite(r)
    BY <1>4, <1>5, <2>4 DEF SuspendWrite, At
  <2>5. CASE SplitDebit(r)
    <3>1. past \in [credits : [TopUps -> Nat], expired : SUBSET TopUps,
                    debits : [Splits -> Nat], adjusts : 0..MaxAdjusts, stopped : BOOLEAN]
      BY TopUpTypes
    <3>2. past' = past \/ past' = [past EXCEPT !.debits[reqs[r].s] = @ + 1]
      BY <2>5 DEF SplitDebit
    <3>3. past'.credits = past.credits /\ past'.expired = past.expired /\ past'.stopped = past.stopped
      BY <3>1, <3>2
    <3>4. Due(reqs[r]).op \notin TopUpOps
      BY <1>4, <2>5 DEF SplitDebit, At, SplitOps
    <3>5. UNCHANGED topup /\ \E rec : Goto(r, rec) /\ rec.op \in {"idle", "splitConfirm"}
      BY <2>5, IdleIsRequest DEF SplitDebit, Done
    <3> QED
      BY <1>3, <3>3, <3>4, <3>5 DEF Due, TopUpOps
  <2>6. CASE SplitConfirm(r)
    <3>1. Due(reqs[r]).op \notin TopUpOps
      BY <1>4, <2>6 DEF SplitConfirm, At, SplitOps
    <3>2. UNCHANGED <<topup, past>> /\ (Done(r) \/ \E rec : Goto(r, rec) /\ rec.op = "refundRead")
      BY <2>6 DEF SplitConfirm
    <3> QED
      BY <1>6, <1>7, <3>1, <3>2 DEF SplitOps
  <2>7. CASE RefundRead(r)
    <3>1. Due(reqs[r]).op \notin TopUpOps
      BY <1>4, <2>7 DEF RefundRead, At, SplitOps
    <3>2. UNCHANGED <<topup, past>> /\ (Done(r) \/ \E s : GoCredit(r, CardPart, [op |-> "refundRecord", s |-> s]))
      BY <2>7 DEF RefundRead
    <3> QED
      BY <1>3, <1>6, <3>1, <3>2 DEF GoCredit, Due, TopUpOps
  <2>8. CASE RefundRecord(r)
    BY <1>4, <1>7, <2>8 DEF RefundRecord, At, SplitOps
  <2> QED
    BY <1>9, <2>1, <2>2, <2>3, <2>4, <2>5, <2>6, <2>7, <2>8 DEF Proceed
<1> QED
  BY <1>8, <1>9 DEF WalletStep

\* A step of handler r about top-up t, which alone it changes.
TopUpOnly(r, t) ==
  /\ UNCHANGED load /\ r \in load.crew
  /\ \A q \in Requests \ {r} : reqs'[q] = reqs[q]
  /\ \A u \in TopUps \ {t} : topup'[u] = topup[u] /\ past'.credits[u] = past.credits[u]
  /\ past'.expired = past.expired
  /\ Due(reqs[r]).op \in TopUpOps => Due(reqs[r]).t = t
  /\ Due(reqs'[r]).op \in TopUpOps => Due(reqs'[r]).t = t

\* What is to be shown of such a step.
LEMMA OneTopUp ==
  ASSUME DInv, TopUpInv, NEW r \in Requests, NEW t \in TopUps, TopUpOnly(r, t),
         past'.stopped = past.stopped,
         topup[t].gw = "paid" => topup'[t].gw = "paid",
         past'.credits[t] = past.credits[t] \/ past'.credits[t] = past.credits[t] + 1,
         topup'[t].gw = topup[t].gw \/ reqs[r].op = "topupStore" \/ topup[t].gw = "none",
         Due(reqs'[r]).op \in ApplyOps => topup'[t].gw = "paid",
         reqs'[r].op = "topupStore" => topup[t].gw = "none" /\ topup'[t].gw = "created",
         reqs'[r].op = "applyDelete" => past'.credits[t] > 0,
         topup'[t].gw = "offered" => topup'[t].marker = "open" \/ t \in past.expired,
         past'.credits[t] > 0 \/ topup'[t].marker = "open" \/ InFlight(t)'
           \/ ((topup'[t].gw = "paid" => topup[t].gw = "paid") /\ past.credits[t] = 0 /\ topup[t].marker # "open"
               /\ (InFlight(t) => InFlight(t)')),
         OneAtATime =>
           /\ past'.credits[t] <= 1
           /\ topup'[t].gw # "paid" \/ topup'[t].marker = "open" => past'.credits[t] = 0
           /\ reqs'[r].op \in {"applyMark", "applyUnmark"} => past'.credits[t] = 0
           /\ reqs'[r].op \in {"creditRead", "creditWrite"} /\ Due(reqs'[r]).op = "applyDelete" =>
                past'.credits[t] = 0 /\ topup'[t].marker # "open"
  PROVE  TopUpInv'
<1>0. /\ \A q \in Requests : Due(reqs[q]).op \in TopUpOps => Due(reqs[q]).t \in TopUps
      /\ \A q \in Requests : reqs[q].op \in TopUpOps => Due(reqs[q]) = reqs[q] /\ reqs[q].t \in TopUps
      /\ \A rec : rec.op \in TopUpOps => Due(rec) = rec
      /\ ApplyOps \subseteq TopUpOps /\ "topupStore" \in TopUpOps
      /\ past.credits \in [TopUps -> Nat]
  BY TopUpTypes DEF Due, TopUpOps, ForTopUps, ApplyOps
<1>1. Applying'
  <2> SUFFICES ASSUME NEW q \in Requests, Due(reqs'[q]).op \in ApplyOps
               PROVE  topup'[Due(reqs'[q]).t].gw = "paid"
    BY DEF Applying
  <2>1. CASE q = r
    BY <1>0, <2>1 DEF TopUpOnly
  <2>2. CASE q # r
    BY <1>0, <2>2 DEF TopUpOnly, TopUpInv, Applying
  <2> QED
    BY <2>1, <2>2
<1>2. Storing'
  <2>1. ASSUME NEW q \in Requests, q # r, reqs[q].op = "topupStore"
        PROVE  topup'[reqs[q].t].gw = "created" /\ (reqs'[r].op = "topupStore" => reqs'[r].t # reqs[q].t)
    <3>1. reqs[q].t \in TopUps /\ topup[reqs[q].t].gw = "created"
      BY <1>0, <2>1 DEF TopUpInv, Storing
    <3>2. CASE reqs[q].t # t
      BY <1>0, <3>1, <3>2 DEF TopUpOnly
    <3>3. CASE reqs[q].t = t
      <4>1. ~ (reqs[r].op = "topupStore")
        BY <1>0, <2>1, <3>3 DEF TopUpInv, Storing, TopUpOnly
      <4>2. topup'[t].gw = "created" /\ reqs'[r].op # "topupStore"
        BY <3>1, <3>3, <4>1
      <4> QED
        BY <3>3, <4>2
    <3> QED
      BY <3>2, <3>3
  <2>2. reqs'[r].op = "topupStore" => reqs'[r].t = t /\ topup'[t].gw = "created"
    BY <1>0 DEF TopUpOnly
  <2> QED
    BY <2>1, <2>2 DEF Storing, TopUpOnly, TopUpInv
<1>3. Counted'
  <2> SUFFICES ASSUME NEW q \in Requests, reqs'[q].op = "applyDelete"
               PROVE  past'.credits[reqs'[q].t] > 0
    BY DEF Counted
  <2>1. CASE q = r
    BY <1>0, <2>1 DEF TopUpOnly, ApplyOps
  <2>2. CASE q # r
    <3>1. reqs'[q] = reqs[q] /\ reqs[q].t \in TopUps /\ past.credits[reqs[q].t] > 0
      BY <1>0, <2>2 DEF TopUpOnly, TopUpInv, Counted, ApplyOps
    <3> QED
      BY <1>0, <3>1 DEF TopUpOnly
  <2> QED
    BY <2>1, <2>2
<1>4. Offered'
  BY DEF Offered, TopUpOnly, TopUpInv
<1>5. NotLost'
  <2> SUFFICES ASSUME NEW u \in TopUps, topup'[u].gw = "paid", u \notin past'.expired, ~past'.stopped
               PROVE  past'.credits[u] > 0 \/ topup'[u].marker = "open" \/ InFlight(u)'
    BY DEF NotLost
  <2>1. CASE u = t
    BY <2>1 DEF NotLost, TopUpInv, TopUpOnly
  <2>2. CASE u # t
    <3>1. past.credits[u] > 0 \/ topup[u].marker = "open" \/ InFlight(u)
      BY <2>2 DEF NotLost, TopUpInv, TopUpOnly
    <3>2. CASE InFlight(u)
      <4>1. PICK q \in Requests :
              \/ reqs[q].op \in {"applyMark", "applyUnmark"} /\ reqs[q].t = u
              \/ /\ reqs[q].op \in {"creditRead", "creditWrite"}
                 /\ reqs[q].next = [op |-> "applyDelete", t |-> u]
        BY <3>2 DEF InFlight
      <4>2. Due(reqs[q]).op \in TopUpOps /\ Due(reqs[q]).t = u
        BY <4>1 DEF Due, TopUpOps
      <4>3. q # r
        BY <2>2, <4>2 DEF TopUpOnly
      <4> QED
        BY <4>1, <4>3 DEF InFlight, TopUpOnly
    <3> QED
      BY <2>2, <3>1, <3>2 DEF TopUpOnly
  <2> QED
    BY <2>1, <2>2
<1>6. Once'
  <2>1. SUFFICES ASSUME OneAtATime PROVE Once'
    BY DEF Once, OneAtATime, TopUpOnly
  <2>2. \A q \in Requests \ {r} : reqs'[q].op = "idle"
    BY <2>1, Lonely, IdleIsRequest DEF TopUpOnly
  <2>3. \A u \in TopUps : /\ past'.credits[u] <= 1
                          /\ topup'[u].gw # "paid" \/ topup'[u].marker = "open" => past'.credits[u] = 0
    BY <2>1 DEF Once, TopUpInv, TopUpOnly
  <2>4. /\ reqs'[r].op \in {"applyMark", "applyUnmark"} => past'.credits[reqs'[r].t] = 0
        /\ reqs'[r].op \in {"creditRead", "creditWrite"} /\ Due(reqs'[r]).op = "applyDelete" =>
             past'.credits[Due(reqs'[r]).t] = 0 /\ topup'[Due(reqs'[r]).t].marker # "open"
    BY <1>0, <2>1 DEF TopUpOnly, ApplyOps
  <2> QED
    BY <2>2, <2>3, <2>4 DEF Once
<1> QED
  BY <1>1, <1>2, <1>3, <1>4, <1>5, <1>6 DEF TopUpInv

LEMMA StillInFlight ==
  ASSUME NEW r \in Requests, NEW t, \A q \in Requests \ {r} : reqs'[q] = reqs[q],
         reqs[r].op \notin {"applyMark", "applyUnmark", "creditRead", "creditWrite"}
  PROVE  InFlight(t) => InFlight(t)'
  BY DEF InFlight

LEMMA TopUpsCrash ==
  ASSUME DInv, TopUpInv, NEW r \in Requests, Crash(r), WalletStep(r)
  PROVE  TopUpInv'
<1>1. /\ UNCHANGED <<load, topup>> /\ reqs'[r] = Idle /\ \A q \in Requests \ {r} : reqs'[q] = reqs[q]
      /\ past' = [past EXCEPT !.stopped = TRUE]
  BY HandlerSteps DEF HandlerStep, Crash, wallet, Done, Goto, DInv, Handlers
<1>2. past'.stopped /\ past'.credits = past.credits /\ past'.expired = past.expired
  BY <1>1, TopUpTypes
<1>3. Due(Idle) = Idle /\ Idle.op \notin ApplyOps \cup {"topupStore", "applyDelete", "creditRead", "creditWrite"}
  BY IdleDue DEF Idle, ApplyOps
<1>4. Applying' /\ Storing' /\ Counted' /\ Offered' /\ NotLost'
  <2>1. Applying'
    BY <1>1, <1>3 DEF Applying, TopUpInv
  <2>2. Storing'
    BY <1>1, <1>3 DEF Storing, TopUpInv
  <2>3. Counted' /\ Offered' /\ NotLost'
    BY <1>1, <1>2, <1>3 DEF Counted, Offered, NotLost, TopUpInv
  <2> QED
    BY <2>1, <2>2, <2>3
<1>5. Once'
  BY <1>1, <1>2, <1>3 DEF Once, OneAtATime, TopUpInv, ApplyOps
<1> QED
  BY <1>4, <1>5 DEF TopUpInv

LEMMA TopUpsSet ==
  ASSUME DInv, TopUpInv, NEW r \in Requests, WalletStep(r), TopUpStep(r), ~Crash(r)
  PROVE  TopUpInv'
<1>0. /\ UNCHANGED load /\ r \in load.crew /\ \A q \in Requests \ {r} : reqs'[q] = reqs[q]
      /\ topup \in [TopUps -> TopUp] /\ reqs \in [Requests -> Request] /\ past.credits \in [TopUps -> Nat]
      /\ "idle" \notin TopUpOps /\ Due(Idle) = Idle /\ Idle.op = "idle"
  BY HandlerSteps, TopUpTypes, IdleDue DEF HandlerStep, TopUpOps
<1>1. ASSUME NEW t \in TopUps, CreateTopUpIntent(r, t) PROVE TopUpInv'
  <2>1. /\ reqs[r] = Idle /\ reqs'[r] = [op |-> "topupStore", t |-> t] /\ past' = past
        /\ topup[t].gw = "none" /\ topup' = [topup EXCEPT ![t].gw = "created"]
    BY <1>0, <1>1 DEF CreateTopUpIntent, Starts, Goto
  <2>2. /\ topup'[t].gw = "created" /\ topup'[t].marker = topup[t].marker
        /\ \A u \in TopUps \ {t} : topup'[u] = topup[u]
    BY <1>0, <2>1 DEF TopUp
  <2>3. TopUpOnly(r, t) /\ Due(reqs'[r]).op = "topupStore"
    BY <1>0, <2>1, <2>2 DEF TopUpOnly, Due
  <2>4. InFlight(t) => InFlight(t)'
    BY <1>0, <2>1, StillInFlight
  <2>5. OneAtATime => past.credits[t] = 0
    BY <2>1 DEF TopUpInv, Once
  <2> QED
    BY <1>0, <2>1, <2>2, <2>3, <2>4, <2>5, OneTopUp DEF ApplyOps
<1>2. ASSUME NEW t \in TopUps, HookTopUp(r, t) \/ ConfirmTopUpStripe(r, t) \/ VerifyTopUpRazorpay(r, t) PROVE TopUpInv'
  <2>1. /\ reqs[r] = Idle /\ reqs'[r] = [op |-> "applyRead", t |-> t] /\ past' = past
        /\ topup[t].gw = "paid" /\ topup' = topup
    BY <1>0, <1>2 DEF HookTopUp, ConfirmTopUpStripe, VerifyTopUpRazorpay, Apply, Starts, Goto
  <2>3. TopUpOnly(r, t) /\ Due(reqs'[r]).op = "applyRead"
    BY <1>0, <2>1 DEF TopUpOnly, Due
  <2>4. InFlight(t) => InFlight(t)'
    BY <1>0, <2>1, StillInFlight
  <2>5. OneAtATime => past.credits[t] <= 1 /\ (topup[t].marker = "open" => past.credits[t] = 0)
    BY DEF TopUpInv, Once
  <2> QED
    BY <1>0, <2>1, <2>3, <2>4, <2>5, OneTopUp DEF ApplyOps
<1>3. ASSUME reqs[r].op \in TopUpOps
      PROVE  /\ Due(reqs[r]) = reqs[r] /\ reqs[r].t \in TopUps
             /\ (reqs[r].op \in ApplyOps => topup[reqs[r].t].gw = "paid")
  <2>1. Due(reqs[r]) = reqs[r]
    BY <1>3 DEF Due, TopUpOps
  <2> QED
    BY <1>3, <2>1, TopUpTypes DEF ForTopUps, TopUpInv, Applying
<1>4. CASE StoreTopUp(r)
  <2>1. PICK t : t = reqs[r].t
    OBVIOUS
  <2>2. reqs[r].op = "topupStore" /\ reqs'[r] = Idle /\ past' = past
        /\ topup' = [topup EXCEPT ![t] = [gw |-> "offered", marker |-> "open"]]
    BY <1>0, <1>4, <2>1 DEF StoreTopUp, At, Done, Goto
  <2>3. t \in TopUps /\ Due(reqs[r]) = reqs[r] /\ topup[t].gw = "created"
    BY <1>3, <2>1, <2>2 DEF TopUpInv, Storing, TopUpOps
  <2>4. topup'[t] = [gw |-> "offered", marker |-> "open"] /\ \A u \in TopUps \ {t} : topup'[u] = topup[u]
    BY <1>0, <2>2, <2>3
  <2>5. TopUpOnly(r, t)
    BY <1>0, <2>1, <2>2, <2>3, <2>4 DEF TopUpOnly
  <2>6. OneAtATime => past.credits[t] = 0
    BY <2>3 DEF TopUpInv, Once
  <2> QED
    BY <1>0, <2>2, <2>3, <2>4, <2>5, <2>6, OneTopUp DEF ApplyOps
<1>5. CASE ApplyRead(r)
  <2>1. PICK t : t = reqs[r].t
    OBVIOUS
  <2>2. /\ reqs[r].op = "applyRead" /\ past' = past /\ topup' = topup
        /\ IF topup[t].marker = "open" THEN reqs'[r] = [op |-> "applyMark", t |-> t] ELSE reqs'[r] = Idle
    BY <1>0, <1>5, <2>1 DEF ApplyRead, At, Done, Goto
  <2>3. t \in TopUps /\ Due(reqs[r]) = reqs[r] /\ topup[t].gw = "paid"
    BY <1>3, <2>1, <2>2 DEF TopUpOps, ApplyOps
  <2>4. Due(reqs'[r]) = reqs'[r]
    BY <1>0, <2>2 DEF Due
  <2>5. TopUpOnly(r, t)
    BY <1>0, <2>1, <2>2, <2>3, <2>4 DEF TopUpOnly
  <2>6. OneAtATime => past.credits[t] <= 1 /\ (topup[t].marker = "open" => past.credits[t] = 0)
    BY <2>3 DEF TopUpInv, Once
  <2>7. InFlight(t) => InFlight(t)'
    BY <1>0, <2>2, StillInFlight
  <2> QED
    BY <1>0, <2>2, <2>3, <2>4, <2>5, <2>6, <2>7, OneTopUp DEF ApplyOps
<1>6. CASE ApplyMark(r)
  <2>1. PICK t : t = reqs[r].t
    OBVIOUS
  <2>2. /\ reqs[r].op = "applyMark" /\ past' = past /\ topup' = [topup EXCEPT ![t].marker = "credited"]
        /\ reqs'[r] = [op |-> "creditRead", amount |-> Unit, next |-> [op |-> "applyDelete", t |-> t]]
    BY <1>0, <1>6, <2>1 DEF ApplyMark, At, GoCredit, Goto
  <2>3. t \in TopUps /\ Due(reqs[r]) = reqs[r] /\ topup[t].gw = "paid"
    BY <1>3, <2>1, <2>2 DEF TopUpOps, ApplyOps
  <2>4. Due(reqs'[r]) = [op |-> "applyDelete", t |-> t] /\ reqs'[r].op = "creditRead"
    BY <2>2 DEF Due
  <2>5. /\ topup'[t].gw = "paid" /\ topup'[t].marker = "credited"
        /\ \A u \in TopUps \ {t} : topup'[u] = topup[u]
    BY <1>0, <2>2, <2>3 DEF TopUp
  <2>6. TopUpOnly(r, t)
    BY <1>0, <2>1, <2>2, <2>3, <2>4, <2>5 DEF TopUpOnly
  <2>7. OneAtATime => past.credits[t] = 0
    BY <2>1, <2>2 DEF TopUpInv, Once
  <2>8. InFlight(t)'
    BY <2>2 DEF InFlight
  <2> QED
    BY <1>0, <2>2, <2>3, <2>4, <2>5, <2>6, <2>7, <2>8, OneTopUp DEF ApplyOps
<1>7. CASE ApplyUnmark(r)
  <2>1. PICK t : t = reqs[r].t
    OBVIOUS
  <2>2. /\ reqs[r].op = "applyUnmark" /\ past' = past /\ topup' = [topup EXCEPT ![t].marker = "open"]
        /\ reqs'[r] = Idle
    BY <1>0, <1>7, <2>1 DEF ApplyUnmark, At, Done, Goto
  <2>3. t \in TopUps /\ Due(reqs[r]) = reqs[r] /\ topup[t].gw = "paid"
    BY <1>3, <2>1, <2>2 DEF TopUpOps, ApplyOps
  <2>4. /\ topup'[t].gw = "paid" /\ topup'[t].marker = "open"
        /\ \A u \in TopUps \ {t} : topup'[u] = topup[u]
    BY <1>0, <2>2, <2>3 DEF TopUp
  <2>5. TopUpOnly(r, t)
    BY <1>0, <2>1, <2>2, <2>3, <2>4 DEF TopUpOnly
  <2>6. OneAtATime => past.credits[t] = 0
    BY <2>1, <2>2 DEF TopUpInv, Once
  <2> QED
    BY <1>0, <2>2, <2>3, <2>4, <2>5, <2>6, OneTopUp DEF ApplyOps
<1>8. CASE ApplyDelete(r)
  <2>1. PICK t : t = reqs[r].t
    OBVIOUS
  <2>2. /\ reqs[r].op = "applyDelete" /\ past' = past /\ topup' = [topup EXCEPT ![t].marker = "none"]
        /\ reqs'[r] = Idle
    BY <1>0, <1>8, <2>1 DEF ApplyDelete, At, Done, Goto
  <2>3. t \in TopUps /\ Due(reqs[r]) = reqs[r] /\ topup[t].gw = "paid" /\ past.credits[t] > 0
    BY <1>3, <2>1, <2>2 DEF TopUpOps, ApplyOps, TopUpInv, Counted
  <2>4. /\ topup'[t].gw = "paid" /\ topup'[t].marker = "none"
        /\ \A u \in TopUps \ {t} : topup'[u] = topup[u]
    BY <1>0, <2>2, <2>3 DEF TopUp
  <2>5. TopUpOnly(r, t)
    BY <1>0, <2>1, <2>2, <2>3, <2>4 DEF TopUpOnly
  <2>6. OneAtATime => past.credits[t] <= 1
    BY <2>3 DEF TopUpInv, Once
  <2> QED
    BY <1>0, <2>2, <2>3, <2>4, <2>5, <2>6, OneTopUp DEF ApplyOps
<1>9. CASE (CreditRead(r) \/ CreditWrite(r) \/ CreditFails(r)) /\ ForTopUp(r)
  <2>1. reqs[r].op \in {"creditRead", "creditWrite"} /\ Due(reqs[r]) = reqs[r].next /\ Due(reqs[r]).op = "applyDelete"
    BY <1>9 DEF CreditRead, CreditWrite, CreditFails, At, ForTopUp, Due
  <2>2. PICK t : t = reqs[r].next.t
    OBVIOUS
  <2>3. t \in TopUps /\ reqs[r].next = [op |-> "applyDelete", t |-> t] /\ topup[t].gw = "paid"
    <3>1. Due(reqs[r]) \in ForTopUps /\ topup[Due(reqs[r]).t].gw = "paid"
      BY <2>1, TopUpTypes DEF TopUpInv, Applying, ApplyOps
    <3> QED
      BY <2>1, <2>2, <3>1 DEF ForTopUps
  <2>4. OneAtATime => past.credits[t] = 0 /\ topup[t].marker # "open"
    BY <2>1, <2>2 DEF TopUpInv, Once
  <2>5. topup' = topup
    BY <1>9 DEF CreditRead, CreditWrite, CreditFails
  <2>6. CASE CreditRead(r)
    <3>1. past' = past /\ reqs'[r].op = "creditWrite" /\ reqs'[r].next = reqs[r].next
      BY <1>0, <2>6 DEF CreditRead, Goto
    <3>2. Due(reqs'[r]) = reqs[r].next
      BY <3>1 DEF Due
    <3>3. TopUpOnly(r, t)
      BY <1>0, <2>1, <2>2, <2>5, <3>1, <3>2 DEF TopUpOnly
    <3>4. InFlight(t)'
      BY <2>3, <3>1 DEF InFlight
    <3> QED
      BY <1>0, <2>1, <2>3, <2>4, <2>5, <3>1, <3>2, <3>3, <3>4, OneTopUp DEF ApplyOps
  <2>7. CASE CreditWrite(r)
    <3>1. past' = [past EXCEPT !.credits[t] = @ + 1] /\ reqs'[r] = reqs[r].next
      BY <1>0, <1>9, <2>2, <2>7 DEF CreditWrite, Goto
    <3>2. Due(reqs'[r]) = reqs[r].next
      BY <2>3, <3>1 DEF Due
    <3>3. /\ past'.credits = [past.credits EXCEPT ![t] = @ + 1] /\ past'.expired = past.expired
          /\ past'.stopped = past.stopped
      BY <3>1, TopUpTypes
    <3>4. past'.credits[t] = past.credits[t] + 1 /\ \A u \in TopUps \ {t} : past'.credits[u] = past.credits[u]
      BY <1>0, <2>3, <3>3
    <3>5. TopUpOnly(r, t)
      BY <1>0, <2>1, <2>2, <2>5, <3>2, <3>3, <3>4 DEF TopUpOnly
    <3>6. past'.credits[t] > 0 /\ reqs'[r].op = "applyDelete"
      BY <1>0, <2>3, <3>1, <3>4
    <3> QED
      BY <1>0, <2>1, <2>3, <2>4, <2>5, <3>2, <3>3, <3>4, <3>5, <3>6, OneTopUp DEF ApplyOps
  <2>8. CASE CreditFails(r)
    <3>1. past' = past /\ reqs'[r] = [op |-> "applyUnmark", t |-> t]
      BY <1>0, <1>9, <2>2, <2>8 DEF CreditFails, Goto
    <3>2. Due(reqs'[r]) = reqs'[r] /\ reqs'[r].op = "applyUnmark" /\ reqs'[r].t = t
      BY <3>1 DEF Due
    <3>3. TopUpOnly(r, t)
      BY <1>0, <2>1, <2>2, <2>5, <3>1, <3>2 DEF TopUpOnly
    <3>4. InFlight(t)'
      BY <3>2 DEF InFlight
    <3> QED
      BY <1>0, <2>1, <2>3, <2>4, <2>5, <3>1, <3>2, <3>3, <3>4, OneTopUp DEF ApplyOps
  <2> QED
    BY <1>9, <2>6, <2>7, <2>8
<1> QED
  BY <1>1, <1>2, <1>4, <1>5, <1>6, <1>7, <1>8, <1>9 DEF TopUpStep

LEMMA TopUpsOutside ==
  ASSUME DInv, TopUpInv, WalletAlone
  PROVE  TopUpInv'
<1>0. UNCHANGED <<load, reqs>> /\ AwayFrom(TopUpOps) /\ topup \in [TopUps -> TopUp]
  BY NobodysSteps, TopUpTypes DEF AwayFrom
<1>1. CASE CancelBooking \/ \E s \in Splits : CardCaptured(s) \/ CardDeclined(s)
  <2>1. TopUpsRest
    BY <1>0, <1>1 DEF CancelBooking, CardCaptured, CardDeclined, TopUpsRest
  <2> QED
    BY <2>1, TopUpsKept
<1>2. ASSUME NEW t, InFlight(t) PROVE InFlight(t)'
  BY <1>0, <1>2 DEF InFlight
<1>3. ASSUME NEW t \in TopUps, TopUpPaid(t) PROVE TopUpInv'
  <2>1. past' = past /\ topup[t].gw = "offered" /\ topup' = [topup EXCEPT ![t].gw = "paid"]
    BY <1>3 DEF TopUpPaid
  <2>2. /\ topup'[t].gw = "paid" /\ topup'[t].marker = topup[t].marker
        /\ \A u \in TopUps \ {t} : topup'[u] = topup[u]
    BY <1>0, <2>1 DEF TopUp
  <2>3. Applying' /\ Storing' /\ Counted'
    BY <1>0, <2>1, <2>2, TopUpTypes DEF Applying, Storing, Counted, TopUpInv, ForTopUps, TopUpOps, ApplyOps
  <2>4. Offered' /\ NotLost'
    BY <1>2, <2>1, <2>2 DEF Offered, NotLost, TopUpInv
  <2>5. Once'
    <3>1. SUFFICES ASSUME OneAtATime PROVE Once'
      BY <1>0 DEF Once, OneAtATime
    <3>2. past.credits[t] = 0
      BY <2>1, <3>1 DEF Once, TopUpInv
    <3>3. \A u \in TopUps : topup'[u].marker = topup[u].marker
      BY <2>2
    <3>4. \A q \in Requests : Due(reqs[q]).op = "applyDelete" => Due(reqs[q]).t \in TopUps
      BY TopUpTypes DEF ForTopUps, TopUpOps
    <3> QED
      BY <1>0, <2>1, <2>2, <3>1, <3>2, <3>3, <3>4 DEF Once, TopUpInv
  <2> QED
    BY <2>3, <2>4, <2>5 DEF TopUpInv
<1>4. ASSUME NEW t \in TopUps, TopUpExpires(t) PROVE TopUpInv'
  <2>1. /\ past' = [past EXCEPT !.expired = @ \cup {t}] /\ topup' = [topup EXCEPT ![t].marker = "none"]
    BY <1>4 DEF TopUpExpires
  <2>2. /\ topup'[t].gw = topup[t].gw /\ topup'[t].marker = "none"
        /\ \A u \in TopUps \ {t} : topup'[u] = topup[u]
    BY <1>0, <2>1 DEF TopUp
  <2>3. past'.credits = past.credits /\ past'.expired = past.expired \cup {t} /\ past'.stopped = past.stopped
    BY <2>1, TopUpTypes
  <2>4. Applying' /\ Storing' /\ Counted'
    BY <1>0, <2>2, <2>3, TopUpTypes DEF Applying, Storing, Counted, TopUpInv, ForTopUps, TopUpOps, ApplyOps
  <2>5. Offered' /\ NotLost'
    BY <1>2, <2>2, <2>3 DEF Offered, NotLost, TopUpInv
  <2>6. Once'
    <3>1. \A q \in Requests : Due(reqs[q]).op = "applyDelete" => Due(reqs[q]).t \in TopUps
      BY TopUpTypes DEF ForTopUps, TopUpOps
    <3>2. \A u \in TopUps : topup'[u].gw = topup[u].gw /\ (topup'[u].marker = "open" => topup[u].marker = "open")
      BY <2>2
    <3> QED
      BY <1>0, <2>3, <3>1, <3>2 DEF Once, OneAtATime, TopUpInv
  <2> QED
    BY <2>4, <2>5, <2>6 DEF TopUpInv
<1> QED
  BY <1>1, <1>3, <1>4 DEF WalletAlone, Outside

LEMMA TopUpsInvariant ==
  ASSUME DInv, TopUpInv, AccountNext
  PROVE  TopUpInv'
<1>1. CASE WalletAlone
  BY <1>1, TopUpsOutside
<1>2. CASE TripAlone
  <2>1. TopUpsRest
    BY <1>2, NobodysSteps DEF TopUpsRest, AwayFrom, vars
  <2> QED
    BY <2>1, TopUpsKept
<1>3. ASSUME NEW r \in Requests, WalletStep(r) PROVE TopUpInv'
  BY <1>3, TopUpsAside, TopUpsKept, TopUpsCrash, TopUpsSet
<1>4. ASSUME NEW r \in Requests, OrderStep(r) \/ BookStep(r) \/ GarageStep(r) \/ CardStep(r) PROVE TopUpInv'
  <2>1. UNCHANGED load
    BY <1>4, HandlerSteps DEF HandlerStep
  <2>2. AwayFrom(TopUpOps) /\ UNCHANGED <<topup, past>>
    BY <1>4, OthersAway DEF AwayFrom, MoneyOps
  <2> QED
    BY <2>1, <2>2, TopUpsKept DEF TopUpsRest
<1> QED
  BY <1>1, <1>2, <1>3, <1>4, StepIs

\* A paid top-up is never lost: it has been credited, or is being, or its key still lets it be,
\* however often and from wherever it is applied and whichever credit throws, unless the key ran
\* out or a handler stopped; and applied one at a time it is credited once (applyTopUpCredit).
THEOREM TopUpsReachTheWallet == AccountSpec => []TopUpApplied
<1>1. AccountInit => TopUpInv
  <2> SUFFICES ASSUME AccountInit PROVE TopUpInv
    OBVIOUS
  <2>1. /\ \A r \in Requests : reqs[r] = Idle
        /\ \A t \in TopUps : topup[t] = [gw |-> "none", marker |-> "none"] /\ past.credits[t] = 0
    BY DEF AccountInit, Init
  <2>2. \A t \in TopUps : topup[t].gw = "none" /\ topup[t].marker = "none"
    BY <2>1
  <2>3. Due(Idle) = Idle /\ Idle.op = "idle"
    BY IdleDue
  <2>4. Applying /\ Storing /\ Counted
    BY <2>1, <2>3 DEF Applying, Storing, Counted, ApplyOps
  <2>5. Offered /\ NotLost /\ Once
    BY <2>1, <2>2, <2>3 DEF Offered, NotLost, Once
  <2> QED
    BY <2>4, <2>5 DEF TopUpInv
<1>2. DInv /\ TopUpInv /\ [AccountNext]_allVars => TopUpInv'
  <2>1. DInv /\ TopUpInv /\ UNCHANGED allVars => TopUpInv'
    BY TopUpsKept DEF allVars, vars, TopUpsRest, AwayFrom
  <2> QED
    BY <2>1, TopUpsInvariant
<1>3. TopUpInv => TopUpApplied
  BY DEF TopUpInv, NotLost, Once, TopUpApplied
<1> QED
  BY <1>1, <1>2, <1>3, Typed, PTL DEF AccountSpec, allVars

-----------------------------------------------------------------------------
\* Split payments.  An attempt that was debited has a charged card, one that is refunded is
\* marked so first, and while requests come one at a time and none is interrupted, what was
\* debited is confirmed or is about to be.
ChargeOps == {"splitDebit", "splitConfirm", "refundStatus"}
Charged ==
  /\ \A s \in Splits : /\ split[s].st = "none" => split[s].card = "none"
                       /\ past.debits[s] > 0 => split[s].card = "captured"
                       /\ split[s].st = "refunded" => split[s].returned
  /\ \A r \in Requests : /\ reqs[r].op = "splitDebit" => split[reqs[r].s].card = "captured"
                         /\ reqs[r].op = "refundStatus" => split[reqs[r].s].returned
Confirming(s) == \E r \in Requests : reqs[r].op = "splitConfirm" /\ reqs[r].s = s
DebitOnce ==
  OneAtATime /\ faults = 0 =>
    \A s \in Splits : ~split[s].returned =>
      /\ past.debits[s] <= 1
      /\ past.debits[s] > 0 => split[s].st = "completed" \/ Confirming(s)
      /\ \A r \in Requests : reqs[r].op = "splitDebit" /\ reqs[r].s = s => past.debits[s] = 0

LEMMA SplitTypes ==
  ASSUME DInv
  PROVE  /\ split \in [Splits -> Split] /\ reqs \in [Requests -> Request] /\ faults \in Nat
         /\ past \in [credits : [TopUps -> Nat], expired : SUBSET TopUps,
                      debits : [Splits -> Nat], adjusts : 0..MaxAdjusts, stopped : BOOLEAN]
         /\ \A q \in Requests : reqs[q].op \in SplitOps => reqs[q].s \in Splits
  BY TopUpTypes, RequestShape, WorkloadIs DEF DInv, TypeOK, ForSplits

\* Steps that are not about split payments.
SplitsRest ==
  /\ UNCHANGED <<load, split>> /\ AwayFrom(ChargeOps) /\ past'.debits = past.debits
  /\ faults' = 0 => faults = 0

LEMMA SplitsKept ==
  ASSUME DInv, Charged, DebitOnce, SplitsRest
  PROVE  Charged' /\ DebitOnce'
<1>1. \A q \in Requests : /\ reqs'[q].op \in ChargeOps => reqs'[q] = reqs[q]
                          /\ reqs[q].op \in ChargeOps => reqs'[q] = reqs[q]
  BY DEF SplitsRest, AwayFrom, Due, ChargeOps
<1>2. Charged'
  BY <1>1 DEF Charged, SplitsRest, ChargeOps
<1>3. \A s \in Splits : Confirming(s) => Confirming(s)'
  BY <1>1 DEF Confirming, ChargeOps
<1>4. DebitOnce'
  BY <1>1, <1>3 DEF DebitOnce, OneAtATime, SplitsRest, ChargeOps
<1> QED
  BY <1>2, <1>4

SplitStep(r) ==
  \/ \E s \in Splits : HookSplit(r, s) \/ ConfirmSplit(r, s) \/ HookDeclined(r, s)
  \/ SplitRead(r) \/ SplitInsert(r) \/ SplitDebit(r) \/ SplitConfirm(r) \/ SplitConfirmFails(r)
  \/ RefundRecord(r) \/ RefundStatus(r) \/ Crash(r)

LEMMA SplitsAside ==
  ASSUME DInv, NEW r \in Requests, WalletStep(r), ~SplitStep(r)
  PROVE  SplitsRest
<1>0. "idle" \notin ChargeOps /\ reqs \in [Requests -> Request] /\ reqs[r] \in Request /\ faults \in Nat
  BY SplitTypes DEF ChargeOps
<1>1. UNCHANGED load
  BY HandlerSteps DEF HandlerStep
<1>2. past'.debits = past.debits
  <2>1. past' = past \/ AdminCredit(r) \/ (CreditWrite(r) /\ ForTopUp(r))
    <3>1. \A t \in TopUps : CreateTopUpIntent(r, t) \/ HookTopUp(r, t) \/ ConfirmTopUpStripe(r, t)
                            \/ VerifyTopUpRazorpay(r, t) => past' = past
      BY DEF CreateTopUpIntent, HookTopUp, ConfirmTopUpStripe, VerifyTopUpRazorpay, Apply
    <3>2. AdminDebit(r) \/ WalletPaymentRead(r) \/ SuspendRead(r) \/ Withdraw(r) \/ WithdrawalPaid(r)
          \/ WithdrawalFailed(r) => past' = past
      BY DEF AdminDebit, WalletPaymentRead, SuspendRead, Withdraw, WithdrawalPaid, WithdrawalFailed
    <3>3. StoreTopUp(r) \/ ApplyRead(r) \/ ApplyMark(r) \/ ApplyUnmark(r) \/ ApplyDelete(r) \/ CreditRead(r)
          \/ CreditFails(r) \/ WalletPaymentWrite(r) \/ SuspendWrite(r) \/ SplitNoRoom(r) \/ RefundRead(r)
          \/ (CreditWrite(r) /\ ~ForTopUp(r)) => past' = past
      BY DEF StoreTopUp, ApplyRead, ApplyMark, ApplyUnmark, ApplyDelete, CreditRead, CreditWrite, CreditFails,
             WalletPaymentWrite, SuspendWrite, SplitNoRoom, RefundRead
    <3>4. CASE Arrive(r)
      <4>1. ~ (SplitRead(r) \/ \E s \in Splits : HookSplit(r, s) \/ ConfirmSplit(r, s) \/ HookDeclined(r, s))
        BY DEF SplitStep
      <4> QED
        BY <3>1, <3>2, <3>4, <4>1 DEF Arrive
    <3>5. CASE Proceed(r)
      <4>1. ~ (SplitInsert(r) \/ SplitDebit(r) \/ SplitConfirm(r) \/ SplitConfirmFails(r)
               \/ RefundRecord(r) \/ RefundStatus(r) \/ Crash(r))
        BY DEF SplitStep
      <4> QED
        BY <3>3, <3>5, <4>1 DEF Proceed
    <3> QED
      BY <3>4, <3>5 DEF WalletStep
  <2>2. CASE AdminCredit(r)
    BY <2>2, SplitTypes DEF AdminCredit
  <2>3. CASE CreditWrite(r) /\ ForTopUp(r)
    BY <2>3, SplitTypes DEF CreditWrite
  <2> QED
    BY <2>1, <2>2, <2>3
<1>3. UNCHANGED split /\ (faults' = faults \/ faults' = faults + 1)
  <2>1. CASE Arrive(r)
    BY <2>1 DEF SplitStep, Arrive, CreateTopUpIntent, HookTopUp, ConfirmTopUpStripe, VerifyTopUpRazorpay, Apply,
           AdminCredit, AdminDebit, WalletPaymentRead, SuspendRead, SplitRead, Withdraw, WithdrawalPaid, WithdrawalFailed
  <2>2. CASE Proceed(r)
    BY <2>2 DEF SplitStep, Proceed, StoreTopUp, ApplyRead, ApplyMark, ApplyUnmark, ApplyDelete, CreditRead,
           CreditWrite, CreditFails, WalletPaymentWrite, SuspendWrite, SplitNoRoom, RefundRead, Fault
  <2> QED
    BY <2>1, <2>2 DEF WalletStep
<1>4. ASSUME Due(reqs[r]).op \notin ChargeOps,
             reqs' = reqs \/ \E rec : Goto(r, rec) /\ Due(rec).op \notin ChargeOps
      PROVE  AwayFrom(ChargeOps)
  BY <1>4, GoesAway DEF AwayFrom
<1>5. Due(reqs[r]).op \notin ChargeOps
  <2>1. reqs[r].op \notin ChargeOps
    <3>1. CASE Arrive(r)
      <4>1. reqs[r] = Idle
        BY <3>1 DEF SplitStep, Arrive, CreateTopUpIntent, HookTopUp, ConfirmTopUpStripe, VerifyTopUpRazorpay, Apply,
           AdminCredit, AdminDebit, WalletPaymentRead, SuspendRead, SplitRead, Withdraw, WithdrawalPaid, WithdrawalFailed,
           Starts
      <4> QED
        BY <1>0, <4>1, IdleIsRequest
    <3>2. CASE Proceed(r)
      BY <3>2 DEF SplitStep, Proceed, StoreTopUp, ApplyRead, ApplyMark, ApplyUnmark, ApplyDelete, CreditRead,
           CreditWrite, CreditFails, WalletPaymentWrite, SuspendWrite, SplitNoRoom, RefundRead, At, ChargeOps
    <3> QED
      BY <3>1, <3>2 DEF WalletStep
  <2> QED
    BY <1>0, <2>1, DueIs DEF NextOps, ChargeOps
<1>6. ASSUME NEW rec, Goto(r, rec), rec.op \in TopUpOps \cup {"idle", "creditWrite", "payWrite", "suspendWrite"},
             rec.op = "creditWrite" => rec.next = reqs[r].next /\ reqs[r].op = "creditRead"
      PROVE  Due(rec).op \notin ChargeOps
  BY <1>0, <1>5, <1>6 DEF Due, TopUpOps, ChargeOps
<1>7. ASSUME NEW q, NEW next, GoCredit(r, q, next), next.op \in NextOps
      PROVE  \E rec : Goto(r, rec) /\ Due(rec).op \notin ChargeOps
  BY <1>7 DEF GoCredit, Due, NextOps, ChargeOps
<1>8. Done(r) => \E rec : Goto(r, rec) /\ Due(rec).op \notin ChargeOps
  BY <1>0, IdleDue DEF Done
<1>9. reqs' = reqs \/ \E rec : Goto(r, rec) /\ Due(rec).op \notin ChargeOps
  <2>1. CASE Arrive(r)
    <3>1. ASSUME NEW t, CreateTopUpIntent(r, t) \/ HookTopUp(r, t) \/ ConfirmTopUpStripe(r, t) \/ VerifyTopUpRazorpay(r, t)
          PROVE  \E rec : Goto(r, rec) /\ rec.op \in {"topupStore", "applyRead"}
      BY <3>1 DEF CreateTopUpIntent, HookTopUp, ConfirmTopUpStripe, VerifyTopUpRazorpay, Apply
    <3>2. CASE AdminCredit(r)
      BY <1>7, <3>2, IdleIsRequest DEF AdminCredit, NextOps
    <3>3. CASE WalletPaymentRead(r)
      BY <1>6, <3>3 DEF WalletPaymentRead
    <3>4. CASE SuspendRead(r)
      <4>1. \E rec : Goto(r, rec) /\ rec.op = "suspendWrite"
        BY <3>4 DEF SuspendRead
      <4> QED
        BY <1>6, <4>1
    <3>5. CASE AdminDebit(r) \/ Withdraw(r) \/ WithdrawalPaid(r) \/ WithdrawalFailed(r)
      BY <3>5 DEF AdminDebit, Withdraw, WithdrawalPaid, WithdrawalFailed
    <3> QED
      BY <1>6, <2>1, <3>1, <3>2, <3>3, <3>4, <3>5 DEF Arrive, SplitStep, TopUpOps
  <2>2. CASE Proceed(r)
    <3>1. CASE StoreTopUp(r) \/ ApplyUnmark(r) \/ ApplyDelete(r) \/ WalletPaymentWrite(r) \/ SplitNoRoom(r)
      BY <1>8, <3>1 DEF StoreTopUp, ApplyUnmark, ApplyDelete, WalletPaymentWrite, SplitNoRoom
    <3>2. CASE ApplyRead(r) \/ CreditFails(r)
      <4>1. Done(r) \/ \E rec : Goto(r, rec) /\ rec.op \in {"applyMark", "applyUnmark"}
        BY <3>2 DEF ApplyRead, CreditFails
      <4> QED
        BY <1>6, <1>8, <4>1 DEF TopUpOps
    <3>3. CASE ApplyMark(r) \/ SuspendWrite(r)
      BY <1>7, <3>3, IdleIsRequest DEF ApplyMark, SuspendWrite, NextOps
    <3>4. CASE RefundRead(r)
      <4>1. Done(r) \/ \E next : GoCredit(r, CardPart, next) /\ next.op = "refundRecord"
        BY <3>4 DEF RefundRead
      <4> QED
        BY <1>7, <1>8, <4>1 DEF NextOps
    <3>5. CASE CreditRead(r)
      BY <1>6, <3>5 DEF CreditRead, At
    <3>6. CASE CreditWrite(r)
      <4>1. reqs[r].next.op \in NextOps
        BY <1>0, <3>6, DueIs DEF CreditWrite, At
      <4>2. Due(reqs[r].next).op \notin ChargeOps
        BY <4>1 DEF Due, NextOps, ChargeOps
      <4> QED
        BY <3>6, <4>2 DEF CreditWrite
    <3> QED
      BY <2>2, <3>1, <3>2, <3>3, <3>4, <3>5, <3>6 DEF Proceed, SplitStep
  <2> QED
    BY <2>1, <2>2 DEF WalletStep
<1> QED
  BY <1>0, <1>1, <1>2, <1>3, <1>4, <1>5, <1>9 DEF SplitsRest

\* A step of handler r about attempt s, which alone it changes.
SplitOnly(r, s) ==
  /\ UNCHANGED load /\ r \in load.crew /\ (faults' = 0 => faults = 0)
  /\ \A q \in Requests \ {r} : reqs'[q] = reqs[q]
  /\ \A u \in Splits \ {s} : split'[u] = split[u] /\ past'.debits[u] = past.debits[u]
  /\ reqs[r].op \in ChargeOps => reqs[r].s = s
  /\ reqs'[r].op \in ChargeOps => reqs'[r].s = s

\* What is to be shown of such a step.
LEMMA OneSplit ==
  ASSUME DInv, Charged, DebitOnce, NEW r \in Requests, NEW s \in Splits, SplitOnly(r, s),
         split'[s].st # "none" \/ split'[s] = split[s],
         split[s].card = "captured" => split'[s].card = "captured",
         split[s].returned => split'[s].returned,
         split'[s].st = "refunded" => split'[s].returned,
         past'.debits[s] > 0 => split'[s].card = "captured",
         reqs'[r].op = "splitDebit" => split'[s].card = "captured",
         reqs'[r].op = "refundStatus" => split'[s].returned,
         OneAtATime /\ faults' = 0 /\ ~split'[s].returned =>
           /\ past'.debits[s] <= 1
           /\ past'.debits[s] > 0 => split'[s].st = "completed" \/ reqs'[r].op = "splitConfirm"
           /\ reqs'[r].op = "splitDebit" => past'.debits[s] = 0
  PROVE  Charged' /\ DebitOnce'
<1>1. \A q \in Requests : reqs[q].op \in ChargeOps => reqs[q].s \in Splits
  BY SplitTypes DEF ChargeOps, SplitOps
<1>2. Charged'
  <2>1. \A u \in Splits : /\ split'[u].st = "none" => split'[u].card = "none"
                          /\ past'.debits[u] > 0 => split'[u].card = "captured"
                          /\ split'[u].st = "refunded" => split'[u].returned
    BY DEF SplitOnly, Charged
  <2>2. \A u \in Splits : /\ split[u].card = "captured" => split'[u].card = "captured"
                          /\ split[u].returned => split'[u].returned
    BY DEF SplitOnly
  <2>3. ASSUME NEW q \in Requests
        PROVE  /\ reqs'[q].op = "splitDebit" => split'[reqs'[q].s].card = "captured"
               /\ reqs'[q].op = "refundStatus" => split'[reqs'[q].s].returned
    <3>1. CASE q = r
      BY <3>1 DEF SplitOnly, ChargeOps
    <3>2. CASE q # r
      BY <1>1, <2>2, <3>2 DEF SplitOnly, Charged, ChargeOps
    <3> QED
      BY <3>1, <3>2
  <2> QED
    BY <2>1, <2>3 DEF Charged
<1>3. DebitOnce'
  <2>1. SUFFICES ASSUME OneAtATime, faults' = 0, NEW u \in Splits, ~split'[u].returned
                 PROVE  /\ past'.debits[u] <= 1
                        /\ past'.debits[u] > 0 => split'[u].st = "completed" \/ Confirming(u)'
                        /\ \A q \in Requests : reqs'[q].op = "splitDebit" /\ reqs'[q].s = u => past'.debits[u] = 0
    BY DEF DebitOnce, OneAtATime, SplitOnly
  <2>2. \A q \in Requests \ {r} : reqs'[q].op = "idle"
    BY <2>1, Lonely, IdleIsRequest DEF SplitOnly
  <2>3. faults = 0
    BY <2>1 DEF SplitOnly
  <2>4. CASE u = s
    <3>1. reqs'[r].op = "splitConfirm" => Confirming(s)'
      BY DEF SplitOnly, Confirming, ChargeOps
    <3> QED
      BY <2>1, <2>2, <2>4, <3>1
  <2>5. CASE u # s
    <3>1. /\ past.debits[u] <= 1
          /\ past.debits[u] > 0 => split[u].st = "completed" \/ Confirming(u)
      BY <2>1, <2>3, <2>5 DEF DebitOnce, SplitOnly
    <3>2. Confirming(u) => Confirming(u)'
      BY <2>5 DEF Confirming, SplitOnly, ChargeOps
    <3>3. reqs'[r].op = "splitDebit" => reqs'[r].s # u
      BY <2>5 DEF SplitOnly, ChargeOps
    <3> QED
      BY <2>2, <2>5, <3>1, <3>2, <3>3 DEF SplitOnly
  <2> QED
    BY <2>4, <2>5
<1> QED
  BY <1>2, <1>3

LEMMA SplitsSet ==
  ASSUME DInv, Charged, DebitOnce, NEW r \in Requests, WalletStep(r), SplitStep(r)
  PROVE  Charged' /\ DebitOnce'
<1>0. /\ UNCHANGED load /\ r \in load.crew /\ \A q \in Requests \ {r} : reqs'[q] = reqs[q]
      /\ split \in [Splits -> Split] /\ reqs \in [Requests -> Request] /\ faults \in Nat
      /\ past.debits \in [Splits -> Nat]
      /\ Idle.op = "idle" /\ "idle" \notin ChargeOps
      /\ \A op \in ChargeOps : op \in SplitOps
  BY HandlerSteps, SplitTypes, IdleIsRequest DEF HandlerStep, ChargeOps, SplitOps
<1>1. OneAtATime /\ reqs[r].op # "splitConfirm" => \A s \in Splits : ~ Confirming(s)
  BY <1>0, Lonely DEF Confirming
<1>2. \A s \in Splits : split[s] \in Split /\ split[s].returned \in BOOLEAN /\ split[s].declined \in BOOLEAN
  BY <1>0 DEF Split
<1>3. ASSUME NEW s \in Splits, UNCHANGED <<split, past, faults>>,
             reqs[r] = Idle, reqs'[r] = [op |-> "splitDebit", s |-> s] \/ reqs'[r] = [op |-> "splitConfirm", s |-> s],
             reqs'[r].op = "splitDebit" => split[s].card = "captured" /\ split[s].st # "completed"
      PROVE  Charged' /\ DebitOnce'
  <2>1. SplitOnly(r, s)
    BY <1>0, <1>3 DEF SplitOnly
  <2>2. OneAtATime /\ faults = 0 /\ ~split[s].returned =>
          past.debits[s] <= 1 /\ (past.debits[s] > 0 => split[s].st = "completed")
    BY <1>0, <1>1, <1>3 DEF DebitOnce
  <2>3. /\ past.debits[s] > 0 => split[s].card = "captured"
        /\ split[s].st = "refunded" => split[s].returned
    BY DEF Charged
  <2>4. reqs'[r].op \in {"splitDebit", "splitConfirm"} /\ past.debits[s] \in Nat
    BY <1>0, <1>3
  <2> QED
    BY <1>3, <2>1, <2>2, <2>3, <2>4, OneSplit
<1>4. ASSUME NEW s \in Splits, HookSplit(r, s) \/ ConfirmSplit(r, s)
      PROVE  Charged' /\ DebitOnce'
  <2>1. /\ UNCHANGED <<split, past, faults>> /\ reqs[r] = Idle
        /\ \/ reqs'[r] = [op |-> "splitDebit", s |-> s] /\ split[s].card = "captured" /\ split[s].st # "completed"
           \/ reqs'[r] = [op |-> "splitConfirm", s |-> s]
    BY <1>0, <1>4 DEF HookSplit, ConfirmSplit, Starts, Goto
  <2>2. reqs'[r].op = "splitDebit" => split[s].card = "captured" /\ split[s].st # "completed"
    BY <2>1
  <2> QED
    BY <1>3, <2>1, <2>2
<1>5. ASSUME NEW s \in Splits, HookDeclined(r, s)
      PROVE  Charged' /\ DebitOnce'
  <2>1. /\ UNCHANGED <<past, faults, reqs>> /\ reqs[r] = Idle /\ split[s].st # "completed"
        /\ split' = [split EXCEPT ![s].st = "failed"]
    BY <1>5 DEF HookDeclined, Starts
  <2>2. /\ split'[s].st = "failed" /\ split'[s].card = split[s].card /\ split'[s].returned = split[s].returned
        /\ \A u \in Splits \ {s} : split'[u] = split[u]
    BY <1>0, <2>1 DEF Split
  <2>3. SplitOnly(r, s)
    BY <1>0, <2>1, <2>2 DEF SplitOnly
  <2>4. OneAtATime /\ faults = 0 /\ ~split[s].returned => past.debits[s] <= 1 /\ ~(past.debits[s] > 0)
    BY <1>0, <1>1, <2>1 DEF DebitOnce
  <2>5. past.debits[s] > 0 => split[s].card = "captured"
    BY DEF Charged
  <2> QED
    BY <1>0, <2>1, <2>2, <2>3, <2>4, <2>5, OneSplit
<1>6. CASE SplitRead(r)
  <2>1. CASE Pending = {}
    <3>1. /\ UNCHANGED <<split, past, faults, load>> /\ reqs[r] = Idle /\ Goto(r, [op |-> "splitInsert"])
      BY <1>6, <2>1 DEF SplitRead, Starts
    <3>2. Due(reqs[r]).op \notin ChargeOps /\ Due([op |-> "splitInsert"]).op \notin ChargeOps
      BY <1>0, <3>1, IdleDue DEF Due, ChargeOps
    <3>3. SplitsRest
      BY <3>1, <3>2, GoesAway DEF SplitsRest
    <3> QED
      BY <3>3, SplitsKept
  <2>2. CASE Pending # {}
    <3>1. PICK s : s = Latest(Pending)
      OBVIOUS
    <3>2. s \in Splits
      BY <2>2, <3>1, PendingIs DEF DInv
    <3>3. UNCHANGED <<split, past, faults>> /\ reqs[r] = Idle /\ reqs'[r] = [op |-> "splitConfirm", s |-> s]
      BY <1>0, <1>6, <2>2, <3>1 DEF SplitRead, Starts, Goto
    <3>4. reqs'[r].op # "splitDebit"
      BY <3>3
    <3> QED
      BY <1>3, <3>2, <3>3, <3>4
  <2> QED
    BY <2>1, <2>2
<1>7. CASE SplitInsert(r)
  <2>1. PICK s \in 1..load.splits :
          split[s].st = "none" /\ split' = [split EXCEPT ![s] = [@ EXCEPT !.st = "pending", !.card = "open"]]
    BY <1>7 DEF SplitInsert
  <2>2. s \in Splits
    BY WorkloadIs DEF DInv, Splits
  <2>3. UNCHANGED <<past, faults>> /\ reqs[r].op = "splitInsert" /\ reqs'[r] = Idle
    BY <1>0, <1>7 DEF SplitInsert, At, Done, Goto
  <2>4. /\ split'[s].st = "pending" /\ split'[s].card = "open" /\ split'[s].returned = split[s].returned
        /\ \A u \in Splits \ {s} : split'[u] = split[u]
    BY <1>0, <2>1, <2>2 DEF Split
  <2>5. SplitOnly(r, s)
    BY <1>0, <2>3, <2>4 DEF SplitOnly, ChargeOps
  <2>6. split[s].card = "none" /\ past.debits[s] = 0
    <3>1. split[s].card = "none" /\ ~(past.debits[s] > 0) /\ past.debits[s] \in Nat
      BY <1>0, <2>1, <2>2 DEF Charged
    <3> QED
      BY <3>1
  <2> QED
    BY <1>0, <2>2, <2>3, <2>4, <2>5, <2>6, OneSplit
<1>8. ASSUME NEW op \in ChargeOps, reqs[r].op = op, NEW s, s = reqs[r].s PROVE s \in Splits
  BY <1>0, <1>8, SplitTypes
<1>9. CASE SplitDebit(r)
  <2>1. PICK s : s = reqs[r].s
    OBVIOUS
  <2>2. UNCHANGED <<split, faults>> /\ reqs[r].op = "splitDebit"
    BY <1>9 DEF SplitDebit, At
  <2>3. s \in Splits /\ split[s].card = "captured"
    BY <1>8, <2>1, <2>2 DEF Charged, ChargeOps
  <2>4. \/ reqs'[r] = [op |-> "splitConfirm", s |-> s] /\ past' = [past EXCEPT !.debits[s] = @ + 1]
        \/ reqs'[r] = Idle /\ past' = past
    BY <1>0, <1>9, <2>1 DEF SplitDebit, Goto, Done
  <2>5. OneAtATime /\ faults = 0 /\ ~split[s].returned => past.debits[s] = 0
    BY <2>1, <2>2, <2>3 DEF DebitOnce
  <2>6. split[s].st = "refunded" => split[s].returned
    BY <2>3 DEF Charged
  <2>7. CASE reqs'[r] = [op |-> "splitConfirm", s |-> s] /\ past' = [past EXCEPT !.debits[s] = @ + 1]
    <3>1. past'.debits = [past.debits EXCEPT ![s] = @ + 1]
      BY <2>7, SplitTypes
    <3>2. past'.debits[s] = past.debits[s] + 1 /\ \A u \in Splits \ {s} : past'.debits[u] = past.debits[u]
      BY <1>0, <2>3, <3>1
    <3>3. SplitOnly(r, s)
      BY <1>0, <2>1, <2>2, <2>7, <3>2 DEF SplitOnly
    <3> QED
      BY <1>0, <2>2, <2>3, <2>5, <2>6, <2>7, <3>2, <3>3, OneSplit
  <2>8. CASE reqs'[r] = Idle /\ past' = past
    <3>1. SplitOnly(r, s)
      BY <1>0, <2>1, <2>2, <2>8 DEF SplitOnly
    <3> QED
      BY <1>0, <2>2, <2>3, <2>5, <2>6, <2>8, <3>1, OneSplit
  <2> QED
    BY <2>4, <2>7, <2>8
<1>10. CASE SplitConfirm(r)
  <2>1. PICK s : s = reqs[r].s
    OBVIOUS
  <2>2. UNCHANGED <<past, faults>> /\ reqs[r].op = "splitConfirm"
    BY <1>10 DEF SplitConfirm, At
  <2>3. s \in Splits
    BY <1>8, <2>1, <2>2 DEF ChargeOps
  <2>4. reqs'[r].op \in {"idle", "refundRead"}
    BY <1>0, <1>10 DEF SplitConfirm, Goto, Done
  <2>5. /\ past.debits[s] > 0 => split[s].card = "captured"
        /\ split[s].st = "refunded" => split[s].returned
    BY <2>3 DEF Charged
  <2>6. CASE split[s].st = "refunded"
    <3>1. split' = split
      BY <1>10, <2>1, <2>6 DEF SplitConfirm
    <3>2. SplitOnly(r, s)
      BY <1>0, <2>1, <2>2, <2>4, <3>1 DEF SplitOnly, ChargeOps
    <3> QED
      BY <2>2, <2>3, <2>4, <2>5, <2>6, <3>1, <3>2, OneSplit
  <2>7. CASE split[s].st # "refunded"
    <3>1. split' = [split EXCEPT ![s].st = "completed"]
      BY <1>10, <2>1, <2>7 DEF SplitConfirm
    <3>2. /\ split'[s].st = "completed" /\ split'[s].card = split[s].card /\ split'[s].returned = split[s].returned
          /\ \A u \in Splits \ {s} : split'[u] = split[u]
      BY <1>0, <2>3, <3>1 DEF Split
    <3>3. SplitOnly(r, s)
      BY <1>0, <2>1, <2>2, <2>4, <3>2 DEF SplitOnly, ChargeOps
    <3>4. OneAtATime /\ faults = 0 /\ ~split[s].returned => past.debits[s] <= 1
      BY <2>3 DEF DebitOnce
    <3> QED
      BY <2>2, <2>3, <2>4, <2>5, <3>2, <3>3, <3>4, OneSplit
  <2> QED
    BY <2>6, <2>7
<1>11. CASE SplitConfirmFails(r) \/ Crash(r)
  <2>1. UNCHANGED split /\ reqs'[r] = Idle /\ faults' = faults + 1 /\ (past' = past \/ past' = [past EXCEPT !.stopped = TRUE])
    BY <1>0, <1>11 DEF SplitConfirmFails, Crash, Fault, Done, Goto
  <2>2. past'.debits = past.debits /\ faults' # 0
    BY <1>0, <2>1, SplitTypes
  <2>3. Charged'
    BY <1>0, <2>1, <2>2 DEF Charged
  <2>4. DebitOnce'
    BY <2>2 DEF DebitOnce
  <2> QED
    BY <2>3, <2>4
<1>12. ASSUME reqs[r].op \in SplitOps, NEW s, s = reqs[r].s PROVE s \in Splits
  BY <1>12, SplitTypes
<1>13. CASE RefundRecord(r)
  <2>1. PICK s : s = reqs[r].s
    OBVIOUS
  <2>2. /\ UNCHANGED <<past, faults>> /\ reqs[r].op = "refundRecord" /\ split' = [split EXCEPT ![s].returned = TRUE]
        /\ reqs'[r] = [op |-> "refundStatus", s |-> s]
    BY <1>0, <1>13, <2>1 DEF RefundRecord, At, Goto
  <2>3. s \in Splits
    BY <1>12, <2>1, <2>2 DEF SplitOps
  <2>4. /\ split'[s].st = split[s].st /\ split'[s].card = split[s].card /\ split'[s].returned
        /\ \A u \in Splits \ {s} : split'[u] = split[u]
    BY <1>0, <2>2, <2>3 DEF Split
  <2>5. SplitOnly(r, s)
    BY <1>0, <2>1, <2>2, <2>4 DEF SplitOnly, ChargeOps
  <2>6. Charged'
    <3>1. ASSUME NEW u \in Splits
          PROVE  /\ split'[u].st = split[u].st /\ split'[u].card = split[u].card
                 /\ split[u].returned => split'[u].returned
      BY <2>4
    <3>2. ASSUME NEW q \in Requests
          PROVE  /\ reqs'[q].op = "splitDebit" => split'[reqs'[q].s].card = "captured"
                 /\ reqs'[q].op = "refundStatus" => split'[reqs'[q].s].returned
      <4>1. CASE q = r
        BY <2>2, <2>4, <4>1
      <4>2. CASE q # r
        <5>1. /\ reqs[q].op = "splitDebit" => split[reqs[q].s].card = "captured" /\ reqs[q].s \in Splits
              /\ reqs[q].op = "refundStatus" => split[reqs[q].s].returned /\ reqs[q].s \in Splits
          BY SplitTypes DEF Charged, SplitOps
        <5> QED
          BY <1>0, <3>1, <4>2, <5>1
      <4> QED
        BY <4>1, <4>2
    <3> QED
      BY <2>2, <3>1, <3>2 DEF Charged
  <2>7. DebitOnce'
    <3>1. SUFFICES ASSUME OneAtATime, faults = 0, NEW u \in Splits \ {s}
                   PROVE  ~split[u].returned =>
                            /\ past.debits[u] <= 1
                            /\ past.debits[u] > 0 => split[u].st = "completed" \/ Confirming(u)'
                            /\ \A q \in Requests : reqs'[q].op = "splitDebit" /\ reqs'[q].s = u => past.debits[u] = 0
      BY <1>0, <2>2, <2>4 DEF DebitOnce, OneAtATime
    <3>2. ~ Confirming(u)
      BY <1>1, <2>2, <3>1
    <3>3. \A q \in Requests : reqs'[q].op # "splitDebit"
      BY <1>0, <2>2, <3>1, Lonely
    <3> QED
      BY <3>1, <3>2, <3>3 DEF DebitOnce
  <2> QED
    BY <2>6, <2>7
<1>14. CASE RefundStatus(r)
  <2>1. PICK s : s = reqs[r].s
    OBVIOUS
  <2>2. /\ UNCHANGED <<past, faults>> /\ reqs[r].op = "refundStatus" /\ split' = [split EXCEPT ![s].st = "refunded"]
        /\ reqs'[r] = Idle
    BY <1>0, <1>14, <2>1 DEF RefundStatus, At, Done, Goto
  <2>3. s \in Splits /\ split[s].returned
    BY <1>12, <2>1, <2>2 DEF SplitOps, Charged
  <2>4. /\ split'[s].st = "refunded" /\ split'[s].card = split[s].card /\ split'[s].returned
        /\ \A u \in Splits \ {s} : split'[u] = split[u]
    BY <1>0, <2>2, <2>3 DEF Split
  <2>5. SplitOnly(r, s)
    BY <1>0, <2>1, <2>2, <2>4 DEF SplitOnly, ChargeOps
  <2>6. past.debits[s] > 0 => split[s].card = "captured"
    BY <2>3 DEF Charged
  <2> QED
    BY <1>0, <2>2, <2>3, <2>4, <2>5, <2>6, OneSplit
<1> QED
  BY <1>4, <1>5, <1>6, <1>7, <1>9, <1>10, <1>11, <1>13, <1>14 DEF SplitStep

LEMMA SplitsOutside ==
  ASSUME DInv, Charged, DebitOnce, WalletAlone
  PROVE  Charged' /\ DebitOnce'
<1>0. UNCHANGED <<load, reqs, faults>> /\ split \in [Splits -> Split]
  BY NobodysSteps, SplitTypes
<1>1. CASE CancelBooking \/ \E t \in TopUps : TopUpPaid(t) \/ TopUpExpires(t)
  <2>1. UNCHANGED split /\ (past' = past \/ \E t : past' = [past EXCEPT !.expired = @ \cup {t}])
    BY <1>1 DEF CancelBooking, TopUpPaid, TopUpExpires
  <2>2. SplitsRest
    BY <1>0, <2>1, SplitTypes DEF SplitsRest, AwayFrom
  <2> QED
    BY <2>2, SplitsKept
<1>2. ASSUME NEW s \in Splits, CardCaptured(s) \/ CardDeclined(s)
      PROVE  Charged' /\ DebitOnce'
  <2>1. past' = past /\ split[s].card = "open"
        /\ (split' = [split EXCEPT ![s].card = "captured"] \/ split' = [split EXCEPT ![s].declined = TRUE])
    BY <1>2 DEF CardCaptured, CardDeclined
  <2>2. /\ split'[s].st = split[s].st /\ split'[s].returned = split[s].returned
        /\ \A u \in Splits \ {s} : split'[u] = split[u]
    BY <1>0, <2>1 DEF Split
  <2>3. \A u \in Splits : /\ split'[u].st = split[u].st /\ split'[u].returned = split[u].returned
                          /\ split[u].card = "captured" => split'[u].card = "captured"
    BY <2>1, <2>2
  <2>4. split[s].st # "none"
    BY <2>1 DEF Charged
  <2>5. Charged'
    <3>1. \A q \in Requests : reqs[q].op \in {"splitDebit", "refundStatus"} => reqs[q].s \in Splits
      BY SplitTypes DEF SplitOps
    <3> QED
      BY <1>0, <2>1, <2>2, <2>3, <2>4, <3>1 DEF Charged
  <2>6. DebitOnce'
    BY <1>0, <2>1, <2>3 DEF DebitOnce, OneAtATime, Confirming
  <2> QED
    BY <2>5, <2>6
<1> QED
  BY <1>1, <1>2 DEF WalletAlone, Outside

\* How many statements threw only grows.
LEMMA FaultsGrow ==
  ASSUME DInv, NEW r \in Requests, OrderStep(r) \/ BookStep(r) \/ GarageStep(r) \/ CardStep(r), faults' = 0
  PROVE  faults = 0
<1>1. faults' = faults \/ faults' = faults + 1
  <2>1. CASE OrderStep(r)
    <3>1. CASE TripArrive(r)
      BY <3>1, TripArriveTyped
    <3>2. CASE TripProceed(r)
      BY <3>2 DEF TripProceed, OrderInsert, OrderConfirm, ExtendWrite, HostCancelWrite, CancelWrite,
                  CancelFind, ReturnRead, GatewayRefuses, ReturnRecord, ReturnStatus, GatewayRefund, Fault
    <3> QED
      BY <2>1, <3>1, <3>2 DEF OrderStep
  <2>2. CASE BookStep(r) \/ GarageStep(r)
    BY <2>2, BookLeaves DEF GarageStep
  <2>3. CASE CardStep(r)
    BY <2>3, CardsTyped DEF CardStep
  <2> QED
    BY <2>1, <2>2, <2>3
<1> QED
  BY <1>1, SplitTypes

LEMMA SplitsInvariant ==
  ASSUME DInv, Charged, DebitOnce, AccountNext
  PROVE  Charged' /\ DebitOnce'
<1>1. CASE WalletAlone
  BY <1>1, SplitsOutside
<1>2. CASE TripAlone
  <2>1. SplitsRest
    BY <1>2, NobodysSteps DEF SplitsRest, AwayFrom, vars
  <2> QED
    BY <2>1, SplitsKept
<1>3. ASSUME NEW r \in Requests, WalletStep(r) PROVE Charged' /\ DebitOnce'
  BY <1>3, SplitsAside, SplitsKept, SplitsSet
<1>4. ASSUME NEW r \in Requests, OrderStep(r) \/ BookStep(r) \/ GarageStep(r) \/ CardStep(r)
      PROVE  Charged' /\ DebitOnce'
  <2>1. UNCHANGED load
    BY <1>4, HandlerSteps DEF HandlerStep
  <2>2. AwayFrom(ChargeOps) /\ UNCHANGED <<split, past>>
    BY <1>4, OthersAway DEF AwayFrom, MoneyOps, ChargeOps, SplitOps
  <2>3. SplitsRest
    BY <1>4, <2>1, <2>2, FaultsGrow DEF SplitsRest
  <2> QED
    BY <2>3, SplitsKept
<1> QED
  BY <1>1, <1>2, <1>3, <1>4, StepIs

\* The wallet's part of a split payment is taken only for a card that was charged, and once per
\* attempt while events are handled one at a time and none is interrupted between the debit and
\* the confirmation, until it is refunded (handleStripeWebhook).
THEOREM SplitsDebitedOnce == AccountSpec => []SplitDebited
<1>1. AccountInit => Charged /\ DebitOnce
  <2> SUFFICES ASSUME AccountInit PROVE Charged /\ DebitOnce
    OBVIOUS
  <2>1. /\ \A r \in Requests : reqs[r] = Idle
        /\ \A s \in Splits : split[s] = [st |-> "none", card |-> "none", declined |-> FALSE, returned |-> FALSE]
                             /\ past.debits[s] = 0
    BY DEF AccountInit, Init
  <2>2. \A s \in Splits : split[s].st = "none" /\ split[s].card = "none"
    BY <2>1
  <2> QED
    BY <2>1, <2>2, IdleIsRequest DEF Charged, DebitOnce
<1>2. DInv /\ Charged /\ DebitOnce /\ [AccountNext]_allVars => (Charged /\ DebitOnce)'
  <2>1. DInv /\ Charged /\ DebitOnce /\ UNCHANGED allVars => (Charged /\ DebitOnce)'
    BY SplitsKept DEF allVars, vars, SplitsRest, AwayFrom
  <2> QED
    BY <2>1, SplitsInvariant
<1>3. Charged /\ DebitOnce => SplitDebited
  BY DEF Charged, DebitOnce, SplitDebited
<1> QED
  BY <1>1, <1>2, <1>3, Typed, PTL DEF AccountSpec, allVars

-----------------------------------------------------------------------------
\* The default among the vehicles and among the payment methods.

\* Handlers of these are where they were if they come from somewhere else.
LEMMA SameHandler ==
  ASSUME DInv, DInv', NEW Ops \in {GarageOps, CardOps}, Elsewhere(Ops), NEW q \in Requests, reqs'[q].op \in Ops
  PROVE  reqs'[q] = reqs[q]
<1>0. reqs[q] \in Request /\ reqs'[q] \in Request
  BY DEF DInv, Handlers
<1>1. Ops \cap NextOps = {} /\ Ops \cap {"creditRead", "creditWrite"} = {}
  BY DEF NextOps, GarageOps, CardOps
<1>2. Due(reqs'[q]) = reqs'[q] /\ Due(reqs'[q]) = Due(reqs[q])
  BY <1>1 DEF Due, Elsewhere
<1>3. Due(reqs[q]).op \in NextOps \/ Due(reqs[q]) = reqs[q]
  BY <1>0, DueIs
<1> QED
  BY <1>1, <1>2, <1>3

\* The two modules count as this one does.
LEMMA SameCount ==
  ASSUME NEW S
  PROVE  Garage!Cardinality(S) = Cardinality(S) /\ Cards!Cardinality(S) = Cardinality(S)
  BY DEF Garage!Cardinality, Cards!Cardinality, Cardinality

LEMMA OneAtMost ==
  ASSUME NEW S, \A x, y \in S : x = y
  PROVE  Cardinality(S) <= 1
<1>1. CASE S = {}
  BY <1>1, FS_EmptySet
<1>2. CASE S # {}
  <2>1. PICK x : S = {x}
    BY <1>2
  <2> QED
    BY <2>1, FS_Singleton
<1> QED
  BY <1>1, <1>2

\* The first of some vehicles.
LEMMA FirstIs ==
  ASSUME NVehicles \in Nat, NEW S \in SUBSET Garage!Vehicles
  PROVE  (\A v, w \in Garage!First(S) : v = w) /\ (S # {} => Garage!First(S) # {}) /\ Garage!First(S) \subseteq S
<1>1. S \in SUBSET Nat
  BY DEF Garage!Vehicles
<1>2. S # {} => \E v \in S : \A w \in S : v <= w
  BY <1>1, LeastNatural
<1>3. ASSUME NEW v \in Garage!First(S), NEW w \in Garage!First(S) PROVE v = w
  <2>1. v \in Nat /\ w \in Nat /\ v <= w /\ w <= v
    BY <1>1, <1>3 DEF Garage!First
  <2> QED
    BY <2>1
<1> QED
  BY <1>2, <1>3 DEF Garage!First

\* What a handler of the vehicles has read is still so when it writes.
VehicleAsRead(rec) ==
  /\ rec.op = "vehicleAdd" => IF rec.default THEN Garage!Defaults \subseteq rec.clear
                              ELSE rec.clear = {} /\ Garage!Owned # {}
  /\ rec.op = "vehicleSet" => rec.clear = IF rec.ask = "yes" THEN Garage!Defaults \ {rec.v} ELSE {}
  /\ rec.op = "vehicleDrop" => rec.v \in Garage!Owned /\ rec.default = vehicle[rec.v].default

\* At most one default; and one, unless the driver asked for none.
OneAmong(owned, defaults, wanted) ==
  (\A v, w \in defaults : v = w) /\ (owned # {} /\ wanted => defaults # {})

OneVehicle ==
  OneAtATime => /\ OneAmong(Garage!Owned, Garage!Defaults, ~unset)
                /\ \A r \in Requests : VehicleAsRead(reqs[r])

LEMMA VehiclesKept ==
  ASSUME DInv, DInv', OneVehicle, UNCHANGED <<load, garage>>, Elsewhere(GarageOps)
  PROVE  OneVehicle'
<1>1. Garage!Owned' = Garage!Owned /\ Garage!Defaults' = Garage!Defaults
  BY DEF garage, Garage!Owned, Garage!Defaults
<1>2. ASSUME OneAtATime, NEW r \in Requests PROVE VehicleAsRead(reqs[r])'
  <2>1. CASE reqs'[r].op \in GarageOps
    <3>1. reqs'[r] = reqs[r]
      BY <2>1, SameHandler
    <3>2. VehicleAsRead(reqs[r])
      BY <1>2 DEF OneVehicle
    <3> QED
      BY <1>1, <3>1, <3>2 DEF VehicleAsRead, garage
  <2>2. CASE reqs'[r].op \notin GarageOps
    BY <2>2 DEF VehicleAsRead, GarageOps
  <2> QED
    BY <2>1, <2>2
<1>3. OneAtATime' = OneAtATime
  BY DEF OneAtATime
<1> QED
  BY <1>1, <1>2, <1>3 DEF OneVehicle, OneAmong, garage

\* A handler that starts has read what is there.
LEMMA VehicleIsRead ==
  ASSUME DInv, OneVehicle, OneAtATime, NEW r \in Requests, GarageStep(r),
         ~(Garage!VehicleAdd(r) \/ Garage!VehicleSet(r) \/ Garage!VehicleDrop(r))
  PROVE  UNCHANGED garage /\ VehicleAsRead(reqs[r])'
<1>0. reqs \in [Requests -> Request] /\ vehicle \in [Garage!Vehicles -> DefaultRow]
  BY DEF DInv, Handlers, GarageRows
<1>1. ASSUME NEW default \in BOOLEAN, Garage!CreateVehicle(r, default)
      PROVE  UNCHANGED garage /\ VehicleAsRead(reqs[r])'
  <2>1. UNCHANGED <<vehicle, unset>> /\ reqs'[r] = [op |-> "vehicleAdd",
               clear |-> IF default THEN Garage!Defaults ELSE {}, default |-> default \/ Garage!Owned = {}]
    BY <1>0, <1>1 DEF Garage!CreateVehicle, Garage!Goto, Garage!garage
  <2>2. Garage!Owned' = Garage!Owned /\ Garage!Defaults' = Garage!Defaults
    BY <2>1 DEF Garage!Owned, Garage!Defaults
  <2>3. Garage!Owned = {} => Garage!Defaults = {}
    BY DEF Garage!Defaults
  <2>4. /\ reqs'[r].op = "vehicleAdd" /\ reqs'[r].clear = IF default THEN Garage!Defaults ELSE {}
        /\ reqs'[r].default = (default \/ Garage!Owned = {})
    BY <2>1
  <2> QED
    BY <2>1, <2>2, <2>3, <2>4 DEF VehicleAsRead, garage
<1>2. ASSUME NEW v \in Garage!Vehicles, Garage!DeleteVehicle(r, v)
      PROVE  UNCHANGED garage /\ VehicleAsRead(reqs[r])'
  <2>1. UNCHANGED <<vehicle, unset>> /\ v \in Garage!Owned
        /\ reqs'[r] = [op |-> "vehicleDrop", v |-> v, default |-> vehicle[v].default]
    BY <1>0, <1>2 DEF Garage!DeleteVehicle, Garage!Goto, Garage!garage
  <2>2. Garage!Owned' = Garage!Owned
    BY <2>1 DEF Garage!Owned
  <2> QED
    BY <2>1, <2>2 DEF VehicleAsRead, garage
<1>3. ASSUME NEW v \in Garage!Vehicles, NEW ask \in {"yes", "no", "leave"}, Garage!UpdateVehicle(r, v, ask)
      PROVE  UNCHANGED garage /\ VehicleAsRead(reqs[r])'
  <2>1. UNCHANGED <<vehicle, unset>>
        /\ reqs'[r] = [op |-> "vehicleSet", v |-> v, ask |-> ask,
                       clear |-> IF ask = "yes" THEN Garage!Defaults \ {v} ELSE {}]
    BY <1>0, <1>3 DEF Garage!UpdateVehicle, Garage!Goto, Garage!garage
  <2>2. Garage!Defaults' = Garage!Defaults
    BY <2>1 DEF Garage!Owned, Garage!Defaults
  <2> QED
    BY <2>1, <2>2 DEF VehicleAsRead, garage
<1> QED
  BY <1>1, <1>2, <1>3 DEF GarageStep

\* A handler that writes does so on what it has read.
LEMMA VehicleIsWritten ==
  ASSUME DInv, DInv', OneVehicle, OneAtATime, NEW r \in Requests,
         Garage!VehicleAdd(r) \/ Garage!VehicleSet(r) \/ Garage!VehicleDrop(r)
  PROVE  OneAmong(Garage!Owned, Garage!Defaults, ~unset)' /\ reqs'[r] = Idle
<1>0. reqs \in [Requests -> Request] /\ vehicle \in [Garage!Vehicles -> DefaultRow] /\ NVehicles \in Nat
  BY AccountAssumption DEF DInv, Handlers, GarageRows
<1>1. PICK clear : clear = reqs[r].clear
  OBVIOUS
<1>2. reqs'[r] = Idle
  <2>1. Garage!Done(r)
    BY DEF Garage!VehicleAdd, Garage!VehicleSet, Garage!VehicleDrop
  <2> QED
    BY <1>0, <2>1, GoesIdle
<1>3. PICK Owned : Owned = Garage!Owned
  OBVIOUS
<1>4. PICK Defaults : Defaults = Garage!Defaults
  OBVIOUS
<1>5. OneAmong(Owned, Defaults, ~unset) /\ VehicleAsRead(reqs[r]) /\ Defaults \subseteq Owned
  BY <1>3, <1>4 DEF OneVehicle, Garage!Defaults
<1>6. UNCHANGED vehicle => Garage!Owned' = Owned /\ Garage!Defaults' = Defaults
  BY <1>3, <1>4 DEF Garage!Owned, Garage!Defaults
<1>7. CASE Garage!VehicleAdd(r)
  <2>1. UNCHANGED unset /\ reqs[r].op = "vehicleAdd"
    BY <1>7 DEF Garage!VehicleAdd, Garage!At
  <2>2. CASE UNCHANGED vehicle
    BY <1>2, <1>5, <1>6, <2>1, <2>2 DEF OneAmong
  <2>3. CASE ~ UNCHANGED vehicle
    <3>1. PICK v \in Garage!Vehicles \ Owned :
            /\ Garage!Owned' = Owned \cup {v}
            /\ Garage!Defaults' = (Defaults \ clear) \cup (IF reqs[r].default THEN {v} ELSE {})
      BY <1>1, <1>3, <1>4, <1>7, <2>3, VehicleEffect
    <3>2. IF reqs[r].default THEN Defaults \subseteq clear ELSE clear = {} /\ Owned # {}
      BY <1>1, <1>3, <1>4, <1>5, <2>1 DEF VehicleAsRead
    <3>3. Garage!Defaults' = IF reqs[r].default THEN {v} ELSE Defaults
      BY <3>1, <3>2
    <3>4. ~reqs[r].default => Owned # {}
      BY <3>2
    <3> QED
      BY <1>2, <1>5, <2>1, <3>1, <3>3, <3>4 DEF OneAmong
  <2> QED
    BY <2>2, <2>3
<1>8. CASE Garage!VehicleSet(r)
  <2>1. reqs[r].op = "vehicleSet" /\ reqs[r].ask \in {"yes", "no", "leave"}
    BY <1>0, <1>8, RequestShape DEF Garage!VehicleSet, Garage!At, Setting, Asks
  <2>2. CASE reqs[r].v \notin Owned
    <3>1. UNCHANGED <<vehicle, unset>>
      BY <1>3, <1>8, <2>2, VehicleEffect DEF garage
    <3> QED
      BY <1>2, <1>5, <1>6, <3>1 DEF OneAmong
  <2>3. CASE reqs[r].v \in Owned
    <3>1. PICK v : v = reqs[r].v
      OBVIOUS
    <3>2. clear = IF reqs[r].ask = "yes" THEN Defaults \ {v} ELSE {}
      BY <1>1, <1>4, <1>5, <2>1, <3>1 DEF VehicleAsRead
    <3>3. /\ Garage!Owned' = Owned /\ unset' = (unset \/ reqs[r].ask = "no")
          /\ reqs[r].ask = "yes" => Garage!Defaults' = (Defaults \ clear) \cup {v}
          /\ reqs[r].ask = "no" => Garage!Defaults' = (Defaults \ clear) \ {v}
          /\ reqs[r].ask = "leave" => Garage!Defaults' = Defaults \ clear
      BY <1>1, <1>3, <1>4, <1>8, <2>3, <3>1, VehicleEffect
    <3>4. CASE reqs[r].ask = "yes"
      <4>1. Garage!Defaults' = {v}
        BY <3>2, <3>3, <3>4
      <4> QED
        BY <1>2, <4>1 DEF OneAmong
    <3>5. CASE reqs[r].ask = "no"
      <4>1. Garage!Defaults' \subseteq Defaults /\ unset'
        BY <3>3, <3>5
      <4> QED
        BY <1>2, <1>5, <4>1 DEF OneAmong
    <3>6. CASE reqs[r].ask = "leave"
      <4>1. Garage!Defaults' = Defaults /\ Garage!Owned' = Owned /\ (unset' <=> unset)
        BY <3>2, <3>3, <3>6
      <4> QED
        BY <1>2, <1>5, <4>1 DEF OneAmong
    <3> QED
      BY <2>1, <3>4, <3>5, <3>6
  <2> QED
    BY <2>2, <2>3
<1>9. CASE Garage!VehicleDrop(r)
  <2>1. UNCHANGED unset /\ reqs[r].op = "vehicleDrop"
    BY <1>9 DEF Garage!VehicleDrop, Garage!At
  <2>2. CASE UNCHANGED vehicle
    BY <1>2, <1>5, <1>6, <2>1, <2>2 DEF OneAmong
  <2>3. CASE ~ UNCHANGED vehicle
    <3>1. PICK v : v = reqs[r].v
      OBVIOUS
    <3>2. PICK F : F = Garage!First(Owned \ {v})
      OBVIOUS
    <3>3. /\ Garage!Owned' = Owned \ {v}
          /\ Garage!Defaults' = (Defaults \ {v}) \cup (IF reqs[r].default THEN F ELSE {})
      BY <1>3, <1>4, <1>9, <2>3, <3>1, <3>2, VehicleEffect
    <3>4. v \in Owned /\ (reqs[r].default <=> v \in Defaults)
      BY <1>3, <1>4, <1>5, <2>1, <3>1 DEF VehicleAsRead, Garage!Defaults
    <3>5. (\A x, y \in F : x = y) /\ (Owned \ {v} # {} => F # {})
      <4>1. Owned \ {v} \in SUBSET Garage!Vehicles
        BY <1>3 DEF Garage!Owned
      <4> QED
        BY <1>0, <3>2, <4>1, FirstIs
    <3>6. CASE v \in Defaults
      <4>1. Defaults \ {v} = {}
        BY <1>5, <3>6 DEF OneAmong
      <4>2. Garage!Defaults' = F
        BY <3>3, <3>4, <3>6, <4>1
      <4> QED
        BY <1>2, <3>3, <3>5, <4>2 DEF OneAmong
    <3>7. CASE v \notin Defaults
      <4>1. Garage!Defaults' = Defaults /\ (Garage!Owned' # {} => Owned # {})
        BY <3>3, <3>4, <3>7
      <4> QED
        BY <1>2, <1>5, <2>1, <4>1 DEF OneAmong
    <3> QED
      BY <3>6, <3>7
  <2> QED
    BY <2>2, <2>3
<1> QED
  BY <1>7, <1>8, <1>9

LEMMA VehicleInvariant ==
  ASSUME DInv, DInv', OneVehicle, AccountNext
  PROVE  OneVehicle'
<1>1. CASE WalletAlone \/ TripAlone
  BY <1>1, NobodysSteps, NobodyMoves, VehiclesKept
<1>2. ASSUME NEW r \in Requests, WalletStep(r) \/ OrderStep(r) \/ BookStep(r) \/ CardStep(r) PROVE OneVehicle'
  <2>1. UNCHANGED load
    BY <1>2, HandlerSteps DEF HandlerStep
  <2>2. UNCHANGED garage
    BY <1>2, OrderLeaves, BookLeaves DEF WalletStep, CardStep
  <2>3. Elsewhere(GarageOps)
    BY <1>2, StepElsewhere, BookLeaves, NobodyMoves
  <2> QED
    BY <2>1, <2>2, <2>3, VehiclesKept
<1>3. ASSUME NEW r \in Requests, GarageStep(r) PROVE OneVehicle'
  <2>1. SUFFICES ASSUME OneAtATime PROVE OneAmong(Garage!Owned, Garage!Defaults, ~unset)' /\ VehicleAsRead(reqs[r])'
    <3>1. UNCHANGED load /\ r \in load.crew /\ \A q \in Requests \ {r} : reqs'[q] = reqs[q]
      BY <1>3, HandlerSteps DEF HandlerStep
    <3>2. OneAtATime' = OneAtATime
      BY <3>1 DEF OneAtATime
    <3>3. \A q \in Requests \ {r} : OneAtATime => reqs'[q].op = "idle"
      BY <3>1, Lonely, IdleIsRequest
    <3>4. \A q \in Requests \ {r} : OneAtATime => VehicleAsRead(reqs[q])'
      BY <3>3 DEF VehicleAsRead
    <3> QED
      BY <2>1, <3>2, <3>4 DEF OneVehicle
  <2>2. CASE Garage!VehicleAdd(r) \/ Garage!VehicleSet(r) \/ Garage!VehicleDrop(r)
    <3>1. OneAmong(Garage!Owned, Garage!Defaults, ~unset)' /\ reqs'[r].op = "idle"
      BY <2>1, <2>2, VehicleIsWritten, IdleIsRequest
    <3> QED
      BY <3>1 DEF VehicleAsRead
  <2>3. CASE ~(Garage!VehicleAdd(r) \/ Garage!VehicleSet(r) \/ Garage!VehicleDrop(r))
    <3>1. UNCHANGED garage /\ VehicleAsRead(reqs[r])'
      BY <1>3, <2>1, <2>3, VehicleIsRead
    <3>2. Garage!Owned' = Garage!Owned /\ Garage!Defaults' = Garage!Defaults /\ unset' = unset
      BY <3>1 DEF garage, Garage!Owned, Garage!Defaults
    <3> QED
      BY <2>1, <3>1, <3>2 DEF OneVehicle, OneAmong
  <2> QED
    BY <2>2, <2>3
<1> QED
  BY <1>1, <1>2, <1>3, StepIs

-----------------------------------------------------------------------------
\* What the three statements do to the sets of payment methods.
LEMMA MethodEffect ==
  ASSUME DInv, NEW r \in Requests
  PROVE  /\ Cards!MethodAdd(r) =>
              /\ \E k \in Cards!Methods \ Cards!Saved :
                   /\ Cards!Saved' = Cards!Saved \cup {k}
                   /\ Cards!Defaults' = (Cards!Defaults \ reqs[r].clear) \cup (IF reqs[r].default THEN {k} ELSE {})
              /\ chosen' = (chosen \/ reqs[r].default)
         /\ Cards!MethodDrop(r) /\ reqs[r].k \in Cards!Saved =>
              /\ Cards!Saved' = Cards!Saved \ {reqs[r].k}
              /\ Cards!Defaults' = Cards!Defaults \ {reqs[r].k}
              /\ chosen' = (chosen /\ Cards!Saved # {reqs[r].k})
         /\ Cards!MethodPromote(r) /\ reqs[r].k \in Cards!Saved =>
              /\ Cards!Saved' = Cards!Saved
              /\ Cards!Defaults' = Cards!Defaults \cup {reqs[r].k}
              /\ UNCHANGED chosen
<1>0. method \in [Cards!Methods -> DefaultRow]
  BY DEF DInv, Cards!TypeOK, DefaultRow
<1>1. ASSUME Cards!MethodAdd(r)
      PROVE  /\ \E k \in Cards!Methods \ Cards!Saved :
                  /\ Cards!Saved' = Cards!Saved \cup {k}
                  /\ Cards!Defaults' = (Cards!Defaults \ reqs[r].clear) \cup (IF reqs[r].default THEN {k} ELSE {})
             /\ chosen' = (chosen \/ reqs[r].default)
  <2>1. PICK k \in Cards!Methods :
          /\ \A w \in Cards!Methods : w < k <=> method[w].row # "none"
          /\ method' = [w \in Cards!Methods |->
               IF w = k THEN [row |-> "live", default |-> reqs[r].default]
               ELSE [method[w] EXCEPT !.default = @ /\ w \notin reqs[r].clear]]
    BY <1>1 DEF Cards!MethodAdd
  <2>2. k \notin Cards!Saved
    <3>1. ~(k < k)
      BY AccountAssumption DEF Cards!Methods
    <3> QED
      BY <2>1, <3>1 DEF Cards!Saved
  <2>3. method'[k].row = "live" /\ method'[k].default = reqs[r].default
    BY <2>1
  <2>4. \A w \in Cards!Methods \ {k} :
          /\ method'[w].row = method[w].row
          /\ method'[w].default = (method[w].default /\ w \notin reqs[r].clear)
    <3> TAKE w \in Cards!Methods \ {k}
    <3>1. method[w] \in DefaultRow /\ method'[w] = [method[w] EXCEPT !.default = @ /\ w \notin reqs[r].clear]
      BY <1>0, <2>1
    <3> QED
      BY <3>1 DEF DefaultRow
  <2>5. Cards!Saved' = Cards!Saved \cup {k}
    BY <2>3, <2>4 DEF Cards!Saved
  <2>6. \A w \in Cards!Methods \ {k} : w \in Cards!Defaults' <=> w \in Cards!Defaults \ reqs[r].clear
    BY <2>4, <2>5 DEF Cards!Saved, Cards!Defaults
  <2>7. k \in Cards!Defaults' <=> reqs[r].default
    BY <2>3, <2>5 DEF Cards!Defaults
  <2>8. k \notin Cards!Defaults /\ Cards!Defaults \subseteq Cards!Methods /\ Cards!Defaults' \subseteq Cards!Methods
    BY <2>2 DEF Cards!Defaults, Cards!Saved
  <2>9. Cards!Defaults' = (Cards!Defaults \ reqs[r].clear) \cup (IF reqs[r].default THEN {k} ELSE {})
    BY <2>6, <2>7, <2>8
  <2> QED
    BY <1>1, <2>2, <2>5, <2>9 DEF Cards!MethodAdd
<1>2. ASSUME Cards!MethodDrop(r), reqs[r].k \in Cards!Saved
      PROVE  /\ Cards!Saved' = Cards!Saved \ {reqs[r].k}
             /\ Cards!Defaults' = Cards!Defaults \ {reqs[r].k}
             /\ chosen' = (chosen /\ Cards!Saved # {reqs[r].k})
  <2>1. PICK k : k = reqs[r].k
    OBVIOUS
  <2>2. method' = [method EXCEPT ![k] = [row |-> "deleted", default |-> FALSE]]
        /\ chosen' = (chosen /\ Cards!Saved # {k})
    BY <1>2, <2>1 DEF Cards!MethodDrop
  <2>3. k \in Cards!Methods
    BY <1>2, <2>1 DEF Cards!Saved
  <2>4. method'[k].row = "deleted" /\ \A w \in Cards!Methods \ {k} : method'[w] = method[w]
    BY <1>0, <2>2, <2>3
  <2> QED
    BY <2>1, <2>2, <2>4 DEF Cards!Saved, Cards!Defaults
<1>3. ASSUME Cards!MethodPromote(r), reqs[r].k \in Cards!Saved
      PROVE  /\ Cards!Saved' = Cards!Saved
             /\ Cards!Defaults' = Cards!Defaults \cup {reqs[r].k}
             /\ UNCHANGED chosen
  <2>1. PICK k : k = reqs[r].k
    OBVIOUS
  <2>2. method' = [method EXCEPT ![k].default = TRUE] /\ UNCHANGED chosen
    BY <1>3, <2>1 DEF Cards!MethodPromote
  <2>3. k \in Cards!Methods /\ method[k].row = "live"
    BY <1>3, <2>1 DEF Cards!Saved
  <2>4. method'[k].row = "live" /\ method'[k].default /\ \A w \in Cards!Methods \ {k} : method'[w] = method[w]
    BY <1>0, <2>2, <2>3 DEF DefaultRow
  <2> QED
    BY <2>1, <2>2, <2>3, <2>4 DEF Cards!Saved, Cards!Defaults
<1> QED
  BY <1>1, <1>2, <1>3

LEMMA OldestIs ==
  Cards!Oldest \subseteq Cards!Saved /\ (Cards!Saved # {} => Cards!Oldest # {})
<1>1. Cards!Saved \in SUBSET Nat
  BY AccountAssumption DEF Cards!Saved, Cards!Methods
<1>2. Cards!Saved # {} => \E k \in Cards!Saved : \A w \in Cards!Saved : k <= w
  BY <1>1, LeastNatural
<1> QED
  BY <1>2 DEF Cards!Oldest

\* What a handler of the methods has read is still so when it writes.
PromoteOps == {"methodNext", "methodPromote"}
MethodAsRead(rec) ==
  /\ rec.op = "methodAdd" => rec.clear = IF rec.default THEN Cards!Defaults ELSE {}
  /\ rec.op = "methodDrop" => rec.k \in Cards!Saved /\ rec.default = method[rec.k].default
  /\ rec.op \in PromoteOps => Cards!Defaults = {}
  /\ rec.op = "methodPromote" => rec.k \in Cards!Saved

\* At most one default; and one, or one about to be, since the driver chose one.
SomePromote == \E r \in Requests : reqs[r].op \in PromoteOps
MethodsOK ==
  /\ \A v, w \in Cards!Defaults : v = w
  /\ chosen => Cards!Saved # {}
  /\ chosen /\ faults = 0 => Cards!Defaults # {} \/ SomePromote

OneMethod == OneAtATime => MethodsOK /\ \A r \in Requests : MethodAsRead(reqs[r])

\* Only a crash takes a handler of the methods away from outside, and it is a fault.
LEMMA NoneTakenAway ==
  ASSUME DInv, NEW r \in Requests, WalletStep(r) \/ OrderStep(r) \/ BookStep(r) \/ GarageStep(r), faults' = 0
  PROVE  faults = 0 /\ (reqs[r].op \notin PromoteOps \/ UNCHANGED reqs)
<1>0. reqs[r] \in Request /\ faults \in Nat
  BY SplitTypes DEF Handlers, DInv
<1>1. CASE OrderStep(r) \/ GarageStep(r)
  <2>1. Due(reqs[r]).op \in OrderOps \cup GarageOps \cup {"idle"}
    BY <1>1, OrdersWork, GarageWorks DEF WorksFor
  <2>2. reqs[r].op \notin PromoteOps
    BY <2>1 DEF Due, OrderOps, GarageOps, PromoteOps
  <2> QED
    BY <1>1, <2>2, FaultsGrow
<1>2. CASE BookStep(r)
  BY <1>2, BookLeaves, FaultsGrow
<1>3. CASE WalletStep(r) /\ Arrive(r)
  <2>1. reqs[r] = Idle
    BY <1>3 DEF Arrive, CreateTopUpIntent, HookTopUp, ConfirmTopUpStripe, VerifyTopUpRazorpay, HookSplit, ConfirmSplit,
                HookDeclined, AdminCredit, AdminDebit, WalletPaymentRead, SuspendRead, SplitRead, Withdraw,
                WithdrawalPaid, WithdrawalFailed, Starts
  <2>2. UNCHANGED faults
    BY <1>3 DEF Arrive, CreateTopUpIntent, HookTopUp, ConfirmTopUpStripe, VerifyTopUpRazorpay, Apply, HookSplit, ConfirmSplit,
                HookDeclined, AdminCredit, AdminDebit, WalletPaymentRead, SuspendRead, SplitRead, Withdraw,
                WithdrawalPaid, WithdrawalFailed
  <2> QED
    BY <2>1, <2>2, IdleIsRequest DEF PromoteOps
<1>4. CASE WalletStep(r) /\ Proceed(r)
  <2>1. ~ (faults' = faults + 1)
    BY <1>0
  <2>2. ~ (CreditFails(r) \/ SplitConfirmFails(r) \/ Crash(r))
    BY <2>1 DEF CreditFails, SplitConfirmFails, Crash, Fault
  <2>3. CASE StoreTopUp(r) \/ ApplyRead(r) \/ ApplyMark(r) \/ ApplyUnmark(r) \/ ApplyDelete(r)
             \/ CreditRead(r) \/ CreditWrite(r)
    BY <2>3 DEF StoreTopUp, ApplyRead, ApplyMark, ApplyUnmark, ApplyDelete, CreditRead, CreditWrite, At, PromoteOps
  <2>4. CASE WalletPaymentWrite(r) \/ SuspendWrite(r) \/ SplitNoRoom(r) \/ RefundRead(r) \/ RefundRecord(r)
             \/ RefundStatus(r)
    BY <2>4 DEF WalletPaymentWrite, SuspendWrite, SplitNoRoom, RefundRead, RefundRecord, RefundStatus, At, PromoteOps
  <2>5. CASE SplitInsert(r)
    BY <2>5 DEF SplitInsert, At, PromoteOps
  <2>6. CASE SplitDebit(r)
    BY <2>6 DEF SplitDebit, At, PromoteOps
  <2>7. CASE SplitConfirm(r)
    BY <2>7 DEF SplitConfirm, At, PromoteOps
  <2> QED
    BY <1>4, <2>2, <2>3, <2>4, <2>5, <2>6, <2>7 DEF Proceed
<1> QED
  BY <1>1, <1>2, <1>3, <1>4 DEF WalletStep

LEMMA MethodsKept ==
  ASSUME DInv, DInv', OneMethod, UNCHANGED <<load, methods>>, Elsewhere(CardOps),
         faults' = 0 => faults = 0 /\ (SomePromote => SomePromote')
  PROVE  OneMethod'
<1>1. Cards!Saved' = Cards!Saved /\ Cards!Defaults' = Cards!Defaults
  BY DEF methods, Cards!Saved, Cards!Defaults
<1>2. ASSUME OneAtATime, NEW r \in Requests PROVE MethodAsRead(reqs[r])'
  <2>1. CASE reqs'[r].op \in CardOps
    <3>1. reqs'[r] = reqs[r]
      BY <2>1, SameHandler
    <3>2. MethodAsRead(reqs[r])
      BY <1>2 DEF OneMethod
    <3> QED
      BY <1>1, <3>1, <3>2 DEF MethodAsRead, methods
  <2>2. CASE reqs'[r].op \notin CardOps
    BY <2>2 DEF MethodAsRead, CardOps, PromoteOps
  <2> QED
    BY <2>1, <2>2
<1>3. OneAtATime' = OneAtATime
  BY DEF OneAtATime
<1>4. OneAtATime => MethodsOK'
  BY <1>1 DEF OneMethod, MethodsOK, methods
<1> QED
  BY <1>2, <1>3, <1>4 DEF OneMethod

\* A step of a handler of the methods, alone.
LEMMA MethodSteps ==
  ASSUME DInv, OneMethod, OneAtATime, NEW r \in load.crew, r \in Requests, CardStep(r)
  PROVE  MethodsOK' /\ MethodAsRead(reqs[r])'
<1>0. reqs \in [Requests -> Request] /\ UNCHANGED faults /\ MethodsOK /\ MethodAsRead(reqs[r])
  BY CardsTyped DEF DInv, Handlers, CardStep, OneMethod
<1>1. reqs[r].op \notin PromoteOps => ~ SomePromote
  BY Lonely, IdleIsRequest DEF SomePromote, PromoteOps
<1>2. UNCHANGED methods => Cards!Saved' = Cards!Saved /\ Cards!Defaults' = Cards!Defaults /\ chosen' = chosen
  BY DEF methods, Cards!Saved, Cards!Defaults
<1>3. PICK Saved : Saved = Cards!Saved
  OBVIOUS
<1>4. PICK Defaults : Defaults = Cards!Defaults
  OBVIOUS
<1>5. Defaults \subseteq Saved
  BY <1>3, <1>4 DEF Cards!Defaults
<1>6. reqs[r].op \notin PromoteOps /\ chosen /\ faults = 0 => Defaults # {}
  BY <1>0, <1>1, <1>4 DEF MethodsOK
<1>7. reqs'[r] = Idle => MethodAsRead(reqs[r])'
  BY IdleIsRequest DEF MethodAsRead, PromoteOps
<1>8. ASSUME NEW default \in BOOLEAN, Cards!SavePaymentMethod(r, default)
      PROVE  MethodsOK' /\ MethodAsRead(reqs[r])'
  <2>1. UNCHANGED <<method, chosen>> /\ reqs[r].op = "idle"
        /\ reqs'[r] = [op |-> "methodAdd", default |-> default, clear |-> IF default THEN Cards!Defaults ELSE {}]
    BY <1>0, <1>8, IdleIsRequest DEF Cards!SavePaymentMethod, Cards!Starts, Cards!Goto, Cards!methods, Cards!Idle, Idle
  <2>2. MethodAsRead(reqs[r])'
    BY <1>2, <2>1 DEF MethodAsRead, PromoteOps, methods
  <2> QED
    BY <1>0, <1>2, <1>4, <1>6, <2>1, <2>2 DEF MethodsOK, methods, PromoteOps
<1>9. ASSUME NEW k \in Cards!Methods, Cards!DeletePaymentMethod(r, k)
      PROVE  MethodsOK' /\ MethodAsRead(reqs[r])'
  <2>1. UNCHANGED <<method, chosen>> /\ reqs[r].op = "idle" /\ k \in Cards!Saved
        /\ reqs'[r] = [op |-> "methodDrop", k |-> k, default |-> method[k].default]
    BY <1>0, <1>9, IdleIsRequest DEF Cards!DeletePaymentMethod, Cards!Starts, Cards!Goto, Cards!methods, Cards!Idle, Idle
  <2>2. MethodAsRead(reqs[r])'
    BY <1>2, <2>1 DEF MethodAsRead, PromoteOps, methods
  <2> QED
    BY <1>0, <1>2, <1>4, <1>6, <2>1, <2>2 DEF MethodsOK, methods, PromoteOps
<1>10. CASE Cards!MethodAdd(r)
  <2>1. reqs[r].op = "methodAdd" /\ reqs'[r] = Idle
    BY <1>0, <1>10, GoesIdle DEF Cards!MethodAdd, Cards!At
  <2>2. PICK k : /\ Cards!Saved' = Saved \cup {k}
                 /\ Cards!Defaults' = (Defaults \ reqs[r].clear) \cup (IF reqs[r].default THEN {k} ELSE {})
    BY <1>3, <1>4, <1>10, MethodEffect
  <2>3. chosen' = (chosen \/ reqs[r].default) /\ reqs[r].clear = IF reqs[r].default THEN Defaults ELSE {}
    BY <1>0, <1>4, <1>10, <2>1, MethodEffect DEF MethodAsRead
  <2>4. Cards!Defaults' = IF reqs[r].default THEN {k} ELSE Defaults
    BY <2>2, <2>3
  <2>5. chosen' /\ faults = 0 => Cards!Defaults' # {}
    BY <1>6, <2>1, <2>3, <2>4 DEF PromoteOps
  <2>6. \A v, w \in Cards!Defaults' : v = w
    BY <1>0, <1>4, <2>4 DEF MethodsOK
  <2> QED
    BY <1>0, <1>7, <2>1, <2>2, <2>5, <2>6 DEF MethodsOK
<1>11. CASE Cards!MethodDrop(r)
  <2>1. PICK k : k = reqs[r].k
    OBVIOUS
  <2>2. reqs[r].op = "methodDrop" /\ k \in Saved /\ (reqs[r].default <=> k \in Defaults)
    BY <1>0, <1>3, <1>4, <1>11, <2>1 DEF Cards!MethodDrop, Cards!At, MethodAsRead, Cards!Defaults
  <2>3. Cards!Saved' = Saved \ {k} /\ Cards!Defaults' = Defaults \ {k} /\ chosen' = (chosen /\ Saved # {k})
    BY <1>3, <1>4, <1>11, <2>1, <2>2, MethodEffect
  <2>4. reqs'[r] = IF reqs[r].default THEN [op |-> "methodNext"] ELSE Idle
    <3>1. IF reqs[r].default THEN Cards!Goto(r, [op |-> "methodNext"]) ELSE Cards!Done(r)
      BY <1>3, <1>11, <2>1, <2>2 DEF Cards!MethodDrop
    <3> QED
      BY <1>0, <3>1, GoesIdle DEF Cards!Goto
  <2>5. \A v, w \in Cards!Defaults' : v = w
    BY <1>0, <1>4, <2>3 DEF MethodsOK
  <2>6. chosen' => Cards!Saved' # {}
    BY <2>2, <2>3
  <2>7. CASE k \in Defaults
    <3>1. reqs'[r] = [op |-> "methodNext"] /\ Cards!Defaults' = {}
      BY <1>0, <1>4, <2>2, <2>3, <2>4, <2>7 DEF MethodsOK
    <3>2. MethodAsRead(reqs[r])' /\ SomePromote'
      BY <3>1 DEF MethodAsRead, SomePromote, PromoteOps
    <3> QED
      BY <2>5, <2>6, <3>2 DEF MethodsOK
  <2>8. CASE k \notin Defaults
    <3>1. Cards!Defaults' = Defaults /\ reqs'[r] = Idle
      BY <2>2, <2>3, <2>4, <2>8
    <3>2. chosen' /\ faults = 0 => Cards!Defaults' # {}
      BY <1>6, <2>2, <2>3, <3>1 DEF PromoteOps
    <3> QED
      BY <1>0, <1>7, <2>5, <2>6, <3>1, <3>2 DEF MethodsOK
  <2> QED
    BY <2>7, <2>8
<1>12. CASE Cards!MethodNext(r)
  <2>1. UNCHANGED <<method, chosen>> /\ Cards!Defaults = {}
    BY <1>0, <1>12 DEF Cards!MethodNext, Cards!methods, Cards!At, MethodAsRead, PromoteOps
  <2>2. CASE Cards!Oldest = {}
    <3>1. reqs'[r] = Idle /\ ~chosen
      BY <1>0, <1>12, <2>2, OldestIs, GoesIdle DEF Cards!MethodNext, MethodsOK
    <3> QED
      BY <1>0, <1>2, <1>7, <2>1, <3>1 DEF MethodsOK, methods
  <2>3. CASE Cards!Oldest # {}
    <3>1. PICK k \in Cards!Oldest : Cards!Goto(r, [op |-> "methodPromote", k |-> k])
      BY <1>12, <2>3 DEF Cards!MethodNext
    <3>2. reqs'[r] = [op |-> "methodPromote", k |-> k] /\ k \in Cards!Saved
      BY <1>0, <3>1, OldestIs DEF Cards!Goto
    <3>3. MethodAsRead(reqs[r])' /\ SomePromote'
      BY <1>2, <2>1, <3>2 DEF MethodAsRead, SomePromote, PromoteOps, methods
    <3> QED
      BY <1>0, <1>2, <2>1, <3>3 DEF MethodsOK, methods
  <2> QED
    BY <2>2, <2>3
<1>13. CASE Cards!MethodPromote(r)
  <2>1. PICK k : k = reqs[r].k
    OBVIOUS
  <2>2. Defaults = {} /\ k \in Saved /\ reqs'[r] = Idle
    BY <1>0, <1>3, <1>4, <1>13, <2>1, GoesIdle DEF Cards!MethodPromote, Cards!At, MethodAsRead, PromoteOps
  <2>3. Cards!Saved' = Saved /\ Cards!Defaults' = Defaults \cup {k} /\ chosen' = chosen
    BY <1>3, <1>4, <1>13, <2>1, <2>2, MethodEffect
  <2> QED
    BY <1>7, <2>2, <2>3 DEF MethodsOK
<1> QED
  BY <1>8, <1>9, <1>10, <1>11, <1>12, <1>13 DEF CardStep

LEMMA MethodInvariant ==
  ASSUME DInv, DInv', OneMethod, AccountNext
  PROVE  OneMethod'
<1>1. CASE WalletAlone \/ TripAlone
  BY <1>1, NobodysSteps, NobodyMoves, MethodsKept DEF SomePromote
<1>2. ASSUME NEW r \in Requests, WalletStep(r) \/ OrderStep(r) \/ BookStep(r) \/ GarageStep(r) PROVE OneMethod'
  <2>1. UNCHANGED load /\ \A q \in Requests \ {r} : reqs'[q] = reqs[q]
    BY <1>2, HandlerSteps DEF HandlerStep
  <2>2. UNCHANGED methods
    BY <1>2, OrderLeaves, BookLeaves DEF WalletStep, GarageStep
  <2>3. Elsewhere(CardOps)
    BY <1>2, StepElsewhere, BookLeaves, NobodyMoves
  <2>4. faults' = 0 => faults = 0 /\ (SomePromote => SomePromote')
    BY <1>2, <2>1, NoneTakenAway DEF SomePromote
  <2> QED
    BY <2>1, <2>2, <2>3, <2>4, MethodsKept
<1>3. ASSUME NEW r \in Requests, CardStep(r) PROVE OneMethod'
  <2>1. UNCHANGED load /\ r \in load.crew /\ \A q \in Requests \ {r} : reqs'[q] = reqs[q]
    BY <1>3, HandlerSteps DEF HandlerStep
  <2>2. OneAtATime' = OneAtATime
    BY <2>1 DEF OneAtATime
  <2>3. \A q \in Requests \ {r} : OneAtATime => reqs'[q].op = "idle"
    BY <2>1, Lonely, IdleIsRequest
  <2>4. \A q \in Requests \ {r} : OneAtATime => MethodAsRead(reqs[q])'
    BY <2>3 DEF MethodAsRead, PromoteOps
  <2>5. OneAtATime => MethodsOK' /\ MethodAsRead(reqs[r])'
    BY <1>3, <2>1, MethodSteps
  <2> QED
    BY <2>2, <2>4, <2>5 DEF OneMethod
<1> QED
  BY <1>1, <1>2, <1>3, StepIs

\* Requests that come one at a time, of which none stops half-way, leave one default among the
\* vehicles and one among the payment methods at most, and one as long as there is one to be it
\* and the driver has not asked for none (createVehicle, updateVehicle, deleteVehicle,
\* savePaymentMethod, deletePaymentMethod).
THEOREM DefaultsAreOne == AccountSpec => []OneDefault
<1>1. AccountInit => OneVehicle /\ OneMethod
  <2> SUFFICES ASSUME AccountInit PROVE OneVehicle /\ OneMethod
    OBVIOUS
  <2>1. \A r \in Requests : reqs[r].op = "idle"
    BY IdleIsRequest DEF AccountInit, Init
  <2>2. \A r \in Requests : VehicleAsRead(reqs[r]) /\ MethodAsRead(reqs[r])
    BY <2>1 DEF VehicleAsRead, MethodAsRead, PromoteOps
  <2>3. \A k \in Cards!Methods : method[k].row = "none"
    BY DEF AccountInit, Cards!Init, Cards!New
  <2>4. Cards!Defaults = {} /\ ~chosen
    BY <2>3 DEF Cards!Defaults, Cards!Saved, AccountInit, Cards!Init
  <2>5. \A v \in Garage!Vehicles : v \in Garage!Owned <=> v <= load.vehicles
    BY DEF AccountInit, Garage!Init, Garage!Owned, Garage!New
  <2>6. \A v \in Garage!Vehicles : v \in Garage!Defaults <=> v \in Garage!Owned /\ v = 1
    BY <2>5 DEF AccountInit, Garage!Init, Garage!Defaults
  <2>7. Garage!Owned # {} => 1 \in Garage!Owned
    <3>1. ASSUME NEW v \in Garage!Owned PROVE 1 \in Garage!Owned
      <4>1. v \in 1..NVehicles /\ NVehicles \in Nat /\ v <= load.vehicles /\ load.vehicles \in Nat
        BY <2>5, AccountAssumption, InitTyped, WorkloadIs DEF Garage!Owned, Garage!Vehicles, DInv
      <4>2. 1 \in 1..NVehicles /\ 1 <= load.vehicles
        BY <4>1
      <4> QED
        BY <2>5, <4>2 DEF Garage!Vehicles
    <3> QED
      BY <3>1
  <2>8. OneAmong(Garage!Owned, Garage!Defaults, ~unset)
    <3>1. Garage!Owned \subseteq Garage!Vehicles /\ Garage!Defaults \subseteq Garage!Vehicles
      BY DEF Garage!Owned, Garage!Defaults
    <3> QED
      BY <2>6, <2>7, <3>1 DEF OneAmong
  <2> QED
    BY <2>2, <2>4, <2>8 DEF OneVehicle, OneMethod, MethodsOK
<1>2. DInv /\ DInv' /\ OneVehicle /\ OneMethod /\ [AccountNext]_allVars => (OneVehicle /\ OneMethod)'
  <2>1. DInv /\ DInv' /\ OneVehicle /\ OneMethod /\ UNCHANGED allVars => (OneVehicle /\ OneMethod)'
    <3>1. UNCHANGED allVars => UNCHANGED <<load, garage, methods, reqs, faults>>
      BY DEF allVars, vars
    <3> QED
      BY <3>1, NobodyMoves, VehiclesKept, MethodsKept DEF SomePromote
  <2> QED
    BY <2>1, VehicleInvariant, MethodInvariant
<1>3. OneVehicle /\ OneMethod => OneDefault
  <2> SUFFICES ASSUME OneVehicle, OneMethod PROVE OneDefault
    OBVIOUS
  <2>1. OneAtATime <=> Cardinality(load.crew) = 1
    BY DEF OneAtATime
  <2>2. OneAtATime => Cardinality(Garage!Defaults) <= 1 /\ Cardinality(Cards!Defaults) <= 1
    BY OneAtMost DEF OneVehicle, OneMethod, OneAmong, MethodsOK
  <2>3. (\A r \in Requests : reqs[r] = Cards!Idle) => ~ SomePromote
    BY IdleIsRequest DEF Cards!Idle, Idle, SomePromote, PromoteOps
  <2>4. Garage!DefaultVehicle
    BY <2>1, <2>2, SameCount DEF Garage!DefaultVehicle, OneVehicle, OneAmong
  <2>5. Cards!DefaultMethod
    <3>1. OneAtATime /\ chosen /\ faults = 0 /\ ~SomePromote => Cards!Defaults # {}
      BY DEF OneMethod, MethodsOK
    <3> QED
      BY <2>1, <2>2, <2>3, <3>1, SameCount DEF Cards!DefaultMethod
  <2> QED
    BY <2>4, <2>5 DEF OneDefault
<1> QED
  BY <1>1, <1>2, <1>3, Typed, PTL DEF AccountSpec, allVars

-----------------------------------------------------------------------------
\* Orders.  What the steps of a handler do to an order's row, and to the trip's.
SameTerms(o)  == order'[o].ext = order[o].ext /\ order'[o].from = order[o].from /\ order'[o].upto = order[o].upto
OthersSame(o) == \A p \in Orders \ {o} : order'[p] = order[p]
\* Row o is settled with its payment's id, or has it already.
Settles(o) ==
  /\ o \in Orders /\ OthersSame(o) /\ SameTerms(o) /\ order'[o].gw = order[o].gw
  /\ order'[o].ref = "payment" /\ order'[o].st \in {"completed"} \cup Refunded

LEMMA OrderTypes ==
  ASSUME DInv
  PROVE  /\ order \in [Orders -> OrderRow] /\ trip \in TripRow /\ applied \in [Orders -> Nat]
         /\ refund \in [Refunds -> RefundRow] /\ reqs \in [Requests -> Request] /\ faults \in Nat
         /\ \A q \in Requests :
              /\ Due(reqs[q]).op \in OrderOps => Due(reqs[q]) \in Plain
              /\ Due(reqs[q]).op \in {"orderConfirm", "extendWrite", "returnRead", "gateway", "returnRecord", "returnStatus"}
                   => Due(reqs[q]).o \in Orders
              /\ reqs[q].op \in OrderOps => Due(reqs[q]) = reqs[q]
<1>1. order \in [Orders -> OrderRow] /\ trip \in TripRow /\ applied \in [Orders -> Nat]
      /\ refund \in [Refunds -> RefundRow] /\ reqs \in [Requests -> Request] /\ faults \in Nat
  BY TripRows, SplitTypes DEF DInv, Handlers
<1>2. ASSUME NEW q \in Requests
      PROVE  Due(reqs[q]).op \in OrderOps => Due(reqs[q]) \in Plain
  <2>1. reqs[q] \in Request
    BY <1>1
  <2>2. reqs[q].op \in {"creditRead", "creditWrite"} => reqs[q].next \in Later
    BY <2>1, RequestShape DEF ToCredit, Crediting
  <2>3. reqs[q].op \notin {"creditRead", "creditWrite"} => reqs[q] \in Plain
    BY <2>1 DEF Request, ToCredit, Crediting
  <2> QED
    BY <2>2, <2>3 DEF Due, Later
<1>3. ASSUME NEW q \in Requests,
             Due(reqs[q]).op \in {"orderConfirm", "extendWrite", "returnRead", "gateway", "returnRecord", "returnStatus"}
      PROVE  Due(reqs[q]).o \in Orders
  <2>1. Due(reqs[q]) \in Request
    BY <1>2, <1>3 DEF OrderOps, Request
  <2> QED
    BY <1>3, <2>1, RequestShape DEF ForOrders, Returning, AtGateway, Recording, Closing
<1>4. \A q \in Requests : reqs[q].op \in OrderOps => Due(reqs[q]) = reqs[q]
  BY DEF Due, OrderOps
<1> QED
  BY <1>1, <1>2, <1>3, <1>4

LEMMA OrderEffect ==
  ASSUME DInv, NEW r \in Requests
  PROVE  /\ OrderInsert(r) =>
              \/ UNCHANGED order
              \/ \E o \in Orders :
                   /\ OthersSame(o) /\ order[o].st = "none"
                   /\ order'[o].st = "pending" /\ order'[o].ref = "order" /\ order'[o].gw = "open"
                   /\ order'[o].ext = reqs[r].ext /\ order'[o].from = reqs[r].from /\ order'[o].upto = reqs[r].upto
         /\ \A o \in Orders : HookFailed(r, o) =>
              /\ OthersSame(o) /\ SameTerms(o) /\ order[o].st # "none" /\ order'[o].st = "failed"
              /\ order'[o].ref = "order" /\ order[o].ref = "order" /\ order'[o].gw = order[o].gw
         /\ OrderConfirm(r) \/ ExtendWrite(r) => Settles(reqs[r].o)
         /\ ReturnStatus(r) =>
              /\ OthersSame(reqs[r].o) /\ SameTerms(reqs[r].o) /\ reqs[r].o \in Orders
              /\ order'[reqs[r].o].gw = order[reqs[r].o].gw /\ order'[reqs[r].o].ref = order[reqs[r].o].ref
              /\ order'[reqs[r].o].st = IF reqs[r].sum >= Amount(reqs[r].o) THEN "refunded" ELSE "partially_refunded"
<1>0. order \in [Orders -> OrderRow] /\ Spans
  BY OrderTypes DEF DInv
<1>1. ASSUME OrderInsert(r), ~ UNCHANGED order
      PROVE  \E o \in Orders :
               /\ OthersSame(o) /\ order[o].st = "none"
               /\ order'[o].st = "pending" /\ order'[o].ref = "order" /\ order'[o].gw = "open"
               /\ order'[o].ext = reqs[r].ext /\ order'[o].from = reqs[r].from /\ order'[o].upto = reqs[r].upto
  <2>1. PICK o \in NextOrder :
          order' = [order EXCEPT ![o] = [NoOrder EXCEPT !.st = "pending", !.ext = reqs[r].ext,
                                           !.from = reqs[r].from, !.upto = reqs[r].upto, !.gw = "open"]]
    BY <1>1 DEF OrderInsert
  <2>2. o \in Orders /\ order[o].st = "none"
    BY NextOnes DEF DInv, NextOrder, Least
  <2>3. order'[o] = [NoOrder EXCEPT !.st = "pending", !.ext = reqs[r].ext,
                                    !.from = reqs[r].from, !.upto = reqs[r].upto, !.gw = "open"]
        /\ OthersSame(o)
    BY <1>0, <2>1, <2>2 DEF OthersSame
  <2> QED
    BY <2>2, <2>3 DEF NoOrder
<1>2. ASSUME NEW o \in Orders, HookFailed(r, o)
      PROVE  /\ OthersSame(o) /\ SameTerms(o) /\ order[o].st # "none" /\ order'[o].st = "failed"
             /\ order'[o].ref = "order" /\ order[o].ref = "order" /\ order'[o].gw = order[o].gw
  BY <1>0, <1>2 DEF HookFailed, Unsettled, OthersSame, SameTerms, OrderRow
<1>3. ASSUME OrderConfirm(r) \/ ExtendWrite(r) PROVE Settles(reqs[r].o)
  <2>1. PICK o : o = reqs[r].o
    OBVIOUS
  <2>2. o \in Orders
    <3>1. reqs[r].op \in {"orderConfirm", "extendWrite"}
      BY <1>3 DEF OrderConfirm, ExtendWrite, At
    <3> QED
      BY <2>1, <3>1, OrderTypes DEF OrderOps
  <2>3. CASE order[o].st \in Refunded /\ order' = [order EXCEPT ![o].ref = "payment"]
    BY <1>0, <2>1, <2>2, <2>3 DEF Settles, OthersSame, SameTerms, OrderRow
  <2>4. CASE order' = [order EXCEPT ![o].st = "completed", ![o].ref = "payment"]
    <3>1. PICK row : row = [order[o] EXCEPT !.st = "completed", !.ref = "payment"]
      OBVIOUS
    <3>2. order' = [order EXCEPT ![o] = [order[o] EXCEPT !.st = "completed", !.ref = "payment"]]
      BY <2>4
    <3>3. order' = [order EXCEPT ![o] = row]
      BY <3>1, <3>2, Zenon
    <3>4. order'[o] = row /\ OthersSame(o) /\ order[o] \in OrderRow
      BY <1>0, <2>2, <3>3 DEF OthersSame
    <3>5. /\ row.ext = order[o].ext /\ row.from = order[o].from /\ row.upto = order[o].upto /\ row.gw = order[o].gw
          /\ row.ref = "payment" /\ row.st = "completed"
      BY <3>1, <3>4 DEF OrderRow
    <3> QED
      BY <2>1, <2>2, <3>4, <3>5 DEF Settles, SameTerms
  <2> QED
    BY <1>3, <2>1, <2>3, <2>4 DEF OrderConfirm, ExtendWrite
<1>4. ASSUME ReturnStatus(r)
      PROVE  /\ OthersSame(reqs[r].o) /\ SameTerms(reqs[r].o) /\ reqs[r].o \in Orders
             /\ order'[reqs[r].o].gw = order[reqs[r].o].gw /\ order'[reqs[r].o].ref = order[reqs[r].o].ref
             /\ order'[reqs[r].o].st = IF reqs[r].sum >= Amount(reqs[r].o) THEN "refunded" ELSE "partially_refunded"
  <2>1. PICK o : o = reqs[r].o
    OBVIOUS
  <2>2. o \in Orders
    BY <1>4, <2>1, OrderTypes DEF ReturnStatus, At, OrderOps
  <2>3. PICK st : st = IF reqs[r].sum >= Amount(o) THEN "refunded" ELSE "partially_refunded"
    OBVIOUS
  <2>4. order' = [order EXCEPT ![o].st = st]
    BY <1>4, <2>1, <2>3 DEF ReturnStatus
  <2> QED
    BY <1>0, <2>1, <2>2, <2>3, <2>4 DEF OthersSame, SameTerms, OrderRow
<1> QED
  BY <1>1, <1>2, <1>3, <1>4

\* The other steps leave the orders alone.
LEMMA OrdersStay ==
  ASSUME DInv, NEW r \in Requests, OrderStep(r),
         ~(OrderInsert(r) \/ OrderConfirm(r) \/ ExtendWrite(r) \/ ReturnStatus(r)),
         \A o \in Orders : ~ HookFailed(r, o)
  PROVE  UNCHANGED <<order, applied>> /\ trip'.end = trip.end /\ trip'.total = trip.total /\ trip'.earning = trip.earning
         /\ (trip'.st = trip.st \/ trip'.st = "cancelled")
<1>1. CASE TripArrive(r)
  BY <1>1 DEF TripArrive, CreateRazorpayOrder, ExtendBooking, VerifyRazorpayPayment, HookCaptured, VerifyExtension,
              AdminInitiateRefund, HostCancelRead, CancelRead, HookRefund, account
<1>2. CASE HostCancelWrite(r) \/ CancelWrite(r)
  <2>1. UNCHANGED <<order, applied>> /\ (UNCHANGED trip \/ trip' = [trip EXCEPT !.st = "cancelled"])
    BY <1>2 DEF HostCancelWrite, CancelWrite
  <2>2. trip \in TripRow
    BY OrderTypes
  <2> QED
    BY <2>1, <2>2 DEF TripRow
<1>3. CASE TripProceed(r) /\ ~(HostCancelWrite(r) \/ CancelWrite(r))
  BY <1>3 DEF TripProceed, CancelFind, ReturnRead, GatewayRefuses, ReturnRecord, GatewayRefund, account
<1> QED
  BY <1>1, <1>2, <1>3 DEF OrderStep

\* What the handler of a refund goes on with; nobody else starts on one.
Returns == {"gateway", "returnRecord", "returnStatus"}

LEMMA ReturnGoes ==
  ASSUME DInv, NEW r \in Requests
  PROVE  /\ ReturnRead(r) =>
              \/ Due(reqs'[r]).op = "idle"
              \/ LET o      == reqs[r].o
                     before == Total(Of(o) \cap {n \in Refunds : refund[n].rec # "none"})
                     d      == Due(reqs'[r])
                 IN /\ order[o].st \in {"completed", "partially_refunded"}
                    /\ d.op \in {"gateway", "returnRecord"} /\ d.o = o /\ d.before = before
                    /\ d.amount \in {reqs[r].most, Amount(o) - before} /\ d.amount <= Amount(o) - before
                    /\ d.op = "returnRecord" => d.n = 0 /\ (d.rec = "completed" \/ order[o].ref # "payment")
         /\ \A n \in Refunds, gw \in {"asked", "done"} : GatewayRefund(r, n, gw) =>
              LET d == Due(reqs'[r]) IN
              /\ d.op = "returnRecord" /\ d.o = reqs[r].o /\ d.before = reqs[r].before /\ d.amount = reqs[r].amount
              /\ \/ d.n = n /\ d.rec = (IF gw = "done" THEN "completed" ELSE "pending") /\ UNCHANGED faults
                 \/ d.n = 0 /\ Fault
         /\ GatewayRefuses(r) =>
              LET d == Due(reqs'[r]) IN
              /\ d.op = "returnRecord" /\ d.o = reqs[r].o /\ d.before = reqs[r].before /\ d.amount = reqs[r].amount
              /\ d.n = 0 /\ d.rec = "completed"
         /\ ReturnRecord(r) =>
              LET d == Due(reqs'[r]) IN
              d.op = "returnStatus" /\ d.o = reqs[r].o /\ d.sum = reqs[r].before + reqs[r].amount
         /\ OrderInsert(r) \/ OrderConfirm(r) \/ ExtendWrite(r) \/ HostCancelWrite(r) \/ CancelWrite(r) \/ CancelFind(r)
            \/ ReturnStatus(r) => Due(reqs'[r]).op \notin Returns
<1>0. reqs \in [Requests -> Request] /\ \A rec : Goto(r, rec) => reqs'[r] = rec
  BY OrderTypes DEF Goto
<1>1. Done(r) => Due(reqs'[r]).op = "idle"
  BY <1>0, IdleDue DEF Done
<1>2. ASSUME NEW q, Credited(r, q)
      PROVE  LET d == Due(reqs'[r]) IN
             /\ d.op = "returnRecord" /\ d.o = q.o /\ d.before = q.before /\ d.amount = q.amount
             /\ d.n = 0 /\ d.rec = "completed"
  <2>1. PICK d : d = [op |-> "returnRecord", o |-> q.o, amount |-> q.amount, before |-> q.before, n |-> 0,
                      by |-> q.by, rec |-> "completed"]
    OBVIOUS
  <2>2. reqs'[r] = [op |-> "creditRead", amount |-> q.amount, next |-> d]
    BY <1>0, <1>2, <2>1 DEF Credited, GoCredit
  <2>3. Due(reqs'[r]) = d
    BY <2>2 DEF Due
  <2> QED
    BY <2>1, <2>3
<1>3. ASSUME ReturnRead(r), ~ Done(r)
      PROVE  LET o      == reqs[r].o
                 before == Total(Of(o) \cap {n \in Refunds : refund[n].rec # "none"})
                 d      == Due(reqs'[r])
             IN /\ order[o].st \in {"completed", "partially_refunded"}
                /\ d.op \in {"gateway", "returnRecord"} /\ d.o = o /\ d.before = before
                /\ d.amount \in {reqs[r].most, Amount(o) - before} /\ d.amount <= Amount(o) - before
                /\ d.op = "returnRecord" => d.n = 0 /\ (d.rec = "completed" \/ order[o].ref # "payment")
  <2>1. PICK o : o = reqs[r].o
    OBVIOUS
  <2>2. PICK before : before = Total(Of(o) \cap {n \in Refunds : refund[n].rec # "none"})
    OBVIOUS
  <2>3. PICK amount : amount = IF reqs[r].most < Amount(o) - before THEN reqs[r].most ELSE Amount(o) - before
    OBVIOUS
  <2>4. PICK q : q = [op |-> "gateway", o |-> o, before |-> before, by |-> reqs[r].by, amount |-> amount]
    OBVIOUS
  <2>5. amount \in {reqs[r].most, Amount(o) - before} /\ amount <= Amount(o) - before
    <3>1. reqs[r].op = "returnRead" /\ reqs[r] \in Request
      BY <1>0, <1>3 DEF ReturnRead, At
    <3>2. reqs[r].most \in Nat /\ o \in Orders
      BY <2>1, <3>1, RequestShape DEF Returning
    <3>3. Amount(o) \in Nat
      BY <3>2, AmountIsNat DEF DInv
    <3>4. before \in Nat
      BY <2>2, TotalIsNat DEF DInv
    <3> QED
      BY <2>3, <3>2, <3>3, <3>4
  <2>6. /\ order[o].st \in {"completed", "partially_refunded"}
        /\ \/ Credited(r, q)
           \/ order[o].ref = "payment" /\ Goto(r, q)
           \/ order[o].ref # "payment"
              /\ Goto(r, [op |-> "returnRecord", o |-> o, amount |-> amount, before |-> before,
                          n |-> 0, by |-> reqs[r].by, rec |-> "pending"])
    BY <1>3, <2>1, <2>2, <2>3, <2>4 DEF ReturnRead
  <2>7. CASE Credited(r, q)
    <3>1. LET d == Due(reqs'[r]) IN
          /\ d.op = "returnRecord" /\ d.o = q.o /\ d.before = q.before /\ d.amount = q.amount
          /\ d.n = 0 /\ d.rec = "completed"
      BY <1>2, <2>7
    <3>2. q.o = o /\ q.before = before /\ q.amount = amount
      BY <2>4
    <3> QED
      BY <2>1, <2>2, <2>5, <2>6, <3>1, <3>2
  <2>8. CASE order[o].ref = "payment" /\ Goto(r, q)
    <3>1. Due(reqs'[r]) = q
      BY <1>0, <2>4, <2>8 DEF Due
    <3> QED
      BY <2>1, <2>2, <2>4, <2>5, <2>6, <3>1
  <2>9. ASSUME order[o].ref # "payment",
               Goto(r, [op |-> "returnRecord", o |-> o, amount |-> amount, before |-> before,
                        n |-> 0, by |-> reqs[r].by, rec |-> "pending"])
        PROVE  LET d == Due(reqs'[r]) IN
               d.op = "returnRecord" /\ d.o = o /\ d.before = before /\ d.amount = amount /\ d.n = 0
    BY <1>0, <2>9 DEF Due
  <2> QED
    BY <2>1, <2>2, <2>5, <2>6, <2>7, <2>8, <2>9
<1>4. ASSUME NEW n \in Refunds, NEW gw \in {"asked", "done"}, GatewayRefund(r, n, gw)
      PROVE  LET d == Due(reqs'[r]) IN
             /\ d.op = "returnRecord" /\ d.o = reqs[r].o /\ d.before = reqs[r].before /\ d.amount = reqs[r].amount
             /\ \/ d.n = n /\ d.rec = (IF gw = "done" THEN "completed" ELSE "pending") /\ UNCHANGED faults
                \/ d.n = 0 /\ Fault
  <2>1. PICK q : q = reqs[r]
    OBVIOUS
  <2>2. PICK d : d = [op |-> "returnRecord", o |-> q.o, amount |-> q.amount, before |-> q.before, n |-> n,
                      by |-> q.by, rec |-> IF gw = "done" THEN "completed" ELSE "pending"]
    OBVIOUS
  <2>3. (Goto(r, d) /\ UNCHANGED faults) \/ (Fault /\ Credited(r, q))
    <3>1. \/ /\ Goto(r, [op |-> "returnRecord", o |-> reqs[r].o, amount |-> reqs[r].amount, before |-> reqs[r].before, n |-> n,
                         by |-> reqs[r].by, rec |-> IF gw = "done" THEN "completed" ELSE "pending"])
             /\ UNCHANGED faults
          \/ Fault /\ Credited(r, reqs[r])
      BY <1>4, Zenon DEF GatewayRefund
    <3> QED
      BY <2>1, <2>2, <3>1
  <2>4. CASE Goto(r, d) /\ UNCHANGED faults
    <3>1. Due(reqs'[r]) = d
      BY <1>0, <2>2, <2>4 DEF Due
    <3> QED
      BY <2>1, <2>2, <2>4, <3>1
  <2> QED
    BY <1>2, <2>1, <2>3, <2>4
<1>5. ASSUME GatewayRefuses(r) PROVE Credited(r, reqs[r])
  BY <1>5 DEF GatewayRefuses
<1>6. ASSUME ReturnRecord(r)
      PROVE  LET d == Due(reqs'[r]) IN
             d.op = "returnStatus" /\ d.o = reqs[r].o /\ d.sum = reqs[r].before + reqs[r].amount
  <2>1. PICK d : d = [op |-> "returnStatus", o |-> reqs[r].o, by |-> reqs[r].by, sum |-> reqs[r].before + reqs[r].amount]
    OBVIOUS
  <2>2. reqs'[r] = d
    BY <1>0, <1>6, <2>1 DEF ReturnRecord
  <2> QED
    BY <2>1, <2>2 DEF Due
<1>7. ASSUME NEW o, NEW most, NEW to, NEW by, GiveBack(r, o, most, to, by) PROVE Due(reqs'[r]).op = "returnRead"
  BY <1>0, <1>7 DEF GiveBack, Due
<1>8. Compensate(r) => Due(reqs'[r]).op = "idle"
  BY <1>0, IdleDue DEF Compensate, GoCredit, Due
<1>9. OrderInsert(r) \/ ExtendWrite(r) => Done(r)
  BY DEF OrderInsert, ExtendWrite
<1>10. OrderConfirm(r) => Due(reqs'[r]).op \notin Returns
  BY <1>1, <1>7 DEF OrderConfirm, Returns
<1>11. HostCancelWrite(r) \/ CancelWrite(r) => Due(reqs'[r]).op \notin Returns
  BY <1>0, <1>1 DEF HostCancelWrite, CancelWrite, Returns, Due
<1>12. CancelFind(r) \/ ReturnStatus(r) => Due(reqs'[r]).op \notin Returns
  BY <1>1, <1>7, <1>8 DEF CancelFind, ReturnStatus, Returns
<1>13. ReturnRead(r) /\ Done(r) => Due(reqs'[r]).op = "idle"
  BY <1>1
<1>14. Done(r) => Due(reqs'[r]).op \notin Returns
  BY <1>1 DEF Returns
<1>15. GatewayRefuses(r) =>
         LET d == Due(reqs'[r]) IN
         /\ d.op = "returnRecord" /\ d.o = reqs[r].o /\ d.before = reqs[r].before /\ d.amount = reqs[r].amount
         /\ d.n = 0 /\ d.rec = "completed"
  BY <1>2, <1>5
<1> QED
  BY <1>3, <1>4, <1>6, <1>9, <1>10, <1>11, <1>12, <1>13, <1>14, <1>15

-----------------------------------------------------------------------------
\* A transaction that counts as paid names a payment, an unused row is blank, a trip that is
\* firm has a payment, and who settles or refunds an order has seen one.
Paid(o) == order[o].ref = "payment" /\ order[o].gw = "paid"
Settled == {"completed"} \cup Refunded
Firm    == {"confirmed", "active", "completed"}

Sees(rec) ==
  /\ rec.op \in {"orderConfirm", "extendWrite"} => order[rec.o].gw = "paid"
  /\ rec.op \in Returns => Paid(rec.o)

Refs ==
  /\ \A o \in Orders : order[o].st \in Settled => Paid(o)
  /\ \A o \in Orders : order[o].st = "none" => order[o].gw = "none"
  /\ trip.st \in Firm => \E o \in Orders : order[o].gw = "paid"
  /\ \A r \in Requests : Sees(Due(reqs[r]))

\* What was paid stays paid.
RowGoesOn(o) ==
  /\ order'[o].st \in Settled => Paid(o)'
  /\ order'[o].st = "none" => order'[o].gw = "none"
  /\ order[o].gw = "paid" => order'[o].gw = "paid"
  /\ Paid(o) => Paid(o)'

LEMMA RowStays == ASSUME Refs, NEW o \in Orders, order'[o] = order[o] PROVE RowGoesOn(o)
  BY DEF Refs, RowGoesOn, Paid

LEMMA RefsStep ==
  ASSUME DInv, Refs, \A o \in Orders : RowGoesOn(o),
         trip'.st \in Firm => trip.st \in Firm \/ \E o \in Orders : order'[o].gw = "paid",
         \A q \in Requests : Due(reqs'[q]).op \in OrderOps => Due(reqs'[q]) = Due(reqs[q]) \/ Sees(Due(reqs[q]))'
  PROVE  Refs'
<1>1. ASSUME NEW q \in Requests PROVE Sees(Due(reqs[q]))'
  <2>1. CASE Due(reqs'[q]).op \notin OrderOps
    BY <2>1 DEF Sees, OrderOps, Returns
  <2>2. CASE Due(reqs'[q]).op \in OrderOps /\ Due(reqs'[q]) = Due(reqs[q])
    <3>1. Sees(Due(reqs[q])) /\ \A o \in Orders : RowGoesOn(o)
      BY DEF Refs
    <3>2. Due(reqs[q]).op \in {"orderConfirm", "extendWrite"} \cup Returns => Due(reqs[q]).o \in Orders
      BY OrderTypes DEF Returns
    <3> QED
      BY <2>2, <3>1, <3>2 DEF Sees, RowGoesOn
  <2> QED
    BY <2>1, <2>2
<1>2. \A o \in Orders : (order'[o].st \in Settled => Paid(o)') /\ (order'[o].st = "none" => order'[o].gw = "none")
  BY DEF RowGoesOn
<1>3. trip'.st \in Firm => \E o \in Orders : order'[o].gw = "paid"
  BY DEF Refs, RowGoesOn
<1> QED
  BY <1>1, <1>2, <1>3 DEF Refs

\* One row changes.
LEMMA RowsGoOn ==
  ASSUME Refs, NEW o \in Orders, OthersSame(o), RowGoesOn(o)
  PROVE  \A p \in Orders : RowGoesOn(p)
  BY RowStays DEF OthersSame

LEMMA RefsOrders ==
  ASSUME DInv, Refs, NEW r \in Requests, OrderStep(r)
  PROVE  (\A o \in Orders : RowGoesOn(o)) /\ Refs'
<1>0. /\ \A q \in Requests \ {r} : reqs'[q] = reqs[q]
      /\ \A o \in Orders : (order[o].st \in Settled => Paid(o)) /\ (order[o].st = "none" => order[o].gw = "none")
      /\ Sees(Due(reqs[r])) /\ trip \in TripRow
      /\ reqs \in [Requests -> Request] /\ \A rec : Goto(r, rec) => reqs'[r] = rec
  BY OrderTypes, HandlerSteps DEF HandlerStep, Refs, Goto
<1>1. ASSUME \A o \in Orders : RowGoesOn(o),
             trip'.st \in Firm => trip.st \in Firm \/ \E o \in Orders : order'[o].gw = "paid",
             Due(reqs'[r]).op \in OrderOps => Sees(Due(reqs[r]))'
      PROVE  (\A o \in Orders : RowGoesOn(o)) /\ Refs'
  BY <1>0, <1>1, RefsStep
<1>2. Due(reqs'[r]).op \notin {"orderConfirm", "extendWrite"} \cup Returns => Sees(Due(reqs[r]))'
  BY DEF Sees
<1>3. TripProceed(r) => Due(reqs'[r]).op \notin {"orderConfirm", "extendWrite"}
  <2>1. ASSUME TripProceed(r)
        PROVE  Due(reqs'[r]).op \notin {"orderConfirm", "extendWrite"}
    <3>1. PICK rec : /\ Goto(r, rec)
                     /\ rec.op \in {"idle", "creditRead", "cancelFind", "returnRead", "gateway", "returnRecord", "returnStatus"}
                     /\ (rec.op = "creditRead" => rec.next.op \in {"idle", "returnRecord"})
      BY <2>1, OrderGoes
    <3> QED
      BY <1>0, <3>1 DEF Due
  <2> QED
    BY <2>1
<1>4. UNCHANGED order => \A o \in Orders : RowGoesOn(o)
  BY RowStays
<1>5. ASSUME NEW o \in Orders, HookFailed(r, o)
      PROVE  (\A p \in Orders : RowGoesOn(p)) /\ Refs'
  <2>1. /\ OthersSame(o) /\ order[o].st # "none" /\ order'[o].st = "failed"
        /\ order'[o].ref = "order" /\ order[o].ref = "order" /\ order'[o].gw = order[o].gw
    BY <1>5, OrderEffect
  <2>2. RowGoesOn(o)
    BY <2>1 DEF RowGoesOn, Paid, Settled, Refunded
  <2>3. \A p \in Orders : RowGoesOn(p)
    BY <2>1, <2>2, RowsGoOn
  <2>4. UNCHANGED <<trip, reqs>>
    BY <1>5 DEF HookFailed, vars
  <2> QED
    BY <2>3, <2>4, RefsStep
<1>6. CASE OrderInsert(r)
  <2>1. UNCHANGED trip /\ Due(reqs'[r]).op \notin {"orderConfirm", "extendWrite"} \cup Returns
    <3>1. Done(r) /\ UNCHANGED trip
      BY <1>6 DEF OrderInsert
    <3> QED
      BY <1>0, <3>1, IdleDue DEF Done, Returns
  <2>2. CASE UNCHANGED order
    BY <1>1, <1>2, <1>4, <2>1, <2>2
  <2>3. CASE ~ UNCHANGED order
    <3>1. PICK o \in Orders : /\ OthersSame(o) /\ order[o].st = "none" /\ order'[o].st = "pending"
                              /\ order'[o].ref = "order" /\ order'[o].gw = "open"
      BY <1>6, <2>3, OrderEffect
    <3>2. RowGoesOn(o)
      BY <1>0, <3>1 DEF RowGoesOn, Paid, Settled, Refunded
    <3>3. \A p \in Orders : RowGoesOn(p)
      BY <3>1, <3>2, RowsGoOn
    <3> QED
      BY <1>1, <1>2, <2>1, <3>3
  <2> QED
    BY <2>2, <2>3
<1>7. CASE OrderConfirm(r) \/ ExtendWrite(r)
  <2>1. PICK o : o = reqs[r].o
    OBVIOUS
  <2>2. Settles(o) /\ order[o].gw = "paid"
    <3>1. reqs[r].op \in {"orderConfirm", "extendWrite"} /\ Due(reqs[r]) = reqs[r]
      BY <1>7, OrderTypes DEF OrderConfirm, ExtendWrite, At, OrderOps
    <3> QED
      BY <1>0, <1>7, <2>1, <3>1, OrderEffect DEF Sees
  <2>3. RowGoesOn(o)
    BY <2>2 DEF Settles, RowGoesOn, Paid, Settled, Refunded
  <2>4. \A p \in Orders : RowGoesOn(p)
    BY <2>2, <2>3, RowsGoOn DEF Settles
  <2>5. \E p \in Orders : order'[p].gw = "paid"
    BY <2>2 DEF Settles
  <2>6. Due(reqs'[r]).op \notin {"orderConfirm", "extendWrite"} \cup Returns
    BY <1>3, <1>7, ReturnGoes DEF TripProceed
  <2> QED
    BY <1>1, <1>2, <2>4, <2>5, <2>6
<1>8. CASE ReturnStatus(r)
  <2>1. PICK o : o = reqs[r].o
    OBVIOUS
  <2>2. /\ OthersSame(o) /\ o \in Orders /\ order'[o].gw = order[o].gw /\ order'[o].ref = order[o].ref
        /\ order'[o].st \in Refunded
    BY <1>8, <2>1, OrderEffect DEF Refunded
  <2>3. Paid(o)
    <3>1. reqs[r].op = "returnStatus" /\ Due(reqs[r]) = reqs[r]
      BY <1>8, OrderTypes DEF ReturnStatus, At, OrderOps
    <3> QED
      BY <1>0, <2>1, <3>1 DEF Sees, Returns
  <2>4. RowGoesOn(o)
    BY <2>2, <2>3 DEF RowGoesOn, Paid, Refunded
  <2>5. \A p \in Orders : RowGoesOn(p)
    BY <2>2, <2>4, RowsGoOn
  <2>6. UNCHANGED trip /\ Due(reqs'[r]).op \notin {"orderConfirm", "extendWrite"} \cup Returns
    BY <1>3, <1>8, ReturnGoes DEF TripProceed, ReturnStatus
  <2> QED
    BY <1>1, <1>2, <2>5, <2>6
<1>9. CASE /\ ~(OrderInsert(r) \/ OrderConfirm(r) \/ ExtendWrite(r) \/ ReturnStatus(r))
           /\ \A o \in Orders : ~ HookFailed(r, o)
  <2>1. UNCHANGED order /\ (trip'.st = trip.st \/ trip'.st = "cancelled")
    BY <1>9, OrdersStay
  <2>2. (\A o \in Orders : RowGoesOn(o)) /\ \A o \in Orders : Paid(o) => Paid(o)'
    BY <1>4, <2>1 DEF RowGoesOn
  <2>3. trip'.st \in Firm => trip.st \in Firm
    BY <2>1 DEF Firm
  <2>4. CASE TripArrive(r)
    <3>1. ASSUME NEW o \in Orders, VerifyRazorpayPayment(r, o) \/ HookCaptured(r, o) \/ VerifyExtension(r, o)
          PROVE  Sees(Due(reqs[r]))'
      <4>1. PICK rec : Goto(r, rec) /\ rec.op \in {"orderConfirm", "extendWrite"} /\ rec.o = o
        BY <3>1 DEF VerifyRazorpayPayment, HookCaptured, VerifyExtension
      <4>2. order[o].gw = "paid"
        BY <3>1 DEF VerifyRazorpayPayment, HookCaptured, VerifyExtension
      <4>3. Due(reqs'[r]) = rec
        BY <1>0, <4>1 DEF Due
      <4> QED
        BY <2>1, <4>1, <4>2, <4>3 DEF Sees, Returns
    <3>2. ASSUME NEW rec, Goto(r, rec), rec.op \in {"orderInsert", "returnRead", "hostCancelWrite", "cancelWrite"}
          PROVE  Sees(Due(reqs[r]))'
      BY <1>0, <1>2, <3>2 DEF Due, Returns
    <3>3. CreateRazorpayOrder(r) => Sees(Due(reqs[r]))'
      <4>1. PICK rec : rec = [op |-> "orderInsert", ext |-> FALSE, from |-> 0, upto |-> trip.total]
        OBVIOUS
      <4> QED
        BY <3>2, <4>1 DEF CreateRazorpayOrder
    <3>4. ASSUME NEW hours, ExtendBooking(r, hours) PROVE Sees(Due(reqs[r]))'
      <4>1. PICK rec : rec = [op |-> "orderInsert", ext |-> TRUE, from |-> trip.end, upto |-> trip.end + hours]
        OBVIOUS
      <4> QED
        BY <3>2, <3>4, <4>1 DEF ExtendBooking
    <3>5. ASSUME NEW o, NEW most, NEW to, AdminInitiateRefund(r, o, most, to) PROVE Sees(Due(reqs[r]))'
      BY <3>2, <3>5 DEF AdminInitiateRefund, GiveBack
    <3>6. ASSUME NEW share, CancelRead(r, share) PROVE Sees(Due(reqs[r]))'
      BY <3>2, <3>6 DEF CancelRead
    <3>7. HostCancelRead(r) => Sees(Due(reqs[r]))'
      BY <3>2 DEF HostCancelRead
    <3>8. ASSUME NEW n, HookRefund(r, n) PROVE UNCHANGED reqs
      BY <3>8 DEF HookRefund, vars
    <3>9. Sees(Due(reqs[r]))' \/ UNCHANGED reqs
      BY <1>9, <2>4, <3>1, <3>3, <3>4, <3>5, <3>6, <3>7, <3>8 DEF TripArrive
    <3> QED
      BY <1>1, <2>1, <2>2, <2>3, <3>9, RefsStep
  <2>5. CASE TripProceed(r)
    <3>1. SUFFICES ASSUME Due(reqs'[r]).op \in Returns PROVE Paid(Due(reqs[r]).o)'
      BY <1>1, <1>3, <2>2, <2>3, <2>5 DEF Sees
    <3>2. CASE ReturnRead(r)
      <4>1. Due(reqs'[r]).o = reqs[r].o /\ order[reqs[r].o].st \in {"completed", "partially_refunded"}
        BY <3>1, <3>2, ReturnGoes DEF Returns
      <4>2. reqs[r].o \in Orders
        BY <3>2, OrderTypes DEF ReturnRead, At, OrderOps
      <4>3. Paid(reqs[r].o)
        BY <1>0, <4>1, <4>2 DEF Settled, Refunded
      <4> QED
        BY <2>2, <4>1, <4>2, <4>3
    <3>3. CASE GatewayRefuses(r) \/ ReturnRecord(r) \/ \E n \in Refunds, gw \in {"asked", "done"} : GatewayRefund(r, n, gw)
      <4>1. Due(reqs'[r]).o = reqs[r].o
        BY <3>3, ReturnGoes
      <4>2. reqs[r].op \in Returns /\ Due(reqs[r]) = reqs[r] /\ reqs[r].o \in Orders
        <5>1. reqs[r].op \in Returns
          BY <3>3 DEF GatewayRefuses, ReturnRecord, GatewayRefund, At, Returns
        <5> QED
          BY <5>1, OrderTypes DEF Returns, OrderOps
      <4> QED
        BY <1>0, <2>2, <4>1, <4>2 DEF Sees
    <3> QED
      BY <1>9, <2>5, <3>1, <3>2, <3>3, ReturnGoes DEF TripProceed
  <2> QED
    BY <2>4, <2>5 DEF OrderStep
<1> QED
  BY <1>5, <1>6, <1>7, <1>8, <1>9

LEMMA RefsInvariant ==
  ASSUME DInv, Refs, AccountNext
  PROVE  (\A o \in Orders : RowGoesOn(o)) /\ Refs'
<1>0. trip \in TripRow /\ order \in [Orders -> OrderRow]
  BY OrderTypes
<1>1. ASSUME UNCHANGED order, Elsewhere(OrderOps), trip'.st \in Firm => trip.st \in Firm
      PROVE  (\A o \in Orders : RowGoesOn(o)) /\ Refs'
  <2>1. \A o \in Orders : RowGoesOn(o)
    BY <1>1, RowStays
  <2> QED
    BY <1>1, <2>1, RefsStep DEF Elsewhere
<1>2. CASE WalletAlone
  BY <1>1, <1>2, NobodysSteps, NobodyMoves DEF account
<1>3. CASE TripStarts \/ TripEnds
  <2>1. UNCHANGED <<order, reqs>> /\ trip.st \in Firm
    BY <1>3 DEF TripStarts, TripEnds, vars, Firm
  <2> QED
    BY <1>1, <2>1, NobodyMoves
<1>4. ASSUME NEW o \in Orders, OrderPaid(o) \/ OrderDeclined(o)
      PROVE  (\A p \in Orders : RowGoesOn(p)) /\ Refs'
  <2>1. UNCHANGED <<trip, reqs>> /\ order[o].gw = "open"
    BY <1>4 DEF OrderPaid, OrderDeclined, vars
  <2>2. OthersSame(o) /\ order'[o].st = order[o].st /\ order'[o].ref = order[o].ref
    BY <1>0, <1>4 DEF OrderPaid, OrderDeclined, OthersSame, OrderRow
  <2>3. order[o].st # "none" /\ order[o].st \notin Settled
    BY <2>1 DEF Refs, Paid
  <2>4. RowGoesOn(o)
    BY <2>1, <2>2, <2>3 DEF RowGoesOn, Paid
  <2>5. \A p \in Orders : RowGoesOn(p)
    BY <2>2, <2>4, RowsGoOn
  <2> QED
    BY <2>1, <2>5, RefsStep
<1>5. ASSUME NEW r \in Requests, WalletStep(r) \/ GarageStep(r) \/ CardStep(r)
      PROVE  (\A o \in Orders : RowGoesOn(o)) /\ Refs'
  <2>1. UNCHANGED <<order, trip>>
    BY <1>5, GarageTyped DEF WalletStep, GarageStep, CardStep, account
  <2> QED
    BY <1>1, <1>5, <2>1, StepElsewhere
<1>6. ASSUME NEW r \in Requests, BookStep(r)
      PROVE  (\A o \in Orders : RowGoesOn(o)) /\ Refs'
  <2>1. UNCHANGED <<order, reqs>> /\ trip'.st = "pending"
    BY <1>6 DEF BookStep, BookTrip, NoTrip, vars
  <2> QED
    BY <1>1, <2>1, NobodyMoves DEF Firm
<1> QED
  BY <1>2, <1>3, <1>4, <1>5, <1>6, RefsOrders, StepIs DEF TripAlone

-----------------------------------------------------------------------------
\* The price, the earning and the end of the trip.
Extras == SumFunctionOnSet([o \in Orders |-> Amount(o)], Extensions)
Apart  == \A o, p \in Extensions : order[o].from = order[p].from => o = p

\* An order that is inserted is of a trip, an extension from its end; an extension is written
\* once.
AsksRight(rec) ==
  /\ rec.op = "orderInsert" => trip.st # "none" /\ (rec.ext => rec.from = trip.end)
  /\ rec.op = "extendWrite" => applied[rec.o] = 0 /\ order[rec.o].ext

Priced ==
  /\ trip.st = "none" => \A o \in Orders : order[o].st = "none"
  /\ trip.st # "none" =>
       /\ trip.total = Stay + Extras /\ trip.earning \in {0, trip.total}
       /\ Apart => trip.end = trip.total
  /\ \A o \in Orders : applied[o] > 0 => Paid(o) /\ order[o].st # "none"
  /\ Apart => \A o \in Orders : order[o].ext /\ order[o].st # "none" =>
                order[o].from = trip.end \/ \E p \in Extensions : order[p].from = order[o].from

AsPaid == OneAtATime => Priced /\ \A r \in Requests : AsksRight(reqs[r])

\* A row that is kept, and one that is new.
KeptRow(o)  == SameTerms(o) /\ (order'[o].st = "none" <=> order[o].st = "none")
FreshRow(o) == order[o].st = "none" /\ trip.st # "none" /\ (order'[o].ext => order'[o].from = trip.end)

LEMMA ExtrasSame ==
  ASSUME DInv, Extensions' = Extensions, \A o \in Extensions : SameTerms(o)
  PROVE  Extras' = Extras /\ Apart' = Apart
<1> DEFINE f == [o \in Orders |-> Amount(o)]
           g == [o \in Orders |-> Amount(o)']
<1>1. Extensions \subseteq Orders /\ IsFiniteSet(Extensions)
  BY NumbersAre DEF Extensions
<1>2. \A o \in Extensions : f[o] = g[o]
  BY <1>1 DEF SameTerms, Amount
<1>3. Extras = SumFunctionOnSet(f, Extensions) /\ Extras' = SumFunctionOnSet(g, Extensions)
  BY DEF Extras
<1> HIDE DEF f, g
<1>4. Extras' = Extras
  BY <1>1, <1>2, <1>3, SumSame
<1>5. Apart' = Apart
  BY DEF Apart, SameTerms
<1> QED
  BY <1>4, <1>5

LEMMA PricedKept ==
  ASSUME DInv, Priced, \A o \in Orders : RowGoesOn(o), \A o \in Orders : KeptRow(o) \/ FreshRow(o),
         UNCHANGED applied, trip'.end = trip.end, trip'.total = trip.total,
         trip'.st = "none" <=> trip.st = "none",
         trip.st # "none" => trip'.earning \in {0, trip.total}
  PROVE  Priced'
<1>1. Extensions' = Extensions /\ Extensions \subseteq Orders
  BY DEF Extensions
<1>2. ASSUME NEW o \in Extensions PROVE KeptRow(o) /\ Paid(o)'
  BY <1>1, <1>2 DEF Priced, FreshRow, Extensions, RowGoesOn
<1>3. Extras' = Extras /\ Apart' = Apart
  BY <1>1, <1>2, ExtrasSame DEF KeptRow
<1>4. trip'.st = "none" => \A o \in Orders : order'[o].st = "none"
  BY DEF Priced, KeptRow, FreshRow
<1>5. trip'.st # "none" =>
        /\ trip'.total = Stay + Extras' /\ trip'.earning \in {0, trip'.total}
        /\ Apart' => trip'.end = trip'.total
  BY <1>3 DEF Priced
<1>6. \A o \in Orders : applied'[o] > 0 => Paid(o)' /\ order'[o].st # "none"
  BY <1>2 DEF Priced, KeptRow, Extensions
<1>7. ASSUME Apart, NEW o \in Orders, order'[o].ext, order'[o].st # "none"
      PROVE  order'[o].from = trip'.end \/ \E p \in Extensions : order'[p].from = order'[o].from
  <2>1. CASE KeptRow(o)
    <3>1. order[o].from = trip.end \/ \E p \in Extensions : order[p].from = order[o].from
      BY <1>7, <2>1 DEF Priced, KeptRow, SameTerms
    <3>2. \A p \in Extensions : order'[p].from = order[p].from
      BY <1>2 DEF KeptRow, SameTerms
    <3> QED
      BY <2>1, <3>1, <3>2 DEF KeptRow, SameTerms
  <2>2. CASE FreshRow(o)
    BY <1>7, <2>2 DEF FreshRow
  <2> QED
    BY <2>1, <2>2
<1> QED
  BY <1>1, <1>3, <1>4, <1>5, <1>6, <1>7 DEF Priced, Stay

LEMMA PricedExtended ==
  ASSUME DInv, Refs, Priced, NEW r \in Requests, ExtendWrite(r), AsksRight(reqs[r]), \A o \in Orders : RowGoesOn(o)
  PROVE  Priced'
<1>0. /\ order \in [Orders -> OrderRow] /\ trip \in TripRow /\ applied \in [Orders -> Nat]
      /\ reqs[r].op = "extendWrite" /\ Due(reqs[r]) = reqs[r]
  BY OrderTypes DEF ExtendWrite, At, OrderOps
<1>1. PICK o : o = reqs[r].o
  OBVIOUS
<1>2. PICK more : more = Amount(o)
  OBVIOUS
<1>3. Settles(o) /\ o \in Orders
  BY <1>1, OrderEffect DEF Settles
<1>4. /\ applied[o] = 0 /\ order[o].ext /\ order[o].gw = "paid" /\ order[o].st # "none"
  <2>1. applied[o] = 0 /\ order[o].ext
    BY <1>0, <1>1 DEF AsksRight
  <2>2. order[o].gw = "paid"
    BY <1>0, <1>1 DEF Refs, Sees
  <2> QED
    BY <1>3, <2>1, <2>2 DEF Refs
<1>5. /\ applied' = [applied EXCEPT ![o] = @ + 1]
      /\ trip' = [trip EXCEPT !.end = order[o].upto, !.total = @ + Amount(o), !.earning = IF @ = 0 THEN 0 ELSE @ + Amount(o)]
  BY <1>1 DEF ExtendWrite
<1>6. more \in Nat /\ order[o].from + more = order[o].upto
  <2>1. more \in Nat
    BY <1>2, <1>3, AmountIsNat DEF DInv
  <2>2. order[o].from \in Nat /\ order[o].upto \in Nat
    BY <1>0, <1>3 DEF OrderRow
  <2> QED
    BY <1>2, <2>1, <2>2 DEF Amount
<1>7. /\ trip'.end = order[o].upto /\ trip'.total = trip.total + more /\ trip'.st = trip.st
      /\ trip'.earning \in {0, trip.earning + more} /\ (trip.earning = 0 => trip'.earning = 0)
  BY <1>0, <1>2, <1>5 DEF TripRow
<1>8. Extensions' = Extensions \cup {o} /\ o \notin Extensions /\ Extensions \subseteq Orders
  BY <1>0, <1>3, <1>4, <1>5 DEF Extensions
<1>9. \A p \in Orders : KeptRow(p)
  BY <1>3, <1>4 DEF Settles, OthersSame, SameTerms, KeptRow, Refunded
<1>10. Extras' = Extras + more /\ Extras \in Nat
  <2> DEFINE f == [p \in Orders |-> Amount(p)]
             g == [p \in Orders |-> Amount(p)']
  <2>1. IsFiniteSet(Extensions) /\ IsFiniteSet(Extensions \cup {o})
    BY <1>3, <1>8, NumbersAre
  <2>2. \A p \in Orders : f[p] = g[p] /\ f[p] \in Nat
    BY <1>9, AmountIsNat DEF KeptRow, SameTerms, Amount, DInv
  <2>3. Extras = SumFunctionOnSet(f, Extensions) /\ Extras' = SumFunctionOnSet(g, Extensions \cup {o}) /\ f[o] = more
    BY <1>2, <1>3, <1>8 DEF Extras
  <2> HIDE DEF f, g
  <2>4. \A p \in Extensions \cup {o} : f[p] = g[p] /\ f[p] \in Nat /\ f[p] \in Int
    BY <1>3, <1>8, <2>2
  <2>5. SumFunctionOnSet(g, Extensions \cup {o}) = SumFunctionOnSet(f, Extensions \cup {o})
    BY <2>1, <2>4, SumSame
  <2>6. SumFunctionOnSet(f, Extensions \cup {o}) = SumFunctionOnSet(f, Extensions) + f[o]
    BY <1>8, <2>1, <2>4, SumAdd
  <2>7. SumFunctionOnSet(f, Extensions) \in Nat
    BY <2>1, <2>4, SumType
  <2> QED
    BY <2>3, <2>5, <2>6, <2>7
<1>11. trip.st # "none"
  BY <1>3, <1>4 DEF Priced
<1>12. trip.total = Stay + Extras /\ trip.earning \in {0, trip.total} /\ (Apart => trip.end = trip.total)
  BY <1>11 DEF Priced
<1>13. Apart' => Apart /\ order[o].from = trip.end
  <2>1. Apart' => /\ Apart
                  /\ \A p \in Extensions : order[p].from # order[o].from
    BY <1>3, <1>8, <1>9 DEF Apart, KeptRow, SameTerms
  <2> QED
    BY <1>3, <1>4, <2>1 DEF Priced
<1>14. /\ trip'.total = Stay + Extras' /\ trip'.earning \in {0, trip'.total}
       /\ Apart' => trip'.end = trip'.total
  BY <1>0, <1>6, <1>7, <1>10, <1>12, <1>13 DEF Stay, TripRow
<1>15. \A p \in Orders : applied'[p] > 0 => Paid(p)' /\ order'[p].st # "none"
  <2>1. Paid(o)' /\ order'[o].st # "none"
    BY <1>3, <1>4 DEF Settles, Paid, Refunded
  <2>2. ASSUME NEW p \in Orders \ {o}, applied'[p] > 0 PROVE Paid(p)' /\ order'[p].st # "none"
    <3>1. applied'[p] = applied[p]
      BY <1>0, <1>5, <2>2
    <3>2. Paid(p) /\ order[p].st # "none"
      BY <2>2, <3>1 DEF Priced
    <3> QED
      BY <1>9, <3>2 DEF RowGoesOn, KeptRow
  <2> QED
    BY <2>1, <2>2
<1>16. ASSUME Apart', NEW p \in Orders, order'[p].ext, order'[p].st # "none"
       PROVE  \E q \in Extensions \cup {o} : order'[q].from = order'[p].from
  <2>1. order[p].ext /\ order[p].st # "none" /\ order'[p].from = order[p].from
    BY <1>9, <1>16 DEF KeptRow, SameTerms
  <2>2. order[p].from = trip.end \/ \E q \in Extensions : order[q].from = order[p].from
    BY <1>13, <1>16, <2>1 DEF Priced
  <2>3. \A q \in Orders : order'[q].from = order[q].from
    BY <1>9 DEF KeptRow, SameTerms
  <2> QED
    BY <1>3, <1>8, <1>13, <1>16, <2>1, <2>2, <2>3
<1> QED
  BY <1>7, <1>8, <1>11, <1>14, <1>15, <1>16 DEF Priced, Stay

\* Of a handler that inserts or extends, as of SameHandler.
LEMMA SameAsker ==
  ASSUME DInv, Elsewhere(OrderOps), NEW q \in Requests, reqs'[q].op \in {"orderInsert", "extendWrite"}
  PROVE  reqs'[q] = reqs[q]
<1>1. Due(reqs'[q]) = reqs'[q] /\ Due(reqs[q]) = Due(reqs'[q])
  BY DEF Elsewhere, OrderOps, Due
<1>2. Due(reqs[q]).op \notin NextOps
  BY <1>1 DEF NextOps
<1>3. reqs[q] \in Request
  BY DEF DInv, Handlers
<1> QED
  BY <1>1, <1>2, <1>3, DueIs

LEMMA AsksStay ==
  ASSUME DInv, NEW q \in Requests, AsksRight(reqs[q]),
         reqs'[q].op \in {"orderInsert", "extendWrite"} => reqs'[q] = reqs[q],
         UNCHANGED applied, trip'.end = trip.end, trip.st # "none" => trip'.st # "none",
         \A o \in Orders : order[o].ext => order'[o].ext
  PROVE  AsksRight(reqs[q])'
<1>1. reqs[q].op = "extendWrite" => reqs[q].o \in Orders
  BY OrderTypes DEF OrderOps
<1> QED
  BY <1>1 DEF AsksRight

\* The steps that settle, extend and insert nothing.
LEMMA AsPaidStays ==
  ASSUME DInv, AsPaid, OneAtATime, UNCHANGED applied, Elsewhere(OrderOps),
         trip'.end = trip.end, trip'.total = trip.total, trip'.earning = trip.earning,
         trip'.st = "none" <=> trip.st = "none",
         \A o \in Orders : RowGoesOn(o) /\ KeptRow(o)
  PROVE  Priced' /\ \A q \in Requests : AsksRight(reqs[q])'
<1>1. Priced /\ \A q \in Requests : AsksRight(reqs[q])
  BY DEF AsPaid
<1>2. trip.st # "none" => trip'.earning \in {0, trip.total}
  BY <1>1 DEF Priced
<1>3. Priced'
  BY <1>1, <1>2, PricedKept
<1>4. \A o \in Orders : order[o].ext => order'[o].ext
  BY DEF KeptRow, SameTerms
<1> QED
  BY <1>1, <1>3, <1>4, SameAsker, AsksStay

\* The steps of the trip's own handlers.
LEMMA AsPaidOrders ==
  ASSUME DInv, Refs, HostKnows, AsPaid, OneAtATime, NEW r \in Requests, OrderStep(r), \A o \in Orders : RowGoesOn(o)
  PROVE  Priced' /\ \A q \in Requests : AsksRight(reqs[q])'
<1>0. /\ order \in [Orders -> OrderRow] /\ trip \in TripRow /\ applied \in [Orders -> Nat]
      /\ reqs \in [Requests -> Request] /\ \A rec : Goto(r, rec) => reqs'[r] = rec
  BY OrderTypes DEF Goto
<1>1. Priced /\ AsksRight(reqs[r])
  BY DEF AsPaid
<1>2. trip'.st = "none" <=> trip.st = "none"
  BY TripGoesOn
<1>3. trip.st # "none" => trip.earning \in {0, trip.total}
  BY <1>1 DEF Priced
<1>4. ASSUME NEW q \in Requests, q # r PROVE AsksRight(reqs[q])'
  <2>1. reqs'[q] = reqs[q] /\ r \in load.crew
    BY <1>4, HandlerSteps DEF HandlerStep
  <2>2. reqs'[q].op = "idle"
    BY <1>4, <2>1, Lonely, IdleIsRequest
  <2> QED
    BY <2>2 DEF AsksRight
<1>5. ASSUME TripProceed(r) PROVE AsksRight(reqs[r])'
  <2>1. reqs'[r].op \notin {"orderInsert", "extendWrite"}
    BY <1>0, <1>5, OrderGoes
  <2> QED
    BY <2>1 DEF AsksRight
<1>6. CASE OrderInsert(r)
  <2>1. UNCHANGED <<trip, applied>> /\ reqs[r].op = "orderInsert"
    BY <1>6 DEF OrderInsert, At
  <2>2. \A o \in Orders : KeptRow(o) \/ FreshRow(o)
    <3>1. CASE UNCHANGED order
      BY <3>1 DEF KeptRow, SameTerms
    <3>2. CASE ~ UNCHANGED order
      <4>1. PICK o \in Orders : /\ OthersSame(o) /\ order[o].st = "none"
                                /\ order'[o].ext = reqs[r].ext /\ order'[o].from = reqs[r].from
        BY <1>6, <3>2, OrderEffect
      <4>2. FreshRow(o)
        BY <1>1, <2>1, <4>1 DEF FreshRow, AsksRight
      <4>3. \A p \in Orders \ {o} : KeptRow(p)
        BY <4>1 DEF OthersSame, KeptRow, SameTerms
      <4> QED
        BY <4>2, <4>3
    <3> QED
      BY <3>1, <3>2
  <2>3. Priced'
    BY <1>1, <1>3, <2>1, <2>2, PricedKept
  <2> QED
    BY <1>4, <1>5, <1>6, <2>3 DEF TripProceed
<1>7. CASE ExtendWrite(r)
  BY <1>1, <1>4, <1>5, <1>7, PricedExtended DEF TripProceed
<1>8. CASE OrderConfirm(r)
  <2>1. PICK o : o = reqs[r].o
    OBVIOUS
  <2>2. reqs[r].op = "orderConfirm" /\ Due(reqs[r]) = reqs[r] /\ Settles(o)
    BY <1>8, <2>1, OrderTypes, OrderEffect DEF OrderConfirm, At, OrderOps
  <2>3. order[o].st # "none"
    BY <2>1, <2>2 DEF Refs, Sees, Settles
  <2>4. \A p \in Orders : KeptRow(p)
    BY <2>2, <2>3 DEF Settles, OthersSame, SameTerms, KeptRow, Refunded
  <2>5. UNCHANGED applied /\ trip'.end = trip.end /\ trip'.total = trip.total
        /\ trip'.earning \in {trip.earning, trip.total}
    <3>1. UNCHANGED applied
      BY <1>8 DEF OrderConfirm
    <3>2. CASE UNCHANGED trip
      BY <3>1, <3>2
    <3>3. CASE \E e \in {trip.earning, trip.total} :
                 trip' = [trip EXCEPT !.st = IF @ = "pending" THEN "confirmed" ELSE @, !.earning = e]
      BY <1>0, <3>1, <3>3 DEF TripRow
    <3>4. UNCHANGED trip
          \/ trip' = [trip EXCEPT !.st = IF @ = "pending" THEN "confirmed" ELSE @,
                                  !.earning = IF (trip.st = "confirmed" \/ trip.st = "pending") /\ @ = 0
                                              THEN trip.total ELSE @]
      BY <1>8, Zenon DEF OrderConfirm
    <3> QED
      BY <3>2, <3>3, <3>4
  <2>6. trip.st # "none" => trip'.earning \in {0, trip.total}
    BY <1>3, <2>5
  <2>7. Priced'
    BY <1>1, <1>2, <2>4, <2>5, <2>6, PricedKept
  <2> QED
    BY <1>4, <1>5, <1>8, <2>7 DEF TripProceed
<1>9. ASSUME NEW o \in Orders, HookFailed(r, o)
      PROVE  Priced' /\ \A q \in Requests : AsksRight(reqs[q])'
  <2>1. OthersSame(o) /\ SameTerms(o) /\ order[o].st # "none" /\ order'[o].st = "failed"
    BY <1>9, OrderEffect
  <2>2. \A p \in Orders : KeptRow(p)
    BY <2>1 DEF OthersSame, SameTerms, KeptRow
  <2>3. UNCHANGED <<trip, applied, reqs>>
    BY <1>9 DEF HookFailed, vars
  <2>4. Elsewhere(OrderOps)
    BY <2>3, NobodyMoves
  <2> QED
    BY <2>2, <2>3, <2>4, AsPaidStays
<1>10. CASE ReturnStatus(r)
  <2>1. PICK o : o = reqs[r].o
    OBVIOUS
  <2>2. /\ OthersSame(o) /\ SameTerms(o) /\ o \in Orders /\ order'[o].st \in Refunded
        /\ reqs[r].op = "returnStatus" /\ Due(reqs[r]) = reqs[r]
    <3>1. reqs[r].op = "returnStatus" /\ Due(reqs[r]) = reqs[r]
      BY <1>10, OrderTypes DEF ReturnStatus, At, OrderOps
    <3>2. OthersSame(o) /\ SameTerms(o) /\ o \in Orders
      BY <1>10, <2>1, OrderEffect
    <3>3. order'[o].st \in Refunded
      BY <1>10, <2>1, OrderEffect DEF Refunded
    <3> QED
      BY <3>1, <3>2, <3>3
  <2>3. order[o].st # "none"
    BY <2>1, <2>2 DEF Refs, Sees, Returns, Paid
  <2>4. \A p \in Orders : KeptRow(p)
    BY <2>2, <2>3 DEF OthersSame, SameTerms, KeptRow, Refunded
  <2>5. UNCHANGED <<trip, applied>>
    BY <1>10 DEF ReturnStatus
  <2>6. Priced'
    BY <1>1, <1>2, <1>3, <2>4, <2>5, PricedKept
  <2> QED
    BY <1>4, <1>5, <1>10, <2>6 DEF TripProceed
<1>11. CASE /\ ~(OrderInsert(r) \/ OrderConfirm(r) \/ ExtendWrite(r) \/ ReturnStatus(r))
            /\ \A o \in Orders : ~ HookFailed(r, o)
  <2>1. UNCHANGED <<order, applied>> /\ trip'.end = trip.end /\ trip'.total = trip.total /\ trip'.earning = trip.earning
    BY <1>11, OrdersStay
  <2>2. \A o \in Orders : KeptRow(o)
    BY <2>1 DEF KeptRow, SameTerms
  <2>3. Priced'
    BY <1>1, <1>2, <1>3, <2>1, <2>2, PricedKept
  <2>4. ASSUME TripArrive(r) PROVE AsksRight(reqs[r])'
    <3>1. ASSUME reqs'[r].op \notin {"orderInsert", "extendWrite"} PROVE AsksRight(reqs[r])'
      BY <3>1 DEF AsksRight
    <3>2. CreateRazorpayOrder(r) => AsksRight(reqs[r])'
      <4>1. PICK rec : rec = [op |-> "orderInsert", ext |-> FALSE, from |-> 0, upto |-> trip.total]
        OBVIOUS
      <4>2. CreateRazorpayOrder(r) => reqs'[r] = rec /\ trip.st = "pending"
        BY <1>0, <4>1 DEF CreateRazorpayOrder
      <4> QED
        BY <1>2, <4>1, <4>2 DEF AsksRight
    <3>3. ASSUME NEW hours, ExtendBooking(r, hours) PROVE AsksRight(reqs[r])'
      <4>1. PICK rec : rec = [op |-> "orderInsert", ext |-> TRUE, from |-> trip.end, upto |-> trip.end + hours]
        OBVIOUS
      <4>2. reqs'[r] = rec /\ trip.st = "active"
        BY <1>0, <3>3, <4>1 DEF ExtendBooking
      <4> QED
        BY <1>2, <2>1, <4>1, <4>2 DEF AsksRight
    <3>4. ASSUME NEW o \in Orders, VerifyExtension(r, o) PROVE AsksRight(reqs[r])'
      <4>1. PICK rec : rec = [op |-> "extendWrite", o |-> o]
        OBVIOUS
      <4>2. reqs'[r] = rec /\ Unsettled(o) /\ order[o].ext
        BY <1>0, <3>4, <4>1 DEF VerifyExtension
      <4>3. applied[o] = 0
        BY <1>0, <1>1, <4>2 DEF Priced, Paid, Unsettled
      <4> QED
        BY <2>1, <4>1, <4>2, <4>3 DEF AsksRight
    <3>5. ASSUME NEW o, VerifyRazorpayPayment(r, o) \/ HookCaptured(r, o) PROVE AsksRight(reqs[r])'
      BY <1>0, <3>1, <3>5 DEF VerifyRazorpayPayment, HookCaptured
    <3>6. ASSUME NEW o, NEW most, NEW to, AdminInitiateRefund(r, o, most, to) PROVE AsksRight(reqs[r])'
      BY <1>0, <3>1, <3>6 DEF AdminInitiateRefund, GiveBack
    <3>7. ASSUME NEW share, CancelRead(r, share) PROVE AsksRight(reqs[r])'
      BY <1>0, <3>1, <3>7 DEF CancelRead
    <3>8. HostCancelRead(r) => AsksRight(reqs[r])'
      BY <1>0, <3>1 DEF HostCancelRead
    <3>9. ASSUME NEW n, HookRefund(r, n) PROVE AsksRight(reqs[r])'
      <4>1. reqs' = reqs /\ UNCHANGED <<trip, order, applied>>
        BY <3>9 DEF HookRefund, vars
      <4> QED
        BY <1>1, <4>1 DEF AsksRight
    <3> QED
      BY <1>11, <2>4, <3>2, <3>3, <3>4, <3>5, <3>6, <3>7, <3>8, <3>9 DEF TripArrive
  <2> QED
    BY <1>4, <1>5, <2>3, <2>4 DEF OrderStep
<1> QED
  BY <1>6, <1>7, <1>8, <1>9, <1>10, <1>11

LEMMA AsPaidInvariant ==
  ASSUME DInv, Refs, HostKnows, AsPaid, AccountNext
  PROVE  AsPaid'
<1>0. trip \in TripRow /\ order \in [Orders -> OrderRow]
  BY OrderTypes
<1>1. SUFFICES ASSUME OneAtATime PROVE Priced' /\ \A q \in Requests : AsksRight(reqs[q])'
  BY LoadStays DEF AsPaid, OneAtATime
<1>2. \A o \in Orders : RowGoesOn(o)
  BY RefsInvariant
<1>3. ASSUME UNCHANGED <<order, trip, applied>>, Elsewhere(OrderOps)
      PROVE  Priced' /\ \A q \in Requests : AsksRight(reqs[q])'
  <2>1. \A o \in Orders : KeptRow(o)
    BY <1>3 DEF KeptRow, SameTerms
  <2> QED
    BY <1>1, <1>2, <1>3, <2>1, AsPaidStays
<1>4. CASE WalletAlone
  BY <1>3, <1>4, NobodysSteps, NobodyMoves DEF account
<1>5. CASE TripAlone
  <2>1. Elsewhere(OrderOps) /\ UNCHANGED applied
    BY <1>5, NobodysSteps, NobodyMoves DEF TripAlone, OrderPaid, OrderDeclined, TripStarts, TripEnds
  <2>2. \A o \in Orders : KeptRow(o)
    <3>1. ASSUME NEW o \in Orders, OrderPaid(o) \/ OrderDeclined(o) PROVE \A p \in Orders : KeptRow(p)
      BY <1>0, <3>1 DEF OrderPaid, OrderDeclined, KeptRow, SameTerms, OrderRow
    <3>2. CASE UNCHANGED order
      BY <3>2 DEF KeptRow, SameTerms
    <3> QED
      BY <1>5, <3>1, <3>2 DEF TripAlone, TripStarts, TripEnds
  <2>3. trip'.end = trip.end /\ trip'.total = trip.total /\ trip'.earning = trip.earning
        /\ (trip'.st = "none" <=> trip.st = "none")
    BY <1>0, <1>5 DEF TripAlone, OrderPaid, OrderDeclined, TripStarts, TripEnds, TripRow
  <2> QED
    BY <1>1, <1>2, <2>1, <2>2, <2>3, AsPaidStays
<1>6. ASSUME NEW r \in Requests, WalletStep(r) \/ GarageStep(r) \/ CardStep(r)
      PROVE  Priced' /\ \A q \in Requests : AsksRight(reqs[q])'
  <2>1. UNCHANGED <<order, trip, applied>>
    BY <1>6, GarageTyped DEF WalletStep, GarageStep, CardStep, account
  <2> QED
    BY <1>3, <1>6, <2>1, StepElsewhere
<1>7. ASSUME NEW r \in Requests, BookStep(r)
      PROVE  Priced' /\ \A q \in Requests : AsksRight(reqs[q])'
  <2>1. UNCHANGED <<reqs, order, applied>> /\ r \in load.crew /\ reqs[r] = Idle /\ trip.st = "none"
    BY <1>7, BookLeaves
  <2>2. trip'.st = "pending" /\ trip'.end = Stay /\ trip'.total = Stay /\ trip'.earning = 0
    BY <1>7 DEF BookStep, BookTrip, NoTrip
  <2>3. \A q \in Requests : AsksRight(reqs[q])'
    <3>1. \A q \in Requests : reqs'[q].op = "idle"
      BY <1>1, <2>1, Lonely, IdleIsRequest
    <3> QED
      BY <3>1 DEF AsksRight
  <2>4. Priced
    BY <1>1 DEF AsPaid
  <2>5. (\A o \in Orders : order[o].st = "none") /\ Extensions = {}
    BY <2>1, <2>4 DEF Priced, Extensions
  <2>6. Extras' = 0 /\ Extensions' = {}
    <3>1. Extensions' = {}
      BY <2>1, <2>5 DEF Extensions
    <3> DEFINE f == [o \in Orders |-> Amount(o)']
    <3>2. Extras' = SumFunctionOnSet(f, {})
      BY <3>1 DEF Extras
    <3> HIDE DEF f
    <3> QED
      BY <3>1, <3>2, SumEmpty
  <2>7. Priced'
    BY <2>1, <2>2, <2>5, <2>6 DEF Priced, Stay, Extensions
  <2> QED
    BY <2>3, <2>7
<1> QED
  BY <1>1, <1>2, <1>4, <1>5, <1>6, <1>7, AsPaidOrders, StepIs

\* A transaction that counts as paid names a payment by which it can be refunded, and a trip
\* is firm only with one; and of requests that come one at a time, every extension that was
\* verified is once in the price and in the earning, and the driver has the hours he paid for
\* (confirmBookingAfterPayment, extendBooking, verifyExtensionPayment).
THEOREM TripsAreAsPaid == AccountSpec => []TripAsPaid
<1>1. AccountInit => VehicleKept /\ HostKnows /\ Refs /\ AsPaid
  <2>1. AccountInit => /\ trip.st = "none" /\ \A r \in Requests : reqs[r] = Idle
                       /\ \A o \in Orders : order[o].st = "none" /\ order[o].gw = "none" /\ applied[o] = 0
    BY DEF AccountInit, Init, TripInit, NoTrip, NoOrder
  <2>2. AccountInit => VehicleKept /\ HostKnows
    BY <2>1, IdleDue DEF VehicleKept, HostKnows
  <2>3. AccountInit => Refs
    BY <2>1, IdleDue DEF Refs, Sees, Returns, Settled, Refunded, Firm
  <2>4. AccountInit => AsPaid
    BY <2>1, IdleIsRequest DEF AsPaid, Priced, AsksRight
  <2> QED
    BY <2>2, <2>3, <2>4
<1>2. DInv /\ VehicleKept /\ HostKnows /\ Refs /\ AsPaid /\ [AccountNext]_allVars
        => (VehicleKept /\ HostKnows /\ Refs /\ AsPaid)'
  <2> SUFFICES ASSUME DInv, VehicleKept, HostKnows, Refs, AsPaid, [AccountNext]_allVars
               PROVE  (VehicleKept /\ HostKnows /\ Refs /\ AsPaid)'
    OBVIOUS
  <2>1. CASE AccountNext
    BY <2>1, KeptInvariant, RefsInvariant, AsPaidInvariant
  <2>2. CASE UNCHANGED allVars
    <3>1. UNCHANGED <<load, reqs, trip, order, applied, vehicle>>
      BY <2>2 DEF allVars, vars, account, garage
    <3>2. VehicleKept' /\ HostKnows'
      BY <3>1 DEF VehicleKept, HostKnows, Garage!Owned
    <3>3. Refs'
      BY <3>1 DEF Refs, Sees, Paid
    <3>4. Extras' = Extras /\ Extensions' = Extensions /\ Apart' = Apart
      BY <3>1 DEF Extras, Extensions, Amount, Apart
    <3>5. AsPaid'
      BY <3>1, <3>4 DEF AsPaid, Priced, AsksRight, OneAtATime, Paid
    <3> QED
      BY <3>2, <3>3, <3>5
  <2> QED
    BY <2>1, <2>2
<1>3. Refs /\ AsPaid => TripAsPaid
  <2>1. Refs => RefsFollowMoney
    BY DEF Refs, RefsFollowMoney, Settled, Paid, Firm
  <2>2. AsPaid => ExtendedAsPaid
    BY DEF AsPaid, Priced, ExtendedAsPaid, Extras, Apart
  <2> QED
    BY <2>1, <2>2 DEF TripAsPaid
<1> QED
  BY <1>1, <1>2, <1>3, Typed, PTL DEF AccountSpec, allVars

-----------------------------------------------------------------------------
\* Refunds.  A row that is not used is blank, one that is used is of an order that is there.
Filed ==
  \A n \in Refunds : /\ refund[n].o = 0 => refund[n] = NoRefund
                     /\ refund[n].o # 0 => order[refund[n].o].st # "none"

\* What was given back of an order, at the gateway or in the wallet.
Given(o) == Total(Of(o))

Balanced(o) ==
  /\ Given(o) <= Amount(o)
  /\ order[o].st = "refunded" => Given(o) = Amount(o)
  /\ \A n \in Of(o) : refund[n].rec = "pending" => refund[n].gw = "asked"

\* A refund that the gateway made and that has no record yet is being recorded.
Recorded ==
  \A n \in Refunds : refund[n].o # 0 /\ refund[n].rec = "none"
                       => \E r \in Requests : reqs[r].op = "returnRecord" /\ reqs[r].n = n

\* What a handler read of the refunds is still so.
Squares(q) ==
  /\ q.op = "gateway" \/ (q.op = "returnRecord" /\ q.n = 0) =>
       q.before = Given(q.o) /\ q.before + q.amount <= Amount(q.o) /\ order[q.o].st # "refunded"
  /\ q.op = "returnRecord" /\ q.n = 0 => q.rec = "completed"
  /\ q.op = "returnRecord" /\ q.n # 0 =>
       /\ refund[q.n].o = q.o /\ q.before + q.amount = Given(q.o)
       /\ refund[q.n].rec = "none" /\ order[q.o].st # "refunded"
       /\ q.rec = "pending" => refund[q.n].gw = "asked"
  /\ q.op = "returnStatus" => q.sum = Given(q.o)

Settling == (\A o \in Orders : Balanced(o)) /\ Recorded /\ \A r \in Requests : Squares(Due(reqs[r]))

Squared == OneAtATime /\ faults = 0 => Filed /\ Settling

\* Sums over the refunds of an order.
LEMMA GivenIsNat == ASSUME DInv, NEW o \in Orders PROVE Given(o) \in Nat /\ Of(o) \subseteq Refunds
<1>1. Of(o) \in SUBSET Refunds
  BY DEF Of
<1> QED
  BY <1>1, TotalIsNat DEF Given, DInv

LEMMA GivenNothing == ASSUME Filed, NEW o \in Orders, order[o].st = "none" PROVE Of(o) = {} /\ Given(o) = 0
<1>1. o # 0
  BY NumbersAre DEF Orders
<1>2. Of(o) = {}
  BY <1>1 DEF Filed, Of
<1> DEFINE f == [n \in Refunds |-> refund[n].amount]
<1>3. Given(o) = SumFunctionOnSet(f, {})
  BY <1>2 DEF Given, Total
<1> HIDE DEF f
<1> QED
  BY <1>2, <1>3, SumEmpty

LEMMA GivenSame ==
  ASSUME DInv, NEW o \in Orders, Of(o)' = Of(o), \A n \in Of(o) : refund'[n].amount = refund[n].amount
  PROVE  Given(o)' = Given(o)
<1> DEFINE f == [n \in Refunds |-> refund[n].amount]
           g == [n \in Refunds |-> refund'[n].amount]
<1>1. Of(o) \subseteq Refunds /\ IsFiniteSet(Of(o))
  BY NumbersAre DEF Of
<1>2. \A n \in Of(o) : f[n] = g[n]
  BY <1>1
<1>3. Given(o) = SumFunctionOnSet(f, Of(o)) /\ Given(o)' = SumFunctionOnSet(g, Of(o))
  BY DEF Given, Total
<1> HIDE DEF f, g
<1> QED
  BY <1>1, <1>2, <1>3, SumSame

\* Row n, which is not used, is filled in for order o.
LEMMA GivenMore ==
  ASSUME DInv, NEW o \in Orders, NEW n \in Refunds, refund[n].o = 0,
         NEW row \in RefundRow, row.o = o, refund' = [refund EXCEPT ![n] = row]
  PROVE  /\ Given(o)' = Given(o) + row.amount /\ Of(o)' = Of(o) \cup {n} /\ n \notin Of(o)
         /\ refund'[n] = row /\ \A m \in Refunds \ {n} : refund'[m] = refund[m]
         /\ \A p \in Orders \ {o} : Of(p)' = Of(p) /\ Given(p)' = Given(p)
<1> DEFINE f == [m \in Refunds |-> refund[m].amount]
           g == [m \in Refunds |-> refund'[m].amount]
<1>1. refund \in [Refunds -> RefundRow] /\ o # 0
  BY OrderTypes, NumbersAre DEF Orders
<1>2. refund'[n] = row /\ \A m \in Refunds \ {n} : refund'[m] = refund[m]
  BY <1>1
<1>3. Of(o)' = Of(o) \cup {n} /\ n \notin Of(o) /\ Of(o) \subseteq Refunds
  <2>1. \A m \in Refunds : refund'[m].o = o <=> refund[m].o = o \/ m = n
    BY <1>1, <1>2
  <2> QED
    BY <1>1, <2>1 DEF Of
<1>4. ASSUME NEW p \in Orders \ {o} PROVE Of(p)' = Of(p) /\ Given(p)' = Given(p)
  <2>1. Of(p)' = Of(p) /\ n \notin Of(p) /\ Of(p) \subseteq Refunds
    <3>1. p # 0 /\ p # o
      BY NumbersAre DEF Orders
    <3>2. \A m \in Refunds : refund'[m].o = p <=> refund[m].o = p
      BY <1>2, <3>1
    <3> QED
      BY <1>1, <1>2, <3>1, <3>2 DEF Of
  <2>2. \A m \in Of(p) : refund'[m].amount = refund[m].amount
    BY <1>2, <2>1
  <2> QED
    BY <2>1, <2>2, GivenSame
<1>5. IsFiniteSet(Of(o)) /\ IsFiniteSet(Of(o) \cup {n})
  BY <1>3, NumbersAre
<1>6. \A m \in Of(o) : f[m] = g[m] /\ g[m] \in Int
  BY <1>1, <1>2, <1>3 DEF RefundRow
<1>7. g[n] = row.amount /\ row.amount \in Int
  BY <1>2 DEF RefundRow
<1>8. Given(o) = SumFunctionOnSet(f, Of(o)) /\ Given(o)' = SumFunctionOnSet(g, Of(o) \cup {n})
  BY <1>3 DEF Given, Total
<1> HIDE DEF f, g
<1>9. SumFunctionOnSet(f, Of(o)) = SumFunctionOnSet(g, Of(o))
  BY <1>5, <1>6, SumSame
<1>10. SumFunctionOnSet(g, Of(o) \cup {n}) = SumFunctionOnSet(g, Of(o)) + g[n]
  <2>1. \A m \in Of(o) \cup {n} : g[m] \in Int
    BY <1>6, <1>7
  <2> QED
    BY <1>3, <1>5, <2>1, SumAdd
<1> QED
  BY <1>2, <1>3, <1>4, <1>7, <1>8, <1>9, <1>10

\* The refunds stay and no order becomes refunded but one of which all was given back.
LEMMA RefundsStay ==
  ASSUME DInv, DInv', Filed, UNCHANGED refund,
         \A o \in Orders : /\ SameTerms(o) \/ order[o].st = "none"
                           /\ order'[o].st = "none" => order[o].st = "none"
                           /\ order'[o].st = "refunded" =>
                                SameTerms(o) /\ (order[o].st = "refunded" \/ Given(o) = Amount(o))
  PROVE  /\ Filed' /\ \A o \in Orders : Given(o)' = Given(o)
         /\ (\A o \in Orders : Balanced(o)) => \A o \in Orders : Balanced(o)'
<1>1. refund \in [Refunds -> RefundRow]
  BY OrderTypes
<1>2. Filed'
  BY <1>1 DEF Filed, RefundRow
<1>3. ASSUME NEW o \in Orders PROVE Given(o)' = Given(o) /\ Of(o)' = Of(o)
  <2>1. Of(o)' = Of(o)
    BY DEF Of
  <2> QED
    BY <2>1, GivenSame
<1>4. ASSUME NEW o \in Orders, Balanced(o) PROVE Balanced(o)'
  <2>1. CASE SameTerms(o)
    BY <1>3, <1>4, <2>1 DEF Balanced, SameTerms, Amount
  <2>2. CASE ~ SameTerms(o)
    <3>1. Given(o) = 0 /\ order'[o].st # "refunded"
      BY <2>2, GivenNothing
    <3>2. Amount(o)' \in Nat
      <4>1. order'[o].from \in Nat /\ order'[o].upto \in Nat /\ order'[o].from <= order'[o].upto
        BY TripRows DEF DInv, Spans, TripTypeOK
      <4> QED
        BY <4>1 DEF Amount
    <3> QED
      BY <1>3, <1>4, <3>1, <3>2 DEF Balanced
  <2> QED
    BY <2>1, <2>2
<1> QED
  BY <1>2, <1>3, <1>4

\* The steps of others: what was read of the refunds is still so.
LEMMA SettlingStays ==
  ASSUME DInv, DInv', Filed, Settling, UNCHANGED refund, Elsewhere(OrderOps),
         \A o \in Orders : SameTerms(o) /\ order'[o].st = order[o].st,
         \A q \in Requests : reqs[q].op = "returnRecord" => reqs'[q] = reqs[q]
  PROVE  Filed' /\ Settling'
<1>1. Filed' /\ (\A o \in Orders : Given(o)' = Given(o)) /\ \A o \in Orders : Balanced(o)'
  BY RefundsStay DEF Settling
<1>2. Recorded'
  BY DEF Settling, Recorded
<1>3. ASSUME NEW q \in Requests PROVE Squares(Due(reqs[q]))'
  <2>1. CASE Due(reqs'[q]).op \notin Returns
    BY <2>1 DEF Squares, Returns
  <2>2. CASE Due(reqs'[q]).op \in Returns
    <3>1. PICK d : d = Due(reqs[q])
      OBVIOUS
    <3>2. Due(reqs'[q]) = d /\ Squares(d) /\ d.op \in Returns
      BY <2>2, <3>1 DEF Elsewhere, Returns, OrderOps, Settling
    <3>3. d.o \in Orders
      BY <3>1, <3>2, OrderTypes DEF Returns
    <3>4. Given(d.o)' = Given(d.o) /\ Amount(d.o)' = Amount(d.o) /\ order'[d.o].st = order[d.o].st
      BY <1>1, <3>3 DEF SameTerms, Amount
    <3>5. Squares(d)'
      <4>1. PICK o : o = d.o
        OBVIOUS
      <4>2. Given(o)' = Given(o) /\ Amount(o)' = Amount(o) /\ order'[o].st = order[o].st
        BY <3>4, <4>1
      <4> QED
        BY <3>2, <4>1, <4>2 DEF Squares
    <3> QED
      BY <3>2, <3>5
  <2> QED
    BY <2>1, <2>2
<1> QED
  BY <1>1, <1>2, <1>3 DEF Settling

\* With one handler, which records nothing, every refund has its record.
LEMMA AllRecorded ==
  ASSUME DInv, OneAtATime, Recorded, NEW r \in load.crew, reqs[r].op # "returnRecord"
  PROVE  \A n \in Refunds : refund[n].o # 0 => refund[n].rec # "none"
<1>1. \A q \in Requests : reqs[q].op # "returnRecord"
  BY Lonely, IdleIsRequest
<1> QED
  BY <1>1 DEF Recorded

\* Only handler r has anything to do.
LEMMA SettlingStep ==
  ASSUME DInv, OneAtATime, NEW r \in load.crew, \A q \in Requests \ {r} : reqs'[q] = reqs[q],
         \A o \in Orders : Balanced(o)', Recorded', Squares(Due(reqs[r]))'
  PROVE  Settling'
<1>1. ASSUME NEW q \in Requests, q # r PROVE Squares(Due(reqs[q]))'
  <2>1. Due(reqs'[q]).op = "idle"
    BY <1>1, Lonely, IdleDue
  <2> QED
    BY <2>1 DEF Squares
<1> QED
  BY <1>1 DEF Settling

\* Where the row of an order does not become "refunded" without all being given back.
LEMMA OrdersKept ==
  ASSUME DInv, Refs, Settling, NEW r \in Requests, OrderStep(r)
  PROVE  \A o \in Orders : /\ SameTerms(o) \/ order[o].st = "none"
                           /\ order'[o].st = "none" => order[o].st = "none"
                           /\ order'[o].st = "refunded" =>
                                SameTerms(o) /\ (order[o].st = "refunded" \/ Given(o) = Amount(o))
<1> DEFINE Kept(o) == /\ SameTerms(o) \/ order[o].st = "none"
                      /\ order'[o].st = "none" => order[o].st = "none"
                      /\ order'[o].st = "refunded" =>
                           SameTerms(o) /\ (order[o].st = "refunded" \/ Given(o) = Amount(o))
<1>0. order \in [Orders -> OrderRow]
  BY OrderTypes
<1>1. ASSUME NEW o \in Orders, order'[o] = order[o] PROVE Kept(o)
  BY <1>1 DEF SameTerms
<1>2. ASSUME NEW o \in Orders, OthersSame(o), Kept(o) PROVE \A p \in Orders : Kept(p)
  BY <1>1, <1>2 DEF OthersSame
<1>3. ASSUME OrderInsert(r) PROVE \A o \in Orders : Kept(o)
  <2>1. CASE UNCHANGED order
    BY <1>1, <2>1
  <2>2. CASE ~ UNCHANGED order
    <3>1. PICK o \in Orders : OthersSame(o) /\ order[o].st = "none" /\ order'[o].st = "pending"
      BY <1>3, <2>2, OrderEffect
    <3>2. Kept(o)
      BY <3>1
    <3> QED
      BY <1>2, <3>1, <3>2
  <2> QED
    BY <2>1, <2>2
<1>4. ASSUME OrderConfirm(r) \/ ExtendWrite(r) PROVE \A o \in Orders : Kept(o)
  <2>1. PICK o : o = reqs[r].o
    OBVIOUS
  <2>2. Settles(o)
    BY <1>4, <2>1, OrderEffect
  <2>3. order'[o].st = "completed" \/ order'[o].st = order[o].st
    <3>1. order' = [order EXCEPT ![o].ref = "payment"]
          \/ order' = [order EXCEPT ![o] = [order[o] EXCEPT !.st = "completed", !.ref = "payment"]]
      BY <1>4, <2>1 DEF OrderConfirm, ExtendWrite
    <3>2. PICK row : row = [order[o] EXCEPT !.st = "completed", !.ref = "payment"]
      OBVIOUS
    <3>3. order' = [order EXCEPT ![o].ref = "payment"] \/ order' = [order EXCEPT ![o] = row]
      BY <3>1, <3>2
    <3>4. row.st = "completed" /\ order[o] \in OrderRow /\ o \in Orders
      BY <1>0, <2>2, <3>2 DEF Settles, OrderRow
    <3> QED
      BY <1>0, <3>3, <3>4 DEF OrderRow
  <2>4. Kept(o)
    BY <2>2, <2>3 DEF Settles, Refunded
  <2> QED
    BY <1>2, <2>2, <2>4 DEF Settles
<1>5. ASSUME NEW o \in Orders, HookFailed(r, o) PROVE \A p \in Orders : Kept(p)
  <2>1. OthersSame(o) /\ SameTerms(o) /\ order[o].st # "none" /\ order'[o].st = "failed"
    BY <1>5, OrderEffect
  <2>2. Kept(o)
    BY <2>1
  <2> QED
    BY <1>2, <2>1, <2>2
<1>6. ASSUME ReturnStatus(r) PROVE \A o \in Orders : Kept(o)
  <2>1. PICK o : o = reqs[r].o
    OBVIOUS
  <2>2. OthersSame(o) /\ SameTerms(o) /\ o \in Orders
        /\ order'[o].st = IF reqs[r].sum >= Amount(o) THEN "refunded" ELSE "partially_refunded"
    BY <1>6, <2>1, OrderEffect
  <2>3. reqs[r].op = "returnStatus" /\ Due(reqs[r]) = reqs[r]
    BY <1>6, OrderTypes DEF ReturnStatus, At, OrderOps
  <2>4. reqs[r].sum = Given(o)
    BY <2>1, <2>3 DEF Settling, Squares
  <2>5. Given(o) <= Amount(o) /\ Given(o) \in Nat /\ Amount(o) \in Nat
    BY <2>2, GivenIsNat, AmountIsNat DEF Settling, Balanced, DInv
  <2>6. order'[o].st # "none" /\ (order'[o].st = "refunded" => Given(o) = Amount(o))
    BY <2>2, <2>4, <2>5
  <2>7. Kept(o)
    BY <2>2, <2>6
  <2> QED
    BY <1>2, <2>2, <2>7
<1>7. CASE /\ ~(OrderInsert(r) \/ OrderConfirm(r) \/ ExtendWrite(r) \/ ReturnStatus(r))
           /\ \A o \in Orders : ~ HookFailed(r, o)
  BY <1>1, <1>7, OrdersStay
<1> QED
  BY <1>3, <1>4, <1>5, <1>6, <1>7

\* The handlers' steps that write no refund.
LEMMA RefundsKept ==
  ASSUME DInv, DInv', Refs, OneAtATime, Filed, Settling, NEW r \in Requests, OrderStep(r), ~ ReturnRecord(r),
         \A n \in Refunds : ~ HookRefund(r, n),
         \A n \in Refunds, gw \in {"asked", "done"} : ~ GatewayRefund(r, n, gw)
  PROVE  Filed' /\ Settling'
<1>0. /\ r \in load.crew /\ \A q \in Requests \ {r} : reqs'[q] = reqs[q]
      /\ reqs \in [Requests -> Request] /\ \A rec : Goto(r, rec) => reqs'[r] = rec
  BY OrderTypes, HandlerSteps DEF HandlerStep, Goto
<1>1. UNCHANGED refund
  <2>1. CASE TripArrive(r)
    BY <2>1 DEF TripArrive, CreateRazorpayOrder, ExtendBooking, VerifyRazorpayPayment, HookCaptured,
                HookFailed, VerifyExtension, AdminInitiateRefund, HostCancelRead, CancelRead, account
  <2>2. CASE TripProceed(r)
    BY <2>2 DEF TripProceed, OrderInsert, OrderConfirm, ExtendWrite, HostCancelWrite, CancelWrite,
                CancelFind, ReturnRead, GatewayRefuses, ReturnStatus, account
  <2> QED
    BY <2>1, <2>2 DEF OrderStep
<1>2. Filed' /\ (\A o \in Orders : Given(o)' = Given(o)) /\ \A o \in Orders : Balanced(o)'
  BY <1>1, OrdersKept, RefundsStay DEF Settling
<1>3. reqs[r].op # "returnRecord"
  <2>1. CASE TripArrive(r)
    <3>1. reqs[r] = Idle
      BY <2>1 DEF TripArrive, CreateRazorpayOrder, ExtendBooking, VerifyRazorpayPayment, HookCaptured, HookFailed,
                  VerifyExtension, AdminInitiateRefund, HostCancelRead, CancelRead, HookRefund, Starts
    <3> QED
      BY <3>1, IdleIsRequest
  <2>2. CASE TripProceed(r)
    BY <2>2 DEF TripProceed, OrderInsert, OrderConfirm, ExtendWrite, HostCancelWrite, CancelWrite,
                CancelFind, ReturnRead, GatewayRefuses, ReturnStatus, At
  <2> QED
    BY <2>1, <2>2 DEF OrderStep
<1>4. \A n \in Refunds : refund[n].o # 0 => refund[n].rec # "none"
  BY <1>0, <1>3, AllRecorded DEF Settling
<1>5. Recorded'
  BY <1>1, <1>4 DEF Recorded
<1>6. Squares(Due(reqs[r]))'
  <2>1. ASSUME Due(reqs'[r]).op \notin Returns PROVE Squares(Due(reqs[r]))'
    BY <2>1 DEF Squares, Returns
  <2>2. CASE TripArrive(r)
    <3>1. CASE reqs' = reqs
      <4>1. reqs[r] = Idle
        <5>1. r \in load.crew /\ reqs[r] = Idle
          BY <2>2 DEF TripArrive, CreateRazorpayOrder, ExtendBooking, VerifyRazorpayPayment, HookCaptured, HookFailed,
                      VerifyExtension, AdminInitiateRefund, HostCancelRead, CancelRead, HookRefund, Starts
        <5> QED
          BY <5>1
      <4> QED
        BY <2>1, <3>1, <4>1, IdleDue DEF Returns
    <3>2. ASSUME NEW rec, Goto(r, rec),
                 rec.op \in {"orderInsert", "orderConfirm", "extendWrite", "returnRead", "cancelWrite", "hostCancelWrite"}
          PROVE  Due(reqs'[r]).op \notin Returns
      BY <1>0, <3>2 DEF Due, Returns
    <3> QED
      BY <2>1, <2>2, <3>1, <3>2, OrderGoes
  <2>3. CASE ReturnRead(r) /\ Due(reqs'[r]).op \in Returns
    <3>1. PICK o, d : o = reqs[r].o /\ d = Due(reqs'[r])
      OBVIOUS
    <3>2. PICK before : before = Total(Of(o) \cap {n \in Refunds : refund[n].rec # "none"})
      OBVIOUS
    <3>3. /\ order[o].st \in {"completed", "partially_refunded"}
          /\ d.op \in {"gateway", "returnRecord"} /\ d.o = o /\ d.before = before
          /\ d.amount \in {reqs[r].most, Amount(o) - before} /\ d.amount <= Amount(o) - before
          /\ d.op = "returnRecord" => d.n = 0 /\ (d.rec = "completed" \/ order[o].ref # "payment")
      BY <2>3, <3>1, <3>2, ReturnGoes DEF Returns
    <3>4. reqs[r].op = "returnRead" /\ reqs[r].most \in Nat /\ o \in Orders
      <4>1. reqs[r].op = "returnRead"
        BY <2>3 DEF ReturnRead, At
      <4> QED
        BY <1>0, <3>1, <4>1, RequestShape DEF Returning
    <3>5. before = Given(o)
      <4>1. o # 0 /\ Of(o) \subseteq Refunds
        BY <3>4, NumbersAre DEF Orders, Of
      <4>2. Of(o) \cap {n \in Refunds : refund[n].rec # "none"} = Of(o)
        BY <1>4, <4>1 DEF Of
      <4> QED
        BY <3>2, <4>2 DEF Given
    <3>6. order[o].ref = "payment" /\ order[o].st # "refunded"
      BY <3>3, <3>4 DEF Refs, Settled, Refunded, Paid
    <3>7. UNCHANGED order
      BY <2>3 DEF ReturnRead, account
    <3>8. Given(o)' = Given(o) /\ Amount(o)' = Amount(o)
      BY <1>2, <3>4, <3>7 DEF Amount
    <3>9. Given(o) \in Nat /\ Amount(o) \in Nat
      BY <3>4, GivenIsNat, AmountIsNat DEF DInv
    <3>10. before + d.amount <= Amount(o)
      BY <3>3, <3>4, <3>5, <3>9
    <3>11. Squares(d)'
      BY <3>3, <3>5, <3>6, <3>7, <3>8, <3>10 DEF Squares
    <3> QED
      BY <3>1, <3>11
  <2>4. CASE GatewayRefuses(r)
    <3>1. PICK q, d : q = reqs[r] /\ d = Due(reqs'[r])
      OBVIOUS
    <3>2. /\ d.op = "returnRecord" /\ d.o = q.o /\ d.before = q.before /\ d.amount = q.amount
          /\ d.n = 0 /\ d.rec = "completed"
      BY <2>4, <3>1, ReturnGoes
    <3>3. q.op = "gateway" /\ q.o \in Orders /\ Due(reqs[r]) = q
      <4>1. reqs[r].op = "gateway"
        BY <2>4 DEF GatewayRefuses, At
      <4> QED
        BY <3>1, <4>1, OrderTypes DEF OrderOps
    <3>4. q.before = Given(q.o) /\ q.before + q.amount <= Amount(q.o) /\ order[q.o].st # "refunded"
      <4>1. Squares(q)
        BY <3>3 DEF Settling
      <4> QED
        BY <3>3, <4>1 DEF Squares
    <3>5. UNCHANGED order
      BY <2>4 DEF GatewayRefuses, account
    <3>6. Given(q.o)' = Given(q.o) /\ Amount(q.o)' = Amount(q.o)
      BY <1>2, <3>3, <3>5 DEF Amount
    <3>7. Squares(d)'
      <4>1. PICK o : o = q.o
        OBVIOUS
      <4>2. d.o = o /\ d.before = Given(o) /\ d.before + d.amount <= Amount(o) /\ order[o].st # "refunded"
            /\ Given(o)' = Given(o) /\ Amount(o)' = Amount(o)
        BY <3>2, <3>4, <3>6, <4>1
      <4> QED
        BY <3>2, <3>5, <4>2 DEF Squares
    <3> QED
      BY <3>1, <3>7
  <2>5. CASE TripProceed(r) /\ ~ GatewayRefuses(r) /\ ~ ReturnRead(r)
    BY <2>1, <2>5, ReturnGoes DEF TripProceed
  <2> QED
    BY <2>1, <2>2, <2>3, <2>4, <2>5 DEF OrderStep
<1> QED
  BY <1>0, <1>2, <1>5, <1>6, SettlingStep

\* The gateway makes a refund and answers.
LEMMA GatewaySettles ==
  ASSUME DInv, DInv', Refs, OneAtATime, Filed, Settling, NEW r \in Requests, OrderStep(r), faults' = faults,
         NEW n \in Refunds, NEW gw \in {"asked", "done"}, GatewayRefund(r, n, gw)
  PROVE  Filed' /\ Settling'
<1>0. /\ r \in load.crew /\ (\A q \in Requests \ {r} : reqs'[q] = reqs[q]) /\ UNCHANGED order
      /\ reqs \in [Requests -> Request] /\ (\A rec : Goto(r, rec) => reqs'[r] = rec) /\ faults \in Nat /\ n # 0
      /\ refund \in [Refunds -> RefundRow]
  BY OrderTypes, HandlerSteps, NumbersAre DEF HandlerStep, Goto, GatewayRefund, Refunds
<1>1. PICK q : q = reqs[r]
  OBVIOUS
<1>2. PICK o : o = q.o
  OBVIOUS
<1>3. PICK row : row = [o |-> o, amount |-> q.amount, rec |-> "none", gw |-> gw]
  OBVIOUS
<1>4. q.op = "gateway" /\ Due(reqs[r]) = q /\ o \in Orders /\ q.amount \in Nat /\ q.before \in Nat
  <2>1. reqs[r].op = "gateway"
    BY DEF GatewayRefund, At
  <2> QED
    BY <1>0, <1>1, <1>2, <2>1, OrderTypes, RequestShape DEF OrderOps, AtGateway
<1>5. q.before = Given(o) /\ q.before + q.amount <= Amount(o) /\ order[o].st # "refunded" /\ order[o].st # "none"
  <2>1. Squares(q) /\ Paid(o)
    BY <1>2, <1>4 DEF Settling, Refs, Sees, Returns
  <2> QED
    BY <1>2, <1>4, <2>1 DEF Squares, Refs, Paid
<1>6. refund[n] = NoRefund /\ refund' = [refund EXCEPT ![n] = row]
  BY <1>1, <1>2, <1>3 DEF GatewayRefund, NextRefund, Least
<1>7. row \in RefundRow /\ row.o = o /\ row.amount = q.amount /\ row.rec = "none" /\ row.gw = gw
  BY <1>3, <1>4 DEF RefundRow
<1>8. /\ Given(o)' = Given(o) + q.amount /\ Of(o)' = Of(o) \cup {n} /\ n \notin Of(o)
      /\ refund'[n] = row /\ \A m \in Refunds \ {n} : refund'[m] = refund[m]
      /\ \A p \in Orders \ {o} : Of(p)' = Of(p) /\ Given(p)' = Given(p)
  <2>1. refund[n].o = 0
    BY <1>6 DEF NoRefund
  <2>2. /\ Given(o)' = Given(o) + row.amount /\ Of(o)' = Of(o) \cup {n} /\ n \notin Of(o)
        /\ refund'[n] = row /\ \A m \in Refunds \ {n} : refund'[m] = refund[m]
        /\ \A p \in Orders \ {o} : Of(p)' = Of(p) /\ Given(p)' = Given(p)
    BY <1>4, <1>6, <1>7, <2>1, GivenMore, Zenon
  <2> QED
    BY <1>7, <2>2
<1>9. \A m \in Refunds : refund[m].o # 0 => refund[m].rec # "none"
  BY <1>0, <1>1, <1>4, AllRecorded DEF Settling
<1>10. Filed'
  <2>1. o # 0
    BY <1>4, NumbersAre DEF Orders
  <2> QED
    BY <1>0, <1>5, <1>7, <1>8, <2>1 DEF Filed
<1>11. ASSUME NEW p \in Orders PROVE Balanced(p)'
  <2>1. Balanced(p) /\ Amount(p)' = Amount(p) /\ order'[p] = order[p]
    BY <1>0 DEF Settling, Amount
  <2>2. CASE p # o
    <3>1. Of(p)' = Of(p) /\ Given(p)' = Given(p)
      BY <1>8, <2>2
    <3>2. \A m \in Of(p) : refund'[m] = refund[m]
      BY <1>0, <1>6, <1>8, <2>2 DEF Of, NoRefund
    <3> QED
      BY <2>1, <3>1, <3>2 DEF Balanced
  <2>3. CASE p = o
    <3>1. \A m \in Of(o) : refund'[m] = refund[m]
      BY <1>8 DEF Of
    <3>2. \A m \in (Of(o) \cup {n}) : refund'[m].rec = "pending" => refund'[m].gw = "asked"
      BY <1>7, <1>8, <2>1, <2>3, <3>1 DEF Balanced
    <3> QED
      BY <1>0, <1>5, <1>8, <2>1, <2>3, <3>2 DEF Balanced
  <2> QED
    BY <2>2, <2>3
<1>12. PICK d : d = [op |-> "returnRecord", o |-> o, amount |-> q.amount, before |-> q.before, n |-> n,
                     by |-> q.by, rec |-> IF gw = "done" THEN "completed" ELSE "pending"]
  OBVIOUS
<1>13. reqs'[r] = d
  <2>1. ~ Fault
    BY <1>0 DEF Fault
  <2>2. Goto(r, [op |-> "returnRecord", o |-> reqs[r].o, amount |-> reqs[r].amount, before |-> reqs[r].before, n |-> n,
                 by |-> reqs[r].by, rec |-> IF gw = "done" THEN "completed" ELSE "pending"])
    BY <2>1, Zenon DEF GatewayRefund
  <2>3. Goto(r, d)
    BY <1>1, <1>2, <1>12, <2>2
  <2> QED
    BY <1>0, <2>3
<1>14. /\ d.op = "returnRecord" /\ d.n = n /\ d.o = o /\ d.before = q.before /\ d.amount = q.amount
       /\ (d.rec = "pending" => gw = "asked") /\ Due(d) = d
  BY <1>12 DEF Due
<1>15. Recorded'
  BY <1>8, <1>9, <1>13, <1>14 DEF Recorded
<1>16. Squares(Due(reqs[r]))'
  <2>1. Due(reqs'[r]) = d
    BY <1>13, <1>14
  <2>2. Squares(d)'
    BY <1>0, <1>5, <1>7, <1>8, <1>14 DEF Squares
  <2> QED
    BY <2>1, <2>2
<1> QED
  BY <1>0, <1>10, <1>11, <1>15, <1>16, SettlingStep

\* The record is written.
LEMMA RecordSettles ==
  ASSUME DInv, DInv', Refs, OneAtATime, Filed, Settling, NEW r \in Requests, OrderStep(r), ReturnRecord(r)
  PROVE  Filed' /\ Settling'
<1>0. /\ r \in load.crew /\ (\A q \in Requests \ {r} : reqs'[q] = reqs[q]) /\ UNCHANGED order
      /\ reqs \in [Requests -> Request] /\ refund \in [Refunds -> RefundRow]
  BY OrderTypes, HandlerSteps DEF HandlerStep, ReturnRecord
<1>1. PICK q : q = reqs[r]
  OBVIOUS
<1>2. PICK o : o = q.o
  OBVIOUS
<1>3. /\ q.op = "returnRecord" /\ Due(reqs[r]) = q /\ o \in Orders /\ q.amount \in Nat /\ q.before \in Nat
      /\ q.n \in {0} \cup Refunds /\ q.rec \in {"pending", "completed"}
  <2>1. reqs[r].op = "returnRecord"
    BY DEF ReturnRecord, At
  <2> QED
    BY <1>0, <1>1, <1>2, <2>1, OrderTypes, RequestShape DEF OrderOps, Recording
<1>4. Squares(q) /\ order[o].st # "none" /\ order[o].st # "refunded"
  <2>1. Squares(q) /\ Paid(o)
    BY <1>2, <1>3 DEF Settling, Refs, Sees, Returns
  <2> QED
    BY <1>2, <1>3, <2>1 DEF Squares, Refs, Paid
<1>5. \A m \in Refunds : refund[m].o # 0 /\ refund[m].rec = "none" => m = q.n
  <2>1. \A p \in Requests : reqs[p].op = "returnRecord" => p = r
    BY <1>0, Lonely, IdleIsRequest
  <2> QED
    BY <1>1, <2>1 DEF Settling, Recorded
<1>6. ASSUME \A p \in Orders : Balanced(p)', Recorded', q.before + q.amount = Given(o)' PROVE Settling'
  <2>1. PICK d : d = Due(reqs'[r])
    OBVIOUS
  <2>2. d.op = "returnStatus" /\ d.o = o /\ d.sum = q.before + q.amount
    BY <1>1, <1>2, <2>1, ReturnGoes
  <2>3. Squares(d)'
    BY <1>6, <2>2 DEF Squares
  <2> QED
    BY <1>0, <1>6, <2>1, <2>3, SettlingStep
<1>7. CASE q.n # 0
  <2>1. PICK n : n = q.n
    OBVIOUS
  <2>2. refund' = [refund EXCEPT ![n].rec = q.rec] /\ n \in Refunds
    BY <1>1, <1>3, <1>7, <2>1 DEF ReturnRecord
  <2>3. /\ refund[n].o = o /\ q.before + q.amount = Given(o) /\ (q.rec = "pending" => refund[n].gw = "asked")
    BY <1>2, <1>3, <1>4, <1>7, <2>1 DEF Squares
  <2>4. /\ \A m \in Refunds : refund'[m].o = refund[m].o /\ refund'[m].amount = refund[m].amount
                              /\ refund'[m].gw = refund[m].gw
        /\ \A m \in Refunds \ {n} : refund'[m] = refund[m]
        /\ refund'[n].rec = q.rec
    BY <1>0, <2>2 DEF RefundRow
  <2>5. ASSUME NEW p \in Orders PROVE Of(p)' = Of(p) /\ Given(p)' = Given(p) /\ Of(p) \subseteq Refunds
    <3>1. Of(p)' = Of(p) /\ Of(p) \subseteq Refunds
      BY <2>4 DEF Of
    <3> QED
      BY <2>4, <3>1, GivenSame
  <2>6. ASSUME NEW p \in Orders PROVE Balanced(p)'
    <3>1. Balanced(p) /\ Amount(p)' = Amount(p)
      BY <1>0 DEF Settling, Amount
    <3>2. \A m \in Of(p) : refund'[m].rec = "pending" => refund'[m].gw = "asked"
      BY <2>3, <2>4, <2>5, <3>1 DEF Balanced
    <3> QED
      BY <1>0, <2>5, <3>1, <3>2 DEF Balanced
  <2>7. Recorded'
    BY <1>3, <1>5, <2>1, <2>4 DEF Recorded
  <2>8. Filed'
    <3>1. o # 0
      BY <1>3, NumbersAre DEF Orders
    <3> QED
      BY <1>0, <2>3, <2>4, <3>1 DEF Filed
  <2> QED
    BY <1>3, <1>6, <2>3, <2>5, <2>6, <2>7, <2>8
<1>8. CASE q.n = 0
  <2>1. PICK n \in NextRefund :
          refund' = [refund EXCEPT ![n] = [o |-> q.o, amount |-> q.amount, rec |-> q.rec, gw |-> "none"]]
    BY <1>1, <1>8 DEF ReturnRecord
  <2>2. n \in Refunds /\ refund[n].o = 0
    BY <2>1, NextOnes DEF NextRefund, Least, NoRefund, DInv
  <2>3. PICK row : row = [o |-> o, amount |-> q.amount, rec |-> q.rec, gw |-> "none"]
    OBVIOUS
  <2>4. row \in RefundRow /\ row.o = o /\ row.amount = q.amount /\ row.rec = q.rec
    BY <1>3, <2>3 DEF RefundRow
  <2>5. q.before = Given(o) /\ q.before + q.amount <= Amount(o) /\ q.rec = "completed"
    BY <1>2, <1>3, <1>4, <1>8 DEF Squares
  <2>6. /\ Given(o)' = Given(o) + q.amount /\ Of(o)' = Of(o) \cup {n} /\ n \notin Of(o)
        /\ refund'[n] = row /\ \A m \in Refunds \ {n} : refund'[m] = refund[m]
        /\ \A p \in Orders \ {o} : Of(p)' = Of(p) /\ Given(p)' = Given(p)
    <3>1. refund' = [refund EXCEPT ![n] = row]
      BY <1>2, <2>1, <2>3
    <3>2. /\ Given(o)' = Given(o) + row.amount /\ Of(o)' = Of(o) \cup {n} /\ n \notin Of(o)
          /\ refund'[n] = row /\ \A m \in Refunds \ {n} : refund'[m] = refund[m]
          /\ \A p \in Orders \ {o} : Of(p)' = Of(p) /\ Given(p)' = Given(p)
      BY <1>3, <2>2, <2>4, <3>1, GivenMore, Zenon
    <3> QED
      BY <2>4, <3>2
  <2>7. ASSUME NEW p \in Orders PROVE Balanced(p)'
    <3>1. Balanced(p) /\ Amount(p)' = Amount(p) /\ order'[p] = order[p]
      BY <1>0 DEF Settling, Amount
    <3>2. CASE p # o
      <4>1. Of(p)' = Of(p) /\ Given(p)' = Given(p)
        BY <2>6, <3>2
      <4>2. p # 0
        BY NumbersAre DEF Orders
      <4>3. \A m \in Of(p) : refund'[m] = refund[m]
        BY <2>2, <2>6, <4>2 DEF Of
      <4> QED
        BY <3>1, <4>1, <4>3 DEF Balanced
    <3>3. CASE p = o
      <4>1. \A m \in Of(o) : refund'[m] = refund[m]
        BY <2>6 DEF Of
      <4>2. \A m \in (Of(o) \cup {n}) : refund'[m].rec = "pending" => refund'[m].gw = "asked"
        BY <2>4, <2>5, <2>6, <3>1, <3>3, <4>1 DEF Balanced
      <4> QED
        BY <1>4, <2>5, <2>6, <3>1, <3>3, <4>2 DEF Balanced
    <3> QED
      BY <3>2, <3>3
  <2>8. Recorded'
    <3>1. \A m \in Refunds : refund[m].o # 0 => refund[m].rec # "none"
      BY <1>5, <1>8, NumbersAre DEF Refunds
    <3> QED
      BY <2>4, <2>5, <2>6, <3>1 DEF Recorded
  <2>9. Filed'
    <3>1. o # 0
      BY <1>3, NumbersAre DEF Orders
    <3> QED
      BY <1>0, <1>4, <2>4, <2>6, <3>1 DEF Filed
  <2> QED
    BY <1>6, <2>5, <2>6, <2>7, <2>8, <2>9
<1> QED
  BY <1>7, <1>8

\* The gateway says that a refund was made.
LEMMA HookSettles ==
  ASSUME DInv, DInv', OneAtATime, Filed, Settling, NEW r \in Requests, NEW n \in Refunds, HookRefund(r, n)
  PROVE  Filed' /\ Settling'
<1>0. /\ r \in load.crew /\ reqs[r] = Idle /\ UNCHANGED <<reqs, order>> /\ refund[n].gw = "asked"
      /\ refund \in [Refunds -> RefundRow]
  BY OrderTypes DEF HookRefund, Starts, vars
<1>1. \A m \in Refunds : refund[m].o # 0 => refund[m].rec # "none"
  BY <1>0, AllRecorded, IdleIsRequest DEF Settling
<1>2. PICK row : row = [refund[n] EXCEPT !.gw = "done", !.rec = IF @ = "pending" THEN "completed" ELSE @]
  OBVIOUS
<1>3. refund' = [refund EXCEPT ![n] = row]
  <2>1. refund' = [refund EXCEPT ![n] = [refund[n] EXCEPT !.gw = "done", !.rec = IF @ = "pending" THEN "completed" ELSE @]]
    BY DEF HookRefund
  <2> QED
    BY <1>2, <2>1, Zenon
<1>4. row.o = refund[n].o /\ row.amount = refund[n].amount /\ row.rec # "pending" /\ (refund[n].rec # "none" => row.rec # "none")
  BY <1>0, <1>2 DEF RefundRow
<1>5. refund'[n] = row /\ \A m \in Refunds \ {n} : refund'[m] = refund[m]
  BY <1>0, <1>3
<1>6. ASSUME NEW p \in Orders PROVE Of(p)' = Of(p) /\ Given(p)' = Given(p) /\ Of(p) \subseteq Refunds
  <2>1. Of(p)' = Of(p) /\ Of(p) \subseteq Refunds
    BY <1>4, <1>5 DEF Of
  <2> QED
    BY <1>4, <1>5, <2>1, GivenSame
<1>7. ASSUME NEW p \in Orders PROVE Balanced(p)'
  <2>1. Balanced(p) /\ Amount(p)' = Amount(p)
    BY <1>0 DEF Settling, Amount
  <2>2. \A m \in Of(p) : refund'[m].rec = "pending" => refund'[m].gw = "asked"
    BY <1>4, <1>5, <1>6, <2>1 DEF Balanced
  <2> QED
    BY <1>0, <1>6, <2>1, <2>2 DEF Balanced
<1>8. Recorded'
  BY <1>1, <1>4, <1>5 DEF Recorded
<1>9. Filed'
  BY <1>0, <1>4, <1>5 DEF Filed, NoRefund
<1>10. Squares(Due(reqs[r]))'
  BY <1>0, IdleDue DEF Squares
<1> QED
  BY <1>0, <1>7, <1>8, <1>9, <1>10, SettlingStep

\* How many statements threw, and the handler that records a refund, in the wallet's steps.
LEMMA WalletSteps ==
  ASSUME DInv, NEW r \in Requests, WalletStep(r), faults' = 0
  PROVE  faults = 0 /\ reqs[r].op # "returnRecord"
<1>0. faults \in Nat /\ Idle.op = "idle"
  BY OrderTypes, IdleIsRequest
<1>1. ~ Fault
  BY <1>0 DEF Fault
<1>2. CASE Arrive(r)
  <2>1. UNCHANGED faults
    BY <1>2 DEF Arrive, CreateTopUpIntent, HookTopUp, ConfirmTopUpStripe, VerifyTopUpRazorpay, Apply, HookSplit,
                ConfirmSplit, HookDeclined, AdminCredit, AdminDebit, WalletPaymentRead, SuspendRead, SplitRead,
                Withdraw, WithdrawalPaid, WithdrawalFailed
  <2>2. reqs[r] = Idle
    BY <1>2 DEF Arrive, CreateTopUpIntent, HookTopUp, ConfirmTopUpStripe, VerifyTopUpRazorpay, HookSplit,
                ConfirmSplit, HookDeclined, AdminCredit, AdminDebit, WalletPaymentRead, SuspendRead, SplitRead,
                Withdraw, WithdrawalPaid, WithdrawalFailed, Starts
  <2> QED
    BY <1>0, <2>1, <2>2
<1>3. CASE Proceed(r)
  <2>1. ~(CreditFails(r) \/ SplitConfirmFails(r) \/ Crash(r))
    BY <1>1 DEF CreditFails, SplitConfirmFails, Crash
  <2>2. CASE StoreTopUp(r) \/ ApplyRead(r) \/ ApplyMark(r) \/ ApplyUnmark(r) \/ ApplyDelete(r) \/ CreditRead(r)
    BY <2>2 DEF StoreTopUp, ApplyRead, ApplyMark, ApplyUnmark, ApplyDelete, CreditRead, At
  <2>3. CASE WalletPaymentWrite(r) \/ SuspendWrite(r) \/ SplitNoRoom(r)
    BY <2>3 DEF WalletPaymentWrite, SuspendWrite, SplitNoRoom, At
  <2>4. CASE CreditWrite(r) \/ SplitInsert(r)
    <3>1. UNCHANGED faults
      BY <2>4, Zenon DEF CreditWrite, SplitInsert
    <3>2. reqs[r].op \in {"creditWrite", "splitInsert"}
      BY <2>4, Zenon DEF CreditWrite, SplitInsert, At
    <3> QED
      BY <3>1, <3>2
  <2>5. CASE SplitDebit(r) \/ SplitConfirm(r) \/ RefundRead(r) \/ RefundRecord(r) \/ RefundStatus(r)
    BY <2>5 DEF SplitDebit, SplitConfirm, RefundRead, RefundRecord, RefundStatus, At
  <2> QED
    BY <1>3, <2>1, <2>2, <2>3, <2>4, <2>5 DEF Proceed
<1> QED
  BY <1>2, <1>3 DEF WalletStep

LEMMA SettlingInvariant ==
  ASSUME DInv, DInv', Refs, Squared, AccountNext
  PROVE  Squared'
<1>0. order \in [Orders -> OrderRow] /\ faults \in Nat
  BY OrderTypes
<1>1. SUFFICES ASSUME OneAtATime, faults' = 0 PROVE Filed' /\ Settling'
  BY LoadStays DEF Squared, OneAtATime
<1>2. ASSUME faults = 0, UNCHANGED <<order, refund>>, Elsewhere(OrderOps),
             \A q \in Requests : reqs[q].op = "returnRecord" => reqs'[q] = reqs[q]
      PROVE  Filed' /\ Settling'
  <2>1. \A o \in Orders : SameTerms(o) /\ order'[o].st = order[o].st
    BY <1>2 DEF SameTerms
  <2> QED
    BY <1>1, <1>2, <2>1, SettlingStays DEF Squared
<1>3. CASE WalletAlone
  <2>1. UNCHANGED <<faults, reqs, order, refund>>
    BY <1>3, NobodysSteps DEF account
  <2> QED
    BY <1>1, <1>2, <2>1, NobodyMoves
<1>4. CASE TripAlone
  <2>1. UNCHANGED <<faults, reqs, refund>>
    BY <1>4, NobodysSteps DEF TripAlone, OrderPaid, OrderDeclined, TripStarts, TripEnds, vars
  <2>2. \A o \in Orders : SameTerms(o) /\ order'[o].st = order[o].st
    <3>1. ASSUME NEW o \in Orders, OrderPaid(o) \/ OrderDeclined(o)
          PROVE  \A p \in Orders : SameTerms(p) /\ order'[p].st = order[p].st
      BY <1>0, <3>1 DEF OrderPaid, OrderDeclined, SameTerms, OrderRow
    <3>2. CASE UNCHANGED order
      BY <3>2 DEF SameTerms
    <3> QED
      BY <1>4, <3>1, <3>2 DEF TripAlone, TripStarts, TripEnds
  <2> QED
    BY <1>1, <2>1, <2>2, NobodyMoves, SettlingStays DEF Squared
<1>5. ASSUME NEW r \in Requests, WalletStep(r) PROVE Filed' /\ Settling'
  <2>1. faults = 0 /\ reqs[r].op # "returnRecord" /\ UNCHANGED <<order, refund>>
    BY <1>1, <1>5, WalletSteps DEF WalletStep, account
  <2>2. \A q \in Requests : reqs[q].op = "returnRecord" => reqs'[q] = reqs[q]
    BY <1>5, <2>1, HandlerSteps DEF HandlerStep
  <2> QED
    BY <1>2, <1>5, <2>1, <2>2, StepElsewhere
<1>6. ASSUME NEW r \in Requests, GarageStep(r) \/ CardStep(r) PROVE Filed' /\ Settling'
  <2>1. faults = 0
    BY <1>1, <1>6, FaultsGrow
  <2>2. UNCHANGED <<order, refund>>
    BY <1>6 DEF GarageStep, CardStep, account
  <2>3. reqs[r].op # "returnRecord"
    <3>1. Due(reqs[r]).op \in GarageOps \cup CardOps \cup {"idle"}
      BY <1>6, GarageWorks, CardsWork DEF WorksFor
    <3> QED
      BY <3>1 DEF Due, GarageOps, CardOps
  <2>4. \A q \in Requests : reqs[q].op = "returnRecord" => reqs'[q] = reqs[q]
    BY <1>6, <2>3, HandlerSteps DEF HandlerStep
  <2> QED
    BY <1>2, <1>6, <2>1, <2>2, <2>4, StepElsewhere
<1>7. ASSUME NEW r \in Requests, BookStep(r) PROVE Filed' /\ Settling'
  <2>1. UNCHANGED <<reqs, order, refund, faults>>
    BY <1>7, BookLeaves
  <2> QED
    BY <1>1, <1>2, <2>1, NobodyMoves
<1>8. ASSUME NEW r \in Requests, OrderStep(r) PROVE Filed' /\ Settling'
  <2>1. faults = 0 /\ Filed /\ Settling
    BY <1>1, <1>8, FaultsGrow DEF Squared
  <2>2. ASSUME NEW n \in Refunds, NEW gw \in {"asked", "done"}, GatewayRefund(r, n, gw) PROVE Filed' /\ Settling'
    BY <1>1, <1>8, <2>1, <2>2, GatewaySettles
  <2>3. ASSUME NEW n \in Refunds, HookRefund(r, n) PROVE Filed' /\ Settling'
    BY <1>1, <2>1, <2>3, HookSettles
  <2>4. ASSUME ReturnRecord(r) PROVE Filed' /\ Settling'
    BY <1>1, <1>8, <2>1, <2>4, RecordSettles
  <2> QED
    BY <1>1, <1>8, <2>1, <2>2, <2>3, <2>4, RefundsKept
<1> QED
  BY <1>3, <1>4, <1>5, <1>6, <1>7, <1>8, StepIs

\* For requests that come one at a time, none of them stopped and no answer of the gateway
\* lost, no more is given back than an order cost, "refunded" says that all of it was, and a
\* refund that is pending has its event still to come (initiateRefund, against the gateway's
\* refunds and refund.processed).
THEOREM RefundsSettle == AccountSpec => []RefundSettles
<1>1. AccountInit => Refs /\ Squared
  <2> SUFFICES ASSUME AccountInit PROVE Refs /\ Squared
    OBVIOUS
  <2>1. /\ trip.st = "none" /\ \A r \in Requests : reqs[r] = Idle
        /\ \A o \in Orders : order[o] = NoOrder
        /\ \A n \in Refunds : refund[n] = NoRefund
    BY DEF AccountInit, Init, TripInit, NoTrip
  <2>2. Refs
    BY <2>1, IdleDue DEF Refs, Sees, Returns, Settled, Refunded, Firm, NoOrder
  <2>3. Filed /\ Recorded
    BY <2>1 DEF Filed, Recorded, NoRefund
  <2>4. ASSUME NEW o \in Orders PROVE Balanced(o)
    <3>1. Given(o) = 0 /\ Of(o) = {}
      BY <2>1, <2>3, GivenNothing DEF NoOrder
    <3>2. Amount(o) \in Nat /\ order[o].st = "none"
      BY <2>1, InitTyped, AmountIsNat DEF DInv, NoOrder
    <3> QED
      BY <3>1, <3>2 DEF Balanced
  <2>5. \A r \in Requests : Squares(Due(reqs[r]))
    BY <2>1, IdleDue DEF Squares
  <2> QED
    BY <2>2, <2>3, <2>4, <2>5 DEF Squared, Settling
<1>2. DInv /\ DInv' /\ Refs /\ Squared /\ [AccountNext]_allVars => (Refs /\ Squared)'
  <2> SUFFICES ASSUME DInv, DInv', Refs, Squared, [AccountNext]_allVars
               PROVE  (Refs /\ Squared)'
    OBVIOUS
  <2>1. CASE AccountNext
    BY <2>1, RefsInvariant, SettlingInvariant
  <2>2. CASE UNCHANGED allVars
    <3>1. UNCHANGED <<load, reqs, trip, order, refund, faults>>
      BY <2>2 DEF allVars, vars, account
    <3>2. Refs'
      BY <3>1 DEF Refs, Sees, Paid
    <3>3. \A o \in Orders : Given(o)' = Given(o) /\ Of(o)' = Of(o)
      BY <3>1 DEF Given, Total, Of
    <3>4. Squared'
      <4>1. SUFFICES ASSUME OneAtATime, faults = 0 PROVE Filed' /\ Settling'
        BY <3>1 DEF Squared, OneAtATime
      <4>2. \A o \in Orders : SameTerms(o) /\ order'[o].st = order[o].st
        BY <3>1 DEF SameTerms
      <4> QED
        BY <3>1, <4>1, <4>2, NobodyMoves, SettlingStays DEF Squared
    <3> QED
      BY <3>2, <3>4
  <2> QED
    BY <2>1, <2>2
<1>3. Squared => RefundSettles
  BY DEF Squared, Settling, Balanced, Given, RefundSettles
<1> QED
  BY <1>1, <1>2, <1>3, Typed, PTL DEF AccountSpec, allVars

=============================================================================
