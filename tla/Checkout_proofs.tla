--------------------------- MODULE Checkout_proofs ---------------------------
(***************************************************************************)
(* Proofs about Checkout, for any number of handlers, keys and bookings,   *)
(* any workload and any number of faults.                                  *)
(*                                                                         *)
(*   Shape     rows, entries and orders have their fields                  *)
(*   Orders    what a handler at each statement has already done           *)
(*   KeysHold  a key that kept its protection is at one of four points     *)
(*   Counted   uses of the promo code that are counted, and still to count *)
(*   Priced    prices of orders about to be written, and of rows           *)
(*                                                                         *)
(* A price is of a stay of any length: what is added up peak by peak and   *)
(* day by day, or hour by hour, is compared with the half hours of the     *)
(* stay by inductions on its length (PeaksExchange, WeekendNear).          *)
(***************************************************************************)
EXTENDS Checkout, Sums

Steps == {"claim", "hours", "quote", "insert", "rewrite", "count", "answer", "refuse"}

OrderFields == {"op", "k", "w", "code", "guarded", "b", "made", "price", "seen"}
RowFields   == {"st", "k", "w", "code", "price", "seen", "refund"}

OrderShape(q) ==
  /\ DOMAIN q = OrderFields
  /\ q.op \in Steps /\ q.k \in Keys \cup {NoKey} /\ q.w \in Window
  /\ q.code \in BOOLEAN /\ q.guarded \in BOOLEAN
  /\ q.b \in 0..NBookings /\ q.made \in 0..NBookings

RowShape(row) ==
  /\ DOMAIN row = RowFields
  /\ row.st \in {"pending", "cancelled"} /\ row.k \in Keys \cup {NoKey} /\ row.w \in Window
  /\ row.code \in BOOLEAN

Stores ==
  /\ load \in Workloads
  /\ tariff \in load.tariffs /\ week \in load.weeks /\ dark \subseteq load.darks
  /\ rates \in load.rates /\ (cache = {} \/ \E f \in load.rates : cache = {f})
  /\ promo \in [there : BOOLEAN, terms : load.promos, active : BOOLEAN, used : Nat]
  /\ lapsed \subseteq Keys /\ faults \in 0..MaxFaults
  /\ key \in [Keys -> [st : {"none", "processing", "answer"}, b : 0..NBookings]]

Shape ==
  /\ Stores
  /\ DOMAIN booking = Bookings /\ \A b \in Bookings : booking[b] = NoBooking \/ RowShape(booking[b])
  /\ DOMAIN reqs = Requests
  /\ \A r \in Requests : reqs[r] = Idle \/ (OrderShape(reqs[r]) /\ r \in load.crew)

\* The hours and the blackout days that were read allow the stay.
IsWeek(wk) == \A d \in DOMAIN wk : wk[d] \in [open : Nat, close : Nat, closed : BOOLEAN]

Fits(w, seen) == IsWeek(seen.week) /\ WithinHours(w, seen.week) /\ ~DarkOn(w, seen.dark)

OrderClaim(q) ==
  /\ q.op = "claim" => q.b = 0 /\ ~q.guarded /\ q.k \in Keys
  /\ q.op \in {"insert", "count", "answer"} => q.b = 0
  /\ q.op = "rewrite" => q.b # 0
  /\ q.op = "count" => q.code
  /\ q.op \in {"count", "answer"}
       => q.made \in Bookings /\ Made(q.made) /\ booking[q.made].k = q.k
  /\ q.op \notin {"count", "answer"} => q.made = 0
  /\ q.b # 0 => Made(q.b) /\ ~q.guarded /\ ~q.code
  /\ q.guarded => q.k \in Keys
  /\ q.b = 0 /\ q.op # "claim" /\ q.k \in Keys /\ ~q.guarded => q.k \in lapsed
  /\ q.op \in {"quote", "insert", "rewrite", "count", "answer"} => Fits(q.w, q.seen)

Orders ==
  /\ \A r \in Requests : Working(r) => OrderClaim(reqs[r])
  /\ \A b \in Bookings : Made(b) => Fits(booking[b].w, booking[b].seen)

\* Nobody works under the key; the handler that does; the booking that was made.
Unheld(k)    == \A r \in Requests : ~Guards(r, k)
HeldBy(r, k) == Guards(r, k) /\ \A q \in Requests : Guards(q, k) => q = r
Bears(b, k)  == \A c \in Bookings : Under(c, k) <=> c = b

KeyHolds(k) ==
  \/ key[k].st = "none" /\ Unheld(k) /\ Bears(0, k)
  \/ key[k].st = "processing" /\ \E r \in Requests : HeldBy(r, k) /\ Bears(reqs[r].made, k)
  \/ key[k].st = "processing" /\ Unheld(k) /\ faults > 0 /\ \E b \in 0..NBookings : Bears(b, k)
  \/ key[k].st = "answer" /\ Unheld(k) /\ key[k].b \in Bookings /\ Bears(key[k].b, k)

\* An answer outlives its protection.
EntryHolds(k) ==
  /\ key[k].st = "answer" => key[k].b \in Bookings /\ Under(key[k].b, k)
  /\ key[k].st # "answer" => key[k].b = 0

KeysHold ==
  /\ \A k \in Keys \ lapsed : KeyHolds(k)
  /\ \A k \in Keys : EntryHolds(k)

\* Bookings with a code; handlers that have one still to count; handlers that let one through.
WithCode == {b \in Bookings : Made(b) /\ booking[b].code}
ToCount  == {r \in Requests : At(r, "count")}
Admitted == {r \in Requests : reqs[r].op \in {"insert", "count"} /\ reqs[r].code}

Counted ==
  /\ promo.used + Cardinality(ToCount) <= Cardinality(WithCode)
  /\ promo.terms.limit > 0 /\ "limit" \notin load.ops
       => promo.used + Cardinality(Admitted) < promo.terms.limit + Cardinality(load.crew)
  /\ faults = 0 => promo.used + Cardinality(ToCount) = Cardinality(WithCode)
  /\ ~promo.there => promo.used = 0 /\ WithCode = {} /\ Admitted = {}

\* Prices: of the orders that are about to be written, and of the rows.
Says(w, p) == PriceSays(w, p, load.tariffs, load.promos) /\ p.total \in Int

Priced ==
  /\ \A r \in Requests : reqs[r].op \in {"insert", "rewrite"} => Says(reqs[r].w, reqs[r].price)
  /\ \A r \in Requests : Working(r) /\ reqs[r].b # 0 => "modify" \in load.ops
  /\ \A b \in Bookings :
       Made(b) => /\ Says(booking[b].w, booking[b].price)
                  /\ booking[b].price.total >= 0 /\ "modify" \notin load.ops
                       => booking[b].refund \in 0..booking[b].price.total

Inv == Shape /\ Orders /\ KeysHold /\ Counted /\ Priced

-----------------------------------------------------------------------------
\* Orders and rows when some of their fields change.
LEMMA NewOrder ==
  ASSUME NEW k \in Keys \cup {NoKey}, NEW w \in Window, NEW code \in BOOLEAN, NEW step \in Steps,
         NEW guarded \in BOOLEAN
  PROVE  OrderShape(Order(k, w, code, step, guarded))
<1>1. 0 \in 0..NBookings
  BY WorkloadAssumption
<1> QED
  BY <1>1 DEF Order, OrderShape, OrderFields

LEMMA Kinds ==
  ASSUME Shape
  PROVE  /\ \A r \in Requests : Working(r) => OrderShape(reqs[r]) /\ r \in load.crew
         /\ \A r \in Requests : ~Working(r) => reqs[r].op = "idle"
         /\ \A b \in Bookings : Made(b) => RowShape(booking[b])
         /\ Idle.op \notin Steps
         /\ load.windows \subseteq Window
         /\ load.crew \subseteq Requests /\ load.faults \in 0..MaxFaults
  BY WorkloadAssumption DEF Shape, Stores, Working, Made, NoBooking, Idle, Steps

\* A whole day of the stay is one of the days looked up, and a stay within one day spans that day.
LEMMA FitsMeans ==
  ASSUME NEW w \in Window, NEW seen, Fits(w, seen)
  PROVE  /\ \A t \in w.from..(w.to - 1) : (t \div Day) \notin seen.dark
         /\ \A d \in (w.from \div Day)..((w.to - 1) \div Day) :
              w.from <= d * Day /\ (d + 1) * Day <= w.to /\ d % 7 \in DOMAIN seen.week
                => ~seen.week[d % 7].closed
         /\ w.from \div Day = w.to \div Day /\ WeekDay(w.from) \in DOMAIN seen.week
              => \A t \in w.from..(w.to - 1) :
                   LET hours == seen.week[WeekDay(w.from)]
                   IN ~hours.closed /\ t % Day >= hours.open /\ t % Day < hours.close
<1>0. /\ w.from \in Nat /\ w.to \in Nat /\ w.from < w.to /\ Day = 48
  BY DEF Window, Day, Hour
<1>1. \A t \in w.from..(w.to - 1) : (t \div Day) \notin seen.dark
  <2> TAKE t \in w.from..(w.to - 1)
  <2>1. t \div Day >= w.from \div Day /\ t \div Day <= w.to \div Day
    BY <1>0
  <2> QED
    BY <2>1 DEF Fits, DarkOn
<1>2. ASSUME NEW d \in (w.from \div Day)..((w.to - 1) \div Day),
             w.from <= d * Day, (d + 1) * Day <= w.to, d % 7 \in DOMAIN seen.week
      PROVE  ~seen.week[d % 7].closed
  <2> DEFINE j == d - (w.from \div Day)
  <2>1. d \in Int /\ j \in Nat /\ 48 * j + 1 <= w.to - w.from
    BY <1>0, <1>2
  <2>2. j \in 0..((Units(w) - 1) \div Day)
    BY <1>0, <2>1 DEF Units
  <2>3. (w.from + Day * j) \div Day = d
    <3>1. w.from + Day * j = 48 * d + (w.from % 48)
      BY <1>0, <2>1
    <3>2. ASSUME NEW e \in Int, NEW f \in 0..47
          PROVE  (48 * e + f) \div 48 = e
      OBVIOUS
    <3>3. w.from % 48 \in 0..47
      BY <1>0
    <3>4. (48 * d + (w.from % 48)) \div 48 = d
      BY <2>1, <3>2, <3>3
    <3> QED
      BY <1>0, <3>1, <3>4
  <2>4. d % 7 \in Spanned(w)
    BY <2>2, <2>3 DEF Spanned, WeekDay
  <2> QED
    BY <1>2, <2>4 DEF Fits, WithinHours
<1>3. ASSUME w.from \div Day = w.to \div Day, WeekDay(w.from) \in DOMAIN seen.week,
             NEW t \in w.from..(w.to - 1)
      PROVE  LET hours == seen.week[WeekDay(w.from)]
             IN ~hours.closed /\ t % Day >= hours.open /\ t % Day < hours.close
  <2>1. (Units(w) - 1) \div Day = 0
    BY <1>0, <1>3 DEF Units
  <2>2. Spanned(w) = {WeekDay(w.from)}
    <3>1. Spanned(w) = {WeekDay(w.from + Day * k) : k \in {0}}
      BY <2>1 DEF Spanned
    <3> QED
      BY <1>0, <3>1
  <2>3. Cardinality(Spanned(w)) = 1
    BY <2>2, FS_Singleton
  <2>4. LET hours == seen.week[WeekDay(w.from)]
        IN /\ ~hours.closed /\ w.from % Day >= hours.open /\ w.to % Day <= hours.close
           /\ hours.open \in Nat /\ hours.close \in Nat
    BY <1>3, <2>2, <2>3 DEF Fits, WithinHours, IsWeek
  <2>5. t % Day >= w.from % Day /\ t % Day < w.to % Day
    BY <1>0, <1>3
  <2> QED
    BY <1>0, <2>4, <2>5
<1> QED
  BY <1>1, <1>2, <1>3

-----------------------------------------------------------------------------
\* What the steps do, apart from the order of the handler.
LEMMA Frame ==
  ASSUME Shape, NEW r \in Requests, NEW n, Goto(r, n)
  PROVE  DOMAIN reqs' = Requests /\ reqs'[r] = n /\ \A q \in Requests : q # r => reqs'[q] = reqs[q]
  BY DEF Shape, Goto

LEMMA KeySet ==
  ASSUME Shape, NEW k \in Keys, NEW st \in {"none", "processing", "answer"}, NEW b \in 0..NBookings,
         key' = [key EXCEPT ![k] = [st |-> st, b |-> b]]
  PROVE  /\ key' \in [Keys -> [st : {"none", "processing", "answer"}, b : 0..NBookings]]
         /\ key'[k].st = st /\ key'[k].b = b
         /\ \A j \in Keys : j # k => key'[j] = key[j]
  BY DEF Shape, Stores

\* The orders handlers carry on with.
LEMMA HandlerOrder ==
  ASSUME Shape, NEW r \in Requests, Handler(r)
  PROVE  /\ DOMAIN reqs' = Requests /\ \A q \in Requests : q # r => reqs'[q] = reqs[q]
         /\ reqs'[r] = Idle \/ (OrderShape(reqs'[r]) /\ r \in load.crew)
         /\ load' = load
<1>0. /\ reqs[r] # Idle => OrderShape(reqs[r]) /\ r \in load.crew
      /\ reqs[r] = Idle => reqs[r].op = "idle"
      /\ 0 \in 0..NBookings
  BY Kinds, WorkloadAssumption DEF Working
<1>a. ASSUME NEW n, Goto(r, n), n = Idle \/ (OrderShape(n) /\ r \in load.crew), load' = load
      PROVE  /\ DOMAIN reqs' = Requests /\ \A q \in Requests : q # r => reqs'[q] = reqs[q]
             /\ reqs'[r] = Idle \/ (OrderShape(reqs'[r]) /\ r \in load.crew)
             /\ load' = load
  BY <1>a, Frame
<1>1. ASSUME NEW k \in Keys, NEW w \in load.windows, NEW code \in BOOLEAN, KeyRead(r, k, w, code)
      PROVE  \E n : Goto(r, n) /\ OrderShape(n) /\ r \in load.crew /\ load' = load
  <2>1. w \in Window
    BY Kinds
  <2>2. \/ Goto(r, Order(k, w, code, "claim", FALSE))
        \/ Goto(r, Order(k, w, code, "hours", FALSE))
    BY <1>1 DEF KeyRead
  <2> QED
    BY <1>1, <2>1, <2>2, NewOrder DEF KeyRead, Starts, Steps
<1>2. ASSUME NEW step \in {"claim", "hours", "quote", "insert", "rewrite", "count", "answer", "refuse"},
             At(r, step)
      PROVE  OrderShape(reqs[r]) /\ r \in load.crew
  BY <1>0, <1>2 DEF At
<1>3. CASE Claim(r)
  <2>1. PICK n : /\ Goto(r, n)
                 /\ \/ n = [reqs[r] EXCEPT !.op = "hours", !.guarded = TRUE]
                    \/ n = [reqs[r] EXCEPT !.op = "hours"]
                    \/ n = Idle
    BY <1>3 DEF Claim, On, Done
  <2>2. OrderShape(reqs[r]) /\ r \in load.crew /\ load' = load
    BY <1>2, <1>3 DEF Claim
  <2>4. n = Idle \/ OrderShape(n)
    BY <2>1, <2>2 DEF OrderShape, OrderFields, Steps
  <2> QED
    BY <1>a, <2>1, <2>2, <2>4
<1>4. CASE CheckHours(r)
  <2>1. PICK n : /\ Goto(r, n)
                 /\ \/ \E seen : n = [reqs[r] EXCEPT !.op = "quote", !.seen = seen]
                    \/ n = [reqs[r] EXCEPT !.op = "refuse"]
    BY <1>4 DEF CheckHours, On
  <2>2. OrderShape(reqs[r]) /\ r \in load.crew /\ load' = load
    BY <1>2, <1>4 DEF CheckHours
  <2>4. n = Idle \/ OrderShape(n)
    BY <2>1, <2>2 DEF OrderShape, OrderFields, Steps
  <2> QED
    BY <1>a, <2>1, <2>2, <2>4
<1>5. CASE Quote(r)
  <2>1. PICK n : /\ Goto(r, n)
                 /\ \/ \E price : n = [reqs[r] EXCEPT !.op = "insert", !.price = price]
                    \/ \E price : n = [reqs[r] EXCEPT !.op = "rewrite", !.price = price]
                    \/ n = [reqs[r] EXCEPT !.op = "refuse"]
    BY <1>5 DEF Quote, On
  <2>2. OrderShape(reqs[r]) /\ r \in load.crew /\ load' = load
    BY <1>2, <1>5 DEF Quote
  <2>4. n = Idle \/ OrderShape(n)
    BY <2>1, <2>2 DEF OrderShape, OrderFields, Steps
  <2> QED
    BY <1>a, <2>1, <2>2, <2>4
<1>6. CASE Insert(r)
  <2>1. PICK n : /\ Goto(r, n)
                 /\ \/ \E b \in FirstFree : n = [reqs[r] EXCEPT !.op = "count", !.made = b]
                    \/ \E b \in FirstFree : n = [reqs[r] EXCEPT !.op = "answer", !.made = b]
                    \/ n = [reqs[r] EXCEPT !.op = "refuse"]
    BY <1>6 DEF Insert, On
  <2>2. OrderShape(reqs[r]) /\ r \in load.crew /\ load' = load
    BY <1>2, <1>6 DEF Insert
  <2>3. FirstFree \subseteq 0..NBookings
    BY WorkloadAssumption DEF FirstFree, Bookings
  <2>4. n = Idle \/ OrderShape(n)
    BY <2>1, <2>2, <2>3 DEF OrderShape, OrderFields, Steps
  <2> QED
    BY <1>a, <2>1, <2>2, <2>4
<1>7. CASE Count(r)
  <2>1. PICK n : /\ Goto(r, n)
                 /\ \/ n = [reqs[r] EXCEPT !.op = "answer"]
    BY <1>7 DEF Count, On
  <2>2. OrderShape(reqs[r]) /\ r \in load.crew /\ load' = load
    BY <1>2, <1>7 DEF Count
  <2>4. n = Idle \/ OrderShape(n)
    BY <2>1, <2>2 DEF OrderShape, OrderFields, Steps
  <2> QED
    BY <1>a, <2>1, <2>2, <2>4
<1>8. CASE Answer(r) \/ Refuse(r) \/ Rewrite(r) \/ Crash(r)
  BY <1>a, <1>8 DEF Answer, Refuse, Rewrite, Crash, Done
<1>9. ASSUME NEW b \in Bookings, NEW w \in load.windows, ModifyRead(r, b, w.to)
      PROVE  \E n : Goto(r, n) /\ OrderShape(n) /\ r \in load.crew /\ load' = load
  <2>1. RowShape(booking[b]) /\ w \in Window /\ w.to > booking[b].w.from
    BY <1>9, Kinds DEF ModifyRead, Made
  <2>2. PICK v \in Window : v = [booking[b].w EXCEPT !.to = w.to]
    BY <2>1 DEF RowShape, Window
  <2>3. PICK q : q = Order(booking[b].k, v, FALSE, "hours", FALSE)
    OBVIOUS
  <2>4. OrderShape(q)
    BY <2>1, <2>3, NewOrder DEF RowShape, Steps
  <2>5. OrderShape([q EXCEPT !.b = b])
    BY <2>4, WorkloadAssumption DEF OrderShape, OrderFields, Bookings
  <2> QED
    BY <1>9, <2>2, <2>3, <2>5 DEF ModifyRead, Starts
<1>10. ASSUME NEW b \in Bookings, NEW w \in load.windows, Rebook(r, b, w)
       PROVE  \E n : Goto(r, n) /\ OrderShape(n) /\ r \in load.crew /\ load' = load
  BY <1>10, Kinds, NewOrder DEF Rebook, Starts, Steps
<1> QED
  BY <1>a, <1>1, <1>3, <1>4, <1>5, <1>6, <1>7, <1>8, <1>9, <1>10 DEF Handler

\* A fault is within the workload's, and so within the bound.
LEMMA FaultsBounded ==
  ASSUME Shape, Fault
  PROVE  faults' \in 0..MaxFaults /\ faults' # 0
<1>1. faults \in Nat /\ load.faults \in 0..MaxFaults /\ MaxFaults \in Nat
  BY Kinds, WorkloadAssumption DEF Shape, Stores
<1> QED
  BY <1>1 DEF Fault, MayFail

\* The rows a handler writes: a new one, or the window and the price of an old one.
RowsStay ==
  /\ DOMAIN booking' = Bookings
  /\ \A b \in Bookings : Made(b) => /\ Made(b)' /\ RowShape(booking'[b])
                                    /\ booking'[b].k = booking[b].k
                                    /\ booking'[b].code = booking[b].code

Inserts(r, b) ==
  /\ b \in FirstFree
  /\ booking' = [booking EXCEPT ![b] =
       [st |-> "pending", k |-> reqs[r].k, w |-> reqs[r].w, code |-> reqs[r].code,
        price |-> reqs[r].price, seen |-> reqs[r].seen, refund |-> 0]]

LEMMA InsertRows ==
  ASSUME Shape, NEW r \in Requests, OrderShape(reqs[r]), NEW b, Inserts(r, b)
  PROVE  /\ b \in Bookings /\ ~Made(b) /\ Made(b)'
         /\ RowsStay /\ RowShape(booking'[b])
         /\ booking'[b].k = reqs[r].k /\ booking'[b].code = reqs[r].code
         /\ booking'[b].w = reqs[r].w /\ booking'[b].seen = reqs[r].seen
         /\ \A c \in Bookings : c # b => booking'[c] = booking[c]
<1>1. b \in Bookings /\ ~Made(b)
  BY DEF Inserts, FirstFree
<1>2. /\ DOMAIN booking' = Bookings
      /\ \A c \in Bookings : c # b => booking'[c] = booking[c]
      /\ booking'[b] = [st |-> "pending", k |-> reqs[r].k, w |-> reqs[r].w, code |-> reqs[r].code,
                        price |-> reqs[r].price, seen |-> reqs[r].seen, refund |-> 0]
  BY <1>1 DEF Shape, Inserts
<1>3. RowShape(booking'[b])
  BY <1>2 DEF RowShape, RowFields, OrderShape
<1>4. \A c \in Bookings : Made(c) => RowShape(booking[c])
  BY Kinds
<1>5. RowsStay /\ Made(b)'
  BY <1>1, <1>2, <1>4 DEF RowsStay, Made
<1> QED
  BY <1>1, <1>2, <1>3, <1>5

LEMMA RewriteRows ==
  ASSUME Shape, Orders, NEW r \in Requests, Rewrite(r)
  PROVE  /\ RowsStay /\ Fits(reqs[r].w, reqs[r].seen)
         /\ \A c \in Bookings :
              /\ ~Made(c) => booking'[c] = booking[c]
              /\ Made(c) => \/ booking'[c].w = booking[c].w /\ booking'[c].seen = booking[c].seen
                            \/ booking'[c].w = reqs[r].w /\ booking'[c].seen = reqs[r].seen
<1>1. /\ OrderShape(reqs[r]) /\ OrderClaim(reqs[r]) /\ reqs[r].op = "rewrite"
  BY Kinds DEF Rewrite, At, Orders, Working, Idle
<1>2. PICK q : q = reqs[r]
  OBVIOUS
<1>3. PICK b \in Bookings : b = q.b /\ Made(b) /\ RowShape(booking[b])
  BY <1>1, <1>2, Kinds, WorkloadAssumption DEF OrderClaim, OrderShape, Bookings
<1>4. booking' = [booking EXCEPT ![b].w = q.w, ![b].price = q.price, ![b].seen = q.seen]
  BY <1>2, <1>3 DEF Rewrite
<1>5. /\ DOMAIN booking' = Bookings
      /\ \A c \in Bookings : c # b => booking'[c] = booking[c]
      /\ booking'[b] = [booking[b] EXCEPT !.w = q.w, !.price = q.price, !.seen = q.seen]
  BY <1>3, <1>4 DEF Shape
<1>6. /\ DOMAIN booking'[b] = RowFields /\ booking'[b].st = booking[b].st
      /\ booking'[b].k = booking[b].k /\ booking'[b].code = booking[b].code
      /\ booking'[b].w = q.w /\ booking'[b].seen = q.seen
  BY <1>3, <1>5 DEF RowShape, RowFields
<1>7. RowShape(booking'[b]) /\ Made(b)'
  BY <1>1, <1>2, <1>3, <1>6 DEF RowShape, OrderShape, Made
<1>8. \A c \in Bookings : Made(c) => RowShape(booking[c])
  BY Kinds
<1>9. RowsStay
  BY <1>3, <1>5, <1>6, <1>7, <1>8 DEF RowsStay, Made
<1> QED
  BY <1>1, <1>2, <1>3, <1>5, <1>6, <1>9 DEF OrderClaim, Made

LEMMA CancelRows ==
  ASSUME Shape, NEW b \in Bookings, NEW by, NEW policy, NEW left, Cancel(b, by, policy, left)
  PROVE  /\ RowsStay
         /\ \A c \in Bookings :
              /\ ~Made(c) => booking'[c] = booking[c]
              /\ Made(c) => booking'[c].w = booking[c].w /\ booking'[c].seen = booking[c].seen
<1>1. Made(b) /\ RowShape(booking[b])
  BY Kinds DEF Cancel, Made
<1>2. PICK x : booking' = [booking EXCEPT ![b].st = "cancelled", ![b].refund = x]
  BY DEF Cancel
<1>3. /\ DOMAIN booking' = Bookings
      /\ \A c \in Bookings : c # b => booking'[c] = booking[c]
      /\ booking'[b] = [booking[b] EXCEPT !.st = "cancelled", !.refund = x]
  BY <1>2 DEF Shape
<1>4. /\ DOMAIN booking'[b] = RowFields /\ booking'[b].st = "cancelled"
      /\ booking'[b].k = booking[b].k /\ booking'[b].code = booking[b].code
      /\ booking'[b].w = booking[b].w /\ booking'[b].seen = booking[b].seen
  BY <1>1, <1>3 DEF RowShape, RowFields
<1>5. RowShape(booking'[b]) /\ Made(b)'
  BY <1>1, <1>4 DEF RowShape, Made
<1>6. \A c \in Bookings : Made(c) => RowShape(booking[c])
  BY Kinds
<1> QED
  BY <1>1, <1>3, <1>4, <1>5, <1>6 DEF RowsStay, Made

\* The answers and the sentinels in Redis, and what is known to have lapsed.
LEMMA HandlerStores ==
  ASSUME Shape, Orders, NEW r \in Requests, Handler(r)
  PROVE  Stores'
<1>0. /\ Stores /\ MaxFaults \in Nat /\ 0 \in 0..NBookings
      /\ UNCHANGED load
      /\ Fault => faults' \in 0..MaxFaults
      /\ Working(r) => OrderShape(reqs[r]) /\ OrderClaim(reqs[r])
  BY HandlerOrder, FaultsBounded, Kinds, WorkloadAssumption DEF Shape, Orders
<1>1. ASSUME NEW k \in Keys, NEW w, NEW code, KeyRead(r, k, w, code)
      PROVE  Stores'
  <2>1. lapsed' \subseteq Keys /\ faults' \in 0..MaxFaults
    BY <1>0, <1>1 DEF KeyRead, Stores
  <2> QED
    BY <1>0, <1>1, <2>1 DEF KeyRead, Stores, offer
<1>2. CASE Claim(r)
  <2>1. reqs[r].k \in Keys
    BY <1>0, <1>2 DEF Claim, At, Working, OrderClaim, Idle
  <2>2. PICK k \in Keys : k = reqs[r].k
    BY <2>1
  <2>3. key' = key \/ key' = [key EXCEPT ![k] = [st |-> "processing", b |-> 0]]
    BY <1>2, <2>2 DEF Claim
  <2>4. key' \in [Keys -> [st : {"none", "processing", "answer"}, b : 0..NBookings]]
    BY <1>0, <2>3, KeySet DEF Stores
  <2>5. lapsed' \subseteq Keys /\ faults' \in 0..MaxFaults
    BY <1>0, <1>2, <2>2 DEF Claim, Stores
  <2> QED
    BY <1>0, <1>2, <2>4, <2>5 DEF Claim, Stores, offer
<1>3. CASE Quote(r)
  <2>1. cache' = cache \/ cache' = {rates}
    BY <1>3 DEF Quote
  <2>2. cache' = {} \/ \E f \in load.rates : cache' = {f}
    BY <1>0, <2>1 DEF Stores
  <2>3. UNCHANGED <<load, offer, promo, key, lapsed, faults>>
    BY <1>3 DEF Quote
  <2> QED
    BY <1>0, <2>2, <2>3 DEF Stores, offer
<1>4. CASE Count(r)
  <2>1. promo' = promo \/ promo' = [promo EXCEPT !.used = @ + 1]
    BY <1>4 DEF Count
  <2>2. promo' \in [there : BOOLEAN, terms : load.promos, active : BOOLEAN, used : Nat]
    BY <1>0, <2>1 DEF Stores
  <2>3. faults' \in 0..MaxFaults
    BY <1>0, <1>4 DEF Count, Stores
  <2> QED
    BY <1>0, <1>4, <2>2, <2>3 DEF Count, Stores, offer
<1>5. CASE Answer(r) \/ Refuse(r)
  <2>1. /\ OrderShape(reqs[r]) /\ OrderClaim(reqs[r]) /\ reqs[r].op \in {"answer", "refuse"}
    BY <1>0, <1>5 DEF Answer, Refuse, At, Working, Idle
  <2>2. PICK q : q = reqs[r]
    OBVIOUS
  <2>3. /\ q.made \in 0..NBookings /\ (q.guarded => q.k \in Keys)
    BY <2>1, <2>2 DEF OrderShape, OrderClaim
  <2>4. \/ key' = key
        \/ q.guarded /\ key' = [key EXCEPT ![q.k] = [st |-> "answer", b |-> q.made]]
        \/ q.guarded /\ key' = [key EXCEPT ![q.k] = [st |-> "none", b |-> 0]]
    BY <1>5, <2>2 DEF Answer, Refuse, NoEntry
  <2>5. key' \in [Keys -> [st : {"none", "processing", "answer"}, b : 0..NBookings]]
    BY <1>0, <2>3, <2>4, KeySet DEF Stores
  <2>6. lapsed' \subseteq Keys /\ faults' \in 0..MaxFaults
    BY <1>0, <1>5, <2>2, <2>3 DEF Answer, Refuse, Stores
  <2>7. UNCHANGED <<load, offer, promo, cache>>
    BY <1>5 DEF Answer, Refuse
  <2> QED
    BY <1>0, <2>5, <2>6, <2>7 DEF Stores, offer
<1>6. CASE CheckHours(r) \/ Insert(r) \/ Rewrite(r) \/ Crash(r)
  <2>1. UNCHANGED <<load, offer, promo, cache, key, lapsed>>
    BY <1>6 DEF CheckHours, Insert, Rewrite, Crash
  <2>2. faults' \in 0..MaxFaults
    BY <1>0, <1>6 DEF CheckHours, Insert, Rewrite, Crash, Stores
  <2> QED
    BY <1>0, <2>1, <2>2 DEF Stores, offer
<1>7. ASSUME NEW b, NEW w, ModifyRead(r, b, w.to) \/ Rebook(r, b, w)
      PROVE  Stores'
  BY <1>0, <1>7 DEF ModifyRead, Rebook, Stores, offer
<1> QED
  BY <1>1, <1>2, <1>3, <1>4, <1>5, <1>6, <1>7 DEF Handler

LEMMA HandlerRows ==
  ASSUME Shape, Orders, NEW r \in Requests, Handler(r)
  PROVE  /\ RowsStay
         /\ \A c \in Bookings : ~Made(c) => booking'[c] = booking[c] \/ RowShape(booking'[c])
<1>1. CASE Insert(r)
  <2>1. OrderShape(reqs[r])
    BY <1>1, Kinds DEF Insert, At, Working, Idle
  <2>2. CASE UNCHANGED booking
    BY <2>2, Kinds DEF RowsStay, Made, Shape
  <2>3. CASE \E b : Inserts(r, b)
    BY <2>1, <2>3, InsertRows
  <2> QED
    BY <1>1, <2>2, <2>3 DEF Insert, Inserts
<1>2. CASE Rewrite(r)
  BY <1>2, RewriteRows
<1>3. CASE UNCHANGED booking
  BY <1>3, Kinds DEF RowsStay, Made, Shape
<1> QED
  BY <1>1, <1>2, <1>3 DEF Handler, KeyRead, Claim, CheckHours, Quote, Count, Answer, Refuse,
     ModifyRead, Rebook, Crash

\* The steps nobody's order is about.
LEMMA OtherSteps ==
  ASSUME Shape, [Next]_vars, \A r \in Requests : ~Handler(r)
  PROVE  /\ Stores' /\ RowsStay /\ UNCHANGED <<load, reqs>>
         /\ lapsed \subseteq lapsed'
         /\ \A c \in Bookings :
              /\ ~Made(c) => booking'[c] = booking[c]
              /\ Made(c) => booking'[c].w = booking[c].w /\ booking'[c].seen = booking[c].seen
         /\ faults' = faults \/ faults' # 0
<1>0. /\ Stores /\ NoEntry = [st |-> "none", b |-> 0] /\ 0 \in 0..NBookings
      /\ Fault => faults' \in 0..MaxFaults /\ faults' # 0
      /\ UNCHANGED booking => RowsStay
  <2>1. UNCHANGED booking => RowsStay
    BY Kinds DEF RowsStay, Made, Shape
  <2> QED
    BY <2>1, FaultsBounded, WorkloadAssumption DEF Shape, NoEntry
<1>1. ASSUME NEW b \in Bookings, NEW by, NEW policy, NEW left, Cancel(b, by, policy, left)
      PROVE  /\ Stores' /\ RowsStay /\ UNCHANGED <<load, reqs, lapsed, faults>>
             /\ \A c \in Bookings :
                  /\ ~Made(c) => booking'[c] = booking[c]
                  /\ Made(c) => booking'[c].w = booking[c].w /\ booking'[c].seen = booking[c].seen
  <2>1. UNCHANGED <<load, offer, promo, cache, key, lapsed, reqs, faults>>
    BY <1>1 DEF Cancel
  <2>2. Stores'
    BY <1>0, <2>1 DEF Stores, offer
  <2> QED
    BY <1>1, <2>1, <2>2, CancelRows
<1>2. CASE Edits
  <2>1. UNCHANGED <<load, key, lapsed, booking, reqs, faults>>
    BY <1>2 DEF Edits, SetSchedule, AddBlackout, RemoveBlackout, SetPricing, UpdateConfig,
       UpdatePromo, CreatePromoCode, SwitchPromo, CacheExpires
  <2>2. /\ tariff' \in load.tariffs /\ week' \in load.weeks /\ dark' \subseteq load.darks
        /\ rates' \in load.rates
    BY <1>0, <1>2 DEF Edits, SetSchedule, AddBlackout, RemoveBlackout, SetPricing, UpdateConfig,
       UpdatePromo, CreatePromoCode, SwitchPromo, CacheExpires, Stores, offer
  <2>3. /\ cache' = cache \/ cache' = {}
        /\ \/ promo' = promo
           \/ promo' = [promo EXCEPT !.active = ~promo.active]
           \/ \E terms \in load.promos :
                \/ promo' = [promo EXCEPT !.terms = terms]
                \/ promo' = [there |-> TRUE, terms |-> terms, active |-> TRUE, used |-> 0]
    BY <1>2 DEF Edits, SetSchedule, AddBlackout, RemoveBlackout, SetPricing, UpdateConfig,
       UpdatePromo, CreatePromoCode, SwitchPromo, CacheExpires
  <2>4. promo' \in [there : BOOLEAN, terms : load.promos, active : BOOLEAN, used : Nat]
    <3>1. promo.active \in BOOLEAN /\ (~promo.active) \in BOOLEAN
      BY <1>0 DEF Stores
    <3>2. CASE promo' = [promo EXCEPT !.active = ~promo.active]
      BY <1>0, <3>1, <3>2 DEF Stores
    <3>3. CASE promo' = promo
      BY <1>0, <3>3 DEF Stores
    <3>4. ASSUME NEW terms \in load.promos, promo' = [promo EXCEPT !.terms = terms]
          PROVE  promo' \in [there : BOOLEAN, terms : load.promos, active : BOOLEAN, used : Nat]
      BY <1>0, <3>4 DEF Stores
    <3>5. ASSUME NEW terms \in load.promos,
                 promo' = [there |-> TRUE, terms |-> terms, active |-> TRUE, used |-> 0]
          PROVE  promo' \in [there : BOOLEAN, terms : load.promos, active : BOOLEAN, used : Nat]
      BY <3>5
    <3> QED
      BY <2>1, <2>3, <3>2, <3>3, <3>4, <3>5
  <2>5. Stores'
    BY <1>0, <2>1, <2>2, <2>3, <2>4 DEF Stores
  <2> QED
    BY <1>0, <2>1, <2>5
<1>3. ASSUME NEW k \in Keys, SentinelExpires(k) \/ AnswerExpires(k)
      PROVE  /\ Stores' /\ UNCHANGED <<load, booking, reqs>> /\ lapsed \subseteq lapsed'
             /\ faults' # 0
  <2>1. /\ UNCHANGED <<load, offer, promo, cache, booking, reqs>>
        /\ lapsed' = lapsed \/ lapsed' = lapsed \cup {k}
        /\ key' = [key EXCEPT ![k] = [st |-> "none", b |-> 0]] /\ Fault
    BY <1>0, <1>3 DEF SentinelExpires, AnswerExpires
  <2>2. key' \in [Keys -> [st : {"none", "processing", "answer"}, b : 0..NBookings]]
    BY <1>0, <2>1, KeySet
  <2>3. Stores'
    BY <1>0, <2>1, <2>2 DEF Stores, offer
  <2> QED
    BY <1>0, <2>1, <2>3
<1>4. CASE UNCHANGED vars
  BY <1>0, <1>4 DEF vars, offer, Stores
<1> QED
  BY <1>0, <1>1, <1>2, <1>3, <1>4 DEF Next

LEMMA NextShape ==
  ASSUME Shape, Orders, [Next]_vars
  PROVE  Shape'
<1>1. ASSUME NEW r \in Requests, Handler(r)
      PROVE  Shape'
  <2>1. \A b \in Bookings : booking'[b] = NoBooking \/ RowShape(booking'[b])
    BY <1>1, HandlerRows DEF RowsStay, Shape, Made, RowShape
  <2>2. DOMAIN booking' = Bookings
    BY <1>1, HandlerRows DEF RowsStay
  <2>3. \A q \in Requests : reqs'[q] = Idle \/ (OrderShape(reqs'[q]) /\ q \in load'.crew)
    BY <1>1, HandlerOrder DEF Shape
  <2> QED
    BY <1>1, <2>1, <2>2, <2>3, HandlerStores, HandlerOrder DEF Shape
<1>2. CASE \A r \in Requests : ~Handler(r)
  <2>1. \A b \in Bookings : booking'[b] = NoBooking \/ RowShape(booking'[b])
    BY <1>2, OtherSteps DEF RowsStay, Shape, Made, RowShape
  <2> QED
    BY <1>2, <2>1, OtherSteps DEF Shape, RowsStay
<1> QED
  BY <1>1, <1>2

-----------------------------------------------------------------------------
\* What a handler's order claims stays true while others work.
LEMMA ClaimStays ==
  ASSUME RowsStay, lapsed \subseteq lapsed', NEW q, OrderShape(q), OrderClaim(q)
  PROVE  OrderClaim(q)'
<1>1. q.b # 0 => q.b \in Bookings
  BY WorkloadAssumption DEF OrderShape, Bookings
<1> QED
  BY <1>1 DEF OrderClaim, RowsStay, Fits

LEMMA HandlerClaims ==
  ASSUME Shape, Orders, NEW r \in Requests, Handler(r)
  PROVE  /\ \E n : reqs'[r] = n /\ (n = Idle \/ OrderClaim(n)')
         /\ lapsed \subseteq lapsed'
<1>0. /\ Working(r) => OrderShape(reqs[r]) /\ OrderClaim(reqs[r])
      /\ RowsStay /\ DOMAIN reqs = Requests
  BY HandlerRows, Kinds DEF Shape, Orders
<1>a. lapsed \subseteq lapsed'
  BY DEF Handler, KeyRead, Claim, CheckHours, Quote, Insert, Count, Answer, Refuse, ModifyRead,
     Rebook, Rewrite, Crash
<1>b. PICK n : reqs'[r] = n /\ \A m : Goto(r, m) => n = m
  BY Frame
<1> SUFFICES n = Idle \/ OrderClaim(n)'
  BY <1>a, <1>b
<1>c. PICK q : q = reqs[r]
  OBVIOUS
<1>d. Working(r) => OrderClaim(q)'
  BY <1>0, <1>a, <1>c, ClaimStays
<1>1. ASSUME NEW k \in Keys, NEW w \in load.windows, NEW code \in BOOLEAN, KeyRead(r, k, w, code)
      PROVE  OrderClaim(n)'
  <2>1. \/ n = Order(k, w, code, "claim", FALSE)
        \/ n = Order(k, w, code, "hours", FALSE) /\ k \in lapsed'
    BY <1>1, <1>b DEF KeyRead
  <2> QED
    BY <2>1 DEF Order, OrderClaim
<1>2. CASE Claim(r)
  <2>1. /\ Working(r) /\ q.op = "claim" /\ q.k \in Keys /\ q.b = 0 /\ q.made = 0
        /\ DOMAIN q = OrderFields
    BY <1>0, <1>2, <1>c DEF Claim, At, Working, Idle, OrderClaim, OrderShape
  <2>2. \/ n = [q EXCEPT !.op = "hours", !.guarded = TRUE]
        \/ n = [q EXCEPT !.op = "hours"] /\ q.k \in lapsed'
        \/ n = Idle
    BY <1>2, <1>b, <1>c DEF Claim, On, Done
  <2>3. \/ n = Idle
        \/ /\ n.op = "hours" /\ n.b = 0 /\ n.made = 0 /\ n.k \in Keys
           /\ n.guarded \/ n.k \in lapsed'
    BY <2>1, <2>2 DEF OrderFields
  <2> QED
    BY <2>3 DEF OrderClaim
<1>3. CASE CheckHours(r)
  <2>1. /\ Working(r) /\ q.op = "hours" /\ DOMAIN q = OrderFields
    BY <1>0, <1>3, <1>c DEF CheckHours, At, Working, Idle, OrderShape
  <2>2. \/ /\ n = [q EXCEPT !.op = "quote", !.seen = [week |-> week, dark |-> dark]]
           /\ Fits(q.w, [week |-> week, dark |-> dark])
        \/ n = [q EXCEPT !.op = "refuse"]
    BY <1>3, <1>b, <1>c, WorkloadAssumption DEF CheckHours, On, Fits, IsWeek, Shape, Stores
  <2> QED
    BY <1>d, <2>1, <2>2 DEF OrderClaim, OrderFields, Fits
<1>4. CASE Quote(r)
  <2>1. /\ Working(r) /\ q.op = "quote" /\ DOMAIN q = OrderFields
    <3>1. At(r, "quote")
      BY <1>4 DEF Quote
    <3> QED
      BY <1>0, <1>c, <3>1 DEF At, Working, Idle, OrderShape
  <2>2. \/ \E price : n = [q EXCEPT !.op = IF q.b = 0 THEN "insert" ELSE "rewrite",
                                           !.price = price]
        \/ n = [q EXCEPT !.op = "refuse"]
    BY <1>4, <1>b, <1>c DEF Quote, On
  <2> QED
    BY <1>d, <2>1, <2>2 DEF OrderClaim, OrderFields, Fits
<1>5. CASE Insert(r)
  <2>1. /\ Working(r) /\ q.op = "insert" /\ DOMAIN q = OrderFields /\ OrderShape(q)
    <3>1. At(r, "insert")
      BY <1>5 DEF Insert
    <3> QED
      BY <1>0, <1>c, <3>1 DEF At, Working, Idle, OrderShape
  <2>2. \/ \E b : /\ Inserts(r, b)
                  /\ n = [q EXCEPT !.op = IF q.code THEN "count" ELSE "answer", !.made = b]
        \/ n = [q EXCEPT !.op = "refuse"]
    BY <1>5, <1>b, <1>c DEF Insert, On, Inserts
  <2>3. ASSUME NEW b, Inserts(r, b)
        PROVE  b \in Bookings /\ Made(b)' /\ booking'[b].k = q.k
    BY <1>c, <2>1, <2>3, InsertRows
  <2>4. CASE n = [q EXCEPT !.op = "refuse"]
    BY <1>d, <2>1, <2>4 DEF OrderClaim, OrderFields
  <2>5. ASSUME NEW b, Inserts(r, b),
               n = [q EXCEPT !.op = IF q.code THEN "count" ELSE "answer", !.made = b]
        PROVE  OrderClaim(n)'
    <3>1. /\ n.op = IF q.code THEN "count" ELSE "answer"
          /\ n.made = b /\ n.b = q.b /\ n.k = q.k /\ n.code = q.code /\ n.guarded = q.guarded
          /\ n.w = q.w /\ n.seen = q.seen
      BY <2>1, <2>5 DEF OrderFields
    <3> QED
      BY <1>d, <2>1, <2>3, <2>5, <3>1 DEF OrderClaim, Fits
  <2> QED
    BY <2>2, <2>4, <2>5
<1>6. CASE Count(r)
  <2>1. /\ Working(r) /\ q.op = "count" /\ DOMAIN q = OrderFields
    BY <1>0, <1>6, <1>c DEF Count, At, Working, Idle, OrderShape
  <2>2. n = [q EXCEPT !.op = "answer"]
    BY <1>6, <1>b, <1>c DEF Count, On
  <2> QED
    BY <1>d, <2>1, <2>2 DEF OrderClaim, OrderFields, Fits
<1>7. CASE Answer(r) \/ Refuse(r) \/ Rewrite(r) \/ Crash(r)
  BY <1>7, <1>b DEF Answer, Refuse, Rewrite, Crash, Done
<1>8. ASSUME NEW b \in Bookings, NEW w, ModifyRead(r, b, w.to)
      PROVE  OrderClaim(n)'
  <2>1. PICK v : v = [booking[b].w EXCEPT !.to = w.to]
    OBVIOUS
  <2>2. PICK o : o = Order(booking[b].k, v, FALSE, "hours", FALSE)
    OBVIOUS
  <2>3. n = [o EXCEPT !.b = b]
    BY <1>8, <1>b, <2>1, <2>2 DEF ModifyRead
  <2>4. /\ Made(b)' /\ b # 0
    BY <1>0, <1>8 DEF ModifyRead, RowsStay, Made, Bookings
  <2> QED
    BY <2>2, <2>3, <2>4 DEF Order, OrderClaim
<1>9. ASSUME NEW b, NEW w, Rebook(r, b, w)
      PROVE  OrderClaim(n)'
  <2>1. n = Order(NoKey, w, FALSE, "hours", FALSE)
    BY <1>9, <1>b DEF Rebook
  <2> QED
    BY <2>1, KeyAssumption DEF Order, OrderClaim
<1> QED
  BY <1>a, <1>b, <1>1, <1>2, <1>3, <1>4, <1>5, <1>6, <1>7, <1>8, <1>9 DEF Handler

LEMMA NextOrders ==
  ASSUME Shape, Orders, [Next]_vars
  PROVE  Orders'
<1>1. ASSUME NEW r \in Requests, Handler(r)
      PROVE  Orders'
  <2>1. \A q \in Requests : Working(q)' => OrderClaim(reqs[q])'
    <3>0. Working(r)' => OrderClaim(reqs[r])'
      <4>1. PICK n : reqs'[r] = n /\ (n = Idle \/ OrderClaim(n)')
        BY <1>1, HandlerClaims
      <4> QED
        BY <4>1 DEF OrderClaim, Working
    <3> SUFFICES ASSUME NEW q \in Requests, q # r, Working(q)' PROVE OrderClaim(reqs[q])'
      BY <3>0
    <3>1. reqs'[q] = reqs[q] /\ Working(q)
      BY <1>1, HandlerOrder DEF Working
    <3>2. PICK o : o = reqs[q] /\ OrderShape(o) /\ OrderClaim(o)
      BY <3>1, Kinds DEF Orders
    <3>3. OrderClaim(o)'
      BY <1>1, <3>2, HandlerRows, HandlerClaims, ClaimStays
    <3> QED
      BY <3>1, <3>2, <3>3 DEF OrderClaim
  <2>2. ASSUME NEW b \in Bookings, Made(b)'
        PROVE  Fits(booking[b].w, booking[b].seen)'
    <3>1. CASE Insert(r)
      <4>1. OrderShape(reqs[r]) /\ OrderClaim(reqs[r]) /\ reqs[r].op = "insert"
        BY <3>1, Kinds DEF Insert, At, Working, Idle, Orders
      <4>2. CASE UNCHANGED booking
        BY <2>2, <4>2 DEF Made, Orders, Fits
      <4>3. ASSUME NEW c, Inserts(r, c) PROVE Fits(booking[b].w, booking[b].seen)'
        BY <2>2, <4>1, <4>3, InsertRows DEF Made, Orders, OrderClaim, Fits
      <4> QED
        BY <3>1, <4>2, <4>3 DEF Insert, Inserts
    <3>2. CASE Rewrite(r)
      BY <2>2, <3>2, RewriteRows DEF Made, Orders, Fits
    <3>3. CASE UNCHANGED booking
      BY <2>2, <3>3 DEF Made, Orders, Fits
    <3> QED
      BY <1>1, <3>1, <3>2, <3>3 DEF Handler, KeyRead, Claim, CheckHours, Quote, Count, Answer,
         Refuse, ModifyRead, Rebook, Crash
  <2> QED
    BY <2>1, <2>2 DEF Orders
<1>2. CASE \A r \in Requests : ~Handler(r)
  <2>1. \A q \in Requests : Working(q)' => OrderClaim(reqs[q])'
    <3> SUFFICES ASSUME NEW q \in Requests, Working(q)' PROVE OrderClaim(reqs[q])'
      OBVIOUS
    <3>1. reqs'[q] = reqs[q] /\ Working(q)
      BY <1>2, OtherSteps DEF Working
    <3>2. PICK o : o = reqs[q] /\ OrderShape(o) /\ OrderClaim(o)
      BY <3>1, Kinds DEF Orders
    <3>3. OrderClaim(o)'
      BY <1>2, <3>2, OtherSteps, ClaimStays
    <3> QED
      BY <3>1, <3>2, <3>3 DEF OrderClaim
  <2>2. \A b \in Bookings : Made(b)' => Fits(booking[b].w, booking[b].seen)'
    BY <1>2, OtherSteps DEF Made, Orders, Fits
  <2> QED
    BY <2>1, <2>2 DEF Orders
<1> QED
  BY <1>1, <1>2

-----------------------------------------------------------------------------
\* Keys.

\* A step that leaves a key's entry, its handlers and its bookings as they are.
LEMMA KeyStays ==
  ASSUME NEW k, KeyHolds(k), key'[k] = key[k], faults > 0 => faults' > 0,
         \A q \in Requests : /\ Guards(q, k)' <=> Guards(q, k)
                             /\ Guards(q, k) => reqs'[q].made = reqs[q].made,
         \A c \in Bookings : Under(c, k)' <=> Under(c, k)
  PROVE  KeyHolds(k)'
<1>1. \A b : Bears(b, k) => (\A c \in Bookings : Under(c, k)' <=> c = b)
  BY DEF Bears
<1>2. Unheld(k) => Unheld(k)'
  BY DEF Unheld
<1>3. CASE key[k].st = "none" /\ Unheld(k) /\ Bears(0, k)
  BY <1>1, <1>2, <1>3 DEF KeyHolds, Bears
<1>4. CASE key[k].st = "processing" /\ \E r \in Requests : HeldBy(r, k) /\ Bears(reqs[r].made, k)
  <2>1. PICK r \in Requests : HeldBy(r, k) /\ Bears(reqs[r].made, k)
    BY <1>4
  <2>2. HeldBy(r, k)' /\ reqs'[r].made = reqs[r].made
    BY <2>1 DEF HeldBy
  <2>3. Bears(reqs[r].made, k)'
    BY <1>1, <2>1, <2>2 DEF Bears
  <2> QED
    BY <1>4, <2>2, <2>3 DEF KeyHolds
<1>5. CASE key[k].st = "processing" /\ Unheld(k) /\ faults > 0 /\ \E b \in 0..NBookings : Bears(b, k)
  BY <1>1, <1>2, <1>5 DEF KeyHolds, Bears
<1>6. CASE key[k].st = "answer" /\ Unheld(k) /\ key[k].b \in Bookings /\ Bears(key[k].b, k)
  BY <1>1, <1>2, <1>6 DEF KeyHolds, Bears
<1> QED
  BY <1>3, <1>4, <1>5, <1>6 DEF KeyHolds

\* A handler that guards a key that kept its protection is the only one, and has made what was made.
LEMMA GuardIs ==
  ASSUME NEW k, KeyHolds(k), NEW r \in Requests, Guards(r, k)
  PROVE  key[k].st = "processing" /\ HeldBy(r, k) /\ Bears(reqs[r].made, k)
  BY DEF KeyHolds, HeldBy, Unheld

LEMMA BookingsSame ==
  ASSUME RowsStay, \A c \in Bookings : ~Made(c) => booking'[c] = booking[c]
  PROVE  \A k, c : c \in Bookings => (Under(c, k)' <=> Under(c, k))
  BY DEF RowsStay, Under, Made

\* A step that only moves the handler on, or takes up or lays down an order without guard.
LEMMA KeysMove ==
  ASSUME Shape, Orders, NEW r \in Requests, Handler(r), NEW k \in Keys \ lapsed, KeyHolds(k),
         key'[k] = key[k], \A c \in Bookings : Under(c, k)' <=> Under(c, k),
         Guards(r, k)' <=> Guards(r, k),
         Guards(r, k) => reqs'[r].made = reqs[r].made
  PROVE  KeyHolds(k)'
<1>1. \A q \in Requests : q # r => reqs'[q] = reqs[q]
  BY HandlerOrder
<1>2. \A q \in Requests : /\ Guards(q, k)' <=> Guards(q, k)
                          /\ Guards(q, k) => reqs'[q].made = reqs[q].made
  BY <1>1 DEF Guards, Working
<1>3. faults > 0 => faults' > 0
  <2>1. faults \in Nat
    BY Kinds DEF Shape, Stores
  <2>2. faults' = faults \/ faults' = faults + 1
    BY DEF Handler, KeyRead, Claim, CheckHours, Quote, Insert, Count, Answer, Refuse, ModifyRead,
       Rebook, Rewrite, Crash, Fault
  <2> QED
    BY <2>1, <2>2
<1> QED
  BY <1>2, <1>3, KeyStays

\* A step that ends the guard of a key's handler.
LEMMA GuardEnds ==
  ASSUME Shape, NEW r \in Requests, NEW k, HeldBy(r, k), ~Guards(r, k)',
         \A q \in Requests : q # r => reqs'[q] = reqs[q]
  PROVE  Unheld(k)'
  BY DEF HeldBy, Unheld, Guards, Working

LEMMA HandlerKeys ==
  ASSUME Shape, Orders, NEW r \in Requests, Handler(r), NEW k \in Keys, k \notin lapsed', KeyHolds(k)
  PROVE  KeyHolds(k)'
<1>0. /\ k \notin lapsed /\ RowsStay /\ DOMAIN reqs = Requests
      /\ \A p \in Requests : p # r => reqs'[p] = reqs[p]
      /\ Stores /\ key \in [Keys -> [st : {"none", "processing", "answer"}, b : 0..NBookings]]
  BY HandlerClaims, HandlerRows, HandlerOrder DEF Shape, Stores
<1>q. PICK q : q = reqs[r] /\ (Working(r) => OrderShape(q) /\ OrderClaim(q))
  BY Kinds DEF Orders
<1>n. PICK n : reqs'[r] = n /\ \A m : Goto(r, m) => n = m
  BY Frame
<1>g. /\ Guards(r, k) <=> q # Idle /\ q.b = 0 /\ q.k = k /\ q.guarded
      /\ Guards(r, k)' <=> n # Idle /\ n.b = 0 /\ n.k = k /\ n.guarded
  BY <1>q, <1>n DEF Guards, Working
<1>u. UNCHANGED booking => \A c \in Bookings : Under(c, k)' <=> Under(c, k)
  BY DEF Under, Made
<1>m. ASSUME key'[k] = key[k], \A c \in Bookings : Under(c, k)' <=> Under(c, k),
             Guards(r, k)' <=> Guards(r, k), Guards(r, k) => n.made = q.made
      PROVE  KeyHolds(k)'
  BY <1>0, <1>q, <1>n, <1>m, KeysMove
<1>1. ASSUME NEW j \in Keys, NEW w, NEW code, KeyRead(r, j, w, code)
      PROVE  KeyHolds(k)'
  <2>1. /\ q = Idle /\ UNCHANGED <<key, booking>>
        /\ \/ n = Order(j, w, code, "claim", FALSE)
           \/ n = Order(j, w, code, "hours", FALSE)
    BY <1>1, <1>q, <1>n DEF KeyRead, Starts
  <2>2. ~n.guarded
    BY <2>1 DEF Order
  <2> QED
    BY <1>g, <1>u, <1>m, <2>1, <2>2
<1>2. CASE Claim(r)
  <2>1. /\ OrderShape(q) /\ q.op = "claim" /\ q.k \in Keys /\ q.b = 0 /\ q.made = 0 /\ ~q.guarded
    BY <1>q, <1>2 DEF Claim, At, Working, Idle, OrderClaim
  <2>2. UNCHANGED booking
    BY <1>2 DEF Claim
  <2>3. CASE /\ key[q.k].st = "none"
             /\ key' = [key EXCEPT ![q.k] = [st |-> "processing", b |-> 0]]
             /\ n = [q EXCEPT !.op = "hours", !.guarded = TRUE]
    <3>1. n # Idle /\ n.b = 0 /\ n.made = 0 /\ n.k = q.k /\ n.guarded
      BY <2>1, <2>3 DEF OrderShape, OrderFields, Idle
    <3>2. CASE k = q.k
      <4>1. Unheld(k) /\ Bears(0, k)
        BY <2>3, <3>2 DEF KeyHolds
      <4>2. HeldBy(r, k)'
        BY <1>0, <1>g, <3>1, <3>2, <4>1 DEF HeldBy, Unheld, Guards, Working
      <4>3. Bears(reqs[r].made, k)'
        BY <1>u, <1>n, <2>2, <3>1, <4>1 DEF Bears
      <4>4. key'[k].st = "processing"
        BY <1>0, <2>3, <3>2
      <4> QED
        BY <4>2, <4>3, <4>4 DEF KeyHolds
    <3>3. CASE k # q.k
      BY <1>0, <1>g, <1>u, <1>m, <2>1, <2>2, <2>3, <3>1, <3>3
    <3> QED
      BY <3>2, <3>3
  <2>4. CASE n = Idle /\ UNCHANGED key
    BY <1>g, <1>u, <1>m, <2>1, <2>2, <2>4
  <2>5. CASE q.k \in lapsed' /\ n = [q EXCEPT !.op = "hours"] /\ UNCHANGED key
    <3>1. n.k = q.k
      BY <2>1, <2>5 DEF OrderShape, OrderFields
    <3> QED
      BY <1>g, <1>u, <1>m, <2>1, <2>2, <2>5, <3>1
  <2> QED
    BY <1>2, <1>q, <1>n, <2>3, <2>4, <2>5 DEF Claim, On, Done
<1>3. CASE CheckHours(r) \/ Quote(r) \/ Count(r)
  <2>1. At(r, "hours") \/ At(r, "quote") \/ At(r, "count")
    BY <1>3 DEF CheckHours, Quote, Count
  <2>2. OrderShape(q) /\ q # Idle
    BY <1>q, <2>1 DEF At, Working, Idle
  <2>3. UNCHANGED <<key, booking>>
    BY <1>3 DEF CheckHours, Quote, Count
  <2>4. \/ \E seen : n = [q EXCEPT !.op = "quote", !.seen = seen]
        \/ \E price : n = [q EXCEPT !.op = IF q.b = 0 THEN "insert" ELSE "rewrite", !.price = price]
        \/ n = [q EXCEPT !.op = "refuse"]
        \/ n = [q EXCEPT !.op = "answer"]
    <3>1. CASE CheckHours(r)
      BY <3>1, <1>q, <1>n DEF CheckHours, On
    <3>2. CASE Quote(r)
      BY <3>2, <1>q, <1>n DEF Quote, On
    <3>3. CASE Count(r)
      BY <3>3, <1>q, <1>n DEF Count, On
    <3> QED
      BY <1>3, <3>1, <3>2, <3>3
  <2>5. n # Idle /\ n.b = q.b /\ n.k = q.k /\ n.guarded = q.guarded /\ n.made = q.made
    BY <2>2, <2>4 DEF OrderShape, OrderFields, Idle
  <2> QED
    BY <1>g, <1>u, <1>m, <2>2, <2>3, <2>5
<1>4. CASE Insert(r)
  <2>0. At(r, "insert") /\ UNCHANGED key
    BY <1>4 DEF Insert
  <2>1. OrderShape(q) /\ OrderClaim(q) /\ q # Idle /\ q.op = "insert" /\ q.b = 0 /\ q.made = 0
    BY <1>q, <2>0 DEF At, Working, Idle, OrderClaim
  <2>2. \/ \E b : /\ Inserts(r, b)
                  /\ n = [q EXCEPT !.op = IF q.code THEN "count" ELSE "answer", !.made = b]
        \/ UNCHANGED booking /\ n = [q EXCEPT !.op = "refuse"]
    BY <1>4, <1>q, <1>n DEF Insert, On, Inserts
  <2>3. CASE UNCHANGED booking /\ n = [q EXCEPT !.op = "refuse"]
    <3>1. n # Idle /\ n.b = q.b /\ n.k = q.k /\ n.guarded = q.guarded /\ n.made = q.made
      BY <2>1, <2>3 DEF OrderShape, OrderFields, Idle
    <3> QED
      BY <1>g, <1>u, <1>m, <2>0, <2>1, <2>3, <3>1
  <2>4. ASSUME NEW b, Inserts(r, b),
               n = [q EXCEPT !.op = IF q.code THEN "count" ELSE "answer", !.made = b]
        PROVE  KeyHolds(k)'
    <3>1. n # Idle /\ n.b = 0 /\ n.k = q.k /\ n.guarded = q.guarded /\ n.made = b
      BY <2>1, <2>4 DEF OrderShape, OrderFields, Idle
    <3>2. /\ b \in Bookings /\ ~Made(b) /\ Made(b)' /\ booking'[b].k = q.k
          /\ \A c \in Bookings : c # b => booking'[c] = booking[c]
      BY <1>q, <2>1, <2>4, InsertRows
    <3>3. CASE k # q.k
      <4>1. \A c \in Bookings : Under(c, k)' <=> Under(c, k)
        BY <3>2, <3>3 DEF Under, Made
      <4> QED
        BY <1>g, <1>m, <2>0, <3>1, <3>3, <4>1
    <3>4. CASE k = q.k
      <4>1. q.guarded
        BY <1>0, <2>1, <3>4 DEF OrderClaim
      <4>2. key[k].st = "processing" /\ HeldBy(r, k) /\ Bears(0, k)
        BY <1>g, <1>q, <2>1, <3>4, <4>1, GuardIs
      <4>3. HeldBy(r, k)'
        BY <1>0, <1>g, <3>1, <3>4, <4>1, <4>2 DEF HeldBy, Guards, Working
      <4>4. \A c \in Bookings : ~Under(c, k)
        BY <4>2 DEF Bears, Bookings
      <4>5. \A c \in Bookings : Under(c, k)' <=> (c = b)
        BY <3>2, <3>4, <4>4 DEF Under, Made
      <4>6. Bears(reqs[r].made, k)'
        BY <1>n, <3>1, <4>5 DEF Bears
      <4> QED
        BY <2>0, <4>2, <4>3, <4>6 DEF KeyHolds
    <3> QED
      BY <3>3, <3>4
  <2> QED
    BY <2>2, <2>3, <2>4
<1>5. CASE Answer(r)
  <2>1. /\ OrderShape(q) /\ OrderClaim(q) /\ q # Idle /\ q.op = "answer" /\ q.b = 0
        /\ q.made \in Bookings
    BY <1>q, <1>5 DEF Answer, At, Working, Idle, OrderClaim
  <2>2. n = Idle /\ UNCHANGED booking
    BY <1>5, <1>n DEF Answer, Done
  <2>3. CASE q.guarded /\ q.k = k
    <3>1. Unheld(k)' /\ Bears(q.made, k)'
      <4>1. HeldBy(r, k) /\ Bears(q.made, k)
        BY <1>g, <1>q, <2>1, <2>3, GuardIs
      <4> QED
        BY <1>0, <1>g, <1>u, <2>2, <4>1, GuardEnds DEF Bears
    <3>2. key' = [key EXCEPT ![k] = [st |-> "answer", b |-> q.made]]
      BY <1>5, <1>q, <2>3 DEF Answer
    <3>3. key'[k].st = "answer" /\ key'[k].b = q.made
      BY <1>0, <3>2
    <3> QED
      BY <2>1, <3>1, <3>3 DEF KeyHolds
  <2>4. CASE ~(q.guarded /\ q.k = k)
    <3>1. key'[k] = key[k]
      BY <1>0, <1>5, <1>q, <2>4 DEF Answer
    <3> QED
      BY <1>g, <1>u, <1>m, <2>2, <2>4, <3>1
  <2> QED
    BY <2>3, <2>4
<1>6. CASE Refuse(r)
  <2>1. OrderShape(q) /\ OrderClaim(q) /\ q # Idle /\ q.op = "refuse"
    BY <1>q, <1>6 DEF Refuse, At, Working, Idle
  <2>2. n = Idle /\ UNCHANGED booking
    BY <1>6, <1>n DEF Refuse, Done
  <2>3. CASE q.guarded /\ q.k = k
    <3>0. q.b = 0 /\ q.made = 0
      BY <1>q, <2>1, <2>3 DEF OrderClaim
    <3>1. Unheld(k)' /\ Bears(0, k)'
      <4>1. HeldBy(r, k) /\ Bears(0, k)
        BY <1>g, <1>q, <2>1, <2>3, <3>0, GuardIs
      <4> QED
        BY <1>0, <1>g, <1>u, <2>2, <4>1, GuardEnds DEF Bears
    <3>2. key' = [key EXCEPT ![k] = [st |-> "none", b |-> 0]]
      BY <1>6, <1>q, <2>3 DEF Refuse, NoEntry
    <3>3. key'[k].st = "none"
      BY <1>0, <3>2
    <3> QED
      BY <3>1, <3>3 DEF KeyHolds
  <2>4. CASE ~(q.guarded /\ q.k = k)
    <3>1. key'[k] = key[k]
      BY <1>0, <1>6, <1>q, <2>4 DEF Refuse
    <3> QED
      BY <1>g, <1>u, <1>m, <2>2, <2>4, <3>1
  <2> QED
    BY <2>3, <2>4
<1>7. ASSUME NEW b, NEW w, ModifyRead(r, b, w.to) \/ Rebook(r, b, w)
      PROVE  KeyHolds(k)'
  <2>1. q = Idle /\ UNCHANGED <<key, booking>>
    BY <1>7, <1>q DEF ModifyRead, Rebook, Starts
  <2>2. \/ \E j, v : n = [Order(j, v, FALSE, "hours", FALSE) EXCEPT !.b = b]
        \/ n = Order(NoKey, w, FALSE, "hours", FALSE)
    BY <1>7, <1>n DEF ModifyRead, Rebook
  <2>3. ~n.guarded
    <3>1. CASE n = Order(NoKey, w, FALSE, "hours", FALSE)
      BY <3>1 DEF Order
    <3>2. ASSUME NEW o, o.guarded = FALSE, "guarded" \in DOMAIN o, n = [o EXCEPT !.b = b]
          PROVE  ~n.guarded
      BY <3>2
    <3>3. \A j, v : LET o == Order(j, v, FALSE, "hours", FALSE)
                   IN  o.guarded = FALSE /\ "guarded" \in DOMAIN o
      BY DEF Order
    <3> QED
      BY <2>2, <3>1, <3>2, <3>3
  <2> QED
    BY <1>g, <1>u, <1>m, <2>1, <2>3
<1>8. CASE Rewrite(r)
  <2>1. q # Idle /\ q.b # 0
    BY <1>q, <1>8 DEF Rewrite, At, Working, Idle, OrderClaim
  <2>2. n = Idle /\ UNCHANGED key
    BY <1>8, <1>n DEF Rewrite, Done
  <2>3. \A c \in Bookings : Under(c, k)' <=> Under(c, k)
    BY <1>8, RewriteRows, BookingsSame
  <2> QED
    BY <1>g, <1>m, <2>1, <2>2, <2>3
<1>9. CASE Crash(r)
  <2>1. q # Idle /\ OrderShape(q) /\ n = Idle /\ UNCHANGED <<key, booking>> /\ faults' # 0
    BY <1>9, <1>q, <1>n, FaultsBounded DEF Crash, Working, Done
  <2>2. CASE Guards(r, k)
    <3>1. key[k].st = "processing" /\ HeldBy(r, k) /\ Bears(q.made, k)
      BY <1>q, <2>2, GuardIs
    <3>2. Unheld(k)' /\ Bears(q.made, k)'
      BY <1>0, <1>g, <1>u, <2>1, <3>1, GuardEnds DEF Bears
    <3>3. faults' > 0
      BY <1>9, FaultsBounded, WorkloadAssumption DEF Crash
    <3> QED
      BY <2>1, <3>1, <3>2, <3>3 DEF KeyHolds, OrderShape
  <2>3. CASE ~Guards(r, k)
    BY <1>g, <1>u, <1>m, <2>1, <2>3
  <2> QED
    BY <2>2, <2>3
<1> QED
  BY <1>1, <1>2, <1>3, <1>4, <1>5, <1>6, <1>7, <1>8, <1>9 DEF Handler

LEMMA OtherKeys ==
  ASSUME Shape, [Next]_vars, \A r \in Requests : ~Handler(r), NEW k \in Keys, k \notin lapsed', KeyHolds(k)
  PROVE  KeyHolds(k)'
<1>0. /\ \A c \in Bookings : Under(c, k)' <=> Under(c, k)
      /\ \A q \in Requests : /\ Guards(q, k)' <=> Guards(q, k)
                             /\ Guards(q, k) => reqs'[q].made = reqs[q].made
      /\ key \in [Keys -> [st : {"none", "processing", "answer"}, b : 0..NBookings]]
  BY OtherSteps, BookingsSame DEF Guards, Working, Shape, Stores
<1>1. faults > 0 => faults' > 0
  BY OtherSteps, WorkloadAssumption DEF Stores
<1>2. ASSUME key'[k] = key[k] PROVE KeyHolds(k)'
  BY <1>0, <1>1, <1>2, KeyStays
<1>3. ASSUME NEW j \in Keys, SentinelExpires(j)
      PROVE  KeyHolds(k)'
  <2>1. CASE j = k
    <3>1. (\A r \in Requests : ~Guards(r, k)) /\ \A b \in Bookings : ~Under(b, k)
      BY <1>3, <2>1 DEF SentinelExpires
    <3>2. Unheld(k)' /\ Bears(0, k)'
      BY <1>0, <3>1 DEF Unheld, Bears, Bookings
    <3>3. key'[k].st = "none"
      BY <1>0, <1>3, <2>1 DEF SentinelExpires, NoEntry
    <3> QED
      BY <3>2, <3>3 DEF KeyHolds
  <2>2. CASE j # k
    BY <1>0, <1>2, <1>3, <2>2 DEF SentinelExpires
  <2> QED
    BY <2>1, <2>2
<1>4. ASSUME NEW j \in Keys, AnswerExpires(j)
      PROVE  KeyHolds(k)'
  BY <1>0, <1>2, <1>4 DEF AnswerExpires
<1>5. ASSUME UNCHANGED key PROVE KeyHolds(k)'
  BY <1>2, <1>5
<1>6. ASSUME NEW b, NEW by, NEW policy, NEW left, Cancel(b, by, policy, left)
      PROVE  KeyHolds(k)'
  BY <1>5, <1>6 DEF Cancel
<1>7. CASE Edits
  BY <1>5, <1>7 DEF Edits, SetSchedule, AddBlackout, RemoveBlackout, SetPricing, UpdateConfig,
     UpdatePromo, CreatePromoCode, SwitchPromo, CacheExpires
<1> QED
  BY <1>3, <1>4, <1>5, <1>6, <1>7 DEF Next, vars

LEMMA EntryStays ==
  ASSUME RowsStay, NEW k, EntryHolds(k), key'[k] = key[k]
  PROVE  EntryHolds(k)'
BY DEF EntryHolds, RowsStay, Under

LEMMA NextEntries ==
  ASSUME Shape, Orders, NEW k \in Keys, EntryHolds(k), [Next]_vars
  PROVE  EntryHolds(k)'
<1>0. key \in [Keys -> [st : {"none", "processing", "answer"}, b : 0..NBookings]]
  BY DEF Shape, Stores
<1>1. ASSUME NEW r \in Requests, Handler(r)
      PROVE  EntryHolds(k)'
  <2>1. RowsStay
    BY <1>1, HandlerRows
  <2>2. PICK q : q = reqs[r] /\ (Working(r) => OrderShape(q) /\ OrderClaim(q))
    BY Kinds DEF Orders
  <2>3. CASE key'[k] # key[k]
    <3>1. CASE Claim(r)
      <4>1. key'[k].st = "processing" /\ key'[k].b = 0
        BY <1>0, <2>3, <3>1 DEF Claim
      <4> QED
        BY <4>1 DEF EntryHolds
    <3>2. CASE Answer(r)
      <4>1. /\ OrderClaim(q) /\ q.op = "answer"
        BY <2>2, <3>2 DEF Answer, At, Working, Idle
      <4>2. q.made \in Bookings /\ Made(q.made)' /\ booking'[q.made].k = q.k
        BY <2>1, <4>1 DEF OrderClaim, RowsStay
      <4>3. key'[k].st = "answer" /\ key'[k].b = q.made /\ k = q.k
        BY <1>0, <2>2, <2>3, <3>2 DEF Answer
      <4>4. PICK b \in Bookings : b = q.made /\ Made(b)' /\ booking'[b].k = k
        BY <4>2, <4>3 DEF Made
      <4>5. key'[k].b \in Bookings /\ booking'[key'[k].b].st # "none" /\ booking'[key'[k].b].k = k
        BY <4>3, <4>4 DEF Made
      <4> QED
        BY <4>3, <4>5 DEF EntryHolds, Under, Made
    <3>3. CASE Refuse(r)
      <4>1. key'[k].st = "none" /\ key'[k].b = 0
        BY <1>0, <2>3, <3>3 DEF Refuse, NoEntry
      <4> QED
        BY <4>1 DEF EntryHolds
    <3>4. CASE UNCHANGED key
      BY <2>3, <3>4
    <3> QED
      BY <1>1, <3>1, <3>2, <3>3, <3>4 DEF Handler, KeyRead, CheckHours, Quote, Insert, Count,
         ModifyRead, Rebook, Rewrite, Crash
  <2> QED
    BY <2>1, <2>3, EntryStays
<1>2. CASE \A r \in Requests : ~Handler(r)
  <2>1. key'[k] = key[k] \/ key'[k] = [st |-> "none", b |-> 0]
    BY <1>0, <1>2 DEF Next, vars, Cancel, Edits, SetSchedule, AddBlackout, RemoveBlackout,
       SetPricing, UpdateConfig, UpdatePromo, CreatePromoCode, SwitchPromo, CacheExpires,
       SentinelExpires, AnswerExpires, NoEntry
  <2>2. RowsStay
    BY <1>2, OtherSteps
  <2> QED
    BY <2>1, <2>2, EntryStays DEF EntryHolds
<1> QED
  BY <1>1, <1>2

LEMMA NextKeys ==
  ASSUME Shape, Orders, KeysHold, [Next]_vars
  PROVE  KeysHold'
<1>1. ASSUME NEW k \in Keys, k \notin lapsed'
      PROVE  KeyHolds(k)'
  <2>1. lapsed \subseteq lapsed'
    BY HandlerClaims, OtherSteps
  <2> QED
    BY <1>1, <2>1, HandlerKeys, OtherKeys DEF KeysHold
<1>2. \A k \in Keys : EntryHolds(k)'
  BY NextEntries DEF KeysHold
<1> QED
  BY <1>1, <1>2 DEF KeysHold

-----------------------------------------------------------------------------
\* Uses of the promo code.

LEMMA ChangeOne ==
  ASSUME NEW S, IsFiniteSet(S), NEW T, NEW x, \A y : y # x => (y \in T <=> y \in S)
  PROVE  /\ IsFiniteSet(T) /\ Cardinality(S) \in Nat /\ Cardinality(T) \in Nat
         /\ (x \in S <=> x \in T) => T = S
         /\ x \in S /\ x \notin T => Cardinality(T) = Cardinality(S) - 1
         /\ x \notin S /\ x \in T => Cardinality(T) = Cardinality(S) + 1
<1>1. CASE x \in S <=> x \in T
  <2>1. T = S
    BY <1>1
  <2> QED
    BY <1>1, <2>1, FS_CardinalityType
<1>2. CASE x \in S /\ x \notin T
  <2>1. T = S \ {x}
    BY <1>2
  <2> QED
    BY <1>2, <2>1, FS_RemoveElement, FS_CardinalityType
<1>3. CASE x \notin S /\ x \in T
  <2>1. T = S \cup {x}
    BY <1>3
  <2> QED
    BY <1>3, <2>1, FS_AddElement, FS_CardinalityType
<1> QED
  BY <1>1, <1>2, <1>3

LEMMA Sizes ==
  ASSUME Shape
  PROVE  /\ IsFiniteSet(ToCount) /\ IsFiniteSet(Admitted) /\ IsFiniteSet(WithCode)
         /\ Cardinality(ToCount) \in Nat /\ Cardinality(Admitted) \in Nat
         /\ Cardinality(load.crew) \in Nat /\ Cardinality(Admitted) <= Cardinality(load.crew)
         /\ Cardinality(WithCode) \in 0..NBookings
<1>1. IsFiniteSet(Requests) /\ load.crew \subseteq Requests /\ NBookings \in Nat
  BY Kinds, WorkloadAssumption
<1>2. ToCount \subseteq Requests /\ Admitted \subseteq load.crew
  <2>1. \A r \in Requests : reqs[r].op \in {"insert", "count"} => r \in load.crew
    BY Kinds DEF Steps
  <2> QED
    BY <2>1 DEF ToCount, Admitted
<1>3. IsFiniteSet(load.crew) /\ IsFiniteSet(ToCount) /\ IsFiniteSet(Admitted)
  BY <1>1, <1>2, FS_Subset
<1>4. IsFiniteSet(Bookings) /\ Cardinality(Bookings) = NBookings
  <2>1. NBookings >= 1 => Cardinality(1..NBookings) = NBookings - 1 + 1
    BY <1>1, FS_Interval
  <2>2. NBookings < 1 => Cardinality(1..NBookings) = 0
    BY <1>1, FS_Interval
  <2> QED
    BY <1>1, <2>1, <2>2, FS_Interval DEF Bookings
<1>5. IsFiniteSet(WithCode) /\ Cardinality(WithCode) <= NBookings
  BY <1>4, FS_Subset DEF WithCode
<1> QED
  BY <1>1, <1>2, <1>3, <1>5, FS_Subset, FS_CardinalityType

LEMMA HandlerCounts ==
  ASSUME Shape, Orders, Counted, NEW r \in Requests, Handler(r), Shape'
  PROVE  Counted'
<1>0. /\ load' = load /\ DOMAIN reqs = Requests /\ RowsStay
      /\ \A p \in Requests : p # r => reqs'[p] = reqs[p]
      /\ promo.used \in Nat /\ promo.terms.limit \in Nat
      /\ promo'.used \in Nat /\ promo'.terms.limit \in Nat
  BY HandlerOrder, HandlerRows, WorkloadAssumption DEF Shape, Stores, Promos
<1>q. PICK q : q = reqs[r] /\ (Working(r) => OrderShape(q) /\ OrderClaim(q))
  BY Kinds DEF Orders
<1>n. PICK n : reqs'[r] = n /\ \A m : Goto(r, m) => n = m
  BY Frame
<1>s. /\ IsFiniteSet(ToCount) /\ IsFiniteSet(Admitted) /\ IsFiniteSet(WithCode)
      /\ Cardinality(ToCount) \in Nat /\ Cardinality(Admitted) \in Nat
      /\ Cardinality(WithCode) \in Nat /\ Cardinality(load.crew) \in Nat
  BY Sizes
<1>s2. Cardinality(Admitted') \in Nat /\ Cardinality(Admitted') <= Cardinality(load.crew)
  <2>1. (Cardinality(Admitted) \in Nat /\ Cardinality(Admitted) <= Cardinality(load.crew))'
    BY Sizes, PTL
  <2> QED
    BY <1>0, <2>1
<1>t. /\ \A p : p # r => (p \in ToCount' <=> p \in ToCount)
      /\ \A p : p # r => (p \in Admitted' <=> p \in Admitted)
      /\ r \in ToCount <=> q.op = "count"
      /\ r \in ToCount' <=> n.op = "count"
      /\ r \in Admitted <=> q.op \in {"insert", "count"} /\ q.code
      /\ r \in Admitted' <=> n.op \in {"insert", "count"} /\ n.code
  BY <1>0, <1>q, <1>n DEF ToCount, Admitted, At
<1>f. faults' = 0 => faults = 0
  <2>1. faults \in Nat
    BY WorkloadAssumption DEF Shape, Stores
  <2>2. faults' = faults \/ faults' = faults + 1
    BY DEF Handler, KeyRead, Claim, CheckHours, Quote, Insert, Count, Answer, Refuse, ModifyRead,
       Rebook, Rewrite, Crash, Fault
  <2> QED
    BY <2>1, <2>2
<1>w. (\A c \in Bookings : ~Made(c) => booking'[c] = booking[c]) => WithCode' = WithCode
  BY <1>0 DEF RowsStay, WithCode, Made
<1>1. ASSUME UNCHANGED promo, WithCode' = WithCode,
             q.op # "count" /\ n.op # "count",
             r \in Admitted' => r \in Admitted
      PROVE  Counted'
  <2>1. ToCount' = ToCount
    BY <1>t, <1>1
  <2>2. Admitted' = Admitted \/ Cardinality(Admitted') = Cardinality(Admitted) - 1
    BY <1>t, <1>s, <1>1, ChangeOne
  <2>3. Admitted' \subseteq Admitted
    BY <1>t, <1>1
  <2> QED
    BY <1>0, <1>f, <1>s, <1>1, <2>1, <2>2, <2>3 DEF Counted
<1>2. ASSUME NEW j \in Keys, NEW w, NEW code, KeyRead(r, j, w, code)
      PROVE  Counted'
  <2>1. /\ q = Idle /\ UNCHANGED <<promo, booking>>
        /\ \/ n = Order(j, w, code, "claim", FALSE)
           \/ n = Order(j, w, code, "hours", FALSE)
    BY <1>2, <1>q, <1>n DEF KeyRead, Starts
  <2>2. n.op \in {"claim", "hours"} /\ q.op = "idle"
    BY <2>1 DEF Order, Idle
  <2> QED
    BY <1>t, <1>w, <1>1, <2>1, <2>2
<1>3. CASE Claim(r) \/ CheckHours(r)
  <2>1. At(r, "claim") \/ At(r, "hours")
    BY <1>3 DEF Claim, CheckHours
  <2>2. OrderShape(q) /\ q.op \in {"claim", "hours"}
    BY <1>q, <2>1 DEF At, Working, Idle
  <2>3. UNCHANGED <<promo, booking>>
    BY <1>3 DEF Claim, CheckHours
  <2>4. \/ n = [q EXCEPT !.op = "hours", !.guarded = TRUE]
        \/ n = [q EXCEPT !.op = "hours"]
        \/ \E seen : n = [q EXCEPT !.op = "quote", !.seen = seen]
        \/ n = [q EXCEPT !.op = "refuse"]
        \/ n = Idle
    <3>1. CASE Claim(r)
      BY <3>1, <1>q, <1>n DEF Claim, On, Done
    <3>2. CASE CheckHours(r)
      BY <3>2, <1>q, <1>n DEF CheckHours, On
    <3> QED
      BY <1>3, <3>1, <3>2
  <2>5. n.op \in {"idle", "hours", "quote", "refuse"}
    <3>1. CASE n = Idle
      BY <3>1 DEF Idle
    <3>2. "op" \in DOMAIN q
      BY <2>2 DEF OrderShape, OrderFields
    <3> QED
      BY <2>4, <3>1, <3>2
  <2> QED
    BY <1>t, <1>w, <1>1, <2>2, <2>3, <2>5
<1>4. CASE Quote(r)
  <2>0. At(r, "quote") /\ UNCHANGED <<promo, booking>>
    BY <1>4 DEF Quote
  <2>1. OrderShape(q) /\ q.op = "quote"
    BY <1>q, <2>0 DEF At, Working, Idle
  <2>2. \/ /\ q.code => promo.there /\ HasUses(promo)
           /\ \E price : n = [q EXCEPT !.op = IF q.b = 0 THEN "insert" ELSE "rewrite", !.price = price]
        \/ n = [q EXCEPT !.op = "refuse"]
    BY <1>4, <1>q, <1>n DEF Quote, On
  <2>3. CASE n = [q EXCEPT !.op = "refuse"]
    <3>1. n.op = "refuse"
      BY <2>1, <2>3 DEF OrderShape, OrderFields
    <3> QED
      BY <1>t, <1>w, <1>1, <2>0, <2>1, <3>1
  <2>4. ASSUME q.code => promo.there /\ HasUses(promo),
               NEW price, n = [q EXCEPT !.op = IF q.b = 0 THEN "insert" ELSE "rewrite", !.price = price]
        PROVE  Counted'
    <3>1. n.op \in {"insert", "rewrite"} /\ n.code = q.code
      BY <2>1, <2>4 DEF OrderShape, OrderFields
    <3>2. CASE r \in Admitted'
      <4>1. promo.there /\ (promo.terms.limit > 0 => promo.used < promo.terms.limit)
        BY <1>t, <2>4, <3>1, <3>2 DEF HasUses
      <4>2. ToCount' = ToCount /\ WithCode' = WithCode
        BY <1>t, <1>w, <2>0, <2>1, <3>1
      <4>3. promo.terms.limit > 0
              => promo.used + Cardinality(Admitted') < promo.terms.limit + Cardinality(load.crew)
        BY <1>0, <1>s, <1>s2, <4>1
      <4> QED
        BY <1>0, <1>f, <2>0, <4>1, <4>2, <4>3 DEF Counted
    <3>3. CASE r \notin Admitted'
      BY <1>t, <1>w, <1>1, <2>0, <2>1, <3>1, <3>3
    <3> QED
      BY <3>2, <3>3
  <2> QED
    BY <2>2, <2>3, <2>4
<1>5. CASE Insert(r)
  <2>0. At(r, "insert") /\ UNCHANGED <<promo, faults>>
    BY <1>5 DEF Insert
  <2>1. OrderShape(q) /\ OrderClaim(q) /\ q.op = "insert"
    BY <1>q, <2>0 DEF At, Working, Idle
  <2>2. \/ \E b : /\ Inserts(r, b)
                  /\ n = [q EXCEPT !.op = IF q.code THEN "count" ELSE "answer", !.made = b]
        \/ UNCHANGED booking /\ n = [q EXCEPT !.op = "refuse"]
    BY <1>5, <1>q, <1>n DEF Insert, On, Inserts
  <2>3. CASE UNCHANGED booking /\ n = [q EXCEPT !.op = "refuse"]
    <3>1. n.op = "refuse"
      BY <2>1, <2>3 DEF OrderShape, OrderFields
    <3> QED
      BY <1>t, <1>w, <1>1, <2>0, <2>1, <2>3, <3>1
  <2>4. ASSUME NEW b, Inserts(r, b),
               n = [q EXCEPT !.op = IF q.code THEN "count" ELSE "answer", !.made = b]
        PROVE  Counted'
    <3>1. n.op = (IF q.code THEN "count" ELSE "answer") /\ n.code = q.code
      BY <2>1, <2>4 DEF OrderShape, OrderFields
    <3>2. /\ b \in Bookings /\ ~Made(b) /\ Made(b)' /\ booking'[b].code = q.code
          /\ \A c \in Bookings : c # b => booking'[c] = booking[c]
      BY <1>q, <2>1, <2>4, InsertRows
    <3>3. /\ \A c : c # b => (c \in WithCode' <=> c \in WithCode)
          /\ b \notin WithCode /\ (b \in WithCode' <=> q.code)
      BY <3>2 DEF WithCode, Made
    <3>4. CASE q.code
      <4>1. Cardinality(WithCode') = Cardinality(WithCode) + 1
        BY <1>s, <3>3, <3>4, ChangeOne
      <4>2. Cardinality(ToCount') = Cardinality(ToCount) + 1
        BY <1>t, <1>s, <2>1, <3>1, <3>4, ChangeOne
      <4>3. Admitted' = Admitted /\ r \in Admitted
        BY <1>t, <2>1, <3>1, <3>4
      <4> QED
        BY <1>0, <1>s, <2>0, <4>1, <4>2, <4>3 DEF Counted
    <3>5. CASE ~q.code
      <4>1. WithCode' = WithCode
        BY <3>3, <3>5
      <4> QED
        BY <1>t, <1>1, <2>0, <2>1, <3>1, <3>5, <4>1
    <3> QED
      BY <3>4, <3>5
  <2> QED
    BY <2>2, <2>3, <2>4
<1>6. CASE Count(r)
  <2>1. OrderShape(q) /\ OrderClaim(q) /\ q.op = "count" /\ q.code
    BY <1>6, <1>q DEF Count, At, Working, Idle, OrderClaim
  <2>2. n = [q EXCEPT !.op = "answer"] /\ UNCHANGED booking
    BY <1>6, <1>q, <1>n DEF Count, On
  <2>3. n.op = "answer"
    BY <2>1, <2>2 DEF OrderShape, OrderFields
  <2>4. /\ Cardinality(ToCount') = Cardinality(ToCount) - 1
        /\ Cardinality(Admitted') = Cardinality(Admitted) - 1
        /\ Admitted # {}
    BY <1>t, <1>s, <2>1, <2>3, ChangeOne
  <2>5. WithCode' = WithCode
    BY <1>w, <2>2
  <2>6. /\ promo'.terms = promo.terms /\ promo'.there = promo.there
        /\ \/ promo'.used = promo.used + 1
           \/ promo'.used = promo.used /\ faults' # 0
    <3>1. promo \in [there : BOOLEAN, terms : load.promos, active : BOOLEAN, used : Nat]
      BY DEF Shape, Stores
    <3>2. \/ promo' = [promo EXCEPT !.used = @ + 1]
          \/ UNCHANGED promo /\ Fault
      BY <1>6 DEF Count
    <3>3. Fault => faults' # 0
      BY FaultsBounded
    <3>4. CASE promo' = [promo EXCEPT !.used = @ + 1]
      BY <3>1, <3>4
    <3> QED
      BY <3>2, <3>3, <3>4
  <2> QED
    BY <1>0, <1>f, <1>s, <2>4, <2>5, <2>6 DEF Counted
<1>7. CASE Answer(r) \/ Refuse(r)
  <2>1. At(r, "answer") \/ At(r, "refuse")
    BY <1>7 DEF Answer, Refuse
  <2>2. q.op \in {"answer", "refuse"} /\ n = Idle /\ UNCHANGED <<promo, booking>>
    BY <1>7, <1>q, <1>n, <2>1 DEF Answer, Refuse, At, Done
  <2> QED
    BY <1>t, <1>w, <1>1, <2>2 DEF Idle
<1>8. ASSUME NEW b, NEW w, ModifyRead(r, b, w.to) \/ Rebook(r, b, w)
      PROVE  Counted'
  <2>1. q = Idle /\ UNCHANGED <<promo, booking>>
    BY <1>8, <1>q DEF ModifyRead, Rebook, Starts
  <2>2. n.op = "hours"
    <3>1. CASE Rebook(r, b, w)
      BY <1>n, <3>1 DEF Rebook, Order
    <3>2. CASE ModifyRead(r, b, w.to)
      <4>1. PICK o : /\ o = Order(booking[b].k, [booking[b].w EXCEPT !.to = w.to], FALSE, "hours", FALSE)
                     /\ n = [o EXCEPT !.b = b]
        BY <1>n, <3>2 DEF ModifyRead
      <4> QED
        BY <4>1 DEF Order
    <3> QED
      BY <1>8, <3>1, <3>2
  <2> QED
    BY <1>t, <1>w, <1>1, <2>1, <2>2 DEF Idle
<1>9. CASE Rewrite(r)
  <2>1. q.op = "rewrite" /\ n = Idle /\ UNCHANGED promo
    BY <1>9, <1>q, <1>n DEF Rewrite, At, Done
  <2>2. WithCode' = WithCode
    BY <1>9, <1>w, RewriteRows
  <2> QED
    BY <1>t, <1>1, <2>1, <2>2 DEF Idle
<1>10. CASE Crash(r)
  <2>1. n = Idle /\ UNCHANGED <<promo, booking>> /\ faults' # 0
    BY <1>10, <1>n, FaultsBounded DEF Crash, Done
  <2>2. WithCode' = WithCode
    BY <1>w, <2>1
  <2>3. /\ Cardinality(ToCount') \in {Cardinality(ToCount), Cardinality(ToCount) - 1}
        /\ Cardinality(Admitted') \in {Cardinality(Admitted), Cardinality(Admitted) - 1}
        /\ Admitted' \subseteq Admitted
    BY <1>t, <1>s, <2>1, ChangeOne DEF Idle
  <2> QED
    BY <1>0, <1>s, <2>1, <2>2, <2>3 DEF Counted
<1> QED
  BY <1>2, <1>3, <1>4, <1>5, <1>6, <1>7, <1>8, <1>9, <1>10 DEF Handler

LEMMA NextCounts ==
  ASSUME Shape, Orders, Counted, [Next]_vars, Shape'
  PROVE  Counted'
<1>1. CASE \A r \in Requests : ~Handler(r)
  <2>1. /\ UNCHANGED <<load, reqs>> /\ RowsStay
        /\ \A c \in Bookings : ~Made(c) => booking'[c] = booking[c]
        /\ faults' = 0 => faults = 0
    BY <1>1, OtherSteps
  <2>2. ToCount' = ToCount /\ Admitted' = Admitted /\ WithCode' = WithCode
    BY <2>1 DEF ToCount, Admitted, WithCode, RowsStay, Made, At
  <2>3. promo \in [there : BOOLEAN, terms : load.promos, active : BOOLEAN, used : Nat]
    BY DEF Shape, Stores
  <2>4. CASE UNCHANGED promo
    BY <2>1, <2>2, <2>4 DEF Counted
  <2>5. CASE promo' = [promo EXCEPT !.active = ~promo.active]
    <3>1. promo'.terms = promo.terms /\ promo'.there = promo.there /\ promo'.used = promo.used
      BY <2>3, <2>5
    <3> QED
      BY <2>1, <2>2, <3>1 DEF Counted
  <2>6. ASSUME NEW terms \in load.promos, UpdatePromo(terms)
        PROVE  Counted'
    <3>1. promo'.there = promo.there /\ promo'.used = promo.used /\ "limit" \in load.ops
      BY <2>3, <2>6 DEF UpdatePromo
    <3> QED
      BY <2>1, <2>2, <3>1 DEF Counted
  <2>7. ASSUME NEW terms \in load.promos, CreatePromoCode(terms)
        PROVE  Counted'
    <3>1. /\ promo'.there = TRUE /\ promo'.used = 0 /\ promo'.terms = terms /\ terms.limit \in Nat
          /\ promo.used = 0 /\ WithCode = {} /\ Admitted = {}
      BY <2>7, WorkloadAssumption DEF CreatePromoCode, Counted, Shape, Stores, Promos
    <3>2. Cardinality({}) = 0 /\ Cardinality(load.crew) \in Nat /\ Cardinality(ToCount) \in Nat
      BY FS_EmptySet, Sizes
    <3> QED
      BY <2>1, <2>2, <3>1, <3>2 DEF Counted
  <2> QED
    BY <1>1, <2>4, <2>5, <2>6, <2>7 DEF Next, vars, Cancel, Edits, SetSchedule, AddBlackout,
       RemoveBlackout, SetPricing, UpdateConfig, SwitchPromo, CacheExpires, SentinelExpires,
       AnswerExpires
<1> QED
  BY <1>1, HandlerCounts

-----------------------------------------------------------------------------
(***************************************************************************)
(* Prices.                                                                 *)
(***************************************************************************)
LEMMA NatTimes ==
  ASSUME NEW a \in Nat, NEW b \in Nat
  PROVE  a * b \in Nat
  OBVIOUS

\* A quotient times its divisor.
LEMMA Quotient ==
  ASSUME NEW n \in Int, NEW d \in Nat, d > 0
  PROVE  /\ n \div d \in Int /\ (n \div d) * d <= n /\ n < (n \div d) * d + d
         /\ n >= 0 => n \div d \in Nat
<1>1. /\ n \div d \in Int /\ n % d \in Int /\ 0 <= n % d /\ n % d < d
      /\ n = (n \div d) * d + (n % d)
  OBVIOUS
<1>2. n >= 0 => n \div d >= 0
  OBVIOUS
<1> QED
  BY <1>1, <1>2

\* Rounding is off by no more than a half either way.
LEMMA RoundNear ==
  ASSUME NEW n \in Int, NEW d \in Nat, d > 1
  PROVE  /\ Round(n, d) \in Int
         /\ n - d <= Round(n, d) * d /\ Round(n, d) * d <= n + d \div 2
         /\ n >= 0 => Round(n, d) \in Nat
<1>1. d \div 2 \in Nat /\ d \div 2 < d /\ n + d \div 2 \in Int
  OBVIOUS
<1> QED
  BY <1>1, Quotient DEF Round

\* The same of what is not negative.
LEMMA RoundNat ==
  ASSUME NEW n \in Nat, NEW d \in Nat, d > 1
  PROVE  /\ Round(n, d) \in Nat
         /\ n - d <= Round(n, d) * d /\ Round(n, d) * d <= n + d \div 2
         /\ Round(n, d) * d <= n + d
<1>1. n \in Int /\ n >= 0
  OBVIOUS
<1>2. /\ Round(n, d) \in Nat
      /\ n - d <= Round(n, d) * d /\ Round(n, d) * d <= n + d \div 2
  BY <1>1, RoundNear
<1>3. d \div 2 \in Nat /\ d \div 2 <= d
  OBVIOUS
<1>4. PICK q \in Nat, x \in Nat : q = Round(n, d) /\ x = q * d
  BY <1>2, NatTimes
<1> QED
  BY <1>2, <1>3, <1>4

LEMMA Scale ==
  ASSUME NEW a \in Int, NEW b \in Int, NEW c \in Int
  PROVE  /\ (a + b) * c = a * c + b * c /\ (a - b) * c = a * c - b * c
         /\ a * (b + c) = a * b + a * c /\ a * (b - c) = a * b - a * c
         /\ a * b \in Int /\ a * c \in Int /\ b * c \in Int /\ a * b = b * a
  OBVIOUS

LEMMA Grows ==
  ASSUME NEW a \in Int, NEW b \in Int, NEW c \in Nat, a <= b
  PROVE  c * a <= c * b /\ a * c <= b * c
<1>1. b - a \in Nat
  OBVIOUS
<1>2. c * (b - a) >= 0
  BY <1>1
<1> QED
  BY <1>2, Scale

\* A sum of sums.
LEMMA SumPlus ==
  ASSUME NEW f, NEW g, NEW h, NEW S, IsFiniteSet(S),
         \A x \in S : f[x] \in Int /\ g[x] \in Int /\ h[x] = f[x] + g[x]
  PROVE  SumFunctionOnSet(h, S) = SumFunctionOnSet(f, S) + SumFunctionOnSet(g, S)
<1> DEFINE Good(T) == SumFunctionOnSet(h, T) = SumFunctionOnSet(f, T) + SumFunctionOnSet(g, T)
           Bad == {n \in Nat : \E T \in SUBSET S : Cardinality(T) = n /\ ~Good(T)}
<1>0. \A T \in SUBSET S : IsFiniteSet(T) /\ Cardinality(T) \in Nat
  BY FS_Subset, FS_CardinalityType
<1>1. SUFFICES ASSUME Bad # {} PROVE FALSE
  BY <1>0
<1>2. PICK n \in Bad : \A m \in Bad : n <= m
  BY <1>1, LeastNatural
<1>3. PICK T \in SUBSET S : Cardinality(T) = n /\ ~Good(T)
  BY <1>2
<1>4. T # {}
  <2>1. Good({})
    BY SumEmpty
  <2> QED
    BY <1>3, <2>1
<1>5. PICK U \in SUBSET S : U = T \ {Picked(T)}
  BY <1>3
<1>6. Cardinality(U) \in Nat /\ Cardinality(U) < n
  BY <1>0, <1>3, <1>4, <1>5, PickedIsIn, OneLess
<1>7. Good(U)
  BY <1>2, <1>6
<1>8. /\ SumFunctionOnSet(f, T) = f[Picked(T)] + SumFunctionOnSet(f, U)
      /\ SumFunctionOnSet(g, T) = g[Picked(T)] + SumFunctionOnSet(g, U)
      /\ SumFunctionOnSet(h, T) = h[Picked(T)] + SumFunctionOnSet(h, U)
  BY <1>0, <1>4, <1>5, SumPicked
<1>9. Picked(T) \in S
  BY <1>4, PickedIsIn
<1>10. /\ SumFunctionOnSet(f, U) \in Int /\ SumFunctionOnSet(g, U) \in Int
  BY <1>0, SumType
<1> QED
  BY <1>3, <1>7, <1>8, <1>9, <1>10

\* A sum of which each part, times c, is near another's.
LEMMA SumNear ==
  ASSUME NEW f, NEW g, NEW S, IsFiniteSet(S), NEW c \in Nat, NEW e \in Nat,
         \A x \in S : /\ f[x] \in Int /\ g[x] \in Int
                      /\ g[x] - e <= f[x] * c /\ f[x] * c <= g[x] + e
  PROVE  LET F == SumFunctionOnSet(f, S)
             G == SumFunctionOnSet(g, S)
         IN  /\ G - e * Cardinality(S) <= F * c /\ F * c <= G + e * Cardinality(S)
<1> DEFINE F(T) == SumFunctionOnSet(f, T)
           G(T) == SumFunctionOnSet(g, T)
           Good(T) == /\ G(T) - e * Cardinality(T) <= F(T) * c
                      /\ F(T) * c <= G(T) + e * Cardinality(T)
           Bad == {n \in Nat : \E T \in SUBSET S : Cardinality(T) = n /\ ~Good(T)}
<1>0. \A T \in SUBSET S : IsFiniteSet(T) /\ Cardinality(T) \in Nat
  BY FS_Subset, FS_CardinalityType
<1>1. SUFFICES ASSUME Bad # {} PROVE FALSE
  BY <1>0
<1>2. PICK n \in Bad : \A m \in Bad : n <= m
  BY <1>1, LeastNatural
<1>3. PICK T \in SUBSET S : Cardinality(T) = n /\ ~Good(T)
  BY <1>2
<1>4. T # {}
  <2> SUFFICES ASSUME T = {} PROVE FALSE
    OBVIOUS
  <2>1. F(T) = 0 /\ G(T) = 0 /\ Cardinality(T) = 0
    BY SumEmpty, FS_EmptySet
  <2>2. F(T) * c = 0 /\ e * Cardinality(T) = 0
    BY <2>1
  <2> QED
    BY <1>3, <2>1, <2>2
<1>5. PICK x \in S, U \in SUBSET S : x = Picked(T) /\ U = T \ {x}
  BY <1>3, <1>4, PickedIsIn
<1>6. Cardinality(U) \in Nat /\ Cardinality(U) < n /\ Cardinality(T) = Cardinality(U) + 1
  BY <1>0, <1>3, <1>4, <1>5, PickedIsIn, OneLess
<1>7. Good(U)
  BY <1>2, <1>6
<1>8. F(T) = f[x] + F(U) /\ G(T) = g[x] + G(U)
  BY <1>0, <1>4, <1>5, SumPicked
<1>9. F(U) \in Int /\ G(U) \in Int /\ f[x] \in Int /\ g[x] \in Int
  BY <1>0, SumType
<1> DEFINE k == Cardinality(U)
<1>10. k \in Nat
  BY <1>6
<1>11. F(T) * c = f[x] * c + F(U) * c
  <2> HIDE DEF F
  <2> QED
    BY <1>8, <1>9, Scale
<1>12. e * Cardinality(T) = e * k + e
  <2> HIDE DEF k
  <2>1. Cardinality(T) = k + 1
    BY <1>6 DEF k
  <2> QED
    BY <1>10, <2>1
<1>13. g[x] - e <= f[x] * c /\ f[x] * c <= g[x] + e
  OBVIOUS
<1>14. PICK fc \in Int, Fc \in Int, ek \in Int : fc = f[x] * c /\ Fc = F(U) * c /\ ek = e * k
  <2> HIDE DEF F, k
  <2> QED
    BY <1>9, <1>10
<1>15. G(U) - ek <= Fc /\ Fc <= G(U) + ek
  BY <1>7, <1>14
<1>16. Good(T)
  <2>1. /\ F(T) * c = fc + Fc /\ e * Cardinality(T) = ek + e /\ g[x] - e <= fc /\ fc <= g[x] + e
    BY <1>11, <1>12, <1>13, <1>14
  <2> HIDE DEF F, G
  <2>2. /\ G(T) - (ek + e) <= fc + Fc /\ fc + Fc <= G(T) + (ek + e)
    BY <1>8, <1>9, <1>15, <2>1, <1>14
  <2> QED
    BY <2>1, <2>2
<1> QED
  BY <1>3, <1>16
-----------------------------------------------------------------------------
\* Half hours of the first n of a stay in a peak of the day that starts at m.
PeakLen(from, n, pk, m) ==
  Larger(0, Smaller(from + n, m + pk.to) - Larger(from, m + pk.from))

InPeak(pk, t) == pk.from <= t % Day /\ t % Day < pk.to

LEMMA DayOf ==
  ASSUME NEW t \in Nat
  PROVE  /\ Day = 48 /\ t \div Day \in Nat /\ t % Day \in 0..47
         /\ t = (t \div Day) * Day + (t % Day)
BY DEF Day, Hour

LEMMA PeakLenStep ==
  ASSUME NEW from \in Nat, NEW n \in Nat, NEW pk \in Peaks, NEW d \in Nat
  PROVE  /\ PeakLen(from, n, pk, d * Day) \in Nat
         /\ PeakLen(from, 0, pk, d * Day) = 0
         /\ PeakLen(from, n + 1, pk, d * Day) = PeakLen(from, n, pk, d * Day)
              + (IF d = (from + n) \div Day /\ InPeak(pk, from + n) THEN 1 ELSE 0)
<1>0. PICK t \in Nat : t = from + n
  OBVIOUS
<1>1. /\ pk.from \in 0..48 /\ pk.to \in 0..48
  BY DEF Peaks, Day, Hour
<1>2. PICK q \in Nat, r \in 0..47 : q = t \div Day /\ r = t % Day /\ t = q * Day + r /\ Day = 48
  <2>1. /\ Day = 48 /\ t \div Day \in Nat /\ t % Day \in 0..47
        /\ t = (t \div Day) * Day + (t % Day)
    BY DayOf
  <2> HIDE DEF Day
  <2> QED
    BY <2>1
<1>3. PICK m \in Nat : m = d * Day
  BY <1>2
<1>4. (m + pk.from <= t /\ t < m + pk.to) <=> (d = q /\ pk.from <= r /\ r < pk.to)
  BY <1>1, <1>2, <1>3
<1>5. PICK a \in Nat, b \in Nat : a = m + pk.from /\ b = m + pk.to
  BY <1>1
<1>6. /\ PeakLen(from, n, pk, m) \in Nat
      /\ PeakLen(from, 0, pk, m) = 0
  BY <1>5 DEF PeakLen, Larger, Smaller
<1>7. PeakLen(from, n + 1, pk, m) = PeakLen(from, n, pk, m) + (IF a <= t /\ t < b THEN 1 ELSE 0)
  BY <1>0, <1>5 DEF PeakLen, Larger, Smaller
<1> QED
  BY <1>0, <1>2, <1>3, <1>4, <1>5, <1>6, <1>7 DEF InPeak

LEMMA PeakLenNone ==
  ASSUME NEW from \in Nat, NEW pk \in Peaks, NEW d \in Nat
  PROVE  PeakLen(from, 0, pk, d * Day) = 0
<1>1. from \in Nat /\ 1 \in Nat
  OBVIOUS
<1> QED
  BY <1>1, PeakLenStep

\* The midnights of a stay.
LEMMA MidnightsAre ==
  ASSUME NEW w \in Window
  PROVE  /\ IsFiniteSet(Midnights(w))
         /\ Cardinality(Midnights(w)) <= Units(w) \div Day + 2
         /\ \A m \in Midnights(w) : m \in Nat /\ \E d \in Nat : m = d * Day
         /\ \A t \in w.from..(w.to - 1) : (t \div Day) * Day \in Midnights(w)
<1> DEFINE a == w.from \div Day
           b == (w.to - 1) \div Day
           f == [d \in a..b |-> d * Day]
<1>0. w.from \in Nat /\ w.to \in Nat /\ w.from < w.to /\ w.to - 1 \in Nat /\ Day = 48
  BY DEF Window, Day, Hour
<1>1. a \in Nat /\ b \in Nat /\ a <= b /\ b - a + 1 <= Units(w) \div Day + 2
  BY <1>0 DEF Units
<1> HIDE DEF a, b
<1>2. IsFiniteSet(a..b) /\ Cardinality(a..b) = b - a + 1
  BY <1>1, FS_Interval
<1>3. Midnights(w) = {f[d] : d \in a..b}
  BY DEF Midnights, a, b
<1>4. f \in Surjection(a..b, Midnights(w))
  <2>1. f \in [a..b -> Midnights(w)]
    BY <1>3
  <2>2. \A m \in Midnights(w) : \E d \in a..b : f[d] = m
    BY <1>3
  <2> QED
    BY <2>1, <2>2 DEF Surjection
<1>5. IsFiniteSet(Midnights(w)) /\ Cardinality(Midnights(w)) <= Cardinality(a..b)
  BY <1>2, <1>4, FS_Surjection
<1>6. Cardinality(Midnights(w)) \in Nat
  BY <1>5, FS_CardinalityType
<1>7. Cardinality(Midnights(w)) <= Units(w) \div Day + 2
  <2>1. Units(w) \div Day \in Int
    BY <1>0 DEF Units
  <2> QED
    BY <1>1, <1>2, <1>5, <1>6, <2>1
<1>8. \A m \in Midnights(w) : m \in Nat /\ \E d \in Nat : m = d * Day
  BY <1>0, <1>1, <1>3
<1>9. ASSUME NEW t \in w.from..(w.to - 1) PROVE (t \div Day) * Day \in Midnights(w)
  <2>1. t \div Day \in (w.from \div Day)..((w.to - 1) \div Day)
    BY <1>0
  <2> QED
    BY <2>1 DEF Midnights
<1> QED
  BY <1>5, <1>7, <1>8, <1>9

\* Peaks counted day by day are peaks counted half hour by half hour.
LEMMA PeaksExchange ==
  ASSUME NEW w \in Window, NEW P, IsFiniteSet(P), P \subseteq Peaks, NEW v, \A pk \in P : v[pk] \in Int
  PROVE  LET Mid    == Midnights(w)
             Halves == w.from..(w.to - 1)
             Of(m)  == SumFunctionOnSet([pk \in P |-> PeakUnits(w, pk, m) * v[pk]], P)
             At2(t) == SumFunctionOnSet([pk \in P |-> IF InPeak(pk, t) THEN v[pk] ELSE 0], P)
         IN  SumFunctionOnSet([m \in Mid |-> Of(m)], Mid) = SumFunctionOnSet([t \in Halves |-> At2(t)], Halves)
<1> DEFINE Mid == Midnights(w)
           Of(n, m) == SumFunctionOnSet([pk \in P |-> PeakLen(w.from, n, pk, m) * v[pk]], P)
           OfAll(n) == SumFunctionOnSet([m \in Mid |-> Of(n, m)], Mid)
           At2(t) == SumFunctionOnSet([pk \in P |-> IF InPeak(pk, t) THEN v[pk] ELSE 0], P)
           Halves(n) == w.from..(w.from + n - 1)
           AtAll(n) == SumFunctionOnSet([t \in Halves(n) |-> At2(t)], Halves(n))
           Good(n) == OfAll(n) = AtAll(n)
<1>0. w.from \in Nat /\ w.to \in Nat /\ w.from < w.to
  BY DEF Window
<1>1. IsFiniteSet(Mid) /\ \A m \in Mid : \E d \in Nat : m = d * Day
  BY MidnightsAre
<1>2. ASSUME NEW n \in Nat, NEW m \in Mid
      PROVE  Of(n, m) \in Int
  <2>1. \A pk \in P : PeakLen(w.from, n, pk, m) \in Nat
    <3>1. PICK d \in Nat : m = d * Day
      BY <1>1
    <3>2. \A pk \in P : PeakLen(w.from, n, pk, d * Day) \in Nat
      BY <1>0, PeakLenStep
    <3> QED
      BY <3>1, <3>2
  <2>2. \A pk \in P : PeakLen(w.from, n, pk, m) * v[pk] \in Int
    BY <2>1
  <2> DEFINE f == [pk \in P |-> PeakLen(w.from, n, pk, m) * v[pk]]
  <2>3. \A pk \in P : f[pk] \in Int
    BY <2>2
  <2> HIDE DEF f
  <2>4. SumFunctionOnSet(f, P) \in Int
    BY <2>3, SumType
  <2> QED
    BY <2>4 DEF f
<1>3. ASSUME NEW t PROVE At2(t) \in Int
  <2> DEFINE f == [pk \in P |-> IF InPeak(pk, t) THEN v[pk] ELSE 0]
  <2>1. \A pk \in P : f[pk] \in Int
    OBVIOUS
  <2> HIDE DEF f
  <2>2. SumFunctionOnSet(f, P) \in Int
    BY <2>1, SumType
  <2> QED
    BY <2>2 DEF f
<1>4. Good(0)
  <2>1. ASSUME NEW m \in Mid PROVE Of(0, m) = 0
    <3> DEFINE f == [pk \in P |-> PeakLen(w.from, 0, pk, m) * v[pk]]
    <3>1. \A pk \in P : f[pk] = 0
      <4>1. PICK d \in Nat : m = d * Day
        BY <1>1
      <4>2. \A pk \in P : PeakLen(w.from, 0, pk, d * Day) = 0
        BY <1>0, PeakLenNone
      <4> QED
        BY <4>1, <4>2
    <3> HIDE DEF f
    <3>2. SumFunctionOnSet(f, P) = 0
      BY <3>1, SumZero
    <3> QED
      BY <3>2 DEF f
  <2> DEFINE F == [m \in Mid |-> Of(0, m)]
  <2>2. \A m \in Mid : F[m] = 0
    BY <2>1
  <2> HIDE DEF F
  <2>3. SumFunctionOnSet(F, Mid) = 0
    BY <1>1, <2>2, SumZero
  <2>4. Halves(0) = {}
    BY <1>0
  <2>5. AtAll(0) = 0
    BY <2>4, SumEmpty
  <2> QED
    BY <2>3, <2>5 DEF F
<1>5. ASSUME NEW n \in Nat, n < Units(w), Good(n) PROVE Good(n + 1)
  <2> DEFINE t == w.from + n
             mt == (t \div Day) * Day
             F == [m \in Mid |-> Of(n, m)]
             G == [m \in Mid |-> Of(n + 1, m)]
             g == [u \in Halves(n) |-> At2(u)]
             h == [u \in Halves(n + 1) |-> At2(u)]
  <2>1. t \in Nat /\ t \in w.from..(w.to - 1)
    BY <1>0, <1>5 DEF Units
  <2>2. mt \in Mid
    BY <2>1, MidnightsAre
  <2>3. ASSUME NEW m \in Mid
        PROVE  Of(n + 1, m) = Of(n, m) + (IF m = mt THEN At2(t) ELSE 0)
    <3>1. PICK d \in Nat : m = d * Day
      BY <1>1
    <3>2. m = mt <=> d = t \div Day
      <4>1. PICK q \in Nat : q = t \div Day
        BY <2>1, DayOf
      <4>2. d * 48 = q * 48 <=> d = q
        OBVIOUS
      <4>3. Day = 48
        BY DEF Day, Hour
      <4> QED
        BY <3>1, <4>1, <4>2, <4>3
    <3> DEFINE f1 == [pk \in P |-> PeakLen(w.from, n, pk, m) * v[pk]]
               f2 == [pk \in P |-> IF m = mt /\ InPeak(pk, t) THEN v[pk] ELSE 0]
               f3 == [pk \in P |-> PeakLen(w.from, n + 1, pk, m) * v[pk]]
    <3>3. ASSUME NEW pk \in P PROVE f1[pk] \in Int /\ f2[pk] \in Int /\ f3[pk] = f1[pk] + f2[pk]
      <4>0. /\ PeakLen(w.from, n, pk, d * Day) \in Nat
            /\ PeakLen(w.from, n + 1, pk, d * Day) = PeakLen(w.from, n, pk, d * Day)
                 + (IF d = t \div Day /\ InPeak(pk, t) THEN 1 ELSE 0)
        <5>1. pk \in Peaks
          OBVIOUS
        <5> QED
          BY <1>0, <3>1, <5>1, PeakLenStep
      <4>1. PICK k \in Nat : k = PeakLen(w.from, n, pk, m)
        BY <3>1, <4>0
      <4>2. PeakLen(w.from, n + 1, pk, m) = k + (IF m = mt /\ InPeak(pk, t) THEN 1 ELSE 0)
        BY <3>1, <3>2, <4>0, <4>1
      <4>3. k * v[pk] \in Int /\ (k + 1) * v[pk] = k * v[pk] + v[pk] /\ v[pk] \in Int
        OBVIOUS
      <4> QED
        BY <4>1, <4>2, <4>3
    <3> HIDE DEF f1, f2, f3
    <3>4. SumFunctionOnSet(f3, P) = SumFunctionOnSet(f1, P) + SumFunctionOnSet(f2, P)
      BY <3>3, SumPlus
    <3>5. CASE m = mt
      <4>1. f2 = [pk \in P |-> IF InPeak(pk, t) THEN v[pk] ELSE 0]
        BY <3>5 DEF f2
      <4> QED
        BY <3>4, <3>5, <4>1 DEF f1, f3
    <3>6. CASE m # mt
      <4>1. \A pk \in P : f2[pk] = 0
        BY <3>6 DEF f2
      <4>2. SumFunctionOnSet(f2, P) = 0
        BY <4>1, SumZero
      <4> QED
        BY <3>4, <3>6, <4>2, <1>2 DEF f1, f3
    <3> QED
      BY <3>5, <3>6
  <2>4. \A m \in Mid : F[m] \in Int /\ G[m] \in Int
    BY <1>2
  <2>5. \A m \in Mid \ {mt} : G[m] = F[m]
    <3> SUFFICES ASSUME NEW m \in Mid, m # mt PROVE G[m] = F[m]
      OBVIOUS
    <3>1. Of(n + 1, m) = Of(n, m) + 0 /\ Of(n, m) \in Int
      BY <2>3, <1>2
    <3> QED
      BY <3>1
  <2>6. G[mt] = F[mt] + At2(t)
    BY <2>2, <2>3
  <2> HIDE DEF F, G
  <2>7. SumFunctionOnSet(G, Mid) = SumFunctionOnSet(F, Mid) - F[mt] + G[mt]
    BY <1>1, <2>2, <2>4, <2>5, SumUpdate
  <2>8. SumFunctionOnSet(F, Mid) \in Int
    BY <1>1, <2>4, SumType
  <2>9. OfAll(n + 1) = OfAll(n) + At2(t)
    <3>1. SumFunctionOnSet(G, Mid) = SumFunctionOnSet(F, Mid) + At2(t)
      <4> HIDE DEF At2
      <4> QED
        BY <2>2, <2>4, <2>6, <2>7, <2>8, <1>3
    <3> QED
      BY <3>1 DEF F, G
  <2>10. /\ Halves(n + 1) = Halves(n) \cup {t} /\ t \notin Halves(n) /\ IsFiniteSet(Halves(n))
    <3>1. w.from + n - 1 \in Int /\ w.from \in Int
      BY <1>0
    <3>2. IsFiniteSet(Halves(n))
      BY <3>1, FS_Interval
    <3>3. Halves(n + 1) = Halves(n) \cup {t} /\ t \notin Halves(n)
      BY <1>0
    <3> QED
      BY <3>2, <3>3
  <2>11. /\ \A u \in Halves(n) : g[u] = h[u]
         /\ h[t] = At2(t) /\ \A u \in Halves(n) \cup {t} : h[u] \in Int
    BY <1>3, <2>10
  <2> HIDE DEF g, h, Halves, At2
  <2>12. SumFunctionOnSet(h, Halves(n) \cup {t}) = SumFunctionOnSet(h, Halves(n)) + h[t]
    BY <2>10, <2>11, SumAdd
  <2>13. SumFunctionOnSet(h, Halves(n)) = SumFunctionOnSet(g, Halves(n))
    BY <2>10, <2>11, SumSame
  <2>14. AtAll(n + 1) = AtAll(n) + At2(t)
    BY <2>10, <2>11, <2>12, <2>13 DEF g, h
  <2> QED
    BY <1>5, <2>9, <2>14
<1> HIDE DEF Good
<1>6. \A n \in 0..Units(w) : Good(n)
  <2> DEFINE Bad == {n \in 0..Units(w) : ~Good(n)}
  <2> SUFFICES ASSUME Bad # {} PROVE FALSE
    OBVIOUS
  <2>0. Units(w) \in Nat
    BY <1>0 DEF Units
  <2>1. PICK n \in Bad : \A m \in Bad : n <= m
    <3>1. Bad \in SUBSET Nat
      OBVIOUS
    <3> HIDE DEF Bad
    <3> QED
      BY <3>1, LeastNatural
  <2>2. n # 0 /\ n - 1 \in Nat /\ n - 1 < Units(w) /\ n - 1 \in 0..Units(w)
    BY <1>4, <2>0, <2>1
  <2>3. Good(n - 1)
    BY <2>1, <2>2
  <2>4. Good((n - 1) + 1)
    BY <1>5, <2>2, <2>3
  <2> QED
    BY <2>1, <2>2, <2>4
<1>7. Good(Units(w))
  BY <1>0, <1>6 DEF Units
<1>8. w.from + Units(w) = w.to /\ w.from + Units(w) - 1 = w.to - 1
  BY <1>0 DEF Units
<1>9. \A pk, m : PeakLen(w.from, Units(w), pk, m) = PeakUnits(w, pk, m)
  BY <1>8 DEF PeakLen, PeakUnits
<1> QED
  BY <1>7, <1>8, <1>9 DEF Good

-----------------------------------------------------------------------------
\* The base price is a natural number.
LEMMA BaseIsNat ==
  ASSUME NEW w \in Window, NEW rate \in Nat, NEW type
  PROVE  BasePrice(type, rate, w) \in Nat
<1>1. Units(w) \in Nat /\ Units(w) > 0
  BY DEF Units, Window
<1>2. Hour = 2 /\ Day = 48 /\ Month = 1440
  BY DEF Hour, Day, Month
<1>3. rate * Units(w) \in Nat
  BY <1>1, NatTimes
<1>4. Round(rate * Units(w), 1440) \in Nat /\ Round(rate * Units(w), 2) \in Nat
  <2>1. ASSUME NEW n \in Nat, NEW d \in {2, 1440} PROVE Round(n, d) \in Nat
    <3>1. d \in Nat /\ d > 1
      OBVIOUS
    <3> QED
      BY <3>1, RoundNat
  <2> QED
    BY <1>3, <2>1
<1>5. rate * ((Units(w) + Day - 1) \div Day) \in Nat
  <2>1. (Units(w) + 48 - 1) \div 48 \in Nat
    BY <1>1
  <2> QED
    BY <1>2, <2>1, NatTimes
<1> QED
  BY <1>2, <1>4, <1>5 DEF BasePrice

\* The surcharges for the peaks, each rounded, add up to what the half hours in them are due.
LEMMA PeakRight ==
  ASSUME NEW w \in Window, NEW rule \in Rules, NEW type,
         NEW base, base = BasePrice(type, rule.rate, w),
         NEW peak, peak = PeakSurcharge(type, rule, w),
         NEW slack, slack = Units(w) * 100 * Cardinality(rule.peaks) * (Units(w) \div Day + 2)
  PROVE  /\ base \in Nat /\ peak \in Nat /\ PeakDue(rule, w, base) \in Int /\ slack \in Nat
         /\ type # "hourly" => peak = 0
         /\ type = "hourly" => /\ PeakDue(rule, w, base) - slack <= peak * (Units(w) * 100)
                               /\ peak * (Units(w) * 100) <= PeakDue(rule, w, base) + slack
<1> DEFINE U == Units(w)
           P == rule.peaks
           Mid == Midnights(w)
           v == [pk \in P |-> base * (pk.pct - 100)]
           For(p, m) == Larger(0, Round(PeakUnits(w, p, m) * base * (p.pct - 100), U * 100))
           OfDay(m) == SumFunctionOnSet([p \in P |-> For(p, m)], P)
           Exact(m) == SumFunctionOnSet([p \in P |-> PeakUnits(w, p, m) * v[p]], P)
           Due == SumFunctionOnSet([m \in Mid |-> Exact(m)], Mid)
           All == SumFunctionOnSet([m \in Mid |-> OfDay(m)], Mid)
<1>0. /\ U \in Nat /\ U > 0 /\ w.from \in Nat /\ w.to \in Nat
      /\ rule.rate \in Nat /\ IsFiniteSet(P) /\ P \subseteq Peaks
  BY DEF Units, Window, Rules
<1>1. base \in Nat
  BY <1>0, BaseIsNat
<1>2. PICK c \in Nat : c = U * 100 /\ c > 1
  BY <1>0
<1>3. IsFiniteSet(Mid) /\ \A m \in Mid : m \in Nat
  BY MidnightsAre
<1>4. PICK k \in Nat, n \in Nat : k = Cardinality(P) /\ n = Cardinality(Mid)
  BY <1>0, <1>3, FS_CardinalityType
<1>5. \A p \in P : v[p] \in Nat
  <2> SUFFICES ASSUME NEW p \in P PROVE v[p] \in Nat
    OBVIOUS
  <2>1. p.pct - 100 \in Nat
    BY <1>0 DEF Peaks
  <2> QED
    BY <1>1, <2>1, NatTimes
<1>6. ASSUME NEW m \in Mid, NEW p \in P
      PROVE  /\ For(p, m) \in Nat /\ PeakUnits(w, p, m) * v[p] \in Int
             /\ PeakUnits(w, p, m) * v[p] - c <= For(p, m) * c
             /\ For(p, m) * c <= PeakUnits(w, p, m) * v[p] + c
  <2>1. /\ p.from \in Nat /\ p.to \in Nat /\ p.pct - 100 \in Nat
    BY <1>0 DEF Peaks
  <2>2. PICK u \in Nat : u = PeakUnits(w, p, m)
    <3>1. PICK a \in Nat, b \in Nat : a = m + p.from /\ b = m + p.to
      BY <1>3, <2>1
    <3> QED
      BY <1>0, <3>1 DEF PeakUnits, Larger, Smaller
  <2>3. PICK q \in Nat : q = p.pct - 100
    BY <2>1
  <2>4. PICK x \in Nat : x = u * v[p]
    BY <1>5, <2>2, NatTimes
  <2>5. u * base * q = x
    <3>1. u * base * q = u * (base * q)
      BY <1>1
    <3> QED
      BY <2>3, <2>4, <3>1
  <2>6. /\ Round(x, c) \in Nat /\ x - c <= Round(x, c) * c /\ Round(x, c) * c <= x + c
    BY <1>2, RoundNat
  <2>7. For(p, m) = Round(x, c)
    <3>1. For(p, m) = Larger(0, Round(x, c))
      BY <1>2, <2>2, <2>3, <2>5
    <3> QED
      BY <2>6, <3>1 DEF Larger
  <2> QED
    BY <2>2, <2>4, <2>6, <2>7
<1>7. ASSUME NEW m \in Mid
      PROVE  /\ OfDay(m) \in Nat /\ Exact(m) \in Int
             /\ Exact(m) - c * k <= OfDay(m) * c /\ OfDay(m) * c <= Exact(m) + c * k
  <2> DEFINE f == [p \in P |-> For(p, m)]
             g == [p \in P |-> PeakUnits(w, p, m) * v[p]]
  <2>1. \A p \in P : /\ f[p] \in Nat /\ f[p] \in Int /\ g[p] \in Int
                     /\ g[p] - c <= f[p] * c /\ f[p] * c <= g[p] + c
    <3> SUFFICES ASSUME NEW p \in P
                 PROVE  /\ f[p] \in Nat /\ f[p] \in Int /\ g[p] \in Int
                        /\ g[p] - c <= f[p] * c /\ f[p] * c <= g[p] + c
      OBVIOUS
    <3>1. f[p] = For(p, m) /\ g[p] = PeakUnits(w, p, m) * v[p]
      OBVIOUS
    <3> HIDE DEF f, g, For, v
    <3> QED
      BY <1>6, <3>1
  <2> HIDE DEF f, g
  <2>2. /\ SumFunctionOnSet(g, P) - c * k <= SumFunctionOnSet(f, P) * c
        /\ SumFunctionOnSet(f, P) * c <= SumFunctionOnSet(g, P) + c * k
    BY <1>0, <1>4, <2>1, SumNear
  <2>3. SumFunctionOnSet(f, P) \in Nat /\ SumFunctionOnSet(g, P) \in Int
    BY <1>0, <2>1, SumType
  <2> QED
    BY <2>2, <2>3 DEF f, g
<1>8. /\ All \in Nat /\ Due \in Int
      /\ Due - (c * k) * n <= All * c /\ All * c <= Due + (c * k) * n
  <2> DEFINE f == [m \in Mid |-> OfDay(m)]
             g == [m \in Mid |-> Exact(m)]
             e == c * k
  <2>1. \A m \in Mid : /\ f[m] \in Nat /\ f[m] \in Int /\ g[m] \in Int
                       /\ g[m] - e <= f[m] * c /\ f[m] * c <= g[m] + e
    <3> SUFFICES ASSUME NEW m \in Mid
                 PROVE  /\ f[m] \in Nat /\ f[m] \in Int /\ g[m] \in Int
                        /\ g[m] - e <= f[m] * c /\ f[m] * c <= g[m] + e
      OBVIOUS
    <3>1. f[m] = OfDay(m) /\ g[m] = Exact(m)
      OBVIOUS
    <3> HIDE DEF f, g, OfDay, Exact
    <3> QED
      BY <1>7, <3>1
  <2>2. e \in Nat
    BY <1>2, <1>4, NatTimes
  <2> HIDE DEF f, g, e
  <2>3. /\ SumFunctionOnSet(g, Mid) - e * n <= SumFunctionOnSet(f, Mid) * c
        /\ SumFunctionOnSet(f, Mid) * c <= SumFunctionOnSet(g, Mid) + e * n
    BY <1>3, <1>4, <2>1, <2>2, SumNear
  <2>4. SumFunctionOnSet(f, Mid) \in Nat /\ SumFunctionOnSet(g, Mid) \in Int
    BY <1>3, <2>1, SumType
  <2> QED
    BY <2>3, <2>4 DEF f, g, e
<1>9. (c * k) * n <= slack /\ slack \in Nat /\ (c * k) * n \in Nat
  <2>1. PICK h \in Nat : h = U \div Day + 2 /\ n <= h
    <3>1. U \div Day \in Nat
      BY <1>0 DEF Day, Hour
    <3>2. n <= U \div Day + 2
      BY <1>4, MidnightsAre
    <3> QED
      BY <3>1, <3>2
  <2>2. PICK e \in Nat : e = c * k
    BY <1>2, <1>4, NatTimes
  <2>3. slack = e * h
    BY <1>2, <1>4, <2>1, <2>2
  <2> QED
    BY <1>4, <2>1, <2>2, <2>3, Grows, NatTimes
<1>10. Due = PeakDue(rule, w, base)
  <2> DEFINE Halves == w.from..(w.to - 1)
             At2(t) == SumFunctionOnSet([pk \in P |-> IF InPeak(pk, t) THEN v[pk] ELSE 0], P)
  <2>1. \A pk \in P : v[pk] \in Int
    BY <1>5
  <2>2. Due = SumFunctionOnSet([t \in Halves |-> At2(t)], Halves)
    <3> HIDE DEF v
    <3> QED
      BY <1>0, <2>1, PeaksExchange
  <2>3. \A t : [pk \in P |-> IF InPeak(pk, t) THEN v[pk] ELSE 0]
             = [pk \in P |-> IF pk.from <= t % Day /\ t % Day < pk.to THEN base * (pk.pct - 100) ELSE 0]
    BY DEF InPeak
  <2> QED
    BY <2>2, <2>3 DEF PeakDue
<1>11. CASE type = "hourly"
  <2>1. peak = All
    BY <1>11 DEF PeakSurcharge
  <2>2. All * c \in Int
    BY <1>2, <1>8
  <2> HIDE DEF All, Due
  <2> QED
    BY <1>1, <1>2, <1>8, <1>9, <1>10, <1>11, <2>1, <2>2
<1>12. CASE type # "hourly"
  <2>1. peak = 0
    BY <1>12 DEF PeakSurcharge
  <2> HIDE DEF All, Due
  <2> QED
    BY <1>1, <1>8, <1>9, <1>10, <1>12, <2>1
<1> QED
  BY <1>11, <1>12

-----------------------------------------------------------------------------
\* The first n half hours of a stay: those counted for the weekend, and those that are of one.
CountedSteps(from, n) ==
  {t \in {from + Hour * k : k \in 0..((n - 1) \div Hour)} : IsWeekend(t)}
CountedUnits(from, n) ==
  SumFunctionOnSet([t \in CountedSteps(from, n) |-> Smaller(t + Hour, from + n) - t], CountedSteps(from, n))
OnWeekend(from, n) == {t \in from..(from + n - 1) : IsWeekend(t)}
One(t) == IF IsWeekend(t) THEN 1 ELSE 0

LEMMA SameHour ==
  ASSUME NEW t \in Nat, t % 2 = 0
  PROVE  IsWeekend(t + 1) <=> IsWeekend(t)
<1>1. (t + 1) \div 48 = t \div 48
  OBVIOUS
<1>2. Day = 48
  BY DEF Day, Hour
<1> QED
  BY <1>1, <1>2 DEF IsWeekend, WeekDay

LEMMA OnWeekendStep ==
  ASSUME NEW from \in Nat, NEW n \in Nat
  PROVE  /\ IsFiniteSet(OnWeekend(from, n)) /\ Cardinality(OnWeekend(from, n)) \in Nat
         /\ Cardinality(OnWeekend(from, 0)) = 0
         /\ Cardinality(OnWeekend(from, n + 1)) = Cardinality(OnWeekend(from, n)) + One(from + n)
<1>1. IsFiniteSet(OnWeekend(from, n))
  <2>1. IsFiniteSet(from..(from + n - 1))
    BY FS_Interval
  <2> QED
    BY <2>1, FS_Subset DEF OnWeekend
<1>2. Cardinality(OnWeekend(from, 0)) = 0
  <2>1. OnWeekend(from, 0) = {}
    BY DEF OnWeekend
  <2> QED
    BY <2>1, FS_EmptySet
<1>3. from + n \notin OnWeekend(from, n)
  BY DEF OnWeekend
<1>4. from..(from + (n + 1) - 1) = (from..(from + n - 1)) \cup {from + n}
  OBVIOUS
<1>5. CASE IsWeekend(from + n)
  <2>1. OnWeekend(from, n + 1) = OnWeekend(from, n) \cup {from + n}
    BY <1>4, <1>5 DEF OnWeekend
  <2> QED
    BY <1>1, <1>2, <1>3, <1>5, <2>1, FS_AddElement, FS_CardinalityType DEF One
<1>6. CASE ~IsWeekend(from + n)
  <2>1. OnWeekend(from, n + 1) = OnWeekend(from, n)
    BY <1>4, <1>6 DEF OnWeekend
  <2> QED
    BY <1>1, <1>2, <1>6, <2>1, FS_CardinalityType DEF One
<1> QED
  BY <1>5, <1>6

LEMMA CountedStep ==
  ASSUME NEW from \in Nat, NEW n \in Nat
  PROVE  /\ CountedUnits(from, n) \in Nat
         /\ CountedUnits(from, 0) = 0
         /\ CountedUnits(from, n + 1) = CountedUnits(from, n) + One(from + 2 * (n \div 2))
<1> DEFINE Hours(m) == {from + Hour * k : k \in 0..((m - 1) \div Hour)}
           Len(m) == [t \in CountedSteps(from, m) |-> Smaller(t + Hour, from + m) - t]
           last == from + 2 * (n \div 2)
<1>0. Hour = 2
  BY DEF Hour
<1>1. ASSUME NEW m \in Nat
      PROVE  /\ IsFiniteSet(CountedSteps(from, m))
             /\ \A t \in CountedSteps(from, m) : t \in Nat /\ t < from + m
             /\ \A t \in CountedSteps(from, m) : Len(m)[t] \in Nat
  <2>1. \A t \in Hours(m) : t \in from..(from + m)  /\ t < from + m
    BY <1>0
  <2>2. IsFiniteSet(from..(from + m))
    BY FS_Interval
  <2>3. CountedSteps(from, m) \subseteq from..(from + m)
    BY <2>1 DEF CountedSteps
  <2>4. IsFiniteSet(CountedSteps(from, m))
    BY <2>2, <2>3, FS_Subset
  <2>5. \A t \in CountedSteps(from, m) : t \in Nat /\ t < from + m
    BY <2>1, <2>3 DEF CountedSteps
  <2>6. \A t \in CountedSteps(from, m) : Len(m)[t] \in Nat
    BY <1>0, <2>5 DEF Smaller
  <2> QED
    BY <2>4, <2>5, <2>6
<1>2. CountedUnits(from, n) \in Nat
  <2> HIDE DEF Len
  <2>1. SumFunctionOnSet(Len(n), CountedSteps(from, n)) \in Nat
    BY <1>1, SumType
  <2> QED
    BY <2>1 DEF CountedUnits, Len
<1>3. CountedUnits(from, 0) = 0
  <2>1. 0..((0 - 1) \div 2) = {}
    <3>1. PICK x \in Int : x = 0 - 1
      OBVIOUS
    <3>2. PICK d \in Nat : d = 2 /\ d > 0
      OBVIOUS
    <3>3. PICK y \in Int : y = x \div d /\ y * d <= x
      BY <3>2, Quotient
    <3>4. y < 0
      BY <3>1, <3>2, <3>3
    <3> QED
      BY <3>1, <3>2, <3>3, <3>4
  <2>2. CountedSteps(from, 0) = {}
    BY <1>0, <2>1 DEF CountedSteps
  <2> QED
    BY <2>2, SumEmpty DEF CountedUnits
<1>4. CASE n % 2 = 0
  <2>1. last = from + n /\ last \in Nat
    BY <1>4
  <2>2. Hours(n + 1) = Hours(n) \cup {last}
    <3>1. 0..(((n + 1) - 1) \div 2) = (0..((n - 1) \div 2)) \cup {n \div 2}
      BY <1>4
    <3> QED
      BY <1>0, <3>1
  <2>3. last \notin Hours(n) /\ \A t \in Hours(n) : t + 2 <= from + n /\ t \in Nat
    BY <1>0, <1>4, <2>1
  <2>4. \A t \in CountedSteps(from, n) : t \in CountedSteps(from, n + 1) /\ Len(n + 1)[t] = Len(n)[t]
    <3> SUFFICES ASSUME NEW t \in CountedSteps(from, n)
                 PROVE  t \in CountedSteps(from, n + 1) /\ Len(n + 1)[t] = Len(n)[t]
      OBVIOUS
    <3>1. t \in CountedSteps(from, n + 1) /\ t \in Hours(n)
      BY <2>2 DEF CountedSteps
    <3>2. Smaller(t + 2, from + n) = t + 2 /\ Smaller(t + 2, from + (n + 1)) = t + 2
      BY <2>3, <3>1 DEF Smaller
    <3> QED
      BY <1>0, <3>1, <3>2
  <2>5. CASE IsWeekend(last)
    <3>1. CountedSteps(from, n + 1) = CountedSteps(from, n) \cup {last} /\ last \notin CountedSteps(from, n)
      BY <2>2, <2>3, <2>5 DEF CountedSteps
    <3>2. Len(n + 1)[last] = 1
      BY <1>0, <2>1, <3>1 DEF Smaller
    <3>3. \A t \in CountedSteps(from, n) \cup {last} : Len(n + 1)[t] \in Int
      BY <1>1, <3>1
    <3> HIDE DEF Len, last
    <3>4. SumFunctionOnSet(Len(n + 1), CountedSteps(from, n) \cup {last})
            = SumFunctionOnSet(Len(n + 1), CountedSteps(from, n)) + 1
      BY <1>1, <3>1, <3>2, <3>3, SumAdd
    <3>5. SumFunctionOnSet(Len(n + 1), CountedSteps(from, n)) = SumFunctionOnSet(Len(n), CountedSteps(from, n))
      BY <1>1, <2>4, SumSame
    <3>6. CountedUnits(from, n + 1) = CountedUnits(from, n) + 1
      BY <3>1, <3>4, <3>5 DEF CountedUnits, Len
    <3> QED
      BY <1>2, <1>3, <2>5, <3>6 DEF One, last
  <2>6. CASE ~IsWeekend(last)
    <3>1. CountedSteps(from, n + 1) = CountedSteps(from, n)
      BY <2>2, <2>6 DEF CountedSteps
    <3> HIDE DEF Len, last
    <3>2. SumFunctionOnSet(Len(n + 1), CountedSteps(from, n)) = SumFunctionOnSet(Len(n), CountedSteps(from, n))
      BY <1>1, <2>4, SumSame
    <3>3. CountedUnits(from, n + 1) = CountedUnits(from, n)
      BY <3>1, <3>2 DEF CountedUnits, Len
    <3> QED
      BY <1>2, <1>3, <2>6, <3>3 DEF One, last
  <2> QED
    BY <2>5, <2>6
<1>5. CASE n % 2 # 0
  <2>1. last = from + n - 1 /\ last \in Nat /\ n >= 1
    BY <1>5
  <2>2. Hours(n + 1) = Hours(n) /\ last \in Hours(n)
    <3>1. ((n + 1) - 1) \div 2 = (n - 1) \div 2 /\ n \div 2 = (n - 1) \div 2 /\ n \div 2 \in Nat
      BY <1>5
    <3> QED
      BY <1>0, <3>1
  <2>3. CountedSteps(from, n + 1) = CountedSteps(from, n)
    BY <2>2 DEF CountedSteps
  <2>4. \A t \in Hours(n) : t # last => t + 2 <= from + n /\ t \in Nat
    BY <1>0, <1>5, <2>1
  <2>5. \A t \in CountedSteps(from, n) \ {last} : Len(n + 1)[t] = Len(n)[t]
    <3> SUFFICES ASSUME NEW t \in CountedSteps(from, n), t # last PROVE Len(n + 1)[t] = Len(n)[t]
      OBVIOUS
    <3>1. t \in CountedSteps(from, n + 1) /\ t \in Hours(n)
      BY <2>3 DEF CountedSteps
    <3>2. Smaller(t + 2, from + n) = t + 2 /\ Smaller(t + 2, from + (n + 1)) = t + 2
      BY <2>4, <3>1 DEF Smaller
    <3> QED
      BY <1>0, <3>1, <3>2
  <2>6. CASE IsWeekend(last)
    <3>1. last \in CountedSteps(from, n)
      BY <2>2, <2>6 DEF CountedSteps
    <3>2. Len(n)[last] = 1 /\ Len(n + 1)[last] = 2
      BY <1>0, <2>1, <2>3, <3>1 DEF Smaller
    <3>3. \A t \in CountedSteps(from, n) : Len(n)[t] \in Int /\ Len(n + 1)[t] \in Int
      BY <1>1, <2>3
    <3> HIDE DEF Len, last
    <3>4. SumFunctionOnSet(Len(n + 1), CountedSteps(from, n))
            = SumFunctionOnSet(Len(n), CountedSteps(from, n)) - 1 + 2
      BY <1>1, <2>5, <3>1, <3>2, <3>3, SumUpdate
    <3>5. CountedUnits(from, n + 1) = CountedUnits(from, n) - 1 + 2
      BY <2>3, <3>4 DEF CountedUnits, Len
    <3> QED
      BY <1>2, <1>3, <2>6, <3>5 DEF One, last
  <2>7. CASE ~IsWeekend(last)
    <3>1. last \notin CountedSteps(from, n)
      BY <2>7 DEF CountedSteps
    <3> HIDE DEF Len, last
    <3>2. SumFunctionOnSet(Len(n + 1), CountedSteps(from, n)) = SumFunctionOnSet(Len(n), CountedSteps(from, n))
      BY <1>1, <2>5, <3>1, SumSame
    <3>3. CountedUnits(from, n + 1) = CountedUnits(from, n)
      BY <2>3, <3>2 DEF CountedUnits, Len
    <3> QED
      BY <1>2, <1>3, <2>7, <3>3 DEF One, last
  <2> QED
    BY <2>6, <2>7
<1> QED
  BY <1>4, <1>5

\* Whole hours differ from half hours by one at most: the stay starts at a half hour, and
\* what the start of a weekend loses its end gains.
LEMMA WeekendNear ==
  ASSUME NEW w \in Window
  PROVE  LET E == Cardinality({t \in w.from..(w.to - 1) : IsWeekend(t)})
         IN  WeekendUnits(w) \in Nat /\ E \in Nat /\ WeekendUnits(w) \in (E - 1)..(E + 1)
<1> DEFINE f == w.from
           W(n) == CountedUnits(f, n)
           E(n) == Cardinality(OnWeekend(f, n))
           Good(n) == W(n) = E(n) + (IF f % 2 = 0 THEN 0 ELSE One(f) - One(f + 2 * (n \div 2)))
<1>0. f \in Nat /\ w.to \in Nat /\ f < w.to /\ Units(w) \in Nat /\ f + Units(w) = w.to
  BY DEF Window, Units
<1>1. \A t : One(t) \in {0, 1}
  BY DEF One
<1>2. Good(0)
  <2>1. f + 2 * (0 \div 2) = f
    BY <1>0
  <2>2. W(0) = 0 /\ E(0) = 0
    BY <1>0, CountedStep, OnWeekendStep
  <2> QED
    BY <1>1, <2>1, <2>2
<1>3. ASSUME NEW n \in Nat, Good(n) PROVE Good(n + 1)
  <2>1. PICK a \in Nat, b \in Nat : a = W(n) /\ b = E(n)
    BY <1>0, CountedStep, OnWeekendStep
  <2>2. W(n + 1) = a + One(f + 2 * (n \div 2)) /\ E(n + 1) = b + One(f + n)
    BY <1>0, <2>1, CountedStep, OnWeekendStep
  <2>3. CASE n % 2 = 0
    <3>1. 2 * (n \div 2) = n /\ 2 * ((n + 1) \div 2) = n
      BY <2>3
    <3> QED
      BY <1>1, <1>3, <2>1, <2>2, <3>1
  <2>4. CASE n % 2 # 0
    <3>1. 2 * (n \div 2) = n - 1 /\ 2 * ((n + 1) \div 2) = n + 1
      BY <2>4
    <3>2. CASE f % 2 = 0
      <4>1. f + (n - 1) \in Nat /\ (f + (n - 1)) % 2 = 0 /\ (f + (n - 1)) + 1 = f + n
        BY <1>0, <2>4, <3>2
      <4>2. One(f + n) = One(f + (n - 1))
        BY <4>1, SameHour DEF One
      <4> QED
        BY <1>1, <1>3, <2>1, <2>2, <3>1, <3>2, <4>2
    <3>3. CASE f % 2 # 0
      <4>1. f + n \in Nat /\ (f + n) % 2 = 0 /\ (f + n) + 1 = f + (n + 1)
        BY <1>0, <2>4, <3>3
      <4>2. One(f + (n + 1)) = One(f + n)
        BY <4>1, SameHour DEF One
      <4> QED
        BY <1>1, <1>3, <2>1, <2>2, <3>1, <3>3, <4>2
    <3> QED
      BY <3>2, <3>3
  <2> QED
    BY <2>3, <2>4
<1> HIDE DEF Good
<1>4. \A n \in Nat : Good(n)
  <2> DEFINE Bad == {n \in Nat : ~Good(n)}
  <2> SUFFICES ASSUME Bad # {} PROVE FALSE
    OBVIOUS
  <2>1. PICK n \in Bad : \A m \in Bad : n <= m
    BY LeastNatural
  <2>2. n # 0 /\ n - 1 \in Nat
    BY <1>2, <2>1
  <2>3. Good(n - 1)
    BY <2>1, <2>2
  <2>4. Good((n - 1) + 1)
    BY <1>3, <2>2, <2>3
  <2> QED
    BY <2>1, <2>2, <2>4
<1>5. Good(Units(w))
  BY <1>0, <1>4
<1>6. PICK a \in Nat, b \in Nat : a = W(Units(w)) /\ b = E(Units(w))
  BY <1>0, CountedStep, OnWeekendStep
<1>7. a \in (b - 1)..(b + 1)
  BY <1>1, <1>5, <1>6 DEF Good
<1>8. a = WeekendUnits(w)
  BY <1>0, <1>6 DEF CountedUnits, CountedSteps, WeekendUnits
<1>9. b = Cardinality({t \in w.from..(w.to - 1) : IsWeekend(t)})
  BY <1>0, <1>6 DEF OnWeekend
<1> QED
  BY <1>7, <1>8, <1>9

-----------------------------------------------------------------------------
\* A share of a price.
LEMMA ShareOf ==
  ASSUME NEW n \in Nat, NEW pct \in Nat
  PROVE  /\ Round(n * pct, 100) \in Nat /\ n * pct \in Nat
         /\ Round(n * pct, 100) * 100 <= n * pct + 50
         /\ pct <= 100 => Round(n * pct, 100) <= n
<1>1. PICK x \in Nat : x = n * pct
  BY NatTimes
<1>2. PICK h \in Nat : h = 100 /\ h > 1 /\ h \div 2 = 50
  OBVIOUS
<1>3. Round(x, h) \in Nat /\ Round(x, h) * h <= x + h \div 2
  BY <1>2, RoundNat
<1>4. Round(x, 100) \in Nat /\ Round(x, 100) * 100 <= x + 50
  BY <1>2, <1>3
<1>5. pct <= 100 => x <= n * 100
  BY <1>1, Grows
<1> QED
  BY <1>1, <1>4, <1>5

\* The host's discounts exceed the price by no more than the paisa of two roundings.
LEMMA HostDiscountIs ==
  ASSUME NEW rule \in Rules, NEW price \in Nat, NEW w \in Window, NEW lead
  PROVE  /\ HostDiscount(rule, price, w, lead) \in Nat
         /\ rule.longPct + rule.earlyPct <= 100 => HostDiscount(rule, price, w, lead) <= price + 1
<1>1. PICK a \in Nat, b \in Nat : a = rule.longPct /\ b = rule.earlyPct
  BY DEF Rules
<1>2. PICK x \in Nat, y \in Nat : x = Round(price * a, 100) /\ y = Round(price * b, 100)
  BY ShareOf
<1>3. PICK d1 \in {0, x}, d2 \in {0, y} : HostDiscount(rule, price, w, lead) = d1 + d2
  BY <1>1, <1>2 DEF HostDiscount
<1>4. a + b <= 100 => x + y <= price + 1
  <2>1. PICK p \in Nat, q \in Nat : p = price * a /\ q = price * b
    BY NatTimes
  <2>2. x * 100 <= p + 50 /\ y * 100 <= q + 50
    BY <1>2, <2>1, ShareOf
  <2>3. p + q = price * (a + b)
    BY <2>1
  <2>4. a + b <= 100 => price * (a + b) <= price * 100
    BY Grows
  <2> QED
    BY <2>2, <2>3, <2>4
<1> QED
  BY <1>1, <1>2, <1>3, <1>4

\* A code of at most 100 per cent takes no price below zero.
LEMMA PromoDiscountIs ==
  ASSUME NEW terms \in Promos, NEW left \in Int
  PROVE  /\ PromoDiscount(terms, left) \in Int
         /\ left >= -1 /\ (terms.kind = "percent" => terms.value <= 100)
              => left - PromoDiscount(terms, left) >= -1
<1>1. PICK v \in Nat, cap \in Nat : v = terms.value /\ cap = terms.cap
  BY DEF Promos
<1>2. terms.kind \in {"flat", "percent"}
  BY DEF Promos
<1>3. PICK x \in Int : x = left * v
  OBVIOUS
<1>4. PICK h \in Nat : h = 100 /\ h > 1 /\ h \div 2 = 50
  OBVIOUS
<1>5. Round(x, h) \in Int /\ Round(x, h) * h <= x + h \div 2
  BY <1>4, RoundNear
<1>6. PICK r \in Int : r = Round(x, 100) /\ r * 100 <= x + 50
  BY <1>4, <1>5
<1>7. CASE terms.kind = "flat"
  BY <1>1, <1>7 DEF PromoDiscount, Smaller
<1>8. CASE terms.kind = "percent"
  <2>1. PromoDiscount(terms, left) \in {r, cap} /\ PromoDiscount(terms, left) <= r
    BY <1>1, <1>3, <1>6, <1>8 DEF PromoDiscount, Smaller
  <2>2. left >= 0 /\ v <= 100 => r <= left
    <3> SUFFICES ASSUME left >= 0, v <= 100 PROVE r <= left
      OBVIOUS
    <3>1. x <= left * 100
      BY <1>3, Grows
    <3> QED
      BY <1>6, <3>1
  <2>3. left = -1 => r <= 0
    <3> SUFFICES ASSUME left = -1 PROVE r <= 0
      OBVIOUS
    <3>1. x <= 0
      BY <1>3
    <3> QED
      BY <1>6, <3>1
  <2> QED
    BY <1>1, <1>8, <2>1, <2>2, <2>3
<1> QED
  BY <1>2, <1>7, <1>8

\* The surcharge for the weekend.
LEMMA WeekendRight ==
  ASSUME NEW w \in Window, NEW rule \in Rules, NEW price \in Nat,
         NEW extra, extra = price * (rule.weekend - 100),
         NEW due, due = extra * Cardinality({t \in w.from..(w.to - 1) : IsWeekend(t)})
  PROVE  /\ WeekendAdder(rule, price, w) \in Nat /\ due \in Int /\ extra \in Int
         /\ rule.weekend > 100
              => /\ due - (extra + Units(w) * 100) <= WeekendAdder(rule, price, w) * (Units(w) * 100)
                 /\ WeekendAdder(rule, price, w) * (Units(w) * 100) <= due + (extra + Units(w) * 100)
         /\ ~(rule.weekend > 100) => WeekendAdder(rule, price, w) = 0
<1>1. PICK c \in Nat : c = Units(w) * 100 /\ c > 1
  BY DEF Units, Window
<1>2. PICK a \in Nat, e \in Nat :
        /\ a = WeekendUnits(w) /\ e = Cardinality({t \in w.from..(w.to - 1) : IsWeekend(t)})
        /\ a \in (e - 1)..(e + 1)
  BY WeekendNear
<1>3. rule.weekend \in Nat
  BY DEF Rules
<1>4. extra \in Int /\ due \in Int
  BY <1>2, <1>3
<1>5. CASE rule.weekend > 100
  <2>1. PICK q \in Nat : q = rule.weekend - 100
    BY <1>3, <1>5
  <2>2. PICK x \in Nat : x = price * q
    BY NatTimes
  <2>3. PICK y \in Nat : y = x * a
    BY <1>2, NatTimes
  <2>4. price * a * q = y
    BY <1>2, <2>1, <2>2, <2>3
  <2>5. WeekendAdder(rule, price, w) = Round(y, c)
    BY <1>1, <1>2, <1>5, <2>1, <2>4 DEF WeekendAdder
  <2>6. PICK r \in Nat : r = Round(y, c) /\ y - c <= r * c /\ r * c <= y + c
    BY <1>1, RoundNat
  <2>7. due - x <= y /\ y <= due + x
    <3>1. due = x * e
      BY <1>2, <2>1, <2>2
    <3>2. x * (e - 1) = x * e - x /\ x * (e + 1) = x * e + x
      BY <1>2, Scale
    <3>3. x * (e - 1) <= x * a /\ x * a <= x * (e + 1)
      BY <1>2, Grows
    <3> QED
      BY <1>4, <2>3, <3>1, <3>2, <3>3
  <2>8. PICK rc \in Int : rc = r * c
    OBVIOUS
  <2> QED
    BY <1>1, <1>4, <1>5, <2>1, <2>2, <2>5, <2>6, <2>7, <2>8
<1>6. CASE ~(rule.weekend > 100)
  BY <1>4, <1>6 DEF WeekendAdder
<1> QED
  BY <1>5, <1>6

LEMMA PriceOfSays ==
  ASSUME NEW w \in Window, NEW tariffs, NEW tf \in tariffs, NEW type \in DOMAIN tf,
         tf[type] \in Rules, NEW lead, NEW fees \in Rates,
         NEW promos, promos \subseteq Promos, NEW terms \in promos, NEW code \in BOOLEAN,
         NEW off, off = (IF code THEN PromoDiscount(terms, BeforePromo(type, tf[type], w, lead).left) ELSE 0)
  PROVE  LET p == PriceOf(type, tf[type], w, lead, off, fees)
         IN  PriceSays(w, p, tariffs, promos) /\ p.total \in Int
<1> DEFINE rule == tf[type]
           p == PriceOf(type, rule, w, lead, off, fees)
           sums == BeforePromo(type, rule, w, lead)
<1>1. PICK base \in Nat, peak \in Nat, slack \in Nat :
        /\ base = BasePrice(type, rule.rate, w) /\ peak = PeakSurcharge(type, rule, w)
        /\ slack = Units(w) * 100 * Cardinality(rule.peaks) * (Units(w) \div Day + 2)
  BY PeakRight
<1>2. /\ PeakDue(rule, w, base) \in Int
      /\ type # "hourly" => peak = 0
      /\ type = "hourly" => /\ PeakDue(rule, w, base) - slack <= peak * (Units(w) * 100)
                            /\ peak * (Units(w) * 100) <= PeakDue(rule, w, base) + slack
  BY <1>1, PeakRight
<1>3. PICK extra, due : /\ extra = (base + peak) * (rule.weekend - 100)
                        /\ due = extra * Cardinality({t \in w.from..(w.to - 1) : IsWeekend(t)})
  OBVIOUS
<1>4. base + peak \in Nat
  OBVIOUS
<1>5. PICK weekend \in Nat :
        /\ weekend = WeekendAdder(rule, base + peak, w) /\ due \in Int /\ extra \in Int
        /\ rule.weekend > 100
             => /\ due - (extra + Units(w) * 100) <= weekend * (Units(w) * 100)
                /\ weekend * (Units(w) * 100) <= due + (extra + Units(w) * 100)
        /\ ~(rule.weekend > 100) => weekend = 0
  BY <1>3, <1>4, WeekendRight
<1>6. PICK price \in Nat, hd \in Nat :
        /\ price = base + peak + weekend /\ hd = HostDiscount(rule, price, w, lead)
        /\ rule.longPct + rule.earlyPct <= 100 => hd <= price + 1
  BY HostDiscountIs
<1>7. sums = [base |-> base, peak |-> peak, weekend |-> weekend, off |-> hd, left |-> price - hd]
  BY <1>1, <1>5, <1>6 DEF BeforePromo
<1>8. off \in Int /\ (FairDiscounts(rule, promos) => price - hd - off >= -1)
  <2>1. sums.left = price - hd /\ price - hd \in Int
    BY <1>7
  <2>2. terms \in Promos
    OBVIOUS
  <2>3. /\ PromoDiscount(terms, price - hd) \in Int
        /\ price - hd >= -1 /\ (terms.kind = "percent" => terms.value <= 100)
             => price - hd - PromoDiscount(terms, price - hd) >= -1
    BY <2>1, <2>2, PromoDiscountIs
  <2>4. FairDiscounts(rule, promos)
          => price - hd >= -1 /\ (terms.kind = "percent" => terms.value <= 100)
    BY <1>6 DEF FairDiscounts, Rules
  <2> HIDE DEF sums, rule
  <2>5. CASE code
    BY <2>1, <2>3, <2>4, <2>5 DEF sums, rule
  <2>6. CASE ~code
    BY <2>1, <2>4, <2>6
  <2> QED
    BY <2>5, <2>6
<1>9. PICK floor \in Nat, net \in Int : floor = rule.floor /\ net = price - hd - off
  BY <1>8 DEF Rules
<1>10. PICK paid \in Int : paid = IF floor > 0 /\ net < floor THEN floor ELSE net
  OBVIOUS
<1>11. PICK com \in Nat, tx \in Nat : com = fees.commission /\ tx = fees.tax
  BY DEF Rates
<1>12. PICK fee \in Int, tax \in Int :
         /\ fee = Round(paid * com, 100) /\ tax = Round((paid + fee) * tx, 100)
         /\ paid >= 0 => fee >= 0 /\ tax >= 0
  <2>1. \A n \in Int : Round(n, 100) \in Int /\ (n >= 0 => Round(n, 100) >= 0)
    <3>1. PICK h \in Nat : h = 100 /\ h > 1
      OBVIOUS
    <3>2. \A n \in Int : Round(n, h) \in Int /\ (n >= 0 => Round(n, h) \in Nat)
      BY <3>1, RoundNear
    <3> QED
      BY <3>1, <3>2
  <2>2. PICK x \in Int : x = paid * com /\ (paid >= 0 => x >= 0)
    <3>1. paid >= 0 => paid * com \in Nat
      BY NatTimes
    <3> QED
      BY <3>1
  <2>3. PICK fee \in Int : fee = Round(x, 100) /\ (x >= 0 => fee >= 0)
    BY <2>1
  <2>4. PICK y \in Int : y = (paid + fee) * tx /\ (paid + fee >= 0 => y >= 0)
    <3>1. paid + fee >= 0 => (paid + fee) * tx \in Nat
      BY NatTimes
    <3> QED
      BY <3>1
  <2>5. PICK tax \in Int : tax = Round(y, 100) /\ (y >= 0 => tax >= 0)
    BY <2>1
  <2> QED
    BY <2>2, <2>3, <2>4, <2>5
<1>13. p = [type |-> type, base |-> base, peak |-> peak, weekend |-> weekend,
            discount |-> hd + off, raised |-> paid - net, fee |-> fee, tax |-> tax,
            total |-> paid + fee + tax]
  <2> HIDE DEF rule, sums
  <2>1. sums.left - off = net /\ sums.off = hd /\ sums.base = base /\ sums.peak = peak /\ sums.weekend = weekend
    BY <1>7, <1>9
  <2>2. PriceOf(type, rule, w, lead, off, fees)
          = [type |-> type, base |-> base, peak |-> peak, weekend |-> weekend,
             discount |-> hd + off, raised |-> paid - net, fee |-> fee, tax |-> tax,
             total |-> paid + fee + tax]
    BY <1>9, <1>10, <1>11, <1>12, <2>1 DEF PriceOf, Total, sums
  <2> QED
    BY <2>2
<1> HIDE DEF p
<1>14. /\ p.type = type /\ p.base = base /\ p.peak = peak /\ p.weekend = weekend
       /\ p.discount = hd + off /\ p.raised = paid - net /\ p.fee = fee /\ p.tax = tax
       /\ p.total = paid + fee + tax
  BY <1>13
<1>15. p.base + p.peak + p.weekend - p.discount + p.raised = paid
  BY <1>6, <1>8, <1>9, <1>14
<1>16. PeakFair(rule, w, p)
  <2>1. CASE type = "hourly"
    <3>1. peak * (Units(w) * 100) \in (PeakDue(rule, w, base) - slack)..(PeakDue(rule, w, base) + slack)
      <4>1. peak * (Units(w) * 100) \in Int
        BY DEF Units, Window
      <4> QED
        BY <1>2, <2>1, <4>1
    <3> QED
      BY <1>1, <1>14, <2>1, <3>1 DEF PeakFair
  <2>2. CASE type # "hourly"
    BY <1>2, <1>14, <2>2 DEF PeakFair
  <2> QED
    BY <2>1, <2>2
<1>17. WeekendFair(rule, w, p)
  <2>1. CASE rule.weekend > 100
    <3>0. Units(w) * 100 \in Int /\ weekend * (Units(w) * 100) \in Int
      BY DEF Units, Window
    <3>1. weekend * (Units(w) * 100) \in (due - (extra + Units(w) * 100))..(due + (extra + Units(w) * 100))
      BY <1>5, <2>1, <3>0
    <3> QED
      BY <1>3, <1>14, <2>1, <3>1 DEF WeekendFair
  <2>2. CASE ~(rule.weekend > 100)
    BY <1>5, <1>14, <2>2 DEF WeekendFair
  <2> QED
    BY <2>1, <2>2
<1>18. rule.floor > 0 => paid >= rule.floor /\ p.total >= paid
  BY <1>9, <1>10, <1>12, <1>14
<1>19. FairDiscounts(rule, promos) => paid >= -1
  BY <1>8, <1>9, <1>10
<1>20. tf \in {t \in tariffs : p.type \in DOMAIN t} /\ tf[p.type] = rule
  BY <1>14
<1>21. PriceSays(w, p, tariffs, promos)
  <2> HIDE DEF rule
  <2> QED
    BY <1>14, <1>15, <1>16, <1>17, <1>18, <1>19, <1>20 DEF PriceSays
<1> QED
  BY <1>14, <1>21 DEF p

\* A code, a rule and the rates that are read are among those that may be set.
LEMMA QuoteSays ==
  ASSUME Shape, NEW r \in Requests, Quote(r), reqs'[r].op \in {"insert", "rewrite"}
  PROVE  Says(reqs[r].w, reqs'[r].price) /\ reqs'[r].w = reqs[r].w /\ reqs'[r].b = reqs[r].b
<1>1. OrderShape(reqs[r])
  BY Kinds DEF Quote, At, Working, Idle
<1>2. PICK q : q = reqs[r]
  OBVIOUS
<1>3. DOMAIN q = OrderFields /\ q.w \in Window /\ q.code \in BOOLEAN
  BY <1>1, <1>2 DEF OrderShape
<1>4. \A n : Goto(r, n) => reqs'[r] = n
  BY Frame
<1>5. PICK lead, price :
        /\ lead \in {0, q.w.from} /\ price \in Quotes(q.w, q.code, lead)
        /\ Goto(r, [q EXCEPT !.op = IF q.b = 0 THEN "insert" ELSE "rewrite", !.price = price])
  <2>1. ~On(r, "refuse")
    <3> SUFFICES ASSUME On(r, "refuse") PROVE FALSE
      OBVIOUS
    <3>1. reqs'[r] = [q EXCEPT !.op = "refuse"]
      BY <1>2, <1>4 DEF On
    <3>2. reqs'[r].op = "refuse"
      BY <1>3, <3>1 DEF OrderFields
    <3> QED
      BY <3>2
  <2> QED
    BY <1>2, <2>1 DEF Quote
<1>6. reqs'[r].price = price /\ reqs'[r].w = q.w /\ reqs'[r].b = q.b
  BY <1>3, <1>4, <1>5 DEF OrderFields
<1>7. PICK fees \in Rates : fees = IF cache = {} THEN rates ELSE CHOOSE c \in cache : TRUE
  BY WorkloadAssumption DEF Shape, Stores
<1>8. PICK type, off :
        /\ type \in DOMAIN tariff
        /\ price = PriceOf(type, tariff[type], q.w, lead, off, fees)
        /\ off = IF q.code THEN PromoDiscount(promo.terms, BeforePromo(type, tariff[type], q.w, lead).left)
                 ELSE 0
  <2>1. RateTypes(tariff, q.w) \subseteq DOMAIN tariff
    BY DEF RateTypes
  <2> QED
    BY <1>5, <1>7, <2>1 DEF Quotes
<1>9. /\ tariff \in load.tariffs /\ tariff[type] \in Rules
      /\ load.promos \subseteq Promos /\ promo.terms \in load.promos
  BY <1>8, WorkloadAssumption DEF Shape, Stores
<1>10. PriceSays(q.w, price, load.tariffs, load.promos) /\ price.total \in Int
  <2>1. PICK w \in Window, code \in BOOLEAN, tf \in load.tariffs, terms \in load.promos :
          w = q.w /\ code = q.code /\ tf = tariff /\ terms = promo.terms
    BY <1>3, <1>9
  <2>2. /\ price = PriceOf(type, tf[type], w, lead, off, fees) /\ type \in DOMAIN tf
        /\ off = (IF code THEN PromoDiscount(terms, BeforePromo(type, tf[type], w, lead).left) ELSE 0)
        /\ tf[type] \in Rules
    BY <1>8, <1>9, <2>1
  <2>3. PriceSays(w, PriceOf(type, tf[type], w, lead, off, fees), load.tariffs, load.promos)
        /\ PriceOf(type, tf[type], w, lead, off, fees).total \in Int
    BY <1>7, <1>9, <2>2, PriceOfSays
  <2> QED
    BY <2>1, <2>2, <2>3
<1> QED
  BY <1>2, <1>6, <1>10 DEF Says

\* A cancellation gives back all of the price, a half of it or nothing.
LEMMA RefundWithin ==
  ASSUME NEW total \in Nat, NEW policy, NEW by, NEW left
  PROVE  RefundOf(total, policy, by, left) \in 0..total
<1>1. PICK half \in Nat : half = Round(total * 50, 100) /\ half <= total
  BY ShareOf
<1> QED
  BY <1>1 DEF RefundOf

\* Rows that a step writes, and their prices.
LEMMA RowsPriced ==
  ASSUME Shape, Orders, Priced, [Next]_vars, NEW b \in Bookings, Made(b)'
  PROVE  /\ Says(booking'[b].w, booking'[b].price)
         /\ booking'[b].price.total >= 0 /\ "modify" \notin load.ops
              => booking'[b].refund \in 0..booking'[b].price.total
<1> DEFINE Right(row) == /\ Says(row.w, row.price)
                         /\ row.price.total >= 0 /\ "modify" \notin load.ops
                              => row.refund \in 0..row.price.total
<1> SUFFICES Right(booking'[b])
  OBVIOUS
<1>0. Made(b) => Right(booking[b])
  BY DEF Priced
<1>1. CASE UNCHANGED booking
  BY <1>0, <1>1 DEF Made
<1>2. ASSUME NEW r \in Requests, NEW c, Inserts(r, c), At(r, "insert")
      PROVE  Right(booking'[b])
  <2>1. OrderShape(reqs[r])
    BY <1>2, Kinds DEF At, Working, Idle
  <2>2. c \in Bookings /\ \A d \in Bookings : d # c => booking'[d] = booking[d]
    BY <1>2, <2>1, InsertRows
  <2>3. CASE b = c
    <3>1. /\ booking'[b].w = reqs[r].w /\ booking'[b].price = reqs[r].price /\ booking'[b].refund = 0
      BY <1>2, <2>2, <2>3 DEF Inserts, Shape
    <3>2. Says(reqs[r].w, reqs[r].price)
      BY <1>2 DEF At, Priced
    <3> QED
      BY <3>1, <3>2 DEF Says
  <2>4. CASE b # c
    BY <1>0, <2>2, <2>4 DEF Made
  <2> QED
    BY <2>3, <2>4
<1>3. ASSUME NEW r \in Requests, Rewrite(r) PROVE Right(booking'[b])
  <2>1. /\ OrderShape(reqs[r]) /\ OrderClaim(reqs[r]) /\ reqs[r].op = "rewrite" /\ Working(r)
    BY <1>3, Kinds DEF Rewrite, At, Orders, Working, Idle
  <2>2. PICK q : q = reqs[r]
    OBVIOUS
  <2>3. PICK c \in Bookings : c = q.b /\ Made(c) /\ RowShape(booking[c])
    BY <2>1, <2>2, Kinds, WorkloadAssumption DEF OrderClaim, OrderShape, Bookings
  <2>4. booking' = [booking EXCEPT ![c].w = q.w, ![c].price = q.price, ![c].seen = q.seen]
    BY <1>3, <2>2, <2>3 DEF Rewrite
  <2>5. /\ \A d \in Bookings : d # c => booking'[d] = booking[d]
        /\ booking'[c] = [booking[c] EXCEPT !.w = q.w, !.price = q.price, !.seen = q.seen]
    BY <2>3, <2>4 DEF Shape
  <2>6. CASE b = c
    <3>1. booking'[b].w = q.w /\ booking'[b].price = q.price
      BY <2>3, <2>5, <2>6 DEF RowShape, RowFields
    <3>2. "modify" \in load.ops /\ Says(q.w, q.price)
      BY <2>1, <2>2, <2>3 DEF Priced, Bookings, OrderClaim
    <3> QED
      BY <3>1, <3>2
  <2>7. CASE b # c
    BY <1>0, <2>5, <2>7 DEF Made
  <2> QED
    BY <2>6, <2>7
<1>4. ASSUME NEW c \in Bookings, NEW by, NEW policy, NEW left, Cancel(c, by, policy, left)
      PROVE  Right(booking'[b])
  <2>1. Made(c) /\ RowShape(booking[c])
    BY <1>4, Kinds DEF Cancel, Made
  <2>2. PICK x : x = RefundOf(booking[c].price.total, policy, by, left)
    OBVIOUS
  <2>3. booking' = [booking EXCEPT ![c].st = "cancelled", ![c].refund = x]
    BY <1>4, <2>2 DEF Cancel
  <2>4. /\ \A d \in Bookings : d # c => booking'[d] = booking[d]
        /\ booking'[c] = [booking[c] EXCEPT !.st = "cancelled", !.refund = x]
    BY <2>3 DEF Shape
  <2>5. CASE b = c
    <3>1. /\ booking'[b].w = booking[b].w /\ booking'[b].price = booking[b].price
          /\ booking'[b].refund = x
      BY <2>1, <2>4, <2>5 DEF RowShape, RowFields
    <3>2. Says(booking[b].w, booking[b].price) /\ booking[b].price.total \in Int
      BY <1>0, <2>1, <2>5 DEF Says
    <3>3. booking[b].price.total >= 0 => x \in 0..booking[b].price.total
      BY <2>2, <2>5, <3>2, RefundWithin
    <3> QED
      BY <3>1, <3>2, <3>3
  <2>6. CASE b # c
    BY <1>0, <2>4, <2>6 DEF Made
  <2> QED
    BY <2>5, <2>6
<1> HIDE DEF Right
<1>5. ASSUME NEW r \in Requests, Handler(r) PROVE Right(booking'[b])
  <2>1. CASE Insert(r)
    BY <1>1, <1>2, <2>1 DEF Insert, Inserts
  <2> QED
    BY <1>1, <1>3, <1>5, <2>1 DEF Handler, KeyRead, Claim, CheckHours, Quote, Count, Answer, Refuse,
       ModifyRead, Rebook, Crash
<1>6. CASE Edits
  BY <1>1, <1>6 DEF Edits, SetSchedule, AddBlackout, RemoveBlackout, SetPricing, UpdateConfig,
     UpdatePromo, CreatePromoCode, SwitchPromo, CacheExpires
<1>7. ASSUME NEW k \in Keys, SentinelExpires(k) \/ AnswerExpires(k) PROVE Right(booking'[b])
  BY <1>1, <1>7 DEF SentinelExpires, AnswerExpires
<1>8. CASE UNCHANGED vars
  BY <1>1, <1>8 DEF vars
<1> QED
  BY <1>4, <1>5, <1>6, <1>7, <1>8 DEF Next

LEMMA Idles ==
  /\ Idle.op = "idle"
  /\ "idle" \notin {"claim", "hours", "quote", "insert", "rewrite", "count", "answer", "refuse"}
BY DEF Idle

\* The order a handler carries on with: priced by a quote, and of a change only where it is allowed.
LEMMA HandlerPriced ==
  ASSUME Shape, Orders, Priced, NEW r \in Requests, Handler(r)
  PROVE  /\ reqs'[r].op \in {"insert", "rewrite"} => Says(reqs'[r].w, reqs'[r].price)
         /\ reqs'[r] # Idle /\ reqs'[r].b # 0 => "modify" \in load.ops
<1>0. PICK n : reqs'[r] = n /\ \A m : Goto(r, m) => n = m
  BY Frame
<1>1. PICK q : q = reqs[r]
  OBVIOUS
<1>2. q # Idle => DOMAIN q = OrderFields /\ q.op \in Steps /\ (q.b # 0 => "modify" \in load.ops)
  BY <1>1, Kinds DEF Working, OrderShape, Priced
<1>3. ASSUME NEW k, NEW w, NEW code, KeyRead(r, k, w, code) \/ Rebook(r, k, w)
      PROVE  n.op \notin {"insert", "rewrite"} /\ n.b = 0
  <2>1. \/ n = Order(k, w, code, "claim", FALSE)
        \/ n = Order(k, w, code, "hours", FALSE)
        \/ n = Order(NoKey, w, FALSE, "hours", FALSE)
    BY <1>0, <1>3 DEF KeyRead, Rebook
  <2> QED
    BY <2>1 DEF Order
<1>4. ASSUME NEW b \in Bookings, NEW w, ModifyRead(r, b, w.to)
      PROVE  n.op \notin {"insert", "rewrite"} /\ "modify" \in load.ops
  <2>1. PICK o : \E k, v : o = Order(k, v, FALSE, "hours", FALSE) /\ n = [o EXCEPT !.b = b]
    BY <1>0, <1>4 DEF ModifyRead
  <2> QED
    BY <1>4, <2>1 DEF ModifyRead, Starts, Order
<1>5. CASE Quote(r)
  <2>1. q.op = "quote" /\ q # Idle
    BY <1>1, <1>5, Idles DEF Quote, At
  <2>2. \/ \E price, step : n = [q EXCEPT !.op = step, !.price = price]
        \/ n = [q EXCEPT !.op = "refuse"]
    BY <1>0, <1>1, <1>5 DEF Quote, On
  <2>3. n.b = q.b
    BY <1>2, <2>1, <2>2 DEF OrderFields
  <2> QED
    BY <1>0, <1>1, <1>2, <1>5, <2>1, <2>3, QuoteSays
<1>6. CASE Claim(r) \/ CheckHours(r) \/ Insert(r) \/ Count(r)
  <2>1. q # Idle
    BY <1>1, <1>6, Idles DEF Claim, CheckHours, Insert, Count, At
  <2>2. \/ n = Idle
        \/ \E step \in {"hours", "quote", "count", "answer", "refuse"} :
             \/ n = [q EXCEPT !.op = step]
             \/ n = [q EXCEPT !.op = step, !.guarded = TRUE]
             \/ \E seen : n = [q EXCEPT !.op = step, !.seen = seen]
             \/ \E b : n = [q EXCEPT !.op = step, !.made = b]
    BY <1>0, <1>1, <1>6 DEF Claim, CheckHours, Insert, Count, On, Done
  <2>3. n = Idle \/ (n.op \notin {"insert", "rewrite"} /\ n.b = q.b)
    BY <1>2, <2>1, <2>2 DEF OrderFields
  <2> QED
    BY <1>0, <1>2, <2>1, <2>3 DEF Idle
<1>7. CASE Answer(r) \/ Refuse(r) \/ Rewrite(r) \/ Crash(r)
  <2>1. n = Idle
    BY <1>0, <1>7 DEF Answer, Refuse, Rewrite, Crash, Done
  <2> QED
    BY <1>0, <2>1 DEF Idle
<1> QED
  BY <1>0, <1>3, <1>4, <1>5, <1>6, <1>7 DEF Handler

LEMMA NextPriced ==
  ASSUME Shape, Orders, Priced, [Next]_vars
  PROVE  Priced'
<1>1. load' = load
  BY HandlerOrder, OtherSteps
<1>2. \A w, p : Says(w, p)' <=> Says(w, p)
  BY <1>1 DEF Says
<1>3. ASSUME NEW q \in Requests
      PROVE  /\ reqs'[q].op \in {"insert", "rewrite"} => Says(reqs'[q].w, reqs'[q].price)
             /\ reqs'[q] # Idle /\ reqs'[q].b # 0 => "modify" \in load.ops
  <2>1. CASE reqs'[q] = reqs[q]
    BY <2>1 DEF Priced, Working
  <2>2. CASE reqs'[q] # reqs[q]
    <3>1. Handler(q)
      BY <2>2, HandlerOrder, OtherSteps
    <3> QED
      BY <3>1, HandlerPriced
  <2> QED
    BY <2>1, <2>2
<1>4. ASSUME NEW b \in Bookings, Made(b)'
      PROVE  /\ Says(booking'[b].w, booking'[b].price)
             /\ booking'[b].price.total >= 0 /\ "modify" \notin load.ops
                  => booking'[b].refund \in 0..booking'[b].price.total
  BY <1>4, RowsPriced
<1> QED
  BY <1>1, <1>2, <1>3, <1>4 DEF Priced, Says, Working

-----------------------------------------------------------------------------
LEMMA InitInv == Init => Inv
<1> SUFFICES ASSUME Init PROVE Inv
  OBVIOUS
<1>1. Shape
  <2>1. key = [k \in Keys |-> [st |-> "none", b |-> 0]] /\ NBookings \in Nat /\ MaxFaults \in Nat
    BY WorkloadAssumption DEF Init, NoEntry
  <2>2. promo \in [there : BOOLEAN, terms : load.promos, active : BOOLEAN, used : Nat]
    <3>1. promo \in [there : {"newCode" \notin load.ops}, terms : load.promos, active : {TRUE}, used : {0}]
      BY DEF Init
    <3>2. promo = [there |-> promo.there, terms |-> promo.terms, active |-> promo.active, used |-> promo.used]
      BY <3>1
    <3>3. promo.there = ("newCode" \notin load.ops) /\ promo.active = TRUE
      BY <3>1
    <3>4. promo.terms \in load.promos /\ promo.used = 0
      BY <3>1
    <3>5. promo.there \in BOOLEAN /\ promo.active \in BOOLEAN
      BY <3>3
    <3> QED
      BY <3>2, <3>4, <3>5
  <2>3. Stores
    BY <2>1, <2>2 DEF Init, Stores
  <2> QED
    BY <2>3 DEF Init, Shape
<1>2. Orders
  BY DEF Init, Orders, Working, Made, NoBooking
<1>3. KeysHold
  BY DEF Init, KeysHold, KeyHolds, EntryHolds, Unheld, Guards, Working, Bears, Under, Made,
     NoBooking, NoEntry, Bookings
<1>4. Counted
  <2>1. WithCode = {} /\ ToCount = {} /\ Admitted = {}
    BY DEF Init, WithCode, ToCount, Admitted, Made, NoBooking, Idle, At
  <2>2. promo.used = 0 /\ promo.terms.limit \in Nat
    BY WorkloadAssumption DEF Init, Promos
  <2>3. Cardinality({}) = 0 /\ Cardinality(load.crew) \in Nat
    BY <1>1, FS_EmptySet, Sizes
  <2>4. promo.terms.limit > 0 => 0 < promo.terms.limit + Cardinality(load.crew)
    BY <2>2, <2>3
  <2> QED
    BY <2>1, <2>2, <2>3, <2>4 DEF Counted
<1>5. Priced
  BY DEF Init, Priced, Working, Made, NoBooking, Idle
<1> QED
  BY <1>1, <1>2, <1>3, <1>4, <1>5 DEF Inv

LEMMA Invariant == Spec => []Inv
<1>1. Inv /\ [Next]_vars => Inv'
  BY NextShape, NextOrders, NextKeys, NextCounts, NextPriced DEF Inv
<1> QED
  BY InitInv, <1>1, PTL DEF Spec

\* The rows, the entries in Redis and the handlers' steps are those the code writes, and the count
\* of uses is at most that of the bookings.
THEOREM TypeCorrect == Spec => []TypeOK
<1>1. Inv => TypeOK
  <2> SUFFICES ASSUME Shape, KeysHold, Counted PROVE TypeOK
    BY DEF Inv
  <2>1. promo.used \in 0..NBookings
    <3>1. promo.used \in Nat /\ NBookings \in Nat
      BY WorkloadAssumption DEF Shape, Stores
    <3> QED
      BY <3>1, Sizes DEF Counted
  <2>2. cache \subseteq load.rates /\ Cardinality(cache) <= 1
    <3>1. CASE cache = {}
      BY <3>1, FS_EmptySet
    <3>2. ASSUME NEW f \in load.rates, cache = {f}
          PROVE  cache \subseteq load.rates /\ Cardinality(cache) <= 1
      <4>1. Cardinality({f}) = 1
        BY FS_Singleton
      <4> QED
        BY <3>2, <4>1
    <3> QED
      BY <3>1, <3>2 DEF Shape, Stores
  <2>3. promo \in [there : BOOLEAN, terms : load.promos, active : BOOLEAN, used : 0..NBookings]
    BY <2>1 DEF Shape, Stores
  <2>4. \A k \in Keys :
          \/ key[k].st \in {"none", "processing"} /\ key[k].b = 0
          \/ key[k].st = "answer" /\ key[k].b \in Bookings /\ Under(key[k].b, k)
    BY DEF KeysHold, EntryHolds, Shape, Stores
  <2>5. \A b \in Bookings :
          Made(b) => /\ booking[b].st \in {"pending", "cancelled"}
                     /\ booking[b].k \in Keys \cup {NoKey}
    BY Kinds DEF RowShape
  <2>6. \A r \in Requests :
          reqs[r].op \in {"idle", "claim", "hours", "quote", "insert", "rewrite", "count", "answer",
                          "refuse"}
    BY Kinds DEF OrderShape, Steps
  <2> QED
    BY <2>2, <2>3, <2>4, <2>5, <2>6 DEF TypeOK, Shape, Stores
<1> QED
  BY <1>1, Invariant, PTL

\* An idempotency key that kept its protection makes one booking, at however many handlers it
\* arrives; and once nobody works under it the booking is the kept answer, or a handler stopped.
THEOREM KeyMakesOne == Spec => []OnceByKey
<1>1. Inv => OnceByKey
  <2> SUFFICES ASSUME KeysHold, NEW k \in Keys \ lapsed
               PROVE  /\ Cardinality({b \in Bookings : Under(b, k)}) <= 1
                      /\ (\E b \in Bookings : Under(b, k)) /\ ~(\E r \in Requests : Guards(r, k))
                           => \/ key[k].st = "answer"
                              \/ key[k].st = "processing" /\ faults > 0
    BY DEF OnceByKey, Inv
  <2>1. KeyHolds(k)
    BY DEF KeysHold
  <2>2. PICK b : Bears(b, k)
    BY <2>1 DEF KeyHolds
  <2>3. {c \in Bookings : Under(c, k)} \subseteq {b}
    BY <2>2 DEF Bears
  <2>4. Cardinality({c \in Bookings : Under(c, k)}) <= 1
    <3>1. IsFiniteSet({b}) /\ Cardinality({b}) = 1
      BY FS_Singleton
    <3>2. Cardinality({c \in Bookings : Under(c, k)}) <= Cardinality({b})
      BY <2>3, <3>1, FS_Subset
    <3> QED
      BY <3>1, <3>2
  <2>5. Bears(0, k) => ~\E c \in Bookings : Under(c, k)
    BY DEF Bears, Bookings
  <2> QED
    BY <2>1, <2>4, <2>5 DEF KeyHolds, HeldBy
<1> QED
  BY <1>1, Invariant, PTL

\* The uses counted never exceed the bookings made with the code, nor its limit by more than the
\* handlers there are; without a fault they are those bookings once all handlers have ended.
THEOREM UsesAreCounted == Spec => []PromoCounted
<1>1. Inv => PromoCounted
  <2> SUFFICES ASSUME Shape, Counted PROVE PromoCounted
    BY DEF Inv
  <2>1. /\ promo.used \in Nat /\ promo.terms.limit \in Nat
        /\ Cardinality(ToCount) \in Nat /\ Cardinality(Admitted) \in Nat
        /\ Cardinality(WithCode) \in Nat /\ Cardinality(load.crew) \in Nat
    BY Sizes, WorkloadAssumption DEF Shape, Stores, Promos
  <2>2. AllQuiet => Cardinality(ToCount) = 0
    <3>1. AllQuiet => ToCount = {}
      BY DEF AllQuiet, Working, ToCount, At, Idle
    <3> QED
      BY <3>1, FS_EmptySet
  <2>3. promo.used <= Cardinality(WithCode)
    BY <2>1 DEF Counted
  <2>4. promo.terms.limit > 0 /\ "limit" \notin load.ops
          => promo.used < promo.terms.limit + Cardinality(load.crew)
    BY <2>1 DEF Counted
  <2>5. faults = 0 /\ AllQuiet => promo.used = Cardinality(WithCode)
    BY <2>1, <2>2 DEF Counted
  <2> QED
    BY <2>3, <2>4, <2>5 DEF PromoCounted, WithCode
<1> QED
  BY <1>1, Invariant, PTL

\* Every booking, also one whose end was changed, is within the hours that its check has read: no
\* part of it on a blackout day, no closed day covered whole, a stay within one day within its hours.
THEOREM ParkedInHours == Spec => []OpenWhileParked
<1>1. Inv => OpenWhileParked
  <2> SUFFICES ASSUME Shape, Orders, NEW b \in Bookings, Made(b)
               PROVE  LET w    == booking[b].w
                          wk   == booking[b].seen.week
                          Days == (w.from \div Day)..((w.to - 1) \div Day)
                          Covered(d) == w.from <= d * Day /\ (d + 1) * Day <= w.to
                      IN /\ \A t \in w.from..(w.to - 1) : (t \div Day) \notin booking[b].seen.dark
                         /\ \A d \in Days : Covered(d) /\ d % 7 \in DOMAIN wk => ~wk[d % 7].closed
                         /\ w.from \div Day = w.to \div Day /\ WeekDay(w.from) \in DOMAIN wk
                              => \A t \in w.from..(w.to - 1) :
                                   LET hours == wk[WeekDay(w.from)]
                                   IN ~hours.closed /\ t % Day >= hours.open /\ t % Day < hours.close
    BY DEF OpenWhileParked, Inv
  <2>1. booking[b].w \in Window /\ Fits(booking[b].w, booking[b].seen)
    BY Kinds DEF RowShape, Orders
  <2> QED
    BY <2>1, FitsMeans
<1> QED
  BY <1>1, Invariant, PTL
\* Every booking's price, also one whose end was changed, is as PriceSays, for stays of any length
\* and whatever hosts and administrators may set; and no cancellation gives back more.
THEOREM PricesAreRight == Spec => []PriceRight
<1>1. Inv => PriceRight
  BY DEF Inv, Priced, Says, PriceRight
<1> QED
  BY <1>1, Invariant, PTL
=============================================================================
