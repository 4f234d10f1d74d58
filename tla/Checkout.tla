------------------------------ MODULE Checkout ------------------------------
(***************************************************************************)
(* The request that makes a booking: the idempotency key in Redis, the     *)
(* space's opening hours and blackout days, the price with its promo code, *)
(* the row, the count of the code's uses, and the answer that is kept.     *)
(* Hosts and administrators edit what the request reads while it runs.     *)
(*                                                                         *)
(* One driver, who holds the slot's lock: locks, and the part of the       *)
(* availability check that looks at other bookings, are in SlotReservation.*)
(* All windows lie ahead of time 0; a request is made then or just before  *)
(* the stay, a cancellation somewhere between.                             *)
(***************************************************************************)
EXTENDS Prices, FiniteSets

CONSTANTS
  Requests,   \* handlers of the server
  Workloads,  \* what a behaviour may do, one chosen at the start
  Keys,       \* idempotency keys of the driver
  NBookings,  \* bound on bookings
  MaxFaults   \* bound on stopped handlers, failed calls of Redis and keys that expire

\* A workload: [ops, crew, faults, windows, tariffs, weeks, darks, promos, rates].  ops is a
\* subset of {"book", "rebook", "code", "modify", "cancel", "hours", "dark", "pricing", "promo", "limit",
\* "newCode", "config"}; tariffs, weeks, darks, promos and rates hold what may be set.
\* A week maps days to [open, close, closed]; a promo code is as in Prices with a limit (0: none).

Bookings == 1..NBookings
NoKey    == "none"   \* of a booking that was made without one

ASSUME KeyAssumption == NoKey \notin Keys

Window == {w \in [from : Nat, to : Nat] : w.from < w.to}

ASSUME WorkloadAssumption ==
  /\ IsFiniteSet(Requests) /\ NBookings \in Nat /\ MaxFaults \in Nat
  /\ \A l \in Workloads :
       /\ l.crew \subseteq Requests /\ l.faults \in 0..MaxFaults /\ l.windows \subseteq Window
       /\ \A wk \in l.weeks : \A d \in DOMAIN wk : wk[d] \in [open : Nat, close : Nat, closed : BOOLEAN]
       /\ \A tf \in l.tariffs : \A type \in DOMAIN tf : tf[type] \in Rules
       /\ l.promos \subseteq Promos /\ l.rates \subseteq Rates

VARIABLES
  load,     \* the workload of this behaviour
  tariff,   \* rows of space_pricing_rules
  week,     \* rows of space_schedules
  dark,     \* days in space_blackout_dates
  promo,    \* the row of promo_codes: [there, terms, active, used]
  rates,    \* commission and tax in platform_config
  cache,    \* the server's copy of rates, {} or one of them
  key,      \* key[k]: the entry in Redis
  lapsed,   \* history: keys that stopped protecting their request
  booking,  \* rows of bookings
  reqs,     \* reqs[r]: what handler r has read and has still to do
  faults    \* stopped handlers, failed calls and expired keys so far

offer == <<tariff, week, dark, rates>>
vars  == <<load, offer, promo, cache, key, lapsed, booking, reqs, faults>>

-----------------------------------------------------------------------------
Idle      == [op |-> "idle"]
NoEntry   == [st |-> "none", b |-> 0]
NoBooking == [st |-> "none"]
NoHours   == [week |-> <<>>, dark |-> {}]   \* history: what the check of the hours has read

Starts(r, op) == op \in load.ops /\ r \in load.crew /\ reqs[r] = Idle
At(r, step)   == reqs[r].op = step
Goto(r, rec)  == reqs' = [reqs EXCEPT ![r] = rec]
Done(r)       == Goto(r, Idle)
On(r, step)   == Goto(r, [reqs[r] EXCEPT !.op = step])
MayFail       == faults < load.faults
Fault         == MayFail /\ faults' = faults + 1

Made(b)      == booking[b].st # "none"
FirstFree    == {b \in Bookings : ~Made(b) /\ \A c \in 1..(b - 1) : Made(c)}
Under(b, k)  == Made(b) /\ booking[b].k = k
Working(r)   == reqs[r] # Idle
AllQuiet     == \A r \in Requests : ~Working(r)
Guards(r, k) == Working(r) /\ reqs[r].b = 0 /\ reqs[r].k = k /\ reqs[r].guarded

-----------------------------------------------------------------------------
(***************************************************************************)
(* The middleware.  An entry answers or refuses the request at once; where *)
(* Redis throws the request goes on without the key.                       *)
(***************************************************************************)
Order(k, w, code, step, guarded) ==
  [op |-> step, k |-> k, w |-> w, code |-> code, guarded |-> guarded, b |-> 0,
   made |-> 0, price |-> [total |-> 0], seen |-> NoHours]

KeyRead(r, k, w, code) ==
  /\ Starts(r, "book") /\ FirstFree # {}
  /\ code => "code" \in load.ops
  /\ \/ /\ key[k].st = "none"
        /\ Goto(r, Order(k, w, code, "claim", FALSE))
        /\ UNCHANGED <<lapsed, faults>>
     \/ /\ Fault /\ lapsed' = lapsed \cup {k}
        /\ Goto(r, Order(k, w, code, "hours", FALSE))
  /\ UNCHANGED <<load, offer, promo, cache, key, booking>>

\* Mutant: the claim overwrites what is there (no NX).
ClaimAnyway(r) ==
  /\ At(r, "claim")
  /\ key' = [key EXCEPT ![reqs[r].k] = [st |-> "processing", b |-> 0]]
  /\ Goto(r, [reqs[r] EXCEPT !.op = "hours", !.guarded = TRUE])
  /\ UNCHANGED <<load, offer, promo, cache, lapsed, booking, faults>>

Claim(r) ==
  /\ At(r, "claim")
  /\ LET k == reqs[r].k IN
     \/ /\ key[k].st = "none"
        /\ key' = [key EXCEPT ![k] = [st |-> "processing", b |-> 0]]
        /\ Goto(r, [reqs[r] EXCEPT !.op = "hours", !.guarded = TRUE])
        /\ UNCHANGED <<lapsed, faults>>
     \/ /\ key[k].st # "none" /\ Done(r)
        /\ UNCHANGED <<key, lapsed, faults>>
     \/ /\ Fault /\ lapsed' = lapsed \cup {k} /\ On(r, "hours")
        /\ UNCHANGED key
  /\ UNCHANGED <<load, offer, promo, cache, booking>>

\* The same space and vehicle once more, by a route without the middleware.
Rebook(r, b, w) ==
  /\ Starts(r, "rebook") /\ Made(b) /\ FirstFree # {}
  /\ Goto(r, Order(NoKey, w, FALSE, "hours", FALSE))
  /\ UNCHANGED <<load, offer, promo, cache, key, lapsed, booking, faults>>

-----------------------------------------------------------------------------
(***************************************************************************)
(* runSpaceLevelChecks.  The days a stay spans are those of its start and  *)
(* of every 24 hours after it; only a stay that spans one is held to that  *)
(* day's hours, by the times of day of its start and its end.              *)
(***************************************************************************)
Spanned(w) == {WeekDay(w.from + Day * k) : k \in 0..((Units(w) - 1) \div Day)}

WithinHours(w, wk) ==
  \A d \in Spanned(w) \cap DOMAIN wk :
     /\ ~wk[d].closed
     /\ Cardinality(Spanned(w)) = 1 => w.from % Day >= wk[d].open /\ w.to % Day <= wk[d].close

\* Mutant: only the day a stay starts on is looked up.
DarkOnStart(w, dk) == (w.from \div Day) \in dk

\* The day of the end counts, also where it ends at midnight.
DarkOn(w, dk) == \E d \in dk : d >= w.from \div Day /\ d <= w.to \div Day

\* The space, the vehicle or the other bookings of the slot may refuse here as well.
CheckHours(r) ==
  /\ At(r, "hours")
  /\ \/ /\ WithinHours(reqs[r].w, week) /\ ~DarkOn(reqs[r].w, dark)
        /\ Goto(r, [reqs[r] EXCEPT !.op = "quote", !.seen = [week |-> week, dark |-> dark]])
     \/ On(r, "refuse")
  /\ UNCHANGED <<load, offer, promo, cache, key, lapsed, booking, faults>>

\* Mutant: one more use than the limit.
HasUsesOffByOne(p) == p.terms.limit = 0 \/ p.used <= p.terms.limit

HasUses(p) == p.terms.limit = 0 \/ p.used < p.terms.limit

\* calculateBookingPrice.  The rates come from the cache, which is filled where it is empty.
\* It reads tariff, code and rates one after the other; as nothing ties one of them to another,
\* reading them at one moment leaves no outcome out.
Quotes(w, code, lead) ==
  LET fees == IF cache = {} THEN rates ELSE CHOOSE c \in cache : TRUE
      Left(type) == BeforePromo(type, tariff[type], w, lead).left
      Off(type)  == IF code THEN PromoDiscount(promo.terms, Left(type)) ELSE 0
  IN  {PriceOf(type, tariff[type], w, lead, Off(type), fees) :
         type \in {ty \in RateTypes(tariff, w) : code => PromoAllows(promo.terms, Left(ty))}}

Quote(r) ==
  /\ At(r, "quote")
  /\ LET q == reqs[r]
         usable == q.code => promo.there /\ promo.active /\ HasUses(promo)
     IN \E lead \in {0, q.w.from} :
          IF usable /\ Quotes(q.w, q.code, lead) # {}
          THEN /\ \E price \in Quotes(q.w, q.code, lead) :
                    Goto(r, [q EXCEPT !.op = IF q.b = 0 THEN "insert" ELSE "rewrite", !.price = price])
               /\ cache' = IF cache = {} THEN {rates} ELSE cache
          ELSE On(r, "refuse") /\ UNCHANGED cache
  /\ UNCHANGED <<load, offer, promo, key, lapsed, booking, faults>>

-----------------------------------------------------------------------------
(***************************************************************************)
(* The row and what follows it.                                            *)
(***************************************************************************)
\* Nothing else refuses a pending row: the exclusion constraint is over confirmed and active ones.
Insert(r) ==
  /\ At(r, "insert")
  /\ LET q == reqs[r] IN
     IF FirstFree = {}
     THEN On(r, "refuse") /\ UNCHANGED booking
     ELSE \E b \in FirstFree :
            /\ booking' = [booking EXCEPT ![b] =
                 [st |-> "pending", k |-> q.k, w |-> q.w, code |-> q.code,
                  price |-> q.price, seen |-> q.seen, refund |-> 0]]
            /\ Goto(r, [q EXCEPT !.op = IF q.code THEN "count" ELSE "answer", !.made = b])
  /\ UNCHANGED <<load, offer, promo, cache, key, lapsed, faults>>

\* The increment is atomic; where it throws the booking stands without it.
Count(r) ==
  /\ At(r, "count") /\ On(r, "answer")
  /\ \/ promo' = [promo EXCEPT !.used = @ + 1] /\ UNCHANGED faults
     \/ Fault /\ UNCHANGED promo
  /\ UNCHANGED <<load, offer, cache, key, lapsed, booking>>

\* res.json puts the answer into Redis in place of the sentinel, unless that write throws.
Answer(r) ==
  /\ At(r, "answer") /\ Done(r)
  /\ LET k == reqs[r].k IN
     \/ /\ key' = IF reqs[r].guarded THEN [key EXCEPT ![k] = [st |-> "answer", b |-> reqs[r].made]] ELSE key
        /\ UNCHANGED <<lapsed, faults>>
     \/ /\ Fault /\ reqs[r].guarded /\ lapsed' = lapsed \cup {k} /\ UNCHANGED key
  /\ UNCHANGED <<load, offer, promo, cache, booking>>

\* Mutant: a refusal is kept like an answer.
RefuseKept(r) ==
  /\ At(r, "refuse") /\ Done(r)
  /\ key' = IF reqs[r].guarded THEN [key EXCEPT ![reqs[r].k] = [st |-> "answer", b |-> 0]] ELSE key
  /\ UNCHANGED <<load, offer, promo, cache, lapsed, booking, faults>>

\* A refusal frees the key, whoever holds it by now.
Refuse(r) ==
  /\ At(r, "refuse") /\ Done(r)
  /\ key' = IF reqs[r].guarded THEN [key EXCEPT ![reqs[r].k] = NoEntry] ELSE key
  /\ UNCHANGED <<load, offer, promo, cache, lapsed, booking, faults>>

-----------------------------------------------------------------------------
(***************************************************************************)
(* A change of the end, before any payment: the same checks and a new      *)
(* price without the code, written whatever has become of the row.         *)
(***************************************************************************)
ModifyRead(r, b, to) ==
  /\ Starts(r, "modify") /\ booking[b].st = "pending"
  /\ to > booking[b].w.from
  /\ Goto(r, [Order(booking[b].k, [booking[b].w EXCEPT !.to = to], FALSE, "hours", FALSE)
                EXCEPT !.b = b])
  /\ UNCHANGED <<load, offer, promo, cache, key, lapsed, booking, faults>>

Rewrite(r) ==
  /\ At(r, "rewrite") /\ Done(r)
  /\ LET q == reqs[r] IN
     booking' = [booking EXCEPT ![q.b].w = q.w, ![q.b].price = q.price, ![q.b].seen = q.seen]
  /\ UNCHANGED <<load, offer, promo, cache, key, lapsed, faults>>

\* The amount a cancellation computes from the price in the row; BookingPayments has its payment.
Cancel(b, by, policy, left) ==
  /\ "cancel" \in load.ops /\ booking[b].st = "pending" /\ left <= booking[b].w.from
  /\ booking' = [booking EXCEPT ![b].st = "cancelled",
                                ![b].refund = RefundOf(booking[b].price.total, policy, by, left)]
  /\ UNCHANGED <<load, offer, promo, cache, key, lapsed, reqs, faults>>

-----------------------------------------------------------------------------
(***************************************************************************)
(* What hosts and administrators change.                                   *)
(***************************************************************************)
SetSchedule(wk) ==
  /\ "hours" \in load.ops /\ wk # week
  /\ week' = wk
  /\ UNCHANGED <<load, tariff, dark, rates, promo, cache, key, lapsed, booking, reqs, faults>>

AddBlackout(d) ==
  /\ "dark" \in load.ops /\ d \notin dark
  /\ dark' = dark \cup {d}
  /\ UNCHANGED <<load, tariff, week, rates, promo, cache, key, lapsed, booking, reqs, faults>>

RemoveBlackout(d) ==
  /\ "dark" \in load.ops /\ d \in dark
  /\ dark' = dark \ {d}
  /\ UNCHANGED <<load, tariff, week, rates, promo, cache, key, lapsed, booking, reqs, faults>>

SetPricing(t) ==
  /\ "pricing" \in load.ops /\ t # tariff
  /\ tariff' = t
  /\ UNCHANGED <<load, week, dark, rates, promo, cache, key, lapsed, booking, reqs, faults>>

\* Each key is written by itself; a request with several keys is several of these steps.
UpdateConfig(f) ==
  /\ "config" \in load.ops
  /\ f # rates /\ (f.commission = rates.commission \/ f.tax = rates.tax)
  /\ rates' = f
  /\ UNCHANGED <<load, tariff, week, dark, promo, cache, key, lapsed, booking, reqs, faults>>

\* Five minutes after it was filled.
CacheExpires ==
  /\ "config" \in load.ops /\ cache # {} /\ cache' = {}
  /\ UNCHANGED <<load, offer, promo, key, lapsed, booking, reqs, faults>>

\* One code of a name: a second one is refused before the insert, or by the index.
CreatePromoCode(terms) ==
  /\ ~promo.there
  /\ promo' = [there |-> TRUE, terms |-> terms, active |-> TRUE, used |-> 0]
  /\ UNCHANGED <<load, offer, cache, key, lapsed, booking, reqs, faults>>

\* An administrator switches the code off or on, or it runs out and is prolonged.
SwitchPromo ==
  /\ "promo" \in load.ops /\ promo.there
  /\ promo' = [promo EXCEPT !.active = ~@]
  /\ UNCHANGED <<load, offer, cache, key, lapsed, booking, reqs, faults>>

UpdatePromo(terms) ==
  /\ "limit" \in load.ops /\ promo.there /\ terms # promo.terms
  /\ promo' = [promo EXCEPT !.terms = terms]
  /\ UNCHANGED <<load, offer, cache, key, lapsed, booking, reqs, faults>>

(***************************************************************************)
(* Redis forgets, and the process stops.                                   *)
(***************************************************************************)
\* The sentinel lasts 30 seconds.  Where its handler stopped before the row nothing is lost.
SentinelExpires(k) ==
  /\ key[k].st = "processing" /\ Fault
  /\ key' = [key EXCEPT ![k] = NoEntry]
  /\ lapsed' = IF (\E r \in Requests : Guards(r, k)) \/ (\E b \in Bookings : Under(b, k))
               THEN lapsed \cup {k} ELSE lapsed
  /\ UNCHANGED <<load, offer, promo, cache, booking, reqs>>

\* The answer lasts an hour.
AnswerExpires(k) ==
  /\ key[k].st = "answer" /\ Fault
  /\ key' = [key EXCEPT ![k] = NoEntry] /\ lapsed' = lapsed \cup {k}
  /\ UNCHANGED <<load, offer, promo, cache, booking, reqs>>

Crash(r) ==
  /\ Working(r) /\ Fault /\ Done(r)
  /\ UNCHANGED <<load, offer, promo, cache, key, lapsed, booking>>

-----------------------------------------------------------------------------
Init ==
  /\ load \in Workloads
  /\ tariff \in load.tariffs /\ week \in load.weeks /\ dark \in SUBSET load.darks
  /\ promo \in [there : {"newCode" \notin load.ops}, terms : load.promos, active : {TRUE}, used : {0}]
  /\ rates \in load.rates /\ cache = {}
  /\ key = [k \in Keys |-> NoEntry] /\ lapsed = {}
  /\ booking = [b \in Bookings |-> NoBooking]
  /\ reqs = [r \in Requests |-> Idle] /\ faults = 0

Handler(r) ==
  \/ \E k \in Keys, w \in load.windows, code \in BOOLEAN : KeyRead(r, k, w, code)
  \/ Claim(r) \/ CheckHours(r) \/ Quote(r) \/ Insert(r) \/ Count(r) \/ Answer(r) \/ Refuse(r)
  \/ \E b \in Bookings, w \in load.windows : ModifyRead(r, b, w.to) \/ Rebook(r, b, w)
  \/ Rewrite(r) \/ Crash(r)

Edits ==
  \/ \E wk \in load.weeks : SetSchedule(wk)
  \/ \E d \in load.darks : AddBlackout(d) \/ RemoveBlackout(d)
  \/ \E t \in load.tariffs : SetPricing(t)
  \/ \E f \in load.rates : UpdateConfig(f)
  \/ \E terms \in load.promos : UpdatePromo(terms) \/ CreatePromoCode(terms)
  \/ SwitchPromo \/ CacheExpires

Next ==
  \/ \E r \in Requests : Handler(r)
  \/ \E b \in Bookings, by \in {"user", "host", "admin"}, policy \in {"flexible", "moderate", "strict"},
        left \in {Hour, Hour + 1, Day, Day + 1} : Cancel(b, by, policy, left)
  \/ Edits
  \/ \E k \in Keys : SentinelExpires(k) \/ AnswerExpires(k)

Spec == Init /\ [][Next]_vars

-----------------------------------------------------------------------------
(***************************************************************************)
(* Properties.                                                             *)
(***************************************************************************)
\* The rows and the entries in Redis; a kept answer is one that made a booking under that key
\* (idempotency keeps 2xx answers only).
TypeOK ==
  /\ load \in Workloads
  /\ tariff \in load.tariffs /\ week \in load.weeks /\ dark \subseteq load.darks /\ rates \in load.rates
  /\ promo \in [there : BOOLEAN, terms : load.promos, active : BOOLEAN, used : 0..NBookings]
  /\ cache \subseteq load.rates /\ Cardinality(cache) <= 1
  /\ lapsed \subseteq Keys /\ faults \in 0..MaxFaults
  /\ \A k \in Keys :
       \/ key[k].st \in {"none", "processing"} /\ key[k].b = 0
       \/ key[k].st = "answer" /\ key[k].b \in Bookings /\ Under(key[k].b, k)
  /\ \A b \in Bookings :
       Made(b) => /\ booking[b].st \in {"pending", "cancelled"}
                  /\ booking[b].k \in Keys \cup {NoKey}
  /\ \A r \in Requests :
       reqs[r].op \in {"idle", "claim", "hours", "quote", "insert", "rewrite", "count", "answer", "refuse"}

\* A key that kept its protection makes one booking, however often and at how many handlers it
\* arrives (bookings/routes.ts: "duplicate submissions within 1 hour return the cached response
\* without creating a second booking"), and once nobody works under it the next request is
\* answered with that booking, unless the process stopped before the answer was kept.
OnceByKey ==
  \A k \in Keys \ lapsed :
     /\ Cardinality({b \in Bookings : Under(b, k)}) <= 1
     /\ (\E b \in Bookings : Under(b, k)) /\ ~(\E r \in Requests : Guards(r, k))
          => \/ key[k].st = "answer"
             \/ key[k].st = "processing" /\ faults > 0

\* The uses counted never exceed the bookings made with the code, and exceed its limit by no more
\* than the handlers that may have read the count before another's increment; where no handler
\* fails every such booking is counted once nobody is at work, however many handlers there were
\* (createBooking, incrementPromoUsage).
PromoCounted ==
  LET WithCode == {b \in Bookings : Made(b) /\ booking[b].code} IN
  /\ promo.used <= Cardinality(WithCode)
  /\ promo.terms.limit > 0 /\ "limit" \notin load.ops
       => promo.used < promo.terms.limit + Cardinality(load.crew)
  /\ faults = 0 /\ AllQuiet => promo.used = Cardinality(WithCode)

\* By the hours the check has read: no minute of the stay is on a blackout day, no day that the
\* stay covers whole is a closed one, and a stay within one day is within that day's hours
\* (runSpaceLevelChecks; see the README for the stays over midnight it lets through).
OpenWhileParked ==
  \A b \in {c \in Bookings : Made(c)} :
     LET w    == booking[b].w
         wk   == booking[b].seen.week
         Days == (w.from \div Day)..((w.to - 1) \div Day)
         Covered(d) == w.from <= d * Day /\ (d + 1) * Day <= w.to
     IN /\ \A t \in w.from..(w.to - 1) : (t \div Day) \notin booking[b].seen.dark
        /\ \A d \in Days : Covered(d) /\ d % 7 \in DOMAIN wk => ~wk[d % 7].closed
        /\ w.from \div Day = w.to \div Day /\ WeekDay(w.from) \in DOMAIN wk
             => \A t \in w.from..(w.to - 1) :
                  LET hours == wk[WeekDay(w.from)]
                  IN ~hours.closed /\ t % Day >= hours.open /\ t % Day < hours.close

\* The surcharges recomputed half hour by half hour: a paisa of rounding for each peak and day,
\* and half an hour for a weekend that starts or ends within one of the whole hours.
PeakDue(rule, w, base) ==
  LET Rate(pk, t) == IF pk.from <= t % Day /\ t % Day < pk.to THEN base * (pk.pct - 100) ELSE 0
      Of(t) == SumFunctionOnSet([pk \in rule.peaks |-> Rate(pk, t)], rule.peaks)
      Halves == w.from..(w.to - 1)
  IN  SumFunctionOnSet([t \in Halves |-> Of(t)], Halves)

PeakFair(rule, w, p) ==
  LET Slack == Units(w) * 100 * Cardinality(rule.peaks) * (Units(w) \div Day + 2)
      Due == PeakDue(rule, w, p.base)
  IN  IF p.type = "hourly" THEN p.peak * (Units(w) * 100) \in (Due - Slack)..(Due + Slack)
      ELSE p.peak = 0

WeekendFair(rule, w, p) ==
  LET Extra == (p.base + p.peak) * (rule.weekend - 100)
      Due   == Extra * Cardinality({t \in w.from..(w.to - 1) : IsWeekend(t)})
      Slack == Extra + Units(w) * 100
  IN  IF rule.weekend > 100 THEN p.weekend * (Units(w) * 100) \in (Due - Slack)..(Due + Slack)
      ELSE p.weekend = 0

\* No discount of more than 100 per cent: the two of the host together, a code alone.
FairDiscounts(rule, promos) ==
  /\ rule.longPct + rule.earlyPct <= 100
  /\ \A terms \in promos : terms.kind = "percent" => terms.value <= 100

\* What a price says: its parts add up; the surcharges are for the hours the stay has in the
\* peaks and on the weekend, by the rules of one tariff; and before the fees it is not below the
\* least price, nor below zero by more than the paisa that two discounts, each rounded up, may
\* take off a price they halve.
PriceSays(w, p, tariffs, promos) ==
  LET due == p.base + p.peak + p.weekend - p.discount + p.raised IN
  /\ p.total = due + p.fee + p.tax
  /\ \E tf \in {t \in tariffs : p.type \in DOMAIN t} :
       LET rule == tf[p.type] IN
       /\ PeakFair(rule, w, p) /\ WeekendFair(rule, w, p)
       /\ rule.floor > 0 => due >= rule.floor /\ p.total >= due
       /\ FairDiscounts(rule, promos) => due >= -1

\* Every booking's price is as PriceSays, and a cancellation gives back no more than the price,
\* where no change of the end rewrites the price behind it (calculateBookingPrice,
\* calculateRefundAmount).
PriceRight ==
  \A b \in {c \in Bookings : Made(c)} :
     LET p == booking[b].price IN
     /\ PriceSays(booking[b].w, p, load.tariffs, load.promos)
     /\ p.total >= 0 /\ "modify" \notin load.ops => booking[b].refund \in 0..p.total
=============================================================================
