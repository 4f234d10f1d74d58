------------------------------- MODULE Prices -------------------------------
(***************************************************************************)
(* What a stay costs and what a cancellation gives back, as operators.     *)
(*                                                                         *)
(* Time is counted in half hours from a Monday at midnight (UTC), money in *)
(* paise, a multiplier or a rate in per cent, so that each rounding to two *)
(* decimals in the code is one division here.  A window is [from, to].     *)
(*                                                                         *)
(* A tariff maps the rate types a host has set to their rules, each        *)
(*   [rate, peaks, weekend, longUnits, longPct, earlyUnits, earlyPct, floor]*)
(* with a peak [from, to, pct] in half hours of the day; 0 is "not set".   *)
(* A promo code has [kind, value, cap, least, limit].                      *)
(***************************************************************************)
EXTENDS Integers, FiniteSets, Functions

Hour  == 2
Day   == 24 * Hour
Month == 30 * Day

\* What the validators let hosts and administrators set, peaks being times of the clock.  The rates
\* in platform_config are not validated: they are taken to be at least 0.
Peaks == [from : 0..Day, to : 0..Day, pct : {n \in Nat : n >= 100}]
Rules ==
  {rule \in [rate : Nat, peaks : SUBSET Peaks, weekend : Nat, longUnits : Nat, longPct : Nat,
             earlyUnits : Nat, earlyPct : Nat, floor : Nat] : IsFiniteSet(rule.peaks)}
Promos == [kind : {"flat", "percent"}, value : Nat, cap : Nat, least : Nat, limit : Nat]
Rates  == [commission : Nat, tax : Nat]

Smaller(a, b) == IF a < b THEN a ELSE b
Larger(a, b)  == IF a > b THEN a ELSE b

\* n / d to the nearest, a half upwards as Math.round does.
Round(n, d) == (n + d \div 2) \div d

Units(w)     == w.to - w.from
WeekDay(t)   == (t \div Day) % 7                  \* 0 is Monday
IsWeekend(t) == WeekDay(t) \in {5, 6}

-----------------------------------------------------------------------------
(***************************************************************************)
(* The rule that fits the length of the stay.  A tariff without an hourly  *)
(* rule falls back on the first row the query returns, whichever it is.    *)
(***************************************************************************)
RateTypes(tariff, w) ==
  IF Units(w) >= 28 * Day /\ "monthly" \in DOMAIN tariff THEN {"monthly"}
  ELSE IF Units(w) >= Day /\ "daily" \in DOMAIN tariff THEN {"daily"}
  ELSE IF "hourly" \in DOMAIN tariff THEN {"hourly"}
  ELSE DOMAIN tariff

BasePrice(type, rate, w) ==
  CASE type = "monthly" -> Round(rate * Units(w), Month)
    [] type = "daily"   -> rate * ((Units(w) + Day - 1) \div Day)
    [] OTHER            -> Round(rate * Units(w), Hour)

\* The days whose midnight is before the end, from the day the stay starts.
Midnights(w) == {d * Day : d \in (w.from \div Day)..((w.to - 1) \div Day)}

\* Mutant: the whole peak window is charged once the stay touches it.
PeakUnitsUnclamped(w, p, midnight) ==
  IF midnight + p.to > w.from /\ midnight + p.from < w.to THEN p.to - p.from ELSE 0

PeakUnits(w, p, midnight) ==
  Larger(0, Smaller(w.to, midnight + p.to) - Larger(w.from, midnight + p.from))

\* The surcharges, one for each peak and day, each rounded and none below zero.
PeakSurcharge(type, rule, w) ==
  IF type # "hourly" THEN 0
  ELSE LET base == BasePrice(type, rule.rate, w)
           For(p, midnight) ==
             Larger(0, Round(PeakUnits(w, p, midnight) * base * (p.pct - 100), Units(w) * 100))
           OfDay(midnight) == SumFunctionOnSet([p \in rule.peaks |-> For(p, midnight)], rule.peaks)
       IN  SumFunctionOnSet([m \in Midnights(w) |-> OfDay(m)], Midnights(w))

\* Whole hours from the start on, each of the day its first minute is in.
WeekendUnits(w) ==
  LET Steps == {w.from + Hour * k : k \in 0..((Units(w) - 1) \div Hour)}
      Counted == {t \in Steps : IsWeekend(t)}
  IN  SumFunctionOnSet([t \in Counted |-> Smaller(t + Hour, w.to) - t], Counted)

WeekendAdder(rule, price, w) ==
  IF rule.weekend > 100
  THEN Round(price * WeekendUnits(w) * (rule.weekend - 100), Units(w) * 100)
  ELSE 0

\* Both discounts are taken of the price before either.
HostDiscount(rule, price, w, lead) ==
  LET Off(threshold, pct, reached) ==
        IF threshold > 0 /\ pct > 0 /\ reached >= threshold THEN Round(price * pct, 100) ELSE 0
  IN  Off(rule.longUnits, rule.longPct, Units(w)) + Off(rule.earlyUnits, rule.earlyPct, lead)

PromoDiscount(promo, price) ==
  IF promo.kind = "flat" THEN Smaller(promo.value, price)
  ELSE LET off == Round(price * promo.value, 100)
       IN  IF promo.cap > 0 THEN Smaller(off, promo.cap) ELSE off

\* What is left to pay before the code is looked at, and whether the code allows it.
BeforePromo(type, rule, w, lead) ==
  LET base     == BasePrice(type, rule.rate, w)
      peak     == PeakSurcharge(type, rule, w)
      weekend  == WeekendAdder(rule, base + peak, w)
      adjusted == base + peak + weekend
  IN  [base |-> base, peak |-> peak, weekend |-> weekend,
       off |-> HostDiscount(rule, adjusted, w, lead), left |-> adjusted - HostDiscount(rule, adjusted, w, lead)]

PromoAllows(promo, price) == promo.least = 0 \/ price >= promo.least

Total(net, fee, tax) == net + fee + tax

\* The booking's price with its breakdown; the code's discount is 0 without a code.
PriceOf(type, rule, w, lead, off, rates) ==
  LET sums == BeforePromo(type, rule, w, lead)
      net  == sums.left - off
      low  == rule.floor > 0 /\ net < rule.floor
      due  == IF low THEN rule.floor ELSE net
      fee  == Round(due * rates.commission, 100)
      tax  == Round((due + fee) * rates.tax, 100)
  IN  [type |-> type, base |-> sums.base, peak |-> sums.peak, weekend |-> sums.weekend,
       discount |-> sums.off + off, raised |-> due - net, fee |-> fee, tax |-> tax,
       total |-> Total(due, fee, tax)]

-----------------------------------------------------------------------------
(***************************************************************************)
(* What the driver gets back, `left` half hours before the start.          *)
(***************************************************************************)
RefundOf(total, policy, by, left) ==
  IF by \in {"admin", "host"} THEN total
  ELSE CASE policy = "flexible" /\ left > Hour     -> total
         [] policy = "moderate" /\ left > 24 * Hour -> Round(total * 50, 100)
         [] OTHER                                   -> 0
=============================================================================
