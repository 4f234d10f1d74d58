----------------------------- MODULE MCCheckout -----------------------------
\* A small instance of Checkout for TLC.
EXTENDS Checkout, TLC

One   == {1}
Both  == {1, 2}

Win(a, b) == [from |-> a, to |-> b]
At2(day, unit) == day * Day + unit

Morning   == Win(At2(1, 20), At2(1, 24))    \* Tuesday 10:00-12:00
Noon      == Win(At2(1, 23), At2(1, 27))    \* Tuesday 11:30-13:30
Evening   == Win(At2(1, 44), At2(2, 0))     \* Tuesday 22:00-24:00
Overnight == Win(At2(2, 47), At2(3, 3))     \* Wednesday 23:30-Thursday 01:30
IntoSat   == Win(At2(4, 47), At2(5, 4))     \* Friday 23:30-Saturday 02:00
OutOfSun  == Win(At2(6, 45), At2(7, 1))     \* Sunday 22:30-Monday 00:30
TwoDays   == Win(At2(4, 24), At2(6, 24))    \* Friday noon-Sunday noon
FourWeeks == Win(At2(1, 20), At2(29, 20))   \* 28 days
Short == {Morning, Noon, Evening, Overnight, IntoSat, OutOfSun}

Rule(rate, peaks, weekend, long, early, floor) ==
  [rate |-> rate, peaks |-> peaks, weekend |-> weekend, longUnits |-> long[1], longPct |-> long[2],
   earlyUnits |-> early[1], earlyPct |-> early[2], floor |-> floor]
Peak(a, b, pct) == [from |-> a, to |-> b, pct |-> pct]

NoOff   == <<0, 0>>
Plain   == ("hourly" :> Rule(701, {}, 100, NoOff, NoOff, 0))
Peaky   == ("hourly" :> Rule(701, {Peak(16, 22, 150), Peak(21, 26, 133)}, 100, NoOff, NoOff, 0))
Nightly == ("hourly" :> Rule(333, {Peak(44, 48, 200), Peak(0, 2, 120)}, 125, <<4, 10>>, <<Day, 5>>, 0))
Floored == ("hourly" :> Rule(333, {Peak(44, 4, 200)}, 150, <<4, 60>>, <<Day, 30>>, 900))
Giving  == ("hourly" :> Rule(333, {}, 150, <<4, 60>>, <<Day, 60>>, 0))
Halving == ("hourly" :> Rule(333, {}, 100, <<4, 50>>, <<Day, 50>>, 0))
Daily   == Plain @@ ("daily" :> Rule(9001, {Peak(16, 22, 150)}, 110, <<2 * Day, 10>>, NoOff, 0))
Monthly == ("daily" :> Rule(4001, {}, 100, NoOff, NoOff, 0))
             @@ ("monthly" :> Rule(9001, {}, 103, <<28 * Day, 20>>, NoOff, 0))
Tariffs == {Plain, Peaky, Nightly, Floored, Giving, Halving, Daily, Monthly}

Open(a, b)  == [open |-> a, close |-> b, closed |-> FALSE]
Shut        == [open |-> 0, close |-> 0, closed |-> TRUE]
AnyTime     == <<>>
OfficeHours == [d \in 1..5 |-> IF d = 5 THEN Shut ELSE Open(18, 36)]
Weeks       == {AnyTime, OfficeHours}

NoLimit == [kind |-> "flat", value |-> 500, cap |-> 0, least |-> 0, limit |-> 0]
Limited == [kind |-> "percent", value |-> 20, cap |-> 300, least |-> 600, limit |-> 1]
Twice   == [Limited EXCEPT !.limit = 2]
Free    == [kind |-> "percent", value |-> 100, cap |-> 0, least |-> 0, limit |-> 0]

Rates1   == [commission |-> 10, tax |-> 18]
AllRates == [commission : {10, 15}, tax : {0, 18}]

Base == [ops |-> {"book"}, crew |-> One, faults |-> 0, windows |-> {Morning},
         tariffs |-> {Plain}, weeks |-> {AnyTime}, darks |-> {}, promos |-> {NoLimit}, rates |-> {Rates1}]

\* Prices of every kind of stay; requests that share a key; the code's limit; edits in between.
MCWorkloads ==
  { [Base EXCEPT !.ops = {"book", "code"}, !.windows = Short, !.tariffs = {t}] : t \in Tariffs } \cup
  { [Base EXCEPT !.ops = {"book", "cancel"}, !.windows = Short, !.tariffs = {t}] : t \in {Nightly, Floored} } \cup
  { [Base EXCEPT !.ops = {"book", "code", "modify", "cancel"}, !.windows = {Morning, IntoSat},
                 !.tariffs = {Peaky}] } \cup
  { [Base EXCEPT !.ops = {"book", "code"}, !.windows = {TwoDays, FourWeeks}, !.tariffs = {t},
                 !.promos = {Free}] : t \in {Daily, Monthly} } \cup
  { [Base EXCEPT !.windows = Short \cup {TwoDays}, !.weeks = Weeks, !.darks = {1, 3, 5}, !.tariffs = {Daily}],
    [Base EXCEPT !.ops = {"book", "modify", "hours", "dark"}, !.windows = {Morning, Overnight},
                 !.weeks = Weeks, !.darks = {2}],
    [Base EXCEPT !.crew = Both, !.faults = 2],
    [Base EXCEPT !.ops = {"book", "rebook"}, !.crew = Both, !.faults = 1, !.windows = {Morning, Noon}],
    [Base EXCEPT !.ops = {"book", "code", "newCode", "promo", "limit"}, !.faults = 1,
                 !.promos = {Limited, Twice}],
    [Base EXCEPT !.ops = {"book", "code", "promo"}, !.promos = {Limited}],
    [Base EXCEPT !.ops = {"book", "code"}, !.crew = Both, !.promos = {Limited}],
    [Base EXCEPT !.ops = {"book", "code", "pricing", "config"}, !.windows = {Morning, IntoSat},
                 !.tariffs = {Peaky, Nightly}, !.rates = AllRates] }
=============================================================================
