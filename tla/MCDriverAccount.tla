--------------------------- MODULE MCDriverAccount ---------------------------
\* A small instance of DriverAccount for TLC.
EXTENDS DriverAccount

One  == {1}
Both == {1, 2}

Wallet(ops, crew, n, splits) ==
  [ops |-> ops, crew |-> crew, faults |-> n, splits |-> splits, purse |-> 0..Price,
   vehicles |-> 0, orders |-> 0]
Garages(ops, crew) ==
  [ops |-> ops \cup {"vehicle", "book"}, crew |-> crew, faults |-> 0, splits |-> 0, purse |-> {0},
   vehicles |-> 0, orders |-> 0]
CardsOf(crew, n) ==
  [ops |-> {"method"}, crew |-> crew, faults |-> n, splits |-> 0, purse |-> {0},
   vehicles |-> 0, orders |-> 0]
Trip(ops, crew, n, orders) ==
  [ops |-> ops \cup {"book", "order", "verify", "trip"}, crew |-> crew, faults |-> n, splits |-> 0,
   purse |-> {0}, vehicles |-> 1, orders |-> orders]

\* Each workload exercises operations that meet in the same state.
MCWorkloads ==
  { Wallet({"topup", "hook", "confirm"}, Both, 2, 0),
    Wallet({"topup", "hook", "expiry", "credit", "debit", "withdraw"}, One, 2, 0),
    Wallet({"split", "hook", "confirm", "cancel"}, Both, 1, 1),
    Wallet({"split", "hook", "confirm", "pay", "suspend", "credit"}, One, 1, 2),
    Wallet({"split", "hook", "debit", "withdraw"}, Both, 1, 2),
    Trip({"hook", "extend", "decline"}, One, 0, 3),
    Trip({"hook", "extend", "cancelTrip"}, One, 1, 3),
    Trip({"hook", "extend", "refund"}, One, 1, 2),
    Trip({"hook", "cancelTrip", "refund"}, One, 2, 1),
    Trip({"hook", "hostCancel", "extend", "credit"}, One, 1, 2),
    Trip({"hook", "cancelTrip", "hostCancel"}, Both, 0, 1),
    Trip({"hook", "cancelTrip"}, Both, 0, 2),
    Trip({"extend"}, Both, 0, 2),
    CardsOf(One, 1), CardsOf(Both, 0),
    Garages({}, One),
    Garages({"cancelTrip"}, Both) }
=============================================================================
