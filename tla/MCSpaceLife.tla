---------------------------- MODULE MCSpaceLife ----------------------------
\* A small instance of SpaceLife for TLC.
EXTENDS SpaceLife

One  == {1}
Both == {1, 2}

Fresh(ops, crew, n) == [ops |-> ops, crew |-> crew, crashes |-> n, ready |-> FALSE, booked |-> 0]
Listing(ops, crew)  == [ops |-> ops, crew |-> crew, crashes |-> 0, ready |-> TRUE, booked |-> 0]
Ending(ops, crew, n, booked) == [ops |-> ops \cup {"end"}, crew |-> crew, crashes |-> n,
                                 ready |-> TRUE, booked |-> booked]

\* Each workload exercises operations that meet in the same state.
MCWorkloads ==
  { Fresh({"kyc", "decide", "create", "photo", "price", "submit", "approve", "capacity"}, One, 1),
    Fresh({"kyc", "decide", "create", "photo", "price", "submit", "approve", "pause", "remove"}, Both, 0),
    Fresh({"kyc", "decide", "wizard", "images", "price", "submit", "approve", "capacity"}, One, 0),
    Listing({"capacity", "slot", "flip", "dropSlot", "lock"}, One),
    Listing({"pause", "remove", "submit", "approve", "lock", "book", "end", "review"}, One),
    Listing({"slot", "dropSlot", "lock", "book", "end"}, Both),
    Ending({"review", "edit", "report", "withdraw", "respond"}, One, 1, 2),
    Ending({"review", "withdraw", "report"}, Both, 0, 2),
    Ending({"dispute", "resolve", "release"}, One, 1, 1),
    Ending({"ticket", "message", "update"}, One, 1, 1),
    Ending({"dispute", "resolve", "release", "update", "dropSlot", "remove"}, Both, 0, 1) }
=============================================================================
