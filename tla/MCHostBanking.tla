--------------------------- MODULE MCHostBanking ---------------------------
\* A small instance of HostBanking for TLC.
EXTENDS HostBanking

One  == {1}
Both == {1, 2}

\* Each workload exercises operations that meet in the same state.
MCWorkloads ==
  { [ops |-> {"add", "retry", "register", "delete"}, crew |-> Both, crashes |-> 1, configured |-> TRUE],
    [ops |-> {"add", "retry", "register", "update", "delete", "payout", "cron"},
      crew |-> One, crashes |-> 0, configured |-> TRUE],
    [ops |-> {"add", "delete", "payout", "cron", "register"},
      crew |-> Both, crashes |-> 0, configured |-> TRUE],
    [ops |-> {"add", "update", "retry", "mark", "delete", "payout", "cron"},
      crew |-> Both, crashes |-> 0, configured |-> FALSE] }
=============================================================================
