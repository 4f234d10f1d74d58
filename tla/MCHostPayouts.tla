---------------------------- MODULE MCHostPayouts ----------------------------
\* Small instances of HostPayouts for TLC.
EXTENDS HostPayouts, TLC

\* Operations of the run with two handlers.
RaceOps == {"payout", "withdraw", "cron", "hook", "admin"}

\* Operations and events of the run with one handler at a time.  The event of a rejection,
\* which the webhook drops, is among those of the run with two.
SerialOps    == {"payout", "withdraw", "cron", "hook", "dispute", "lostAnswer", "lostAck"}
SerialEvents == {"processed", "failed"}

Symmetry == Permutations(Requests) \cup Permutations(Payouts)

=============================================================================
