------------------------- MODULE MCBookingPayments -------------------------
\* Small instances of BookingPayments for TLC.
EXTENDS BookingPayments, TLC

\* Operations of the environment in the run with one handler at a time.
SerialOps == AllOps \ {"adminCancel", "adminRefund", "toggle"}

\* Operations of the run with two handlers: a host's rejection writes what his
\* cancellation writes, and a pending booking is cancelled by the driver, an admin and
\* the cron job as well.
RacingOps == AllOps \ {"reject"}

Symmetry == Permutations(Requests)

=============================================================================
