-------------------------- MODULE MCSlotReservation --------------------------
\* Small instances of SlotReservation for TLC.
EXTENDS SlotReservation, TLC

CONSTANTS Width, Span   \* longest window and last instant of the small calendars

Win(s, e) == [start |-> s, end |-> e]

\* Every window of at most Width units inside [0, Span).
ShortWindows ==
  {w \in [start : 0..Span, end : 0..Span] : w.start < w.end /\ w.end - w.start <= Width}

\* A short booking, the same one extended, and the one the extension meets.
ExtensionWindows == {Win(0, 1), Win(0, 2), Win(1, 2)}

\* Two windows that overlap without being equal.
LockWindows == {Win(0, 2), Win(1, 2)}

Symmetry == Permutations(Drivers) \cup Permutations(Slots) \cup Permutations(Bookings) \cup Permutations(Requests)

\* Operations of the environment, per run.
CalendarOps == AllOps \ {"release", "complete", "noShow", "reject", "hostCancel"}
SerialOps   == AllOps \ {"extend"}
LockOps     == {"lock", "create", "cancel"}

=============================================================================
