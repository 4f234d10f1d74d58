--------------------------- MODULE MCAuthSessions ---------------------------
\* A small instance of AuthSessions for TLC.
EXTENDS AuthSessions

One  == {1}
Both == {1, 2}

\* Each workload exercises operations that meet in the same state.
MCWorkloads ==
  { [ops |-> {"register", "firebase", "social", "login"},
      crew |-> Both, time |-> 0, crashes |-> 0],
    [ops |-> {"register", "refresh", "login", "revoke", "logout"},
      crew |-> One, time |-> 3, crashes |-> 0],
    [ops |-> {"register", "refresh"},
      crew |-> Both, time |-> 2, crashes |-> 0],
    [ops |-> {"register", "login", "revoke"},
      crew |-> Both, time |-> 2, crashes |-> 0],
    [ops |-> {"register", "login", "code", "reset", "change"},
      crew |-> One, time |-> 2, crashes |-> 1],
    [ops |-> {"firebase", "social", "login", "refresh", "deactivate", "admin"},
      crew |-> One, time |-> 2, crashes |-> 0],
    [ops |-> {"register", "code"},
      crew |-> Both, time |-> 0, crashes |-> 1] }
=============================================================================
