---------------------------- MODULE AuthSessions ----------------------------
(***************************************************************************)
(* The sign-ins of one account: how it comes to be, its sessions with      *)
(* their access and refresh tokens, the markers in Redis that turn access  *)
(* tokens down before they expire, password changes, and the one-time      *)
(* codes that allow a password reset.                                      *)
(*                                                                         *)
(* A session, its refresh token and its access token have the same number; *)
(* numbers grow in the order of creation.  Time is in seconds, as in the   *)
(* tokens' `iat`.  A handler is a sequence of statements: what it has read *)
(* and which statement is next is in reqs.                                 *)
(***************************************************************************)
EXTENDS Integers, FiniteSets, FiniteSetsExt

CONSTANTS
  Requests,     \* handlers of the server
  Workloads,    \* what a behaviour may do, one chosen at the start: [ops, crew, time, crashes]
  NSessions,    \* bound on sessions ever created
  MaxSessions,  \* env.MAX_SESSIONS_PER_USER
  TokenLife,    \* env.JWT_ACCESS_EXPIRES_IN
  MarkerLife,   \* TTL of the revocation markers
  MaxTime,      \* bound on the clock
  MaxPasswords, \* bound on passwords ever set
  NCodes,       \* bound on one-time codes
  MaxFailures,  \* OTP_MAX_VERIFY_ATTEMPTS
  MaxCrashes    \* bound on handlers that stop half-way

AllOps == {"register", "firebase", "social", "login", "refresh", "logout", "revoke",
           "change", "deactivate", "admin", "code", "reset"}

ASSUME AuthAssumption ==
  /\ \A w \in Workloads :
       /\ w.ops \subseteq AllOps /\ w.crew \subseteq Requests
       /\ w.time \in 0..MaxTime /\ w.crashes \in 0..MaxCrashes
  /\ IsFiniteSet(Requests)
  /\ NSessions \in Nat /\ MaxSessions \in Nat \ {0}
  /\ TokenLife \in Nat \ {0} /\ MarkerLife \in Nat /\ TokenLife <= MarkerLife
  /\ MaxTime \in Nat /\ MaxPasswords \in Nat /\ NCodes \in Nat
  /\ MaxFailures \in Nat \ {0} /\ MaxCrashes \in Nat

Sids  == 1..NSessions
Codes == 1..NCodes

VARIABLES
  load,      \* the workload of this behaviour
  now,       \* the clock
  user,      \* the account's row
  session,   \* rows of user_sessions with the tokens handed out for them
  retired,   \* refresh tokens with a key rtok:retired
  revoked,   \* revoked[s]: when the key sess:revoked:<s> ends
  blacklist, \* blacklist[s]: when the key blacklist:<jti of s's access token> ends
  cutoff,    \* the key user:revoked_at
  code,      \* rows of otp_tokens for a password reset
  failures,  \* the key otp:verify:attempts
  locked,    \* the key otp:verify:lock
  resetKey,  \* the key pwd_reset: number of the stored token, 0 if there is none
  issued,    \* reset tokens handed out
  reqs,      \* reqs[r]: what handler r has read and has still to do
  crashes,   \* handlers that stopped half-way
  past       \* history the properties read

redis == <<retired, revoked, blacklist, cutoff>>
otp   == <<code, failures, locked, resetKey, issued>>
vars  == <<load, now, user, session, redis, otp, reqs, crashes, past>>

-----------------------------------------------------------------------------
NoTime == 0 - 1
Time   == 0..MaxTime
Until  == 0..(MaxTime + TokenLife + MarkerLife)

User == [status : {"absent", "active", "suspended", "deactivated"},
         password : 0..MaxPasswords,      \* 0: none
         placeholder : BOOLEAN,           \* created by a phone sign-in
         linked : BOOLEAN,                \* has a social provider
         anonymised : BOOLEAN]            \* has lost its e-mail address and phone number

NoSession == [row |-> "none", pw |-> 0, parent |-> 0, iat |-> NoTime, bound |-> FALSE]
Session   == [row : {"none", "live", "deleted"}, pw : 0..MaxPasswords,
              parent : {0} \cup Sids, iat : {NoTime} \cup Time, bound : BOOLEAN]

Idle == [op |-> "idle"]
Request ==
  {Idle}
    \cup [op : {"registerWrite"}, upgrade : BOOLEAN]
    \cup [op : {"phoneCreate", "socialCreate", "socialLink", "changeWrite", "refreshReuse",
                "cut", "codeVoid", "codeIssue", "codeForgive", "codeGrant", "codeCount",
                "codeLock", "codeClear", "resetConsume"}]
    \cup [op : {"sessionCap", "sessionCreate"}, pw : 0..MaxPasswords]
    \cup [op : {"evict"}, pw : 0..MaxPasswords, todo : SUBSET Sids]
    \cup [op : {"evictMark"}, pw : 0..MaxPasswords, todo : SUBSET Sids, s : Sids]
    \cup [op : {"refreshFind", "refreshDrop", "rotate", "retire", "renew", "sign",
                "signRenewed", "logoutBlacklist", "revokeDelete", "revokeMark",
                "deactivateWrite", "deactivateBlacklist"}, s : Sids]
    \cup [op : {"reuseDelete", "reuseMark"}, todo : SUBSET Sids]
    \cup [op : {"codeUse"}, c : Codes]
    \cup [op : {"resetCommit"}, t : Nat]
    \cup [op : {"statusWrite"}, to : {"active", "suspended", "deactivated"}]

TypeOK ==
  /\ load \in Workloads
  /\ now \in Time
  /\ user \in User
  /\ session \in [Sids -> Session]
  /\ retired \subseteq Sids
  /\ revoked \in [Sids -> Until] /\ blacklist \in [Sids -> Until]
  /\ cutoff \in [at : Time, until : Until]
  /\ code \in [Codes -> {"none", "valid", "used", "expired"}]
  /\ failures \in Nat /\ locked \in BOOLEAN
  /\ issued \in Nat /\ resetKey \in 0..issued
  /\ reqs \in [Requests -> Request]
  /\ crashes \in 0..MaxCrashes
  /\ past \in [purged : SUBSET Sids, over : Time, floor : 0..MaxPasswords,
               set : 0..MaxPasswords, tries : Nat, spent : SUBSET Nat, twice : BOOLEAN]

Starts(r, op) == op \in load.ops /\ r \in load.crew /\ reqs[r] = Idle
At(r, step)   == reqs[r].op = step
Goto(r, rec)  == reqs' = [reqs EXCEPT ![r] = rec]
Done(r)       == Goto(r, Idle)
GoWith(r, step, s) == Goto(r, [op |-> step, s |-> s])

Live    == {s \in Sids : session[s].row = "live"}
Unused  == {s \in Sids : session[s].row = "none"}
Held    == {s \in Sids : session[s].iat # NoTime}  \* tokens the client has
Max2(a, b) == IF a >= b THEN a ELSE b

\* A session's row goes; what the client holds stays.
Without(S) == [s \in Sids |-> IF s \in S /\ session[s].row = "live"
                              THEN [session[s] EXCEPT !.row = "deleted"] ELSE session[s]]

Expiry(s) == session[s].iat + TokenLife

Unexpired(s) == now < Expiry(s)

\* authenticate: the signature's expiry, the token's own marker, its session's, and
\* the moment before which all tokens of the user are turned down.
Accepted(s) ==
  /\ s \in Held
  /\ Unexpired(s)
  /\ ~(now < blacklist[s])
  /\ session[s].bound => ~(now < revoked[s])
  /\ now < cutoff.until => ~(session[s].iat < cutoff.at)

\* optionalAuthenticate asks the same, and serves the request without a user where it fails.
Recognised(s) == Accepted(s)

\* Mutant: the marker lives for one second.
MarkRevokedBriefly(s) == revoked' = [revoked EXCEPT ![s] = now + 1]

MarkRevoked(s) == revoked' = [revoked EXCEPT ![s] = now + MarkerLife]

BlacklistToken(s) ==
  blacklist' = [blacklist EXCEPT ![s] = now + Max2(1, Expiry(s) - now)]

\* Mutant: the second of the revocation is taken a second too early.
CutOffEarly == cutoff' = [at |-> now - 1, until |-> now + MarkerLife]

CutOff == cutoff' = [at |-> now, until |-> now + MarkerLife]

-----------------------------------------------------------------------------
(***************************************************************************)
(* Coming to be.  The unique indexes on e-mail and phone let one insert    *)
(* through; the later one throws.                                          *)
(***************************************************************************)
NewPassword == past.set + 1

RegisterRead(r) ==
  /\ Starts(r, "register") /\ past.set < MaxPasswords
  /\ user.status = "absent" \/ user.placeholder
  /\ Goto(r, [op |-> "registerWrite", upgrade |-> user.placeholder])
  /\ UNCHANGED <<load, now, user, session, redis, otp, crashes, past>>

RegisterWrite(r) ==
  /\ At(r, "registerWrite") /\ past.set < MaxPasswords
  /\ IF reqs[r].upgrade \/ user.status = "absent"
     THEN /\ user' = [user EXCEPT !.status = "active", !.password = NewPassword,
                                  !.placeholder = FALSE]
          /\ past' = [past EXCEPT !.set = NewPassword]
          /\ Goto(r, [op |-> "sessionCap", pw |-> NewPassword])
     ELSE Done(r) /\ UNCHANGED <<user, past>>
  /\ UNCHANGED <<load, now, session, redis, otp, crashes>>

\* A phone number that Firebase vouches for.  The account's status is not looked at.  One
\* that its user deactivated has lost its number, so the request is about another account.
FirebaseSignIn(r) ==
  /\ Starts(r, "firebase") /\ ~user.anonymised
  /\ IF user.status = "absent" THEN Goto(r, [op |-> "phoneCreate"])
                               ELSE Goto(r, [op |-> "sessionCap", pw |-> 0])
  /\ UNCHANGED <<load, now, user, session, redis, otp, crashes, past>>

PhoneCreate(r) ==
  /\ At(r, "phoneCreate")
  /\ IF user.status = "absent"
     THEN /\ user' = [user EXCEPT !.status = "active", !.placeholder = TRUE]
          /\ Goto(r, [op |-> "sessionCap", pw |-> 0])
     ELSE Done(r) /\ UNCHANGED user
  /\ UNCHANGED <<load, now, session, redis, otp, crashes, past>>

\* socialAuth: an account known by its provider must be active; one known by its
\* e-mail is linked as it is, whatever its status; otherwise a new one is made.
SocialSignIn(r) ==
  /\ Starts(r, "social")
  /\ \/ /\ user.linked /\ user.status = "active"
        /\ Goto(r, [op |-> "sessionCap", pw |-> 0])
     \/ /\ ~user.linked /\ user.status # "absent" /\ ~user.anonymised
        /\ Goto(r, [op |-> "socialLink"])
     \/ /\ user.status = "absent"
        /\ Goto(r, [op |-> "socialCreate"])
  /\ UNCHANGED <<load, now, user, session, redis, otp, crashes, past>>

SocialWrite(r) ==
  /\ \/ At(r, "socialLink")
     \/ At(r, "socialCreate")
  /\ IF ~user.linked /\ (At(r, "socialCreate") => user.status = "absent")
     THEN /\ user' = [user EXCEPT !.linked = TRUE,
                                  !.status = IF @ = "absent" THEN "active" ELSE @]
          /\ Goto(r, [op |-> "sessionCap", pw |-> 0])
     ELSE Done(r) /\ UNCHANGED user
  /\ UNCHANGED <<load, now, session, redis, otp, crashes, past>>

-----------------------------------------------------------------------------
(***************************************************************************)
(* Signing in: login and adminLogin, then createSession and the token.     *)
(***************************************************************************)
Login(r) ==
  /\ Starts(r, "login")
  /\ user.status = "active" /\ user.password # 0
  /\ Goto(r, [op |-> "sessionCap", pw |-> user.password])
  /\ UNCHANGED <<load, now, user, session, redis, otp, crashes, past>>

TooMany == Cardinality(Live) - MaxSessions + 1

Oldest(n) == {s \in Live : Cardinality({t \in Live : t < s}) < n}

SessionCapRead(r) ==
  /\ At(r, "sessionCap")
  /\ IF TooMany > 0
     THEN Goto(r, [op |-> "evict", pw |-> reqs[r].pw, todo |-> Oldest(TooMany)])
     ELSE Goto(r, [op |-> "sessionCreate", pw |-> reqs[r].pw])
  /\ UNCHANGED <<load, now, user, session, redis, otp, crashes, past>>

\* Deleting a session that is gone throws, and the sign-in fails.
Evict(r) ==
  /\ At(r, "evict")
  /\ LET s == Min(reqs[r].todo)
     IN  IF s \in Live
         THEN /\ session' = Without({s})
              /\ Goto(r, [op |-> "evictMark", pw |-> reqs[r].pw,
                          todo |-> reqs[r].todo \ {s}, s |-> s])
         ELSE Done(r) /\ UNCHANGED session
  /\ UNCHANGED <<load, now, user, redis, otp, crashes, past>>

EvictMark(r) ==
  /\ At(r, "evictMark")
  /\ MarkRevoked(reqs[r].s)
  /\ IF reqs[r].todo # {}
     THEN Goto(r, [op |-> "evict", pw |-> reqs[r].pw, todo |-> reqs[r].todo])
     ELSE Goto(r, [op |-> "sessionCreate", pw |-> reqs[r].pw])
  /\ UNCHANGED <<load, now, user, session, retired, blacklist, cutoff, otp, crashes, past>>

NewSession(s, pw, parent) ==
  session' = [session EXCEPT ![s] = [row |-> "live", pw |-> pw, parent |-> parent,
                                     iat |-> NoTime, bound |-> FALSE]]

SessionCreate(r) ==
  /\ At(r, "sessionCreate") /\ Unused # {}
  /\ NewSession(Min(Unused), reqs[r].pw, 0)
  /\ GoWith(r, "sign", Min(Unused))
  /\ UNCHANGED <<load, now, user, redis, otp, crashes, past>>

\* The session is looked up again for its id: without it the token is not bound to
\* a session.
Sign(r) ==
  /\ At(r, "sign") \/ At(r, "signRenewed")
  /\ LET s == reqs[r].s
     IN  session' = [session EXCEPT ![s].iat = now,
                                    ![s].bound = At(r, "signRenewed") \/ s \in Live]
  /\ Done(r)
  /\ UNCHANGED <<load, now, user, redis, otp, crashes, past>>

-----------------------------------------------------------------------------
(***************************************************************************)
(* refreshTokens.                                                          *)
(***************************************************************************)
RefreshStart(r) ==
  /\ Starts(r, "refresh")
  /\ \E s \in Held :
       IF s \in retired THEN Goto(r, [op |-> "refreshReuse"])
                        ELSE GoWith(r, "refreshFind", s)
  /\ UNCHANGED <<load, now, user, session, redis, otp, crashes, past>>

ReuseList(r) ==
  /\ At(r, "refreshReuse")
  /\ Goto(r, [op |-> "reuseDelete", todo |-> Live])
  /\ UNCHANGED <<load, now, user, session, redis, otp, crashes, past>>

ReuseDelete(r) ==
  /\ At(r, "reuseDelete")
  /\ session' = Without(Sids)
  /\ past' = [past EXCEPT !.purged = @ \cup (Sids \ Unused), !.over = now]
  /\ Goto(r, [op |-> "reuseMark", todo |-> reqs[r].todo])
  /\ UNCHANGED <<load, now, user, redis, otp, crashes>>

ReuseMark(r) ==
  /\ At(r, "reuseMark")
  /\ IF reqs[r].todo = {}
     THEN Goto(r, [op |-> "cut"]) /\ UNCHANGED revoked
     ELSE /\ MarkRevoked(Min(reqs[r].todo))
          /\ Goto(r, [op |-> "reuseMark", todo |-> reqs[r].todo \ {Min(reqs[r].todo)}])
  /\ UNCHANGED <<load, now, user, session, retired, blacklist, cutoff, otp, crashes, past>>

\* The last statement of a reset, a deactivation and a detected reuse.
Cut(r) ==
  /\ At(r, "cut")
  /\ CutOff /\ Done(r)
  /\ UNCHANGED <<load, now, user, session, retired, revoked, blacklist, otp, crashes, past>>

RefreshFind(r) ==
  /\ At(r, "refreshFind")
  /\ LET s == reqs[r].s
     IN  IF s \notin Live THEN Done(r)
         ELSE IF user.status = "active" THEN GoWith(r, "rotate", s)
                                        ELSE GoWith(r, "refreshDrop", s)
  /\ UNCHANGED <<load, now, user, session, redis, otp, crashes, past>>

RefreshDrop(r) ==
  /\ At(r, "refreshDrop")
  /\ session' = Without({reqs[r].s}) /\ Done(r)
  /\ UNCHANGED <<load, now, user, redis, otp, crashes, past>>

\* Mutant: a session that is gone is no error.
RotateLeniently(r) ==
  /\ At(r, "rotate")
  /\ session' = Without({reqs[r].s})
  /\ GoWith(r, "retire", reqs[r].s)
  /\ UNCHANGED <<load, now, user, redis, otp, crashes, past>>

\* Only one of two refreshes of a token deletes its session.
Rotate(r) ==
  /\ At(r, "rotate")
  /\ session' = Without({reqs[r].s})
  /\ IF reqs[r].s \in Live THEN GoWith(r, "retire", reqs[r].s) ELSE Done(r)
  /\ UNCHANGED <<load, now, user, redis, otp, crashes, past>>

Retire(r) ==
  /\ At(r, "retire")
  /\ retired' = retired \cup {reqs[r].s}
  /\ GoWith(r, "renew", reqs[r].s)
  /\ UNCHANGED <<load, now, user, session, revoked, blacklist, cutoff, otp, crashes, past>>

Renew(r) ==
  /\ At(r, "renew") /\ Unused # {}
  /\ NewSession(Min(Unused), session[reqs[r].s].pw, reqs[r].s)
  /\ GoWith(r, "signRenewed", Min(Unused))
  /\ UNCHANGED <<load, now, user, redis, otp, crashes, past>>

-----------------------------------------------------------------------------
(***************************************************************************)
(* What a signed-in user does about his sessions and his account.          *)
(***************************************************************************)
Logout(r) ==
  /\ Starts(r, "logout")
  /\ \E s \in Held :
       /\ Accepted(s)
       /\ session' = IF session[s].bound THEN Without({s}) ELSE session
       /\ GoWith(r, "logoutBlacklist", s)
  /\ UNCHANGED <<load, now, user, redis, otp, crashes, past>>

LogoutBlacklist(r) ==
  /\ At(r, "logoutBlacklist")
  /\ BlacklistToken(reqs[r].s) /\ Done(r)
  /\ UNCHANGED <<load, now, user, session, retired, revoked, cutoff, otp, crashes, past>>

RevokeRead(r) ==
  /\ Starts(r, "revoke")
  /\ \E t \in Held : Accepted(t)
  /\ \E s \in Live : GoWith(r, "revokeDelete", s)
  /\ UNCHANGED <<load, now, user, session, redis, otp, crashes, past>>

RevokeDelete(r) ==
  /\ At(r, "revokeDelete")
  /\ session' = Without({reqs[r].s})
  /\ IF reqs[r].s \in Live THEN GoWith(r, "revokeMark", reqs[r].s) ELSE Done(r)
  /\ UNCHANGED <<load, now, user, redis, otp, crashes, past>>

RevokeMark(r) ==
  /\ At(r, "revokeMark")
  /\ MarkRevoked(reqs[r].s) /\ Done(r)
  /\ UNCHANGED <<load, now, user, session, retired, blacklist, cutoff, otp, crashes, past>>

\* changePassword leaves the sessions alone.
ChangePassword(r) ==
  /\ Starts(r, "change") /\ past.set < MaxPasswords
  /\ user.password # 0 /\ \E s \in Held : Accepted(s)
  /\ Goto(r, [op |-> "changeWrite"])
  /\ UNCHANGED <<load, now, user, session, redis, otp, crashes, past>>

ChangeWrite(r) ==
  /\ At(r, "changeWrite") /\ past.set < MaxPasswords
  /\ user' = [user EXCEPT !.password = NewPassword]
  /\ past' = [past EXCEPT !.set = NewPassword]
  /\ Done(r)
  /\ UNCHANGED <<load, now, session, redis, otp, crashes>>

Deactivate(r) ==
  /\ Starts(r, "deactivate")
  /\ \E s \in Held : Accepted(s) /\ GoWith(r, "deactivateWrite", s)
  /\ UNCHANGED <<load, now, user, session, redis, otp, crashes, past>>

DeactivateWrite(r) ==
  /\ At(r, "deactivateWrite")
  /\ user' = [user EXCEPT !.status = "deactivated", !.password = 0, !.placeholder = FALSE,
                           !.anonymised = TRUE]
  /\ session' = Without(Sids)
  /\ past' = [past EXCEPT !.purged = @ \cup (Sids \ Unused), !.over = now]
  /\ GoWith(r, "deactivateBlacklist", reqs[r].s)
  /\ UNCHANGED <<load, now, redis, otp, crashes>>

DeactivateBlacklist(r) ==
  /\ At(r, "deactivateBlacklist")
  /\ BlacklistToken(reqs[r].s)
  /\ Goto(r, [op |-> "cut"])
  /\ UNCHANGED <<load, now, user, session, retired, revoked, cutoff, otp, crashes, past>>

\* updateUserStatus; what it does about bookings is not repeated here.  It deletes no
\* session, sets no marker and leaves the e-mail address and the phone number.
AdminStatusRead(r) ==
  /\ Starts(r, "admin") /\ user.status # "absent"
  /\ \E to \in {"active", "suspended", "deactivated"} \ {user.status} :
       Goto(r, [op |-> "statusWrite", to |-> to])
  /\ UNCHANGED <<load, now, user, session, redis, otp, crashes, past>>

AdminStatusWrite(r) ==
  /\ At(r, "statusWrite")
  /\ user' = [user EXCEPT !.status = reqs[r].to] /\ Done(r)
  /\ UNCHANGED <<load, now, session, redis, otp, crashes, past>>

-----------------------------------------------------------------------------
(***************************************************************************)
(* One-time codes and the reset they allow: sendOtp, verifyOtpToken,       *)
(* resetPassword.  Only codes for a reset are modelled; one that verifies  *)
(* an e-mail address is used up in the same way.                           *)
(***************************************************************************)
Valid == {c \in Codes : code[c] = "valid"}

CodeSend(r) ==
  /\ Starts(r, "code") /\ user.status = "active" /\ ~user.anonymised
  /\ Goto(r, [op |-> "codeVoid"])
  /\ UNCHANGED <<load, now, user, session, redis, otp, crashes, past>>

CodeVoid(r) ==
  /\ At(r, "codeVoid")
  /\ code' = [c \in Codes |-> IF c \in Valid THEN "used" ELSE code[c]]
  /\ Goto(r, [op |-> "codeIssue"])
  /\ UNCHANGED <<load, now, user, session, redis, failures, locked, resetKey, issued,
                 crashes, past>>

CodeIssue(r) ==
  /\ At(r, "codeIssue")
  /\ LET free == {c \in Codes : code[c] = "none"}
     IN  free # {} /\ code' = [code EXCEPT ![Min(free)] = "valid"]
  /\ Done(r)
  /\ UNCHANGED <<load, now, user, session, redis, failures, locked, resetKey, issued,
                 crashes, past>>

\* The latest code counts; the user gives it, or something else.
CodeTry(r) ==
  /\ Starts(r, "code")
  /\ ~locked /\ user.status # "absent" /\ ~user.anonymised /\ Valid # {}
  /\ \/ /\ Goto(r, [op |-> "codeUse", c |-> Max(Valid)])
        /\ UNCHANGED past
     \/ /\ Goto(r, [op |-> "codeCount"])
        /\ past' = [past EXCEPT !.tries = @ + 1]
  /\ UNCHANGED <<load, now, user, session, redis, otp, crashes>>

\* The row is marked by its id, whatever has become of it since.
CodeUse(r) ==
  /\ At(r, "codeUse")
  /\ code' = [code EXCEPT ![reqs[r].c] = "used"]
  /\ past' = [past EXCEPT !.twice = @ \/ code[reqs[r].c] = "used"]
  /\ Goto(r, [op |-> "codeForgive"])
  /\ UNCHANGED <<load, now, user, session, redis, failures, locked, resetKey, issued,
                 crashes>>

CodeForgive(r) ==
  /\ At(r, "codeForgive")
  /\ failures' = 0
  /\ past' = [past EXCEPT !.tries = 0]
  /\ Goto(r, [op |-> "codeGrant"])
  /\ UNCHANGED <<load, now, user, session, redis, code, locked, resetKey, issued, crashes>>

CodeGrant(r) ==
  /\ At(r, "codeGrant")
  /\ issued' = issued + 1 /\ resetKey' = issued + 1
  /\ Done(r)
  /\ UNCHANGED <<load, now, user, session, redis, code, failures, locked, crashes, past>>

\* Mutant: one failure too many is allowed.
CodeCountLate(r) ==
  /\ At(r, "codeCount")
  /\ failures' = failures + 1
  /\ IF failures' > MaxFailures THEN Goto(r, [op |-> "codeLock"]) ELSE Done(r)
  /\ UNCHANGED <<load, now, user, session, redis, code, locked, resetKey, issued,
                 crashes, past>>

CodeCount(r) ==
  /\ At(r, "codeCount")
  /\ failures' = failures + 1
  /\ IF failures' >= MaxFailures THEN Goto(r, [op |-> "codeLock"]) ELSE Done(r)
  /\ UNCHANGED <<load, now, user, session, redis, code, locked, resetKey, issued,
                 crashes, past>>

CodeLock(r) ==
  /\ At(r, "codeLock")
  /\ locked' = TRUE
  /\ Goto(r, [op |-> "codeClear"])
  /\ UNCHANGED <<load, now, user, session, redis, code, failures, resetKey, issued,
                 crashes, past>>

CodeClear(r) ==
  /\ At(r, "codeClear")
  /\ failures' = 0 /\ Done(r)
  /\ UNCHANGED <<load, now, user, session, redis, code, locked, resetKey, issued,
                 crashes, past>>

ResetRead(r) ==
  /\ Starts(r, "reset") /\ resetKey # 0 /\ past.set < MaxPasswords
  /\ Goto(r, [op |-> "resetCommit", t |-> resetKey])
  /\ UNCHANGED <<load, now, user, session, redis, otp, crashes, past>>

\* Mutant: the sessions stay.
ResetCommitKeepingSessions(r) ==
  /\ At(r, "resetCommit") /\ past.set < MaxPasswords
  /\ user' = [user EXCEPT !.password = NewPassword]
  /\ past' = [past EXCEPT !.set = NewPassword, !.floor = NewPassword,
                          !.purged = @ \cup (Sids \ Unused), !.over = now,
                          !.twice = @ \/ reqs[r].t \in past.spent,
                          !.spent = @ \cup {reqs[r].t}]
  /\ Goto(r, [op |-> "resetConsume"])
  /\ UNCHANGED <<load, now, session, redis, otp, crashes>>

\* One transaction: the password and the end of all sessions.
ResetCommit(r) ==
  /\ At(r, "resetCommit") /\ past.set < MaxPasswords
  /\ user' = [user EXCEPT !.password = NewPassword]
  /\ session' = Without(Sids)
  /\ past' = [past EXCEPT !.set = NewPassword, !.floor = NewPassword,
                          !.purged = @ \cup (Sids \ Unused), !.over = now,
                          !.twice = @ \/ reqs[r].t \in past.spent,
                          !.spent = @ \cup {reqs[r].t}]
  /\ Goto(r, [op |-> "resetConsume"])
  /\ UNCHANGED <<load, now, redis, otp, crashes>>

ResetConsume(r) ==
  /\ At(r, "resetConsume")
  /\ resetKey' = 0
  /\ Goto(r, [op |-> "cut"])
  /\ UNCHANGED <<load, now, user, session, redis, code, failures, locked, issued,
                 crashes, past>>

-----------------------------------------------------------------------------
(***************************************************************************)
(* Time and mishaps.  A lock of half an hour outlives the handlers in      *)
(* flight when it was set, and a handler that is about to sign a token     *)
(* does so within the 23 hours and 45 minutes that a session's marker      *)
(* lives longer than a token.                                              *)
(***************************************************************************)
SignsInTime(t) ==
  \A r \in Requests :
    reqs[r].op \in {"sign", "signRenewed"} /\ revoked[reqs[r].s] # 0
      => t + TokenLife <= revoked[reqs[r].s]

Tick ==
  /\ now < load.time /\ SignsInTime(now + 1) /\ now' = now + 1
  /\ UNCHANGED <<load, user, session, redis, otp, reqs, crashes, past>>

CodeExpire ==
  /\ \E c \in Valid : code' = [code EXCEPT ![c] = "expired"]
  /\ UNCHANGED <<load, now, user, session, redis, failures, locked, resetKey, issued,
                 reqs, crashes, past>>

ResetKeyExpire ==
  /\ resetKey # 0 /\ resetKey' = 0
  /\ UNCHANGED <<load, now, user, session, redis, code, failures, locked, issued,
                 reqs, crashes, past>>

CountersExpire ==
  /\ \A r \in Requests : reqs[r] = Idle
  /\ failures # 0 \/ locked
  /\ failures' = 0 /\ locked' = FALSE
  /\ past' = [past EXCEPT !.tries = 0]
  /\ UNCHANGED <<load, now, user, session, redis, code, resetKey, issued, reqs, crashes>>

Crash(r) ==
  /\ reqs[r] # Idle /\ crashes < load.crashes
  /\ crashes' = crashes + 1 /\ Done(r)
  /\ UNCHANGED <<load, now, user, session, redis, otp, past>>

-----------------------------------------------------------------------------
Init ==
  /\ load \in Workloads
  /\ now = 0
  /\ user = [status |-> "absent", password |-> 0, placeholder |-> FALSE, linked |-> FALSE,
             anonymised |-> FALSE]
  /\ session = [s \in Sids |-> NoSession]
  /\ retired = {}
  /\ revoked = [s \in Sids |-> 0] /\ blacklist = [s \in Sids |-> 0]
  /\ cutoff = [at |-> 0, until |-> 0]
  /\ code = [c \in Codes |-> "none"]
  /\ failures = 0 /\ locked = FALSE /\ resetKey = 0 /\ issued = 0
  /\ reqs = [r \in Requests |-> Idle]
  /\ crashes = 0
  /\ past = [purged |-> {}, over |-> 0, floor |-> 0, set |-> 0, tries |-> 0, spent |-> {},
             twice |-> FALSE]

Handler(r) ==
  \/ RegisterRead(r) \/ RegisterWrite(r) \/ FirebaseSignIn(r) \/ PhoneCreate(r)
  \/ SocialSignIn(r) \/ SocialWrite(r)
  \/ Login(r) \/ SessionCapRead(r) \/ Evict(r) \/ EvictMark(r) \/ SessionCreate(r) \/ Sign(r)
  \/ RefreshStart(r) \/ ReuseList(r) \/ ReuseDelete(r) \/ ReuseMark(r) \/ Cut(r)
  \/ RefreshFind(r) \/ RefreshDrop(r) \/ Rotate(r) \/ Retire(r) \/ Renew(r)
  \/ Logout(r) \/ LogoutBlacklist(r) \/ RevokeRead(r) \/ RevokeDelete(r) \/ RevokeMark(r)
  \/ ChangePassword(r) \/ ChangeWrite(r)
  \/ Deactivate(r) \/ DeactivateWrite(r) \/ DeactivateBlacklist(r)
  \/ AdminStatusRead(r) \/ AdminStatusWrite(r)
  \/ CodeSend(r) \/ CodeVoid(r) \/ CodeIssue(r) \/ CodeTry(r) \/ CodeUse(r)
  \/ CodeForgive(r) \/ CodeGrant(r) \/ CodeCount(r) \/ CodeLock(r) \/ CodeClear(r)
  \/ ResetRead(r) \/ ResetCommit(r) \/ ResetConsume(r)
  \/ Crash(r)

Next == \/ \E r \in Requests : Handler(r)
        \/ Tick \/ CodeExpire \/ ResetKeyExpire \/ CountersExpire

Spec == Init /\ [][Next]_vars

-----------------------------------------------------------------------------
OneAtATime == Cardinality(load.crew) = 1
Cutting    == \E r \in Requests : reqs[r].op \in {"reuseMark", "resetConsume",
                                                 "deactivateBlacklist", "cut"}

\* An access token that authenticate has turned down is turned down ever after, by
\* optionalAuthenticate too, however many logouts, evictions, revocations and resets follow:
\* no marker ends before the tokens it stands against.
RejectedStaysRejected ==
  [][\A s \in Held : ~Accepted(s) => ~(Accepted(s) \/ Recognised(s))']_vars

\* After a reset, a deactivation or a detected reuse the sessions of before are over, and
\* once it is complete so are their access tokens that were signed before its second.
\* With one request at a time no session outlives the password it was opened with
\* when that was reset.
PurgedIsOver ==
  /\ \A s \in past.purged : session[s].row = "deleted"
  /\ ~Cutting /\ crashes = 0
       => \A s \in past.purged : Accepted(s) => session[s].iat >= past.over
  /\ OneAtATime => \A s \in Live : session[s].pw # 0 => session[s].pw >= past.floor

\* A refresh token is exchanged once: however many refreshes of it are in flight, at most
\* one session follows it, and not before it is gone itself.  With one request at a time an
\* account has at most MAX_SESSIONS_PER_USER sessions, whatever mixture of sign-ins,
\* refreshes and crashes made them (refreshTokens, createSession).
SessionsCounted ==
  /\ \A s, t \in Sids :
       /\ session[s].parent # 0 /\ session[s].parent = session[t].parent => s = t
       /\ session[s].parent = t => session[t].row = "deleted"
  /\ OneAtATime => Cardinality(Live) <= MaxSessions

\* Between two expiries of the lock at most OTP_MAX_VERIFY_ATTEMPTS wrong answers are
\* looked at, and one more for each other handler in flight and each that crashed
\* between counting and locking; and with one request at a time a one-time code and a
\* reset token are used once (consumeOtpToken, resetPassword).
CodesHold ==
  /\ past.tries <= MaxFailures + Cardinality(load.crew) - 1 + crashes
  /\ OneAtATime /\ crashes = 0 => ~past.twice
=============================================================================
