------------------------ MODULE AuthSessions_proofs ------------------------
(***************************************************************************)
(* Proofs about AuthSessions, for any number of handlers, sessions, codes  *)
(* and passwords, any lifetimes of tokens and markers, and any workload.   *)
(*                                                                         *)
(* The invariants come in layers; each rests on the ones before it:        *)
(*   TypeOK    the state is well typed                                     *)
(*   Lives     a session's row is created once, signed once, renewed once  *)
(*   Markers   a marker that turns a token down lasts until it expires     *)
(*   Purges    what a reset, a deactivation and a reuse leave behind       *)
(*   Passwords the passwords that sessions were opened with                *)
(*   Room      with one request at a time, the cap on live sessions        *)
(*   Answers   wrong answers are counted; codes are used once              *)
(***************************************************************************)
EXTENDS AuthSessions, FiniteSetTheorems, TLAPS

\* Only the crew of the behaviour's workload is at work.
OnDuty == \A r \in Requests : reqs[r] # Idle => r \in load.crew

Begun(s) == session[s].row # "none"

\* Handlers that are about to sign a token, and that are about to replace a session.
Signs(rec)  == rec.op \in {"sign", "signRenewed"}
Renews(rec) == rec.op \in {"retire", "renew"}

LifeClaim(rec) ==
  /\ rec.op \in {"evictMark", "revokeMark", "sign", "signRenewed"} => Begun(rec.s)
  /\ rec.op \in {"reuseDelete", "reuseMark"} => \A s \in rec.todo : Begun(s)
  /\ Signs(rec) => session[rec.s].iat = NoTime
  /\ Renews(rec) => /\ session[rec.s].row = "deleted"
                    /\ \A t \in Sids : session[t].parent # rec.s
  /\ rec.op \in {"logoutBlacklist", "deactivateWrite", "deactivateBlacklist"} => rec.s \in Held

\* No two handlers sign, or replace, the same session.
Apart ==
  \A q, r \in Requests :
    q # r => /\ Signs(reqs[q]) /\ Signs(reqs[r]) => reqs[q].s # reqs[r].s
             /\ Renews(reqs[q]) /\ Renews(reqs[r]) => reqs[q].s # reqs[r].s

OneSuccessor ==
  \A s, t \in Sids :
    /\ session[s].parent # 0 /\ session[s].parent = session[t].parent => s = t
    /\ session[s].parent = t => session[t].row = "deleted"

Lives ==
  /\ \A s \in Sids : session[s].iat <= now
  /\ \A s \in Sids : ~Begun(s) => session[s] = NoSession /\ revoked[s] = 0
  /\ OneSuccessor
  /\ \A r \in Requests : LifeClaim(reqs[r])
  /\ Apart

Markers ==
  /\ \A s \in Sids : blacklist[s] # 0 => s \in Held /\ Expiry(s) <= blacklist[s]
  /\ \A s \in Held : revoked[s] # 0 => Expiry(s) <= revoked[s]
  /\ SignsInTime(now)
  /\ cutoff.at <= now
  /\ cutoff.at = 0 \/ cutoff.until = cutoff.at + MarkerLife

Purges ==
  /\ \A s \in past.purged : session[s].row = "deleted"
  /\ past.over <= now
  /\ past.over <= cutoff.at \/ Cutting \/ crashes # 0

\* A password that was valid after the last reset, or none.
Current(pw) == pw # 0 => past.floor <= pw

PasswordClaim(rec) ==
  /\ rec.op \in {"sessionCap", "evict", "evictMark", "sessionCreate"} => Current(rec.pw)
  /\ Renews(rec) => Current(session[rec.s].pw)

Passwords ==
  /\ past.floor <= past.set
  /\ user.password # 0 => user.password = past.set
  /\ OneAtATime => /\ \A s \in Live : Current(session[s].pw)
                   /\ \A r \in Requests : PasswordClaim(reqs[r])

RoomClaim(rec) ==
  /\ rec.op = "evict" => rec.todo # {}
  /\ rec.op \in {"evict", "evictMark"}
       => /\ rec.todo \subseteq Live
          /\ Cardinality(Live) - Cardinality(rec.todo) < MaxSessions
  /\ rec.op = "sessionCreate" \/ Renews(rec) => Cardinality(Live) < MaxSessions

Room ==
  OneAtATime => /\ Cardinality(Live) <= MaxSessions
                /\ \A r \in Requests : RoomClaim(reqs[r])

AtStep(step) == {r \in Requests : At(r, step)}

Answers ==
  /\ ~locked => /\ past.tries <= failures + Cardinality(AtStep("codeCount")) + crashes
                /\ past.tries < MaxFailures + Cardinality(AtStep("codeCount"))
                                  + Cardinality(AtStep("codeLock")) + crashes
  /\ past.tries < MaxFailures + Cardinality(load.crew) + crashes
  /\ \A r \in Requests : At(r, "codeClear") => locked

UsedOnce ==
  /\ past.spent \subseteq 1..issued
  /\ \A r \in Requests : At(r, "resetCommit") => reqs[r].t \in 1..issued
  /\ OneAtATime /\ crashes = 0 =>
       /\ ~past.twice
       /\ \A r \in Requests : At(r, "codeUse") => code[reqs[r].c] # "used"
       /\ resetKey \in past.spent => AtStep("resetConsume") # {}
       /\ \A r \in Requests : At(r, "resetCommit") => reqs[r].t \notin past.spent

-----------------------------------------------------------------------------
\* The operators of the library, and the records handlers carry.
LEMMA MinIsLeast ==
  ASSUME NEW N \in Nat, NEW S \in SUBSET (1..N), S # {}
  PROVE  Min(S) \in S /\ \A y \in S : Min(S) <= y
<1> DEFINE T == {1..x : x \in S}
           R == StrictSubsetOrdering(1..N)
<1>1. T \subseteq SUBSET (1..N) /\ T # {}
  <2>1. \A x \in S : 1..x \in SUBSET (1..N)
    OBVIOUS
  <2> QED
    BY <2>1
<1>2. IsWellFoundedOn(R, SUBSET (1..N))
  <2>1. IsFiniteSet(1..N)
    BY FS_Interval
  <2> QED
    BY <2>1, FS_FiniteSubsetsOfFinite, FS_StrictSubsetOrderingWellFounded
<1>3. PICK u \in T : \A v \in T : ~(<<v, u>> \in R)
  <2> HIDE DEF T, R
  <2> QED
    BY <1>1, <1>2, WFMin
<1>4. PICK m \in S : u = 1..m
  OBVIOUS
<1>5. \A y \in S : m <= y
  <2> SUFFICES ASSUME NEW y \in S, y < m PROVE FALSE
    OBVIOUS
  <2>1. 1..y \in T /\ 1..y \subseteq 1..m /\ 1..y # 1..m
    <3>1. m \in 1..m /\ m \notin 1..y
      OBVIOUS
    <3> QED
      BY <3>1
  <2> QED
    BY <1>1, <1>3, <1>4, <2>1 DEF StrictSubsetOrdering
<1> QED
  BY <1>5 DEF Min

LEMMA MaxIsGreatest ==
  ASSUME NEW N \in Nat, NEW S \in SUBSET (1..N), S # {}
  PROVE  Max(S) \in S
<1> DEFINE T == {(N + 1) - x : x \in S}
<1>1. T \in SUBSET (1..N) /\ T # {}
  <2>1. \A x \in S : (N + 1) - x \in 1..N
    OBVIOUS
  <2> QED
    BY <2>1
<1>2. Min(T) \in T /\ \A y \in T : Min(T) <= y
  <2> HIDE DEF T
  <2> QED
    BY <1>1, MinIsLeast
<1>3. PICK m \in S : Min(T) = (N + 1) - m
  BY <1>2
<1>4. \A x \in S : m >= x
  <2> TAKE x \in S
  <2>1. (N + 1) - m <= (N + 1) - x
    BY <1>2, <1>3
  <2> QED
    BY <2>1
<1>5. \E x \in S : \A y \in S : x >= y
  BY <1>4
<1> QED
  BY <1>5 DEF Max

LEMMA RecordFields ==
  ASSUME NEW rec \in Request
  PROVE  /\ rec.op = "registerWrite" => rec.upgrade \in BOOLEAN
         /\ rec.op \in {"sessionCap", "sessionCreate", "evict", "evictMark"}
              => rec.pw \in 0..MaxPasswords
         /\ rec.op \in {"evict", "evictMark", "reuseDelete", "reuseMark"}
              => rec.todo \in SUBSET Sids
         /\ rec.op \in {"evictMark", "refreshFind", "refreshDrop", "rotate", "retire", "renew",
                        "sign", "signRenewed", "logoutBlacklist", "revokeDelete", "revokeMark",
                        "deactivateWrite", "deactivateBlacklist"} => rec.s \in Sids
         /\ rec.op = "codeUse" => rec.c \in Codes
         /\ rec.op = "resetCommit" => rec.t \in Nat
         /\ rec.op = "statusWrite" => rec.to \in {"active", "suspended", "deactivated"}
  BY DEF Request, Idle

LEMMA Records ==
  /\ Idle \in Request
  /\ \A step \in {"phoneCreate", "socialCreate", "socialLink", "changeWrite", "refreshReuse",
                  "cut", "codeVoid", "codeIssue", "codeForgive", "codeGrant", "codeCount",
                  "codeLock", "codeClear", "resetConsume"} : [op |-> step] \in Request
  /\ \A pw \in 0..MaxPasswords :
       /\ [op |-> "sessionCap", pw |-> pw] \in Request
       /\ [op |-> "sessionCreate", pw |-> pw] \in Request
       /\ \A todo \in SUBSET Sids :
            /\ [op |-> "evict", pw |-> pw, todo |-> todo] \in Request
            /\ \A s \in Sids :
                 [op |-> "evictMark", pw |-> pw, todo |-> todo, s |-> s] \in Request
  /\ \A s \in Sids :
       \A step \in {"refreshFind", "refreshDrop", "rotate", "retire", "renew", "sign",
                    "signRenewed", "logoutBlacklist", "revokeDelete", "revokeMark",
                    "deactivateWrite", "deactivateBlacklist"} :
         [op |-> step, s |-> s] \in Request
  /\ \A todo \in SUBSET Sids : /\ [op |-> "reuseDelete", todo |-> todo] \in Request
                               /\ [op |-> "reuseMark", todo |-> todo] \in Request
  /\ \A b \in BOOLEAN : [op |-> "registerWrite", upgrade |-> b] \in Request
  /\ \A c \in Codes : [op |-> "codeUse", c |-> c] \in Request
  /\ \A t \in Nat : [op |-> "resetCommit", t |-> t] \in Request
  /\ \A to \in {"active", "suspended", "deactivated"} :
       [op |-> "statusWrite", to |-> to] \in Request
<1>1. Idle \in Request
  BY DEF Request
<1>2. \A pw \in 0..MaxPasswords :
        /\ [op |-> "sessionCap", pw |-> pw] \in Request
        /\ [op |-> "sessionCreate", pw |-> pw] \in Request
        /\ \A todo \in SUBSET Sids :
            /\ [op |-> "evict", pw |-> pw, todo |-> todo] \in Request
            /\ \A s \in Sids :
                 [op |-> "evictMark", pw |-> pw, todo |-> todo, s |-> s] \in Request
  BY DEF Request
<1> QED
  BY <1>1, <1>2 DEF Request

-----------------------------------------------------------------------------
\* Types.
StoresOK == /\ load \in Workloads /\ now \in Time /\ crashes \in 0..MaxCrashes
            /\ user \in User /\ session \in [Sids -> Session]
            /\ retired \subseteq Sids
            /\ revoked \in [Sids -> Until] /\ blacklist \in [Sids -> Until]
            /\ cutoff \in [at : Time, until : Until]
            /\ code \in [Codes -> {"none", "valid", "used", "expired"}]
            /\ failures \in Nat /\ locked \in BOOLEAN
            /\ issued \in Nat /\ resetKey \in 0..issued
            /\ past \in [purged : SUBSET Sids, over : Time, floor : 0..MaxPasswords,
                         set : 0..MaxPasswords, tries : Nat, spent : SUBSET Nat,
                         twice : BOOLEAN]

LEMMA TypeParts ==
  /\ TypeOK <=> StoresOK /\ reqs \in [Requests -> Request]
  /\ TypeOK' <=> StoresOK' /\ reqs' \in [Requests -> Request]
  BY DEF TypeOK, StoresOK

LEMMA WithoutType ==
  ASSUME TypeOK, NEW S
  PROVE  Without(S) \in [Sids -> Session]
  BY DEF TypeOK, Without, Session

LEMMA Fields ==
  ASSUME TypeOK
  PROVE  /\ user \in User /\ user.password \in 0..MaxPasswords /\ user.placeholder \in BOOLEAN
         /\ user.linked \in BOOLEAN /\ user.anonymised \in BOOLEAN
         /\ user.status \in {"absent", "active", "suspended", "deactivated"}
         /\ past.set \in 0..MaxPasswords /\ 0 \in 0..MaxPasswords /\ resetKey \in Nat
         /\ past.set < MaxPasswords => NewPassword \in 0..MaxPasswords
         /\ now \in 0..MaxTime /\ now \in Nat
         /\ \A s \in Sids : /\ session[s] \in Session
                            /\ session[s].pw \in 0..MaxPasswords
                            /\ session[s].parent \in {0} \cup Sids
                            /\ session[s].iat \in {NoTime} \cup Time
                            /\ session[s].bound \in BOOLEAN
                            /\ session[s].row \in {"none", "live", "deleted"}
                            /\ revoked[s] \in Nat /\ blacklist[s] \in Nat
         /\ cutoff.at \in Nat /\ cutoff.until \in Nat
  BY AuthAssumption DEF TypeOK, User, NewPassword, Time, Session, Until

LEMMA Chosen ==
  ASSUME TypeOK
  PROVE  /\ Valid \in SUBSET Codes
         /\ Live \in SUBSET Sids /\ Unused \in SUBSET Sids /\ Held \in SUBSET Sids
         /\ \A n : Oldest(n) \in SUBSET Sids
         /\ \A S \in SUBSET Sids : S # {} => Min(S) \in S
         /\ \A S \in SUBSET Codes : S # {} => Min(S) \in S /\ Max(S) \in S
  BY AuthAssumption, MinIsLeast, MaxIsGreatest
     DEF Live, Unused, Held, Oldest, Valid, Sids, Codes

LEMMA NewSessionType ==
  ASSUME TypeOK, NEW s \in Sids, NEW pw \in 0..MaxPasswords, NEW p \in {0} \cup Sids,
         NewSession(s, pw, p)
  PROVE  session' \in [Sids -> Session]
<1>1. [row |-> "live", pw |-> pw, parent |-> p, iat |-> NoTime, bound |-> FALSE] \in Session
  BY DEF Session
<1> QED
  BY <1>1 DEF NewSession, TypeOK

LEMMA CutType ==
  ASSUME TypeOK, CutOff
  PROVE  cutoff' \in [at : Time, until : Until]
<1>1. now + MarkerLife \in Until
  BY Fields, AuthAssumption DEF Until
<1> QED
  BY <1>1 DEF TypeOK, CutOff, Time

LEMMA MarkTypes ==
  ASSUME TypeOK, NEW s \in Sids
  PROVE  /\ MarkRevoked(s) => revoked' \in [Sids -> Until]
         /\ BlacklistToken(s) => blacklist' \in [Sids -> Until]
<1>1. now + MarkerLife \in Until
  BY Fields, AuthAssumption DEF Until
<1>2. now + Max2(1, Expiry(s) - now) \in Until
  BY Fields, AuthAssumption DEF Until, Max2, Expiry, Time, NoTime
<1> QED
  BY <1>1, <1>2 DEF TypeOK, MarkRevoked, BlacklistToken

LEMMA HandlerType ==
  ASSUME TypeOK, NEW r \in Requests, Handler(r)
  PROVE  TypeOK' /\ \E rec \in Request : Goto(r, rec)
<1>0. reqs[r] \in Request
  BY DEF TypeOK
<1>a. ASSUME NEW rec \in Request, Goto(r, rec), StoresOK'
      PROVE  TypeOK' /\ \E q \in Request : Goto(r, q)
  BY <1>a, TypeParts DEF Goto
<1>1. CASE RegisterRead(r)
  <2>1. \E rec \in Request : Goto(r, rec)
    BY <1>1, Records, Fields DEF TypeOK, RegisterRead, Starts
  <2>2. StoresOK'
    BY <1>1 DEF TypeOK, StoresOK, RegisterRead, Starts, redis, otp
  <2> QED
    BY <2>1, <2>2, <1>a
<1>2. CASE RegisterWrite(r)
  <2>0. user' \in User
    BY <1>2, Fields DEF RegisterWrite, User, At
  <2>1. \E rec \in Request : Goto(r, rec)
    BY <1>0, <1>2, Records, RecordFields, Fields DEF TypeOK, RegisterWrite, Done, At
  <2>2. StoresOK'
    BY <1>0, <1>2, <2>0, Fields DEF TypeOK, StoresOK, RegisterWrite, At, redis, otp
  <2> QED
    BY <2>1, <2>2, <1>a
<1>3. CASE FirebaseSignIn(r)
  <2>1. \E rec \in Request : Goto(r, rec)
    BY <1>3, Records, Fields DEF TypeOK, FirebaseSignIn, Starts
  <2>2. StoresOK'
    BY <1>3 DEF TypeOK, StoresOK, FirebaseSignIn, Starts, redis, otp
  <2> QED
    BY <2>1, <2>2, <1>a
<1>4. CASE PhoneCreate(r)
  <2>0. user' \in User
    BY <1>4, Fields DEF PhoneCreate, User, At
  <2>1. \E rec \in Request : Goto(r, rec)
    BY <1>4, Records, Fields DEF TypeOK, PhoneCreate, Done, At
  <2>2. StoresOK'
    BY <1>4, <2>0 DEF TypeOK, StoresOK, PhoneCreate, At, redis, otp
  <2> QED
    BY <2>1, <2>2, <1>a
<1>5. CASE SocialSignIn(r)
  <2>1. \E rec \in Request : Goto(r, rec)
    BY <1>5, Records, Fields DEF TypeOK, SocialSignIn, Starts
  <2>2. StoresOK'
    BY <1>5 DEF TypeOK, StoresOK, SocialSignIn, Starts, redis, otp
  <2> QED
    BY <2>1, <2>2, <1>a
<1>6. CASE SocialWrite(r)
  <2>0. user' \in User
    BY <1>6, Fields DEF SocialWrite, User, At
  <2>1. \E rec \in Request : Goto(r, rec)
    BY <1>6, Records, Fields DEF TypeOK, SocialWrite, Done, At
  <2>2. StoresOK'
    BY <1>6, <2>0 DEF TypeOK, StoresOK, SocialWrite, At, redis, otp
  <2> QED
    BY <2>1, <2>2, <1>a
<1>7. CASE Login(r)
  <2>1. \E rec \in Request : Goto(r, rec)
    BY <1>7, Records, Fields DEF TypeOK, Login, Starts
  <2>2. StoresOK'
    BY <1>7 DEF TypeOK, StoresOK, Login, Starts, redis, otp
  <2> QED
    BY <2>1, <2>2, <1>a
<1>8. CASE SessionCapRead(r)
  <2>1. \E rec \in Request : Goto(r, rec)
    BY <1>0, <1>8, Records, RecordFields, Chosen DEF TypeOK, SessionCapRead, At
  <2>2. StoresOK'
    BY <1>0, <1>8 DEF TypeOK, StoresOK, SessionCapRead, At, redis, otp
  <2> QED
    BY <2>1, <2>2, <1>a
<1>9. CASE Evict(r)
  <2>1. \E rec \in Request : Goto(r, rec)
    BY <1>0, <1>9, Records, RecordFields, Chosen DEF TypeOK, Evict, Done, At
  <2>2. StoresOK'
    BY <1>0, <1>9, WithoutType DEF TypeOK, StoresOK, Evict, At, redis, otp
  <2> QED
    BY <2>1, <2>2, <1>a
<1>10. CASE EvictMark(r)
  <2>1. \E rec \in Request : Goto(r, rec)
    BY <1>0, <1>10, Records, RecordFields DEF TypeOK, EvictMark, At
  <2>2. StoresOK'
    BY <1>0, <1>10, MarkTypes, RecordFields DEF TypeOK, StoresOK, EvictMark, At, otp
  <2> QED
    BY <2>1, <2>2, <1>a
<1>11. CASE SessionCreate(r)
  <2>1. \E rec \in Request : Goto(r, rec)
    BY <1>0, <1>11, Records, RecordFields, Chosen DEF TypeOK, SessionCreate, GoWith, At
  <2>2. StoresOK'
    BY <1>0, <1>11, NewSessionType, Chosen, RecordFields DEF TypeOK, StoresOK,
       SessionCreate, At, redis, otp
  <2> QED
    BY <2>1, <2>2, <1>a
<1>12. CASE Sign(r)
  <2>1. \E rec \in Request : Goto(r, rec)
    BY <1>0, <1>12, Records, RecordFields DEF TypeOK, Sign, Done, At
  <2>2. StoresOK'
    BY <1>0, <1>12, RecordFields, Fields DEF TypeOK, StoresOK, Sign, At, redis, otp,
       Session, Time
  <2> QED
    BY <2>1, <2>2, <1>a
<1>13. CASE RefreshStart(r)
  <2>1. \E rec \in Request : Goto(r, rec)
    BY <1>13, Records, Chosen DEF TypeOK, RefreshStart, GoWith, Starts
  <2>2. StoresOK'
    BY <1>13 DEF TypeOK, StoresOK, RefreshStart, Starts, redis, otp
  <2> QED
    BY <2>1, <2>2, <1>a
<1>14. CASE ReuseList(r)
  <2>1. \E rec \in Request : Goto(r, rec)
    BY <1>14, Records, Chosen DEF TypeOK, ReuseList, At
  <2>2. StoresOK'
    BY <1>14 DEF TypeOK, StoresOK, ReuseList, At, redis, otp
  <2> QED
    BY <2>1, <2>2, <1>a
<1>15. CASE ReuseDelete(r)
  <2>1. \E rec \in Request : Goto(r, rec)
    BY <1>0, <1>15, Records, RecordFields DEF TypeOK, ReuseDelete, At
  <2>2. StoresOK'
    BY <1>0, <1>15, WithoutType DEF TypeOK, StoresOK, ReuseDelete, At, redis, otp
  <2> QED
    BY <2>1, <2>2, <1>a
<1>16. CASE ReuseMark(r)
  <2>1. \E rec \in Request : Goto(r, rec)
    BY <1>0, <1>16, Records, RecordFields DEF TypeOK, ReuseMark, At
  <2>2. StoresOK'
    BY <1>0, <1>16, MarkTypes, Chosen, RecordFields DEF TypeOK, StoresOK, ReuseMark, At, otp
  <2> QED
    BY <2>1, <2>2, <1>a
<1>17. CASE Cut(r)
  <2>1. \E rec \in Request : Goto(r, rec)
    BY <1>17, Records DEF TypeOK, Cut, Done, At
  <2>2. StoresOK'
    BY <1>17, CutType DEF TypeOK, StoresOK, Cut, At, otp
  <2> QED
    BY <2>1, <2>2, <1>a
<1>18. CASE RefreshFind(r)
  <2>1. \E rec \in Request : Goto(r, rec)
    BY <1>0, <1>18, Records, RecordFields DEF TypeOK, RefreshFind, Done, GoWith, At
  <2>2. StoresOK'
    BY <1>0, <1>18 DEF TypeOK, StoresOK, RefreshFind, At, redis, otp
  <2> QED
    BY <2>1, <2>2, <1>a
<1>19. CASE RefreshDrop(r)
  <2>1. \E rec \in Request : Goto(r, rec)
    BY <1>0, <1>19, Records, RecordFields DEF TypeOK, RefreshDrop, Done, At
  <2>2. StoresOK'
    BY <1>0, <1>19, WithoutType DEF TypeOK, StoresOK, RefreshDrop, At, redis, otp
  <2> QED
    BY <2>1, <2>2, <1>a
<1>20. CASE Rotate(r)
  <2>1. \E rec \in Request : Goto(r, rec)
    BY <1>0, <1>20, Records, RecordFields DEF TypeOK, Rotate, Done, GoWith, At
  <2>2. StoresOK'
    BY <1>0, <1>20, WithoutType DEF TypeOK, StoresOK, Rotate, At, redis, otp
  <2> QED
    BY <2>1, <2>2, <1>a
<1>21. CASE Retire(r)
  <2>1. \E rec \in Request : Goto(r, rec)
    BY <1>0, <1>21, Records, RecordFields DEF TypeOK, Retire, GoWith, At
  <2>2. StoresOK'
    BY <1>0, <1>21, RecordFields DEF TypeOK, StoresOK, Retire, At, otp
  <2> QED
    BY <2>1, <2>2, <1>a
<1>22. CASE Renew(r)
  <2>1. \E rec \in Request : Goto(r, rec)
    BY <1>0, <1>22, Records, RecordFields, Chosen DEF TypeOK, Renew, GoWith, At
  <2>2. StoresOK'
    BY <1>0, <1>22, NewSessionType, Chosen, RecordFields, Fields DEF TypeOK, StoresOK,
       Renew, At, redis, otp
  <2> QED
    BY <2>1, <2>2, <1>a
<1>23. CASE Logout(r)
  <2>1. \E rec \in Request : Goto(r, rec)
    BY <1>23, Records, Chosen DEF TypeOK, Logout, GoWith, Starts
  <2>2. StoresOK'
    BY <1>23, WithoutType DEF TypeOK, StoresOK, Logout, Starts, redis, otp
  <2> QED
    BY <2>1, <2>2, <1>a
<1>24. CASE LogoutBlacklist(r)
  <2>1. \E rec \in Request : Goto(r, rec)
    BY <1>0, <1>24, Records, RecordFields DEF TypeOK, LogoutBlacklist, Done, At
  <2>2. StoresOK'
    BY <1>0, <1>24, MarkTypes, RecordFields DEF TypeOK, StoresOK, LogoutBlacklist, At, otp
  <2> QED
    BY <2>1, <2>2, <1>a
<1>25. CASE RevokeRead(r)
  <2>1. \E rec \in Request : Goto(r, rec)
    BY <1>25, Records, Chosen DEF TypeOK, RevokeRead, GoWith, Starts
  <2>2. StoresOK'
    BY <1>25 DEF TypeOK, StoresOK, RevokeRead, Starts, redis, otp
  <2> QED
    BY <2>1, <2>2, <1>a
<1>26. CASE RevokeDelete(r)
  <2>1. \E rec \in Request : Goto(r, rec)
    BY <1>0, <1>26, Records, RecordFields DEF TypeOK, RevokeDelete, Done, GoWith, At
  <2>2. StoresOK'
    BY <1>0, <1>26, WithoutType DEF TypeOK, StoresOK, RevokeDelete, At, redis, otp
  <2> QED
    BY <2>1, <2>2, <1>a
<1>27. CASE RevokeMark(r)
  <2>1. \E rec \in Request : Goto(r, rec)
    BY <1>0, <1>27, Records, RecordFields DEF TypeOK, RevokeMark, Done, At
  <2>2. StoresOK'
    BY <1>0, <1>27, MarkTypes, RecordFields DEF TypeOK, StoresOK, RevokeMark, At, otp
  <2> QED
    BY <2>1, <2>2, <1>a
<1>28. CASE ChangePassword(r)
  <2>1. \E rec \in Request : Goto(r, rec)
    BY <1>28, Records DEF TypeOK, ChangePassword, Starts
  <2>2. StoresOK'
    BY <1>28 DEF TypeOK, StoresOK, ChangePassword, Starts, redis, otp
  <2> QED
    BY <2>1, <2>2, <1>a
<1>29. CASE ChangeWrite(r)
  <2>1. \E rec \in Request : Goto(r, rec)
    BY <1>29, Records DEF TypeOK, ChangeWrite, Done, At
  <2>2. StoresOK'
    BY <1>29, Fields DEF TypeOK, StoresOK, ChangeWrite, At, redis, otp, User
  <2> QED
    BY <2>1, <2>2, <1>a
<1>30. CASE Deactivate(r)
  <2>1. \E rec \in Request : Goto(r, rec)
    BY <1>30, Records, Chosen DEF TypeOK, Deactivate, GoWith, Starts
  <2>2. StoresOK'
    BY <1>30 DEF TypeOK, StoresOK, Deactivate, Starts, redis, otp
  <2> QED
    BY <2>1, <2>2, <1>a
<1>31. CASE DeactivateWrite(r)
  <2>0. user' \in User
    BY <1>31, Fields DEF DeactivateWrite, User, At
  <2>1. \E rec \in Request : Goto(r, rec)
    BY <1>0, <1>31, Records, RecordFields DEF TypeOK, DeactivateWrite, GoWith, At
  <2>2. StoresOK'
    BY <1>0, <1>31, WithoutType, <2>0 DEF TypeOK, StoresOK, DeactivateWrite, At, redis, otp
  <2> QED
    BY <2>1, <2>2, <1>a
<1>32. CASE DeactivateBlacklist(r)
  <2>1. \E rec \in Request : Goto(r, rec)
    BY <1>0, <1>32, Records, RecordFields DEF TypeOK, DeactivateBlacklist, At
  <2>2. StoresOK'
    BY <1>0, <1>32, MarkTypes, RecordFields DEF TypeOK, StoresOK, DeactivateBlacklist, At,
       otp
  <2> QED
    BY <2>1, <2>2, <1>a
<1>33. CASE AdminStatusRead(r)
  <2>1. \E rec \in Request : Goto(r, rec)
    BY <1>33, Records DEF TypeOK, AdminStatusRead, Starts
  <2>2. StoresOK'
    BY <1>33 DEF TypeOK, StoresOK, AdminStatusRead, Starts, redis, otp
  <2> QED
    BY <2>1, <2>2, <1>a
<1>34. CASE AdminStatusWrite(r)
  <2>1. \E rec \in Request : Goto(r, rec)
    BY <1>0, <1>34, Records, RecordFields DEF TypeOK, AdminStatusWrite, Done, At
  <2>2. StoresOK'
    BY <1>0, <1>34, Fields, RecordFields DEF TypeOK, StoresOK, AdminStatusWrite, At, redis,
       otp, User
  <2> QED
    BY <2>1, <2>2, <1>a
<1>35. CASE CodeSend(r)
  <2>1. \E rec \in Request : Goto(r, rec)
    BY <1>35, Records DEF TypeOK, CodeSend, Starts
  <2>2. StoresOK'
    BY <1>35 DEF TypeOK, StoresOK, CodeSend, Starts, redis, otp
  <2> QED
    BY <2>1, <2>2, <1>a
<1>36. CASE CodeVoid(r)
  <2>1. \E rec \in Request : Goto(r, rec)
    BY <1>36, Records DEF TypeOK, CodeVoid, At
  <2>2. StoresOK'
    BY <1>36 DEF TypeOK, StoresOK, CodeVoid, At, redis
  <2> QED
    BY <2>1, <2>2, <1>a
<1>37. CASE CodeIssue(r)
  <2>1. \E rec \in Request : Goto(r, rec)
    BY <1>37, Records DEF TypeOK, CodeIssue, Done, At
  <2>2. StoresOK'
    BY <1>37 DEF TypeOK, StoresOK, CodeIssue, At, redis
  <2> QED
    BY <2>1, <2>2, <1>a
<1>38. CASE CodeTry(r)
  <2>1. \E rec \in Request : Goto(r, rec)
    BY <1>38, Records, Chosen DEF TypeOK, CodeTry, Starts
  <2>2. StoresOK'
    BY <1>38 DEF TypeOK, StoresOK, CodeTry, Starts, redis, otp
  <2> QED
    BY <2>1, <2>2, <1>a
<1>39. CASE CodeUse(r)
  <2>1. \E rec \in Request : Goto(r, rec)
    BY <1>0, <1>39, Records, RecordFields DEF TypeOK, CodeUse, At
  <2>2. StoresOK'
    BY <1>0, <1>39 DEF TypeOK, StoresOK, CodeUse, At, redis
  <2> QED
    BY <2>1, <2>2, <1>a
<1>40. CASE CodeForgive(r)
  <2>1. \E rec \in Request : Goto(r, rec)
    BY <1>40, Records DEF TypeOK, CodeForgive, At
  <2>2. StoresOK'
    BY <1>40 DEF TypeOK, StoresOK, CodeForgive, At, redis
  <2> QED
    BY <2>1, <2>2, <1>a
<1>41. CASE CodeGrant(r)
  <2>1. \E rec \in Request : Goto(r, rec)
    BY <1>41, Records DEF TypeOK, CodeGrant, Done, At
  <2>2. StoresOK'
    BY <1>41 DEF TypeOK, StoresOK, CodeGrant, At, redis
  <2> QED
    BY <2>1, <2>2, <1>a
<1>42. CASE CodeCount(r)
  <2>1. \E rec \in Request : Goto(r, rec)
    BY <1>42, Records DEF TypeOK, CodeCount, Done, At
  <2>2. StoresOK'
    BY <1>42 DEF TypeOK, StoresOK, CodeCount, At, redis
  <2> QED
    BY <2>1, <2>2, <1>a
<1>43. CASE CodeLock(r)
  <2>1. \E rec \in Request : Goto(r, rec)
    BY <1>43, Records DEF TypeOK, CodeLock, At
  <2>2. StoresOK'
    BY <1>43 DEF TypeOK, StoresOK, CodeLock, At, redis
  <2> QED
    BY <2>1, <2>2, <1>a
<1>44. CASE CodeClear(r)
  <2>1. \E rec \in Request : Goto(r, rec)
    BY <1>44, Records DEF TypeOK, CodeClear, Done, At
  <2>2. StoresOK'
    BY <1>44 DEF TypeOK, StoresOK, CodeClear, At, redis
  <2> QED
    BY <2>1, <2>2, <1>a
<1>45. CASE ResetRead(r)
  <2>1. \E rec \in Request : Goto(r, rec)
    BY <1>45, Records, Fields DEF TypeOK, ResetRead, Starts
  <2>2. StoresOK'
    BY <1>45 DEF TypeOK, StoresOK, ResetRead, Starts, redis, otp
  <2> QED
    BY <2>1, <2>2, <1>a
<1>46. CASE ResetCommit(r)
  <2>1. \E rec \in Request : Goto(r, rec)
    BY <1>0, <1>46, Records, RecordFields DEF TypeOK, ResetCommit, At
  <2>2. StoresOK'
    BY <1>0, <1>46, WithoutType, Fields, RecordFields DEF TypeOK, StoresOK, ResetCommit, At,
       redis, otp, User
  <2> QED
    BY <2>1, <2>2, <1>a
<1>47. CASE ResetConsume(r)
  <2>1. \E rec \in Request : Goto(r, rec)
    BY <1>47, Records DEF TypeOK, ResetConsume, At
  <2>2. StoresOK'
    BY <1>47 DEF TypeOK, StoresOK, ResetConsume, At, redis
  <2> QED
    BY <2>1, <2>2, <1>a
<1>48. CASE Crash(r)
  <2>1. \E rec \in Request : Goto(r, rec)
    BY <1>48, Records DEF TypeOK, Crash, Done
  <2>2. StoresOK'
    BY <1>48, Fields, AuthAssumption DEF TypeOK, StoresOK, Crash, redis, otp
  <2> QED
    BY <2>1, <2>2, <1>a
<1> QED
  BY <1>1, <1>2, <1>3, <1>4, <1>5, <1>6, <1>7, <1>8, <1>9, <1>10, <1>11, <1>12, <1>13,
     <1>14, <1>15, <1>16, <1>17, <1>18, <1>19, <1>20, <1>21, <1>22, <1>23, <1>24, <1>25,
     <1>26, <1>27, <1>28, <1>29, <1>30, <1>31, <1>32, <1>33, <1>34, <1>35, <1>36, <1>37,
     <1>38, <1>39, <1>40, <1>41, <1>42, <1>43, <1>44, <1>45, <1>46, <1>47, <1>48 DEF Handler

LEMMA NextType ==
  ASSUME TypeOK, [Next]_vars
  PROVE  TypeOK'
<1>1. CASE \E r \in Requests : Handler(r)
  BY <1>1, HandlerType
<1>2. CASE Tick
  <2>1. now' \in Time
    BY <1>2, Fields, AuthAssumption DEF Tick, TypeOK, Time
  <2> QED
    BY <1>2, <2>1 DEF Tick, TypeOK, redis, otp
<1>3. CASE CodeExpire
  BY <1>3 DEF CodeExpire, TypeOK, redis
<1>4. CASE ResetKeyExpire
  BY <1>4 DEF ResetKeyExpire, TypeOK, redis
<1>5. CASE CountersExpire
  BY <1>5 DEF CountersExpire, TypeOK, redis
<1>6. CASE UNCHANGED vars
  BY <1>6 DEF vars, TypeOK, redis, otp
<1> QED
  BY <1>1, <1>2, <1>3, <1>4, <1>5, <1>6 DEF Next

LEMMA InitType ==
  ASSUME Init
  PROVE  TypeOK
<1>1. NoSession \in Session /\ Idle \in Request
  BY AuthAssumption DEF NoSession, Session, Request
<1>2. 0 \in Time /\ 0 \in Until /\ 0 \in 0..MaxPasswords /\ 0 \in 0..MaxCrashes
  BY AuthAssumption DEF Time, Until
<1>3. user \in User
  BY <1>2 DEF Init, User
<1>4. cutoff \in [at : Time, until : Until] /\ resetKey \in 0..issued
  BY <1>2 DEF Init
<1>5. past \in [purged : SUBSET Sids, over : Time, floor : 0..MaxPasswords,
                set : 0..MaxPasswords, tries : Nat, spent : SUBSET Nat, twice : BOOLEAN]
  BY <1>2 DEF Init
<1> QED
  BY <1>1, <1>2, <1>3, <1>4, <1>5 DEF Init, TypeOK

\* Every reachable state is well typed: what a handler has read and carries to its next
\* statement has the type that statement needs, and no key in Redis names a time beyond
\* what its lifetime allows.
THEOREM TypeCorrect == Spec => []TypeOK
<1>1. Init => TypeOK
  BY InitType
<1>2. TypeOK /\ [Next]_vars => TypeOK'
  BY NextType
<1> QED
  BY <1>1, <1>2, PTL DEF Spec
-----------------------------------------------------------------------------
\* Handlers at work, and steps that leave sessions and markers alone.

\* A handler writes its own record only, and is one of the crew.
LEMMA HandlerFrame ==
  ASSUME TypeOK, OnDuty, NEW r \in Requests, Handler(r)
  PROVE  /\ r \in load.crew /\ load' = load
         /\ \A q \in Requests : q # r => reqs'[q] = reqs[q]
<1>1. r \in load.crew
  BY DEF OnDuty, Idle, Handler, Starts, At, Crash,
         RegisterRead, RegisterWrite, FirebaseSignIn, PhoneCreate, SocialSignIn, SocialWrite,
         Login, SessionCapRead, Evict, EvictMark, SessionCreate, Sign, RefreshStart, ReuseList,
         ReuseDelete, ReuseMark, Cut, RefreshFind, RefreshDrop, Rotate, Retire, Renew, Logout,
         LogoutBlacklist, RevokeRead, RevokeDelete, RevokeMark, ChangePassword, ChangeWrite,
         Deactivate, DeactivateWrite, DeactivateBlacklist, AdminStatusRead, AdminStatusWrite,
         CodeSend, CodeVoid, CodeIssue, CodeTry, CodeUse, CodeForgive, CodeGrant, CodeCount,
         CodeLock, CodeClear, ResetRead, ResetCommit, ResetConsume
<1>2. load' = load
  BY DEF Handler, Crash,
         RegisterRead, RegisterWrite, FirebaseSignIn, PhoneCreate, SocialSignIn, SocialWrite,
         Login, SessionCapRead, Evict, EvictMark, SessionCreate, Sign, RefreshStart, ReuseList,
         ReuseDelete, ReuseMark, Cut, RefreshFind, RefreshDrop, Rotate, Retire, Renew, Logout,
         LogoutBlacklist, RevokeRead, RevokeDelete, RevokeMark, ChangePassword, ChangeWrite,
         Deactivate, DeactivateWrite, DeactivateBlacklist, AdminStatusRead, AdminStatusWrite,
         CodeSend, CodeVoid, CodeIssue, CodeTry, CodeUse, CodeForgive, CodeGrant, CodeCount,
         CodeLock, CodeClear, ResetRead, ResetCommit, ResetConsume
<1>3. \A q \in Requests : q # r => reqs'[q] = reqs[q]
  BY HandlerType DEF TypeOK, Goto
<1> QED
  BY <1>1, <1>2, <1>3

LEMMA NextOnDuty ==
  ASSUME TypeOK, OnDuty, [Next]_vars
  PROVE  OnDuty'
<1>1. CASE \E r \in Requests : Handler(r)
  BY <1>1, HandlerFrame DEF OnDuty
<1>2. CASE UNCHANGED <<load, reqs>>
  BY <1>2 DEF OnDuty
<1> QED
  BY <1>1, <1>2 DEF Next, Tick, CodeExpire, ResetKeyExpire, CountersExpire, vars

\* Steps that touch no session and no marker: they look, write the user's row, or deal with
\* one-time codes.  Weighty are the records that claim something of a session.
Weighty == {"evict", "evictMark", "sessionCreate", "sign", "signRenewed", "reuseDelete",
            "reuseMark", "retire", "renew", "logoutBlacklist", "deactivateWrite",
            "deactivateBlacklist", "revokeMark", "cut", "resetConsume"}

Aside(r) ==
  \/ RegisterRead(r) \/ RegisterWrite(r) \/ FirebaseSignIn(r) \/ PhoneCreate(r)
  \/ SocialSignIn(r) \/ SocialWrite(r) \/ Login(r) \/ RefreshStart(r)
  \/ RefreshFind(r) \/ RevokeRead(r) \/ ChangePassword(r) \/ ChangeWrite(r)
  \/ AdminStatusRead(r) \/ AdminStatusWrite(r) \/ CodeSend(r) \/ CodeVoid(r)
  \/ CodeIssue(r) \/ CodeTry(r) \/ CodeUse(r) \/ CodeForgive(r) \/ CodeGrant(r)
  \/ CodeCount(r) \/ CodeLock(r) \/ CodeClear(r) \/ ResetRead(r)

LEMMA WritePassword ==
  ASSUME TypeOK
  PROVE  /\ user' = [user EXCEPT !.status = "active", !.password = NewPassword,
                               !.placeholder = FALSE]
              => user'.password = NewPassword
         /\ user' = [user EXCEPT !.password = NewPassword] => user'.password = NewPassword
         /\ past' = [past EXCEPT !.set = NewPassword] => past'.set = NewPassword
<1>1. user \in User
  BY DEF TypeOK
<1>2. DOMAIN user = {"status", "password", "placeholder", "linked", "anonymised"}
  BY <1>1 DEF User
<1>3. "set" \in DOMAIN past
  BY DEF TypeOK
<1> QED
  BY <1>2, <1>3

LEMMA AsideIsPlain ==
  ASSUME TypeOK, NEW r \in Requests, Aside(r)
  PROVE  /\ UNCHANGED <<load, now, session, revoked, blacklist, cutoff, crashes>>
         /\ past' = [past EXCEPT !.set = past'.set, !.tries = past'.tries, !.twice = past'.twice]
         /\ reqs[r].op \notin Weighty
         /\ \E rec \in Request :
              /\ Goto(r, rec) /\ rec.op \notin Weighty
              /\ rec.op = "sessionCap" => rec.pw \in {0, user'.password}
         /\ \/ user'.password = user.password /\ past'.set = past.set
            \/ user'.password = past'.set /\ past'.set = past.set + 1
<1>1. UNCHANGED <<load, now, session, revoked, blacklist, cutoff, crashes>>
  BY DEF Aside, redis, otp,
         RegisterRead, RegisterWrite, FirebaseSignIn, PhoneCreate, SocialSignIn,
         SocialWrite, Login, RefreshStart, RefreshFind, RevokeRead, ChangePassword,
         ChangeWrite, AdminStatusRead, AdminStatusWrite, CodeSend, CodeVoid, CodeIssue,
         CodeTry, CodeUse, CodeForgive, CodeGrant, CodeCount, CodeLock, CodeClear,
         ResetRead
<1>2. past' = [past EXCEPT !.set = past'.set, !.tries = past'.tries, !.twice = past'.twice]
  BY DEF Aside, TypeOK,
         RegisterRead, RegisterWrite, FirebaseSignIn, PhoneCreate, SocialSignIn,
         SocialWrite, Login, RefreshStart, RefreshFind, RevokeRead, ChangePassword,
         ChangeWrite, AdminStatusRead, AdminStatusWrite, CodeSend, CodeVoid, CodeIssue,
         CodeTry, CodeUse, CodeForgive, CodeGrant, CodeCount, CodeLock, CodeClear,
         ResetRead
<1>3. reqs[r].op \notin Weighty
  BY DEF Aside, Weighty, Starts, At, Idle,
         RegisterRead, RegisterWrite, FirebaseSignIn, PhoneCreate, SocialSignIn,
         SocialWrite, Login, RefreshStart, RefreshFind, RevokeRead, ChangePassword,
         ChangeWrite, AdminStatusRead, AdminStatusWrite, CodeSend, CodeVoid, CodeIssue,
         CodeTry, CodeUse, CodeForgive, CodeGrant, CodeCount, CodeLock, CodeClear,
         ResetRead
<1>4. \E rec \in Request :
        /\ Goto(r, rec) /\ rec.op \notin Weighty
        /\ rec.op = "sessionCap" => rec.pw \in {0, user'.password}
  <2>1. PICK rec \in Request : Goto(r, rec)
    BY HandlerType DEF Aside, Handler
  <2>2. reqs' = [reqs EXCEPT ![r] = rec] /\ reqs'[r] = rec
    BY <2>1 DEF Goto, TypeOK
  <2> DEFINE Light == /\ rec.op \notin Weighty
                      /\ rec.op = "sessionCap" => rec.pw \in {0, user'.password}
  <2>3. CASE RegisterRead(r)
    <3> Light
      BY <2>2, <2>3, Fields, RecordFields DEF Weighty, Goto, TypeOK, User, RegisterRead
    <3> QED
      BY <2>1
  <2>4. CASE RegisterWrite(r)
    <3>1. \/ /\ rec = [op |-> "sessionCap", pw |-> NewPassword]
             /\ user' = [user EXCEPT !.status = "active", !.password = NewPassword,
                                     !.placeholder = FALSE]
          \/ rec = Idle
      BY <2>2, <2>4 DEF RegisterWrite, Done, Goto, TypeOK
    <3> Light
      BY <3>1, WritePassword DEF Weighty, Idle
    <3> QED
      BY <2>1
  <2>5. CASE FirebaseSignIn(r) \/ PhoneCreate(r)
    <3> Light
      BY <2>2, <2>5, Fields, RecordFields DEF Weighty, Done, Goto, Idle, TypeOK, User,
         FirebaseSignIn, PhoneCreate
    <3> QED
      BY <2>1
  <2>6. CASE SocialSignIn(r) \/ SocialWrite(r)
    <3> Light
      BY <2>2, <2>6, Fields, RecordFields DEF Weighty, Done, Goto, Idle, TypeOK, User,
         SocialSignIn, SocialWrite
    <3> QED
      BY <2>1
  <2>7. CASE Login(r)
    <3> Light
      BY <2>2, <2>7, Fields, RecordFields DEF Weighty, Goto, Idle, TypeOK, User, Login
    <3> QED
      BY <2>1
  <2>8. CASE RefreshStart(r)
    <3> Light
      BY <2>2, <2>8, Fields, RecordFields DEF Weighty, Goto, GoWith, Idle, TypeOK, User,
         RefreshStart
    <3> QED
      BY <2>1
  <2>9. CASE RefreshFind(r)
    <3> Light
      BY <2>2, <2>9, Fields, RecordFields DEF Weighty, Done, Goto, GoWith, Idle, TypeOK, User,
           RefreshFind
    <3> QED
      BY <2>1
  <2>10. CASE RevokeRead(r)
    <3> Light
      BY <2>2, <2>10, Fields, RecordFields DEF Weighty, Goto, GoWith, Idle, TypeOK, User,
         RevokeRead
    <3> QED
      BY <2>1
  <2>11. CASE ChangePassword(r) \/ ChangeWrite(r)
    <3> Light
      BY <2>2, <2>11, Fields, RecordFields DEF Weighty, Done, Goto, Idle, TypeOK, User,
         ChangePassword, ChangeWrite
    <3> QED
      BY <2>1
  <2>12. CASE AdminStatusRead(r) \/ AdminStatusWrite(r)
    <3>1. ASSUME AdminStatusRead(r) PROVE Light
      <4>1. PICK to \in {"active", "suspended", "deactivated"} :
              Goto(r, [op |-> "statusWrite", to |-> to])
        BY <3>1 DEF AdminStatusRead
      <4> QED
        BY <2>2, <4>1 DEF Goto, TypeOK, Weighty
    <3>2. ASSUME AdminStatusWrite(r) PROVE Light
      BY <2>2, <3>2 DEF AdminStatusWrite, Done, Goto, Idle, TypeOK, Weighty
    <3> Light
      BY <2>12, <3>1, <3>2
    <3> QED
      BY <2>1
  <2>13. CASE CodeSend(r) \/ CodeVoid(r) \/ CodeIssue(r) \/ CodeTry(r)
    <3> Light
      BY <2>2, <2>13, Fields, RecordFields DEF Weighty, Done, Goto, Idle, TypeOK, User,
         CodeSend, CodeVoid, CodeIssue, CodeTry
    <3> QED
      BY <2>1
  <2>14. CASE CodeUse(r) \/ CodeForgive(r) \/ CodeGrant(r) \/ CodeCount(r) \/ CodeLock(r) \/ CodeClear(r) \/ ResetRead(r)
    <3> Light
      BY <2>2, <2>14, Fields, RecordFields DEF Weighty, Done, Goto, Idle, TypeOK, User,
         CodeUse, CodeForgive, CodeGrant, CodeCount, CodeLock, CodeClear, ResetRead
    <3> QED
      BY <2>1
  <2> QED
    BY <2>3, <2>4, <2>5, <2>6, <2>7, <2>8, <2>9, <2>10, <2>11, <2>12, <2>13, <2>14 DEF Aside
<1>5. \/ user'.password = user.password /\ past'.set = past.set
      \/ user'.password = past'.set /\ past'.set = past.set + 1
  <2>1. CASE ChangeWrite(r)
    BY <2>1, Fields DEF TypeOK, User, ChangeWrite, NewPassword
  <2>0. CASE RegisterWrite(r)
    <3>1. \/ /\ user' = [user EXCEPT !.status = "active", !.password = NewPassword,
                                   !.placeholder = FALSE]
             /\ past' = [past EXCEPT !.set = NewPassword]
          \/ UNCHANGED <<user, past>>
      BY <2>0 DEF RegisterWrite
    <3> QED
      BY <3>1, Fields, WritePassword DEF NewPassword
  <2>2. CASE PhoneCreate(r) \/ SocialWrite(r) \/ AdminStatusWrite(r)
    BY <2>2, Fields DEF User, PhoneCreate, SocialWrite, AdminStatusWrite
  <2>3. CASE UNCHANGED user /\ past'.set = past.set
    BY <2>3
  <2> QED
    BY <2>0, <2>1, <2>2, <2>3 DEF Aside, TypeOK,
           RegisterRead, RegisterWrite, FirebaseSignIn, PhoneCreate, SocialSignIn,
           SocialWrite, Login, RefreshStart, RefreshFind, RevokeRead, ChangePassword,
           ChangeWrite, AdminStatusRead, AdminStatusWrite, CodeSend, CodeVoid, CodeIssue,
           CodeTry, CodeUse, CodeForgive, CodeGrant, CodeCount, CodeLock, CodeClear,
           ResetRead
<1> QED
  BY <1>1, <1>2, <1>3, <1>4, <1>5

-----------------------------------------------------------------------------
\* Lives.

\* Sessions may end, and nothing else becomes of them.
Fades == \A s \in Sids : \/ session'[s] = session[s]
                         \/ s \in Live /\ session'[s] = [session[s] EXCEPT !.row = "deleted"]

LEMMA WithoutFades ==
  ASSUME TypeOK, NEW S, session' = Without(S)
  PROVE  /\ Fades
         /\ \A s \in Sids : s \in S /\ s \in Live => session'[s].row = "deleted"
         /\ \A s \in Sids : s \in S => session'[s].row # "live"
BY Fields DEF Fades, Without, Live, Session

LEMMA FadesKeeps ==
  ASSUME TypeOK, Fades, NEW s \in Sids
  PROVE  /\ session'[s].iat = session[s].iat /\ session'[s].parent = session[s].parent
         /\ session'[s].pw = session[s].pw /\ session'[s].bound = session[s].bound
         /\ Begun(s)' <=> Begun(s)
         /\ session'[s].row = "live" => session[s].row = "live"
         /\ session[s].row = "deleted" => session'[s].row = "deleted"
         /\ session[s].row = "none" => session'[s] = session[s]
         /\ (s \in Held)' <=> s \in Held
BY Fields DEF Fades, Session, Live, Held, Begun

LEMMA ClaimFades ==
  ASSUME TypeOK, Fades, NEW c \in Request, LifeClaim(c)
  PROVE  LifeClaim(c)'
BY FadesKeeps, RecordFields DEF LifeClaim, Signs, Renews

LEMMA LivesFade ==
  ASSUME TypeOK, Lives, Fades, now' = now,
         \A s \in Sids : revoked'[s] = revoked[s] \/ Begun(s),
         NEW r \in Requests, NEW rec \in Request, Goto(r, rec), LifeClaim(rec)', ~Signs(rec),
         Renews(rec) => \/ rec.s \in Live
                        \/ Renews(reqs[r]) /\ reqs[r].s = rec.s
  PROVE  Lives'
<1>1. /\ reqs'[r] = rec
      /\ \A q \in Requests : reqs[q] \in Request /\ (q # r => reqs'[q] = reqs[q])
  BY DEF TypeOK, Goto
<1>2. \A s \in Sids : (session[s].iat <= now)'
  BY FadesKeeps DEF Lives
<1>3. \A s \in Sids : (~Begun(s) => session[s] = NoSession /\ revoked[s] = 0)'
  BY FadesKeeps DEF Lives, Begun
<1>4. OneSuccessor'
  BY FadesKeeps DEF Lives, OneSuccessor
<1>5. \A q \in Requests : LifeClaim(reqs[q])'
  BY <1>1, ClaimFades DEF Lives
<1>6. Apart'
  <2>1. ASSUME NEW q \in Requests, q # r, Renews(rec), Renews(reqs[q])
        PROVE  reqs[q].s # rec.s
    <3>1. session[reqs[q].s].row = "deleted" /\ reqs[q].s \in Sids
      BY <1>1, <2>1, RecordFields DEF Lives, LifeClaim, Renews
    <3> QED
      BY <2>1, <3>1 DEF Live, Lives, Apart
  <2> QED
    BY <1>1, <2>1 DEF Lives, Apart
<1> QED
  BY <1>2, <1>3, <1>4, <1>5, <1>6 DEF Lives

LEMMA ClaimStays ==
  ASSUME NEW c \in Request, LifeClaim(c),
         \A t \in Sids : (Begun(t) => Begun(t)') /\ (t \in Held => (t \in Held)'),
         Signs(c) => session'[c.s].iat = NoTime,
         Renews(c) => /\ session'[c.s].row = "deleted"
                      /\ \A t \in Sids : session'[t].parent # c.s
  PROVE  LifeClaim(c)'
<1>1. c.op \in {"evictMark", "revokeMark", "sign", "signRenewed"} => Begun(c.s)'
  BY RecordFields DEF LifeClaim
<1>2. c.op \in {"reuseDelete", "reuseMark"} => \A s \in c.todo : Begun(s)'
  BY RecordFields DEF LifeClaim
<1>3. c.op \in {"logoutBlacklist", "deactivateWrite", "deactivateBlacklist"} => (c.s \in Held)'
  BY RecordFields DEF LifeClaim
<1> QED
  BY <1>1, <1>2, <1>3 DEF LifeClaim, Signs, Renews

LEMMA NewSessionIs ==
  ASSUME TypeOK, NEW u \in Unused, NEW pw, NEW p, NewSession(u, pw, p)
  PROVE  /\ u \in Sids
         /\ session'[u].row = "live" /\ session'[u].pw = pw /\ session'[u].parent = p
         /\ session'[u].iat = NoTime
         /\ \A s \in Sids : s # u => session'[s] = session[s]
  BY DEF NewSession, TypeOK, Unused

LEMMA LivesNew ==
  ASSUME TypeOK, Lives, UNCHANGED <<now, revoked>>, NEW u \in Unused,
         NEW pw, NEW p \in {0} \cup Sids, NewSession(u, pw, p),
         NEW r \in Requests, NEW step \in {"sign", "signRenewed"},
         Goto(r, [op |-> step, s |-> u]),
         p # 0 => reqs[r].op = "renew" /\ reqs[r].s = p
  PROVE  Lives'
<1> DEFINE rec == [op |-> step, s |-> u]
<1>1. /\ reqs'[r] = rec
      /\ \A q \in Requests : reqs[q] \in Request /\ (q # r => reqs'[q] = reqs[q])
  BY DEF TypeOK, Goto
<1>2. /\ u \in Sids /\ session[u] = NoSession /\ revoked[u] = 0
      /\ session'[u].row = "live" /\ session'[u].parent = p /\ session'[u].iat = NoTime
      /\ \A s \in Sids : s # u => session'[s] = session[s]
  <2>1. u \in Sids /\ session[u] = NoSession /\ revoked[u] = 0
    BY NewSessionIs DEF Lives, Begun, Unused
  <2> QED
    BY <2>1, NewSessionIs
<1>3. session[u].row = "none" /\ session[u].parent = 0 /\ session[u].iat = NoTime
  BY <1>2 DEF NoSession
<1>4. \A s \in Sids : (session[s].iat <= now)'
  BY <1>2, Fields DEF Lives, NoTime
<1>5. \A s \in Sids : (~Begun(s) => session[s] = NoSession /\ revoked[s] = 0)'
  BY <1>2 DEF Lives, Begun
<1>6. p # 0 => /\ p \in Sids /\ p # u /\ session[p].row = "deleted"
               /\ \A t \in Sids : session[t].parent # p
  BY <1>1, <1>3, RecordFields DEF Lives, LifeClaim, Renews
<1>7. OneSuccessor'
  <2>1. \A t \in Sids : session[t].parent # u
    BY <1>2, <1>3 DEF Lives, OneSuccessor
  <2> QED
    BY <1>2, <1>3, <1>6, <2>1 DEF Lives, OneSuccessor, Sids
<1>8. \A q \in Requests : LifeClaim(reqs[q])'
  <2> TAKE q \in Requests
  <2>1. CASE q = r
    <3>1. LifeClaim(rec)'
      BY <1>2 DEF LifeClaim, Signs, Renews, Begun
    <3> QED
      BY <1>1, <2>1, <3>1
  <2>2. CASE q # r
    <3>1. PICK c \in Request : c = reqs[q] /\ LifeClaim(c) /\ reqs'[q] = c
      BY <1>1, <2>2 DEF Lives
    <3>2. Renews(c) => c.s # u /\ c.s # p /\ c.s \in Sids
      <4>1. Renews(c) /\ p # 0 => c.s # p
        BY <2>2, <3>1 DEF Lives, Apart, Renews
      <4> QED
        BY <1>3, <3>1, <4>1, RecordFields, AuthAssumption DEF LifeClaim, Renews, Sids
    <3>3. LifeClaim(c)'
      <4>1. Signs(c) => c.s \in Sids /\ c.s # u
        BY <1>3, <3>1, RecordFields DEF LifeClaim, Signs, Begun
      <4>2. \A t \in Sids : (Begun(t) => Begun(t)') /\ (t \in Held => (t \in Held)')
        BY <1>2, <1>3 DEF Begun, Held
      <4>3. Renews(c) => /\ session'[c.s].row = "deleted"
                         /\ \A t \in Sids : session'[t].parent # c.s
        BY <1>2, <3>1, <3>2 DEF LifeClaim
      <4> QED
        BY <1>2, <3>1, <4>1, <4>2, <4>3, ClaimStays DEF LifeClaim
    <3> QED
      BY <3>1, <3>3
  <2> QED
    BY <2>1, <2>2
<1>9. Apart'
  <2>1. ASSUME NEW q \in Requests, q # r, Signs(reqs[q])
        PROVE  reqs[q].s # u
    BY <1>1, <1>3, <2>1, RecordFields DEF Lives, LifeClaim, Signs, Begun
  <2> QED
    BY <1>1, <2>1 DEF Lives, Apart, Renews
<1> QED
  BY <1>4, <1>5, <1>7, <1>8, <1>9 DEF Lives

LEMMA LivesSign ==
  ASSUME TypeOK, Lives, UNCHANGED <<now, revoked>>, NEW r \in Requests, Sign(r)
  PROVE  Lives'
<1> DEFINE s == reqs[r].s
<1>1. /\ s \in Sids /\ session[s].iat = NoTime /\ Begun(s)
      /\ reqs[r].op \in {"sign", "signRenewed"} /\ Signs(reqs[r])
  BY RecordFields DEF TypeOK, Sign, At, Lives, LifeClaim, Signs
<1>2. /\ reqs'[r] = Idle
      /\ \A q \in Requests : reqs[q] \in Request /\ (q # r => reqs'[q] = reqs[q])
  BY DEF TypeOK, Goto, Done, Sign
<1>3. /\ session'[s].iat = now /\ session'[s].row = session[s].row
      /\ session'[s].parent = session[s].parent
      /\ \A t \in Sids : t # s => session'[t] = session[t]
  BY <1>1, Fields DEF Sign, TypeOK, Session
<1>4. \A t \in Sids : (session[t].iat <= now)'
  BY <1>3, Fields DEF Lives
<1>5. \A t \in Sids : (~Begun(t) => session[t] = NoSession /\ revoked[t] = 0)'
  BY <1>1, <1>3 DEF Lives, Begun
<1>6. OneSuccessor'
  BY <1>1, <1>3 DEF Lives, OneSuccessor
<1>7. \A q \in Requests : LifeClaim(reqs[q])'
  <2> TAKE q \in Requests
  <2>1. CASE q = r
    BY <1>2, <2>1 DEF LifeClaim, Signs, Renews, Idle
  <2>2. CASE q # r
    <3>1. PICK c \in Request : c = reqs[q] /\ LifeClaim(c) /\ reqs'[q] = c
      BY <1>2, <2>2 DEF Lives
    <3>2. Signs(c) => c.s # s
      BY <1>1, <2>2, <3>1 DEF Lives, Apart
    <3>3. LifeClaim(c)'
      <4>1. now # NoTime
        BY Fields DEF NoTime
      <4>2. \A t \in Sids : (Begun(t) => Begun(t)') /\ (t \in Held => (t \in Held)')
        BY <1>1, <1>3, <4>1 DEF Begun, Held
      <4>3. Signs(c) => session'[c.s].iat = NoTime
        BY <1>3, <3>1, <3>2, RecordFields DEF LifeClaim, Signs
      <4>4. Renews(c) => /\ session'[c.s].row = "deleted"
                         /\ \A t \in Sids : session'[t].parent # c.s
        BY <1>3, <3>1, RecordFields DEF LifeClaim, Renews
      <4> QED
        BY <3>1, <4>2, <4>3, <4>4, ClaimStays
    <3> QED
      BY <3>1, <3>3
  <2> QED
    BY <2>1, <2>2
<1>8. Apart'
  BY <1>2 DEF Lives, Apart, Signs, Renews, Idle
<1> QED
  BY <1>4, <1>5, <1>6, <1>7, <1>8 DEF Lives

\* A record that claims nothing of a session.
LEMMA LivesLight ==
  ASSUME TypeOK, Lives, Fades, UNCHANGED <<now, revoked>>, NEW r \in Requests,
         NEW rec \in Request, Goto(r, rec), rec.op \notin Weighty \ {"cut", "resetConsume"}
  PROVE  Lives'
<1>1. LifeClaim(rec)' /\ ~Signs(rec) /\ ~Renews(rec)
  BY DEF LifeClaim, Signs, Renews, Weighty
<1> QED
  BY <1>1, LivesFade

LEMMA HandlerLives ==
  ASSUME TypeOK, Lives, NEW r \in Requests, Handler(r)
  PROVE  Lives'
<1> DEFINE rec == reqs[r]
<1>0. /\ rec \in Request /\ LifeClaim(rec)
      /\ UNCHANGED session => Fades
      /\ \A S : session' = Without(S) => Fades
  BY WithoutFades DEF TypeOK, Fades, Lives
<1>1. CASE Aside(r)
  BY <1>0, <1>1, AsideIsPlain, LivesLight
<1>2. CASE SessionCapRead(r)
  <2>1. PICK new \in Request : Goto(r, new) /\ new.op \notin Weighty \ {"evict", "sessionCreate"}
    <3>1. rec.pw \in 0..MaxPasswords
      BY <1>0, <1>2, RecordFields DEF SessionCapRead, At
    <3>2. /\ [op |-> "evict", pw |-> rec.pw, todo |-> Oldest(TooMany)] \in Request
          /\ [op |-> "sessionCreate", pw |-> rec.pw] \in Request
      BY <3>1, Records, Chosen
    <3> QED
      BY <1>2, <3>2 DEF SessionCapRead, Weighty
  <2> QED
    BY <1>0, <1>2, <2>1, LivesFade DEF SessionCapRead, redis, LifeClaim, Signs, Renews, Weighty
<1>3. CASE Evict(r)
  <2>1. CASE Min(rec.todo) \in Live
    <3>1. PICK s \in Live : s = Min(rec.todo)
      BY <2>1
    <3>2. PICK new \in Request : Goto(r, new) /\ new.op = "evictMark" /\ new.s = s
      <4>1. rec.pw \in 0..MaxPasswords /\ rec.todo \in SUBSET Sids /\ s \in Sids
        BY <1>0, <1>3, <3>1, RecordFields, Chosen DEF Evict, At
      <4>2. [op |-> "evictMark", pw |-> rec.pw, todo |-> rec.todo \ {s}, s |-> s] \in Request
        BY <4>1, Records
      <4> QED
        BY <1>3, <3>1, <4>2 DEF Evict
    <3>3. Begun(s)'
      BY <1>0, <1>3, <3>1, Chosen, FadesKeeps DEF Evict, Begun, Live
    <3>4. LifeClaim(new)' /\ ~Signs(new) /\ ~Renews(new)
      BY <3>2, <3>3 DEF LifeClaim, Signs, Renews
    <3> QED
      BY <1>0, <1>3, <3>1, <3>2, <3>4, LivesFade DEF Evict, redis
  <2>2. CASE Min(rec.todo) \notin Live
    BY <1>0, <1>3, <2>2, Records, LivesLight DEF Evict, Done, Idle, Weighty, redis
  <2> QED
    BY <2>1, <2>2
<1>4. CASE EvictMark(r)
  <2>1. PICK new \in Request : Goto(r, new) /\ new.op \in {"evict", "sessionCreate"}
    <3>1. rec.pw \in 0..MaxPasswords /\ rec.todo \in SUBSET Sids
      BY <1>0, <1>4, RecordFields DEF EvictMark, At
    <3> QED
      BY <1>4, <3>1, Records DEF EvictMark
  <2>2. Begun(rec.s) /\ rec.s \in Sids
    BY <1>0, <1>4, RecordFields DEF EvictMark, At, LifeClaim
  <2>3. \A s \in Sids : revoked'[s] = revoked[s] \/ Begun(s)
    BY <1>4, <2>2 DEF EvictMark, MarkRevoked, TypeOK
  <2> QED
    BY <1>0, <1>4, <2>1, <2>3, LivesFade DEF EvictMark, LifeClaim, Signs, Renews
<1>5. CASE SessionCreate(r)
  <2>1. Min(Unused) \in Unused /\ rec.pw \in 0..MaxPasswords
    BY <1>0, <1>5, Chosen, RecordFields DEF SessionCreate, At
  <2> QED
    BY <1>5, <2>1, LivesNew DEF SessionCreate, GoWith, redis
<1>6. CASE Sign(r)
  BY <1>6, LivesSign DEF Sign, redis
<1>7. CASE ReuseList(r)
  <2>1. PICK todo \in SUBSET Sids :
          /\ Goto(r, [op |-> "reuseDelete", todo |-> todo])
          /\ \A s \in todo : Begun(s)
    BY <1>7, Chosen DEF ReuseList, Live, Begun
  <2>2. LifeClaim([op |-> "reuseDelete", todo |-> todo])'
    BY <1>7, <2>1 DEF ReuseList, LifeClaim, Signs, Renews, Begun
  <2> QED
    BY <1>0, <1>7, <2>1, <2>2, Records, LivesFade DEF ReuseList, Signs, Renews, redis
<1>8. CASE ReuseDelete(r)
  <2> DEFINE new == [op |-> "reuseMark", todo |-> rec.todo]
  <2>1. /\ new \in Request /\ Goto(r, new) /\ Fades
        /\ rec.todo \subseteq Sids /\ \A s \in rec.todo : Begun(s)
    BY <1>0, <1>8, Records, RecordFields DEF ReuseDelete, At, LifeClaim
  <2>2. PICK todo : todo = rec.todo
    OBVIOUS
  <2>3. LifeClaim([op |-> "reuseMark", todo |-> todo])'
    BY <2>1, <2>2, FadesKeeps DEF LifeClaim, Signs, Renews
  <2> QED
    BY <1>8, <2>1, <2>2, <2>3, LivesFade DEF ReuseDelete, Signs, Renews, redis
<1>9. CASE ReuseMark(r)
  <2>1. rec.todo \in SUBSET Sids /\ \A s \in rec.todo : Begun(s)
    BY <1>0, <1>9, RecordFields DEF ReuseMark, At, LifeClaim
  <2>2. CASE rec.todo = {}
    BY <1>0, <1>9, <2>2, Records, LivesLight DEF ReuseMark, Weighty
  <2>3. CASE rec.todo # {}
    <3>1. Min(rec.todo) \in rec.todo
      BY <2>1, <2>3, Chosen
    <3>2. PICK todo \in SUBSET Sids : /\ Goto(r, [op |-> "reuseMark", todo |-> todo])
                                      /\ todo \subseteq rec.todo
      BY <1>9, <2>1, <2>3 DEF ReuseMark
    <3>3. \A s \in Sids : revoked'[s] = revoked[s] \/ Begun(s)
      BY <1>9, <2>1, <2>3, <3>1 DEF ReuseMark, MarkRevoked, TypeOK
    <3>4. LifeClaim([op |-> "reuseMark", todo |-> todo])'
      BY <1>9, <2>1, <3>2 DEF ReuseMark, LifeClaim, Signs, Renews, Begun
    <3> QED
      BY <1>0, <1>9, <3>2, <3>3, <3>4, Records, LivesFade DEF ReuseMark, Signs, Renews
  <2> QED
    BY <2>2, <2>3
<1>10. CASE Cut(r) \/ RefreshDrop(r) \/ Crash(r) \/ LogoutBlacklist(r)
  <2>1. Goto(r, Idle) /\ UNCHANGED <<now, revoked>> /\ Fades
    BY <1>0, <1>10 DEF Cut, RefreshDrop, Crash, LogoutBlacklist, Done, redis
  <2> QED
    BY <2>1, Records, LivesLight DEF Idle, Weighty
<1>11. CASE Rotate(r)
  <2>1. Fades /\ UNCHANGED <<now, revoked>> /\ rec.s \in Sids
    BY <1>0, <1>11, RecordFields DEF Rotate, redis, At
  <2>2. CASE rec.s \in Live
    <3>1. PICK s \in Sids : s = rec.s /\ Goto(r, [op |-> "retire", s |-> s])
      BY <1>11, <2>1, <2>2 DEF Rotate, GoWith
    <3>2. session'[s].row = "deleted" /\ \A t \in Sids : session'[t].parent # s
      <4>1. \A t \in Sids : session[t].parent # s
        BY <2>2, <3>1 DEF Live, Lives, OneSuccessor
      <4> QED
        BY <1>11, <2>1, <2>2, <3>1, <4>1, FadesKeeps, WithoutFades DEF Rotate
    <3>3. LifeClaim([op |-> "retire", s |-> s])'
      BY <3>2 DEF LifeClaim, Signs
    <3> QED
      BY <2>1, <2>2, <3>1, <3>3, Records, LivesFade DEF Signs
  <2>3. CASE rec.s \notin Live
    BY <1>11, <2>1, <2>3, Records, LivesLight DEF Rotate, Done, Idle, Weighty
  <2> QED
    BY <2>2, <2>3
<1>12. CASE Retire(r)
  <2>1. PICK s \in Sids : s = rec.s /\ Goto(r, [op |-> "renew", s |-> s])
    BY <1>0, <1>12, RecordFields DEF Retire, GoWith, At
  <2>2. LifeClaim([op |-> "renew", s |-> s])'
    BY <1>0, <1>12, <2>1 DEF Retire, At, LifeClaim, Signs, Renews
  <2> QED
    BY <1>0, <1>12, <2>1, <2>2, Records, LivesFade DEF Retire, Signs, Renews, At
<1>13. CASE Renew(r)
  <2>1. /\ Min(Unused) \in Unused /\ rec.s \in Sids
        /\ session[rec.s].pw \in 0..MaxPasswords
    BY <1>0, <1>13, Chosen, RecordFields, Fields DEF Renew, At
  <2> QED
    BY <1>13, <2>1, LivesNew DEF Renew, GoWith, redis, At
<1>14. CASE Logout(r) \/ Deactivate(r)
  <2>1. PICK s \in Held : \E step \in {"logoutBlacklist", "deactivateWrite"} :
          Goto(r, [op |-> step, s |-> s])
    BY <1>14 DEF Logout, Deactivate, GoWith
  <2>2. PICK step \in {"logoutBlacklist", "deactivateWrite"} :
          Goto(r, [op |-> step, s |-> s])
    BY <2>1
  <2>3. UNCHANGED <<now, revoked>> /\ s \in Sids /\ Fades
    BY <1>0, <1>14, Chosen DEF Logout, Deactivate, redis
  <2>4. LifeClaim([op |-> step, s |-> s])'
    BY <2>1, <2>3, FadesKeeps DEF LifeClaim, Signs, Renews
  <2> QED
    BY <2>2, <2>3, <2>4, Records, LivesFade DEF Signs, Renews
<1>15. CASE RevokeDelete(r)
  <2>1. Fades /\ UNCHANGED <<now, revoked>> /\ rec.s \in Sids
    BY <1>0, <1>15, RecordFields DEF RevokeDelete, redis, At
  <2>2. CASE rec.s \in Live
    <3>1. PICK s \in Sids : s = rec.s /\ Goto(r, [op |-> "revokeMark", s |-> s])
      BY <1>15, <2>1, <2>2 DEF RevokeDelete, GoWith
    <3>2. Begun(s)'
      BY <2>1, <2>2, <3>1, FadesKeeps DEF Live, Begun
    <3>3. LifeClaim([op |-> "revokeMark", s |-> s])'
      BY <3>2 DEF LifeClaim, Signs, Renews
    <3> QED
      BY <2>1, <3>1, <3>3, Records, LivesFade DEF Signs, Renews
  <2>3. CASE rec.s \notin Live
    BY <1>15, <2>1, <2>3, Records, LivesLight DEF RevokeDelete, Done, Idle, Weighty
  <2> QED
    BY <2>2, <2>3
<1>16. CASE RevokeMark(r)
  <2>1. Begun(rec.s) /\ rec.s \in Sids
    BY <1>0, <1>16, RecordFields DEF RevokeMark, At, LifeClaim
  <2>2. \A s \in Sids : revoked'[s] = revoked[s] \/ Begun(s)
    BY <1>16, <2>1 DEF RevokeMark, MarkRevoked, TypeOK
  <2>3. Goto(r, Idle) /\ Fades /\ now' = now
    BY <1>0, <1>16 DEF RevokeMark, Done
  <2>4. LifeClaim(Idle)' /\ ~Signs(Idle) /\ ~Renews(Idle)
    BY DEF LifeClaim, Signs, Renews, Idle
  <2> QED
    BY <2>2, <2>3, <2>4, Records, LivesFade
<1>17. CASE DeactivateWrite(r)
  <2>1. Fades /\ UNCHANGED <<now, revoked>>
    BY <1>0, <1>17 DEF DeactivateWrite, redis
  <2>2. PICK s \in Held : s = rec.s /\ Goto(r, [op |-> "deactivateBlacklist", s |-> s])
    BY <1>0, <1>17 DEF DeactivateWrite, GoWith, At, LifeClaim
  <2>3. LifeClaim([op |-> "deactivateBlacklist", s |-> s])'
    BY <2>1, <2>2, Chosen, FadesKeeps DEF LifeClaim, Signs, Renews
  <2> QED
    BY <2>1, <2>2, <2>3, Chosen, Records, LivesFade DEF Signs, Renews
<1>18. CASE DeactivateBlacklist(r) \/ ResetCommit(r) \/ ResetConsume(r)
  <2>1. UNCHANGED <<now, revoked>> /\ Fades
    BY <1>0, <1>18 DEF DeactivateBlacklist, ResetCommit, ResetConsume, redis
  <2>2. PICK step \in {"cut", "resetConsume"} : Goto(r, [op |-> step])
    BY <1>18 DEF DeactivateBlacklist, ResetCommit, ResetConsume
  <2> QED
    BY <2>1, <2>2, Records, LivesLight DEF Weighty
<1> QED
  BY <1>1, <1>2, <1>3, <1>4, <1>5, <1>6, <1>7, <1>8, <1>9, <1>10, <1>11, <1>12, <1>13, <1>14,
     <1>15, <1>16, <1>17, <1>18 DEF Handler, Aside

\* Steps of no handler: time, keys and codes that end.
LEMMA OtherSteps ==
  ASSUME TypeOK, [Next]_vars
  PROVE  \/ \E r \in Requests : Handler(r)
         \/ /\ UNCHANGED <<load, user, session, retired, revoked, blacklist, cutoff, reqs, crashes>>
            /\ now <= now' /\ now' \in Time
            /\ now' = now \/ (SignsInTime(now + 1) /\ now' = now + 1)
            /\ past' = past \/ past' = [past EXCEPT !.tries = 0]
<1>1. now' \in Time
  BY NextType DEF TypeOK
<1>2. CASE Tick
  BY <1>1, <1>2, Fields DEF Tick, redis
<1>3. now <= now
  BY Fields
<1>4. CASE CodeExpire \/ ResetKeyExpire
  BY <1>1, <1>3, <1>4 DEF CodeExpire, ResetKeyExpire, redis
<1>5. CASE CountersExpire
  BY <1>1, <1>3, <1>5 DEF CountersExpire, redis
<1>6. CASE UNCHANGED vars
  BY <1>1, <1>3, <1>6 DEF vars, redis
<1> QED
  BY <1>2, <1>4, <1>5, <1>6 DEF Next

LEMMA NextLives ==
  ASSUME TypeOK, Lives, [Next]_vars
  PROVE  Lives'
<1>1. CASE \E r \in Requests : Handler(r)
  BY <1>1, HandlerLives
<1>2. CASE UNCHANGED <<session, revoked, reqs>> /\ now <= now' /\ now' \in Time
  <2>1. \A s \in Sids : (session[s].iat <= now)'
    BY <1>2, Fields DEF Lives, NoTime, Time
  <2>2. \A s \in Sids : (~Begun(s) => session[s] = NoSession /\ revoked[s] = 0)'
    BY <1>2 DEF Lives, Begun
  <2>3. OneSuccessor' /\ Apart'
    BY <1>2 DEF Lives, OneSuccessor, Apart
  <2>4. \A r \in Requests : LifeClaim(reqs[r])'
    BY <1>2 DEF Lives, LifeClaim, Begun, Held
  <2> QED
    BY <2>1, <2>2, <2>3, <2>4 DEF Lives
<1> QED
  BY <1>1, <1>2, OtherSteps

LEMMA InitLives ==
  ASSUME Init
  PROVE  Lives
  BY AuthAssumption DEF Init, Lives, Begun, OneSuccessor, LifeClaim, Apart, Signs, Renews, Idle,
     NoSession, NoTime, Sids

-----------------------------------------------------------------------------
\* Markers.

\* Whatever turns a token down goes on turning it down.
Hardens ==
  /\ now <= now' /\ cutoff.at <= cutoff'.at
  /\ \A s \in Held : /\ session'[s].iat = session[s].iat /\ session'[s].bound = session[s].bound
                     /\ blacklist[s] # 0 => blacklist'[s] # 0
                     /\ revoked[s] # 0 => revoked'[s] # 0

\* Sets of the keys in Redis: each new one ends no earlier than the tokens it is about.
MarksLast ==
  /\ \A s \in Sids : revoked'[s] \in {revoked[s], now + MarkerLife}
  /\ \A s \in Sids : \/ blacklist'[s] = blacklist[s]
                     \/ s \in Held /\ Expiry(s) <= blacklist'[s] /\ blacklist'[s] # 0
  /\ \/ cutoff' = cutoff
     \/ CutOff

LEMMA MarkersStep ==
  ASSUME TypeOK, TypeOK', Lives, Markers, Fades, now' = now, MarksLast,
         NEW r \in Requests, NEW rec \in Request, Goto(r, rec), ~Signs(rec)
  PROVE  Markers' /\ Hardens
<1>1. /\ reqs'[r] = rec
      /\ \A q \in Requests : reqs[q] \in Request /\ (q # r => reqs'[q] = reqs[q])
  BY DEF TypeOK, Goto
<1>2. \A s \in Sids : /\ (s \in Held)' <=> s \in Held
                      /\ session'[s].iat = session[s].iat /\ session'[s].bound = session[s].bound
                      /\ Expiry(s)' = Expiry(s)
                      /\ s \in Held => Expiry(s) \in Nat /\ Expiry(s) <= now + MarkerLife
  <2> TAKE s \in Sids
  <2>1. s \in Held => Expiry(s) \in Nat /\ Expiry(s) <= now + MarkerLife
    BY Fields, AuthAssumption DEF Held, Expiry, Lives, Time
  <2> QED
    BY <2>1, FadesKeeps DEF Expiry
<1>3. \A s \in Sids : (blacklist[s] # 0 => s \in Held /\ Expiry(s) <= blacklist[s])'
  BY <1>2 DEF Markers, MarksLast
<1>4. \A s \in Sids : (s \in Held /\ revoked[s] # 0 => Expiry(s) <= revoked[s])'
  BY <1>2 DEF Markers, MarksLast
<1>5. SignsInTime(now)'
  <2>1. ASSUME NEW q \in Requests, reqs'[q].op \in {"sign", "signRenewed"},
               revoked'[reqs'[q].s] # 0
        PROVE  now + TokenLife <= revoked'[reqs'[q].s]
    <3>1. reqs'[q] = reqs[q] /\ reqs[q].s \in Sids
      BY <1>1, <2>1, RecordFields DEF Signs
    <3>2. now + TokenLife <= now + MarkerLife
      BY Fields, AuthAssumption
    <3> QED
      BY <2>1, <3>1, <3>2 DEF Markers, MarksLast, SignsInTime
  <2> QED
    BY <2>1 DEF SignsInTime
<1>6. /\ cutoff.at <= cutoff'.at /\ cutoff'.at <= now
      /\ cutoff'.at = 0 \/ cutoff'.until = cutoff'.at + MarkerLife
  BY Fields DEF Markers, MarksLast, CutOff
<1>7. now + MarkerLife # 0
  BY Fields, AuthAssumption
<1> QED
  BY <1>2, <1>3, <1>4, <1>5, <1>6, <1>7, Fields DEF Markers, MarksLast, Hardens, Held

\* The same where a session is opened, and where one is signed.
LEMMA MarkersNew ==
  ASSUME TypeOK, TypeOK', Lives, Markers, UNCHANGED <<now, revoked, blacklist, cutoff>>,
         NEW u \in Unused, NEW pw, NEW p, NewSession(u, pw, p),
         NEW r \in Requests, NEW step \in {"sign", "signRenewed"},
         Goto(r, [op |-> step, s |-> u])
  PROVE  Markers' /\ Hardens
<1>1. /\ reqs'[r] = [op |-> step, s |-> u]
      /\ \A q \in Requests : reqs[q] \in Request /\ (q # r => reqs'[q] = reqs[q])
  BY DEF TypeOK, Goto
<1>2. /\ u \in Sids /\ session'[u].iat = NoTime /\ u \notin Held /\ revoked[u] = 0
      /\ \A s \in Sids : s # u => session'[s] = session[s]
  BY NewSessionIs DEF Lives, Begun, Unused, Held, NoSession
<1>3. blacklist[u] = 0
  BY <1>2 DEF Markers
<1>4. \A s \in Sids : (blacklist[s] # 0 => s \in Held /\ Expiry(s) <= blacklist[s])'
  BY <1>2, <1>3 DEF Markers, Held, Expiry
<1>5. \A s \in Sids : (s \in Held /\ revoked[s] # 0 => Expiry(s) <= revoked[s])'
  BY <1>2 DEF Markers, Held, Expiry
<1>6. SignsInTime(now)'
  BY <1>1, <1>2 DEF Markers, SignsInTime
<1> QED
  BY <1>2, <1>4, <1>5, <1>6, Fields DEF Markers, Hardens, Held

LEMMA MarkersSign ==
  ASSUME TypeOK, TypeOK', Lives, Markers, UNCHANGED <<now, revoked, blacklist, cutoff>>,
         NEW r \in Requests, Sign(r)
  PROVE  Markers' /\ Hardens
<1> DEFINE s == reqs[r].s
<1>1. /\ s \in Sids /\ s \notin Held /\ Signs(reqs[r])
  BY RecordFields DEF TypeOK, Sign, At, Lives, LifeClaim, Signs, Held
<1>2. /\ reqs'[r] = Idle
      /\ \A q \in Requests : reqs[q] \in Request /\ (q # r => reqs'[q] = reqs[q])
  BY DEF TypeOK, Goto, Done, Sign
<1>3. /\ session'[s].iat = now
      /\ \A t \in Sids : t # s => session'[t] = session[t]
  BY <1>1, Fields DEF Sign, TypeOK, Session
<1>4. blacklist[s] = 0 /\ (revoked[s] # 0 => now + TokenLife <= revoked[s])
  BY <1>1 DEF Markers, SignsInTime, Signs
<1>5. \A t \in Sids : (blacklist[t] # 0 => t \in Held /\ Expiry(t) <= blacklist[t])'
  BY <1>3, <1>4 DEF Markers, Held, Expiry
<1>6. \A t \in Sids : (t \in Held /\ revoked[t] # 0 => Expiry(t) <= revoked[t])'
  BY <1>3, <1>4 DEF Markers, Held, Expiry
<1>7. SignsInTime(now)'
  BY <1>2 DEF Markers, SignsInTime, Idle
<1> QED
  BY <1>1, <1>3, <1>5, <1>6, <1>7, Fields DEF Markers, Hardens, Held

LEMMA HandlerMarkers ==
  ASSUME TypeOK, Lives, Markers, NEW r \in Requests, Handler(r)
  PROVE  Markers' /\ Hardens
<1> DEFINE rec == reqs[r]
<1>0. /\ TypeOK' /\ rec \in Request /\ LifeClaim(rec)
      /\ UNCHANGED session => Fades
      /\ \A S : session' = Without(S) => Fades
  BY HandlerType, WithoutFades DEF TypeOK, Fades, Lives
<1>1. PICK new \in Request : Goto(r, new) /\ reqs' = [reqs EXCEPT ![r] = new] /\ reqs'[r] = new
  BY HandlerType DEF Goto, TypeOK
<1>2. CASE Aside(r)
  <2>1. UNCHANGED <<now, session, revoked, blacklist, cutoff>>
    BY <1>2, AsideIsPlain
  <2>2. ~Signs(new)
    <3>1. PICK c \in Request : Goto(r, c) /\ c.op \notin Weighty
      BY <1>2, AsideIsPlain
    <3> QED
      BY <1>1, <3>1 DEF Goto, TypeOK, Weighty, Signs
  <2> QED
    BY <1>0, <1>1, <2>1, <2>2, MarkersStep DEF MarksLast
<1>3. CASE \/ SessionCapRead(r) \/ Evict(r) \/ ReuseList(r) \/ ReuseDelete(r)
           \/ RefreshDrop(r) \/ Rotate(r) \/ Retire(r) \/ Logout(r) \/ RevokeDelete(r)
           \/ Deactivate(r) \/ DeactivateWrite(r) \/ ResetCommit(r) \/ ResetConsume(r)
           \/ Crash(r)
  <2>1. UNCHANGED <<now, revoked, blacklist, cutoff>> /\ Fades
    BY <1>0, <1>3 DEF SessionCapRead, Evict, ReuseList, ReuseDelete, RefreshDrop, Rotate,
       Retire, Logout, RevokeDelete, Deactivate, DeactivateWrite, ResetCommit, ResetConsume,
       Crash, redis
  <2>2. ~Signs(new)
    <3>1. CASE SessionCapRead(r) \/ Evict(r) \/ ReuseList(r) \/ ReuseDelete(r) \/ RefreshDrop(r)
      BY <1>1, <3>1 DEF SessionCapRead, Evict, ReuseList, ReuseDelete, RefreshDrop,
         Goto, Done, Idle, TypeOK, Signs
    <3>2. CASE Rotate(r) \/ Retire(r) \/ RevokeDelete(r) \/ DeactivateWrite(r)
      BY <1>1, <3>2 DEF Rotate, Retire, RevokeDelete, DeactivateWrite,
         Goto, GoWith, Done, Idle, TypeOK, Signs
    <3>3. CASE Logout(r) \/ Deactivate(r)
      <4>1. PICK s \in Held : \/ Goto(r, [op |-> "logoutBlacklist", s |-> s])
                             \/ Goto(r, [op |-> "deactivateWrite", s |-> s])
        BY <3>3 DEF Logout, Deactivate, GoWith
      <4> QED
        BY <1>1, <4>1 DEF Goto, TypeOK, Signs
    <3>4. CASE ResetCommit(r) \/ ResetConsume(r) \/ Crash(r)
      BY <1>1, <3>4 DEF ResetCommit, ResetConsume, Crash, Goto, Done, Idle, TypeOK, Signs
    <3> QED
      BY <1>3, <3>1, <3>2, <3>3, <3>4
  <2> QED
    BY <1>0, <1>1, <2>1, <2>2, MarkersStep DEF MarksLast
<1>4. CASE EvictMark(r) \/ RevokeMark(r) \/ ReuseMark(r)
  <2>1. UNCHANGED <<now, session, blacklist, cutoff>>
    BY <1>4 DEF EvictMark, RevokeMark, ReuseMark
  <2>2. \A s \in Sids : revoked'[s] \in {revoked[s], now + MarkerLife}
    BY <1>4 DEF EvictMark, RevokeMark, ReuseMark, MarkRevoked, TypeOK
  <2>3. ~Signs(new)
    BY <1>1, <1>4 DEF EvictMark, RevokeMark, ReuseMark, Goto, Done, Idle, TypeOK, Signs
  <2> QED
    BY <1>0, <1>1, <2>1, <2>2, <2>3, MarkersStep DEF MarksLast
<1>5. CASE LogoutBlacklist(r) \/ DeactivateBlacklist(r)
  <2>1. UNCHANGED <<now, session, revoked, cutoff>> /\ BlacklistToken(rec.s)
    BY <1>5 DEF LogoutBlacklist, DeactivateBlacklist
  <2>2. rec.s \in Sids /\ rec.s \in Held
    BY <1>0, <1>5, RecordFields DEF LogoutBlacklist, DeactivateBlacklist, At, LifeClaim
  <2>3. Expiry(rec.s) \in Nat
    BY <2>2, Fields, AuthAssumption DEF Held, Expiry, Time
  <2>4. \A s \in Sids : \/ blacklist'[s] = blacklist[s]
                        \/ s \in Held /\ Expiry(s) <= blacklist'[s] /\ blacklist'[s] # 0
    BY <2>1, <2>2, <2>3, Fields DEF BlacklistToken, Max2, TypeOK
  <2>5. ~Signs(new)
    BY <1>1, <1>5 DEF LogoutBlacklist, DeactivateBlacklist, Goto, Done, Idle, TypeOK, Signs
  <2> QED
    BY <1>0, <1>1, <2>1, <2>4, <2>5, MarkersStep DEF MarksLast
<1>6. CASE Cut(r)
  <2>1. UNCHANGED <<now, session, revoked, blacklist>> /\ CutOff
    BY <1>6 DEF Cut
  <2>2. ~Signs(new)
    BY <1>1, <1>6 DEF Cut, Goto, Done, Idle, TypeOK, Signs
  <2> QED
    BY <1>0, <1>1, <2>1, <2>2, MarkersStep DEF MarksLast
<1>7. CASE SessionCreate(r)
  <2>1. Min(Unused) \in Unused
    BY <1>7, Chosen DEF SessionCreate
  <2> QED
    BY <1>0, <1>7, <2>1, MarkersNew DEF SessionCreate, GoWith, redis
<1>8. CASE Renew(r)
  <2>1. Min(Unused) \in Unused
    BY <1>8, Chosen DEF Renew
  <2> QED
    BY <1>0, <1>8, <2>1, MarkersNew DEF Renew, GoWith, redis
<1>9. CASE Sign(r)
  BY <1>0, <1>9, MarkersSign DEF Sign, redis
<1> QED
  BY <1>2, <1>3, <1>4, <1>5, <1>6, <1>7, <1>8, <1>9 DEF Handler, Aside

LEMMA NextMarkers ==
  ASSUME TypeOK, Lives, Markers, [Next]_vars
  PROVE  Markers' /\ Hardens
<1>1. CASE \E r \in Requests : Handler(r)
  BY <1>1, HandlerMarkers
<1>2. CASE /\ UNCHANGED <<session, revoked, blacklist, cutoff, reqs>>
           /\ now <= now' /\ now' \in Time
           /\ now' = now \/ (SignsInTime(now + 1) /\ now' = now + 1)
  <2>1. SignsInTime(now)'
    BY <1>2 DEF Markers, SignsInTime
  <2>2. (cutoff.at <= now)'
    BY <1>2, Fields DEF Markers, Time
  <2> QED
    BY <1>2, <2>1, <2>2, Fields DEF Markers, Hardens, Held, Expiry
<1> QED
  BY <1>1, <1>2, OtherSteps

LEMMA InitMarkers ==
  ASSUME Init
  PROVE  Markers
  BY AuthAssumption DEF Init, Markers, Held, SignsInTime, Idle, NoSession, NoTime

\* What authenticate asks of the clock and of the lifetimes of markers comes down to whether
\* there ever was a marker.
NoMarker ==
  \A s \in Held : Accepted(s) <=> /\ Unexpired(s)
                                  /\ blacklist[s] = 0
                                  /\ session[s].bound => revoked[s] = 0
                                  /\ cutoff.at <= session[s].iat

LEMMA Acceptance ==
  ASSUME TypeOK, Markers
  PROVE  NoMarker
<1> SUFFICES ASSUME NEW s \in Held
             PROVE  Accepted(s) <=> /\ Unexpired(s)
                                    /\ blacklist[s] = 0
                                    /\ session[s].bound => revoked[s] = 0
                                    /\ cutoff.at <= session[s].iat
  BY DEF NoMarker
<1>1. /\ s \in Sids /\ session[s].iat \in Nat /\ now \in Nat /\ Expiry(s) \in Nat
      /\ cutoff.at \in Nat /\ cutoff.until \in Nat /\ TokenLife \in Nat /\ MarkerLife \in Nat
      /\ TokenLife <= MarkerLife /\ blacklist[s] \in Nat /\ revoked[s] \in Nat
      /\ Expiry(s) = session[s].iat + TokenLife
  BY Fields, AuthAssumption DEF Held, Expiry, Time
<1>2. Unexpired(s) => /\ now < blacklist[s] <=> blacklist[s] # 0
                      /\ now < revoked[s] <=> revoked[s] # 0
  BY <1>1 DEF Markers, Unexpired
<1>3. Unexpired(s) /\ session[s].iat < cutoff.at => now < cutoff.until
  BY <1>1 DEF Markers, Unexpired
<1> QED
  BY <1>1, <1>2, <1>3 DEF Accepted

Inv1 == TypeOK /\ OnDuty /\ Lives /\ Markers

LEMMA Invariant1 == Spec => []Inv1
<1>1. Init => Inv1
  <2>1. Init => OnDuty
    BY DEF Init, OnDuty
  <2> QED
    BY <2>1, InitType, InitLives, InitMarkers DEF Inv1
<1>2. Inv1 /\ [Next]_vars => Inv1'
  BY NextType, NextOnDuty, NextLives, NextMarkers DEF Inv1
<1> QED
  BY <1>1, <1>2, PTL DEF Spec

\* RejectedStaysRejected for every lifetime of tokens and markers with TokenLife <= MarkerLife:
\* a marker outlasts the tokens it stands against, and its key is only ever set later.
THEOREM RejectedForGood == Spec => RejectedStaysRejected
<1>1. Inv1 => NoMarker
  BY Acceptance DEF Inv1
<1>2. ASSUME Inv1, NoMarker, Inv1', NoMarker', [Next]_vars
      PROVE  \A s \in Held : ~Accepted(s) => ~(Accepted(s) \/ Recognised(s))'
  <2> SUFFICES ASSUME NEW s \in Held, ~Accepted(s)
               PROVE  ~Accepted(s)'
    BY DEF Recognised
  <2>1. Hardens
    BY <1>2, NextMarkers DEF Inv1
  <2>2. s \in Sids /\ session'[s].iat = session[s].iat /\ session'[s].bound = session[s].bound
    BY <2>1 DEF Held, Hardens
  <2>3. (s \in Held)' /\ session[s].iat \in Nat /\ session[s].bound \in BOOLEAN
    BY <1>2, <2>2, Fields DEF Held, Inv1, Time
  <2>4. ~Unexpired(s) => ~Unexpired(s)'
    BY <1>2, <2>1, <2>2, <2>3, AuthAssumption DEF Hardens, Unexpired, Expiry, Inv1, TypeOK, Time
  <2>5. cutoff.at > session[s].iat => cutoff'.at > session'[s].iat
    BY <1>2, <2>1, <2>2, <2>3 DEF Hardens, Inv1, TypeOK, Time
  <2> QED
    BY <1>2, <2>1, <2>2, <2>3, <2>4, <2>5 DEF NoMarker, Hardens, Inv1, TypeOK, Time
<1> QED
  BY <1>1, <1>2, Invariant1, PTL DEF Spec, RejectedStaysRejected

-----------------------------------------------------------------------------
\* Purges.

CutOps == {"reuseMark", "resetConsume", "deactivateBlacklist", "cut"}

LEMMA PurgesStep ==
  ASSUME TypeOK, TypeOK', Purges, NEW r \in Requests, NEW new \in Request, Goto(r, new),
         \A s \in Sids : session[s].row = "deleted" => session'[s].row = "deleted",
         past'.purged = past.purged /\ past'.over = past.over, now' = now,
         cutoff' = cutoff \/ CutOff, crashes <= crashes',
         reqs[r].op \in CutOps => new.op \in CutOps \/ crashes' # 0 \/ CutOff
  PROVE  Purges'
<1>1. reqs'[r] = new /\ \A q \in Requests : q # r => reqs'[q] = reqs[q]
  BY DEF TypeOK, Goto
<1>2. \A s \in past'.purged : session'[s].row = "deleted"
  BY DEF Purges, TypeOK
<1>3. past.over \in Nat /\ now \in Nat /\ cutoff.at \in Nat /\ crashes \in Nat /\ crashes' \in Nat
  BY AuthAssumption, Fields DEF TypeOK, Time
<1>4. CASE CutOff
  BY <1>2, <1>3, <1>4 DEF Purges, CutOff
<1>5. CASE cutoff' = cutoff /\ ~CutOff
  <2>1. Cutting => Cutting' \/ crashes' # 0
    BY <1>1, <1>5 DEF Cutting, CutOps
  <2> QED
    BY <1>2, <1>3, <1>5, <2>1 DEF Purges
<1> QED
  BY <1>4, <1>5

\* The three steps that end all sessions at once.
LEMMA PurgesAll ==
  ASSUME TypeOK, TypeOK', Purges, NEW r \in Requests,
         ReuseDelete(r) \/ DeactivateWrite(r) \/ ResetCommit(r)
  PROVE  Purges'
<1>1. /\ session' = Without(Sids) /\ now' = now
      /\ past'.purged = past.purged \cup (Sids \ Unused) /\ past'.over = now
  BY DEF TypeOK, ReuseDelete, DeactivateWrite, ResetCommit
<1>2. reqs'[r].op \in CutOps
  BY DEF TypeOK, ReuseDelete, DeactivateWrite, ResetCommit, Goto, GoWith, CutOps
<1>3. \A s \in past'.purged : session'[s].row = "deleted"
  <2>1. \A s \in Sids \ Unused : session[s].row \in {"live", "deleted"}
    BY Fields DEF Unused
  <2> QED
    BY <1>1, <2>1, WithoutFades, FadesKeeps DEF Purges, TypeOK, Live
<1> QED
  BY <1>1, <1>2, <1>3, Fields DEF Purges, Cutting, CutOps

LEMMA HandlerPurges ==
  ASSUME TypeOK, Lives, Purges, NEW r \in Requests, Handler(r)
  PROVE  Purges'
<1>0. TypeOK' /\ reqs[r] \in Request /\ crashes \in Nat
  BY HandlerType, AuthAssumption DEF TypeOK
<1>1. PICK new \in Request : Goto(r, new) /\ reqs' = [reqs EXCEPT ![r] = new] /\ reqs'[r] = new
  BY HandlerType DEF Goto, TypeOK
<1>2. CASE Aside(r)
  <2>1. /\ UNCHANGED <<now, session, cutoff, crashes>> /\ reqs[r].op \notin CutOps
        /\ past'.purged = past.purged /\ past'.over = past.over
    BY <1>2, AsideIsPlain DEF TypeOK, Weighty, CutOps
  <2> QED
    BY <1>0, <1>1, <2>1, PurgesStep
<1>3. CASE ReuseDelete(r) \/ DeactivateWrite(r) \/ ResetCommit(r)
  BY <1>0, <1>3, PurgesAll
<1>4. CASE SessionCreate(r) \/ Renew(r)
  <2>1. PICK u \in Unused, pw \in Nat, p \in Nat : NewSession(u, pw, p)
    <3>1. Min(Unused) \in Unused
      BY <1>4, Chosen DEF SessionCreate, Renew
    <3>2. CASE SessionCreate(r)
      BY <1>0, <3>1, <3>2, RecordFields DEF SessionCreate, At
    <3>3. CASE Renew(r)
      BY <1>0, <3>1, <3>3, RecordFields, Fields DEF Renew, At, Sids
    <3> QED
      BY <1>4, <3>2, <3>3
  <2>2. \A s \in Sids : session[s].row = "deleted" => session'[s].row = "deleted"
    BY <2>1, NewSessionIs DEF Unused
  <2>3. UNCHANGED <<now, cutoff, crashes, past>> /\ reqs[r].op \notin CutOps
    BY <1>4 DEF SessionCreate, Renew, redis, At, CutOps
  <2> QED
    BY <1>0, <1>1, <2>2, <2>3, PurgesStep
<1>5. CASE Sign(r)
  <2>1. \A s \in Sids : session'[s].row = session[s].row
    BY <1>0, <1>5, RecordFields, Fields DEF Sign, At, TypeOK, Session
  <2>2. UNCHANGED <<now, cutoff, crashes, past>> /\ reqs[r].op \notin CutOps
    BY <1>5 DEF Sign, redis, At, CutOps
  <2> QED
    BY <1>0, <1>1, <2>1, <2>2, PurgesStep
<1>6. CASE \/ SessionCapRead(r) \/ Evict(r) \/ EvictMark(r) \/ ReuseList(r) \/ RefreshDrop(r)
           \/ Rotate(r) \/ Retire(r) \/ Logout(r) \/ LogoutBlacklist(r) \/ RevokeDelete(r)
           \/ RevokeMark(r) \/ Deactivate(r)
  <2>1. /\ UNCHANGED <<now, cutoff, crashes, past>> /\ reqs[r].op \notin CutOps
        /\ UNCHANGED session \/ \E S : session' = Without(S)
    <3>1. CASE SessionCapRead(r) \/ EvictMark(r) \/ ReuseList(r) \/ Retire(r) \/ LogoutBlacklist(r)
      BY <3>1 DEF SessionCapRead, EvictMark, ReuseList, Retire, LogoutBlacklist, redis, At, CutOps
    <3>2. CASE RevokeMark(r) \/ Deactivate(r) \/ Evict(r)
      BY <3>2 DEF RevokeMark, Deactivate, Evict, redis, At, Starts, Idle, CutOps
    <3>3. CASE RefreshDrop(r) \/ Rotate(r) \/ RevokeDelete(r)
      BY <3>3 DEF RefreshDrop, Rotate, RevokeDelete, redis, At, CutOps
    <3>4. CASE Logout(r)
      <4>1. PICK s \in Held : session' = IF session[s].bound THEN Without({s}) ELSE session
        BY <3>4 DEF Logout
      <4> QED
        BY <3>4, <4>1 DEF Logout, redis, Starts, Idle, CutOps
    <3> QED
      BY <1>6, <3>1, <3>2, <3>3, <3>4
  <2>2. \A s \in Sids : session[s].row = "deleted" => session'[s].row = "deleted"
    BY <2>1, WithoutFades, FadesKeeps
  <2> QED
    BY <1>0, <1>1, <2>1, <2>2, PurgesStep
<1>7. CASE ReuseMark(r) \/ DeactivateBlacklist(r) \/ ResetConsume(r)
  <2>1. UNCHANGED <<now, session, cutoff, crashes, past>>
    BY <1>7 DEF ReuseMark, DeactivateBlacklist, ResetConsume, redis
  <2>2. new.op \in CutOps
    BY <1>1, <1>7 DEF ReuseMark, DeactivateBlacklist, ResetConsume, Goto, TypeOK, CutOps
  <2> QED
    BY <1>0, <1>1, <2>1, <2>2, PurgesStep
<1>8. CASE Cut(r)
  BY <1>0, <1>1, <1>8, PurgesStep DEF Cut
<1>9. CASE Crash(r)
  <2>1. /\ UNCHANGED <<now, session, cutoff, past>> /\ crashes <= crashes' /\ crashes' # 0
    BY <1>0, <1>9 DEF Crash, redis
  <2> QED
    BY <1>0, <1>1, <2>1, PurgesStep
<1> QED
  BY <1>2, <1>3, <1>4, <1>5, <1>6, <1>7, <1>8, <1>9 DEF Handler, Aside

LEMMA NextPurges ==
  ASSUME TypeOK, Lives, Purges, [Next]_vars
  PROVE  Purges'
<1>1. CASE \E r \in Requests : Handler(r)
  BY <1>1, HandlerPurges
<1>2. CASE /\ UNCHANGED <<session, cutoff, reqs, crashes>> /\ now <= now' /\ now' \in Time
           /\ past' = past \/ past' = [past EXCEPT !.tries = 0]
  <2>1. past'.purged = past.purged /\ past'.over = past.over /\ past.over \in Nat
    BY <1>2 DEF TypeOK, Time
  <2> QED
    BY <1>2, <2>1, Fields DEF Purges, Cutting, Time
<1> QED
  BY <1>1, <1>2, OtherSteps

-----------------------------------------------------------------------------
\* Passwords.  With one request at a time the other handlers have nothing to do.

LEMMA Alone ==
  ASSUME TypeOK, OnDuty, OneAtATime, NEW r \in Requests, r \in load.crew
  PROVE  \A q \in Requests : q # r => reqs[q] = Idle
<1>1. load.crew \subseteq Requests /\ IsFiniteSet(load.crew)
  BY AuthAssumption, FS_Subset DEF TypeOK
<1>2. PICK x : load.crew = {x}
  BY <1>1, FS_Singleton DEF OneAtATime
<1> QED
  BY <1>2 DEF OnDuty

LEMMA PasswordsStep ==
  ASSUME TypeOK, TypeOK', OnDuty, Passwords, NEW r \in Requests, r \in load.crew, load' = load,
         NEW new \in Request, Goto(r, new), past'.floor = past.floor, past.set <= past'.set,
         \/ user'.password \in {0, past'.set}
         \/ user'.password = user.password /\ past'.set = past.set,
         OneAtATime => /\ (\A s \in Live : Current(session[s].pw))'
                       /\ PasswordClaim(new)'
  PROVE  Passwords'
<1>1. reqs'[r] = new /\ \A q \in Requests : q # r => reqs'[q] = reqs[q]
  BY DEF TypeOK, Goto
<1>2. /\ past.floor \in Nat /\ past.set \in Nat /\ past'.set \in Nat
      /\ past.floor <= past'.set
  BY DEF Passwords, TypeOK
<1>3. (user.password # 0 => user.password = past.set)'
  BY DEF Passwords
<1>4. ASSUME OneAtATime
      PROVE  /\ (\A s \in Live : Current(session[s].pw))'
             /\ \A q \in Requests : PasswordClaim(reqs[q])'
  <2>1. (\A s \in Live : Current(session[s].pw))'
    BY <1>4
  <2>2. ASSUME NEW q \in Requests
        PROVE  PasswordClaim(reqs[q])'
    <3>1. CASE q = r
      BY <1>1, <1>4, <3>1
    <3>2. CASE q # r
      BY <1>1, <1>4, <3>2, Alone DEF PasswordClaim, Renews, Idle
    <3> QED
      BY <3>1, <3>2
  <2> QED
    BY <2>1, <2>2
<1> QED
  BY <1>2, <1>3, <1>4 DEF Passwords, OneAtATime

LEMMA CurrentFades ==
  ASSUME TypeOK, Fades, past'.floor = past.floor, \A s \in Live : Current(session[s].pw)
  PROVE  (\A s \in Live : Current(session[s].pw))'
  BY FadesKeeps DEF Live, Current

\* A step that leaves user and floor alone, for a handler that goes on with the password it had.
LEMMA PasswordsFade ==
  ASSUME TypeOK, TypeOK', OnDuty, Passwords, NEW r \in Requests, r \in load.crew,
         UNCHANGED <<load, user>>, Fades, past'.floor = past.floor, past'.set = past.set,
         NEW new \in Request, Goto(r, new),
         OneAtATime => PasswordClaim(new)
  PROVE  Passwords'
<1>1. OneAtATime => PasswordClaim(new)'
  BY FadesKeeps, RecordFields DEF PasswordClaim, Current, Renews
<1>2. past.set <= past'.set
  BY DEF TypeOK
<1> QED
  BY <1>1, <1>2, PasswordsStep, CurrentFades DEF Passwords

LEMMA HandlerPasswords ==
  ASSUME TypeOK, OnDuty, Lives, Passwords, NEW r \in Requests, Handler(r)
  PROVE  Passwords'
<1> DEFINE rec == reqs[r]
<1>0. /\ TypeOK' /\ rec \in Request /\ r \in load.crew /\ load' = load
      /\ OneAtATime => PasswordClaim(rec)
      /\ UNCHANGED session => Fades
      /\ \A S : session' = Without(S) => Fades
  BY HandlerType, HandlerFrame, WithoutFades DEF TypeOK, Fades, Passwords
<1>1. PICK new \in Request : Goto(r, new) /\ reqs' = [reqs EXCEPT ![r] = new] /\ reqs'[r] = new
  BY HandlerType DEF Goto, TypeOK
<1>2. CASE Aside(r)
  <2>1. /\ UNCHANGED session /\ past'.floor = past.floor
        /\ past.set <= past'.set
        /\ \/ user'.password \in {0, past'.set}
           \/ user'.password = user.password /\ past'.set = past.set
    <3>1. UNCHANGED session /\ past'.floor = past.floor
      BY <1>2, AsideIsPlain DEF TypeOK
    <3>2. past.set \in Nat
      BY Fields
    <3> QED
      BY <1>2, <3>1, <3>2, AsideIsPlain
  <2>2. new.op \notin Weighty /\ (new.op = "sessionCap" => new.pw \in {0, user'.password})
    <3>1. PICK c \in Request : /\ Goto(r, c) /\ c.op \notin Weighty
                               /\ c.op = "sessionCap" => c.pw \in {0, user'.password}
      BY <1>2, AsideIsPlain
    <3> QED
      BY <1>1, <3>1 DEF Goto, TypeOK
  <2>3. user'.password = 0 \/ past'.floor <= user'.password
    <3>1. /\ past.floor \in Nat /\ past.set \in Nat /\ past'.set \in Nat
          /\ past.floor <= past.set /\ (user.password # 0 => user.password = past.set)
      BY <1>0 DEF Passwords, TypeOK
    <3> QED
      BY <2>1, <3>1
  <2>4. PasswordClaim(new)'
    BY <2>2, <2>3 DEF PasswordClaim, Renews, Weighty, Current
  <2> QED
    BY <1>0, <1>1, <2>1, <2>4, PasswordsStep, CurrentFades DEF Passwords
<1>3. CASE SessionCapRead(r) \/ Evict(r) \/ EvictMark(r)
  <2>1. UNCHANGED <<user, past>> /\ Fades
    BY <1>0, <1>3 DEF SessionCapRead, Evict, EvictMark
  <2>2. rec.op \in {"sessionCap", "evict", "evictMark"}
    BY <1>3 DEF SessionCapRead, Evict, EvictMark, At
  <2>3. /\ new.op \in {"evict", "evictMark", "sessionCreate", "idle"}
        /\ new.op # "idle" => new.pw = rec.pw
    <3>1. CASE SessionCapRead(r)
      BY <1>1, <3>1 DEF SessionCapRead, Goto, TypeOK
    <3>2. CASE Evict(r)
      BY <1>1, <3>2 DEF Evict, Goto, Done, Idle, TypeOK
    <3>3. CASE EvictMark(r)
      BY <1>1, <3>3 DEF EvictMark, Goto, TypeOK
    <3> QED
      BY <1>3, <3>1, <3>2, <3>3
  <2>4. OneAtATime => PasswordClaim(new)
    BY <1>0, <2>2, <2>3 DEF PasswordClaim, Renews
  <2> QED
    BY <1>0, <1>1, <2>1, <2>4, PasswordsFade
<1>4. CASE Rotate(r) \/ Retire(r)
  <2>1. UNCHANGED <<user, past>> /\ Fades
    BY <1>0, <1>4 DEF Rotate, Retire
  <2>2. OneAtATime => PasswordClaim(new)
    <3>1. CASE Rotate(r)
      BY <1>1, <3>1 DEF Rotate, Goto, GoWith, Done, Idle, TypeOK, PasswordClaim, Renews, Passwords
    <3>2. CASE Retire(r)
      BY <1>0, <1>1, <3>2 DEF Retire, At, Goto, GoWith, TypeOK, PasswordClaim, Renews
    <3> QED
      BY <1>4, <3>1, <3>2
  <2> QED
    BY <1>0, <1>1, <2>1, <2>2, PasswordsFade
<1>5. CASE \/ ReuseList(r) \/ ReuseDelete(r) \/ ReuseMark(r) \/ Cut(r) \/ RefreshDrop(r)
           \/ LogoutBlacklist(r) \/ RevokeDelete(r) \/ RevokeMark(r) \/ DeactivateBlacklist(r)
           \/ ResetConsume(r) \/ Crash(r)
  <2>1. /\ UNCHANGED <<user>> /\ Fades
        /\ past'.floor = past.floor /\ past'.set = past.set
    BY <1>0, <1>5 DEF ReuseList, ReuseDelete, ReuseMark, Cut, RefreshDrop, LogoutBlacklist,
       RevokeDelete, RevokeMark, DeactivateBlacklist, ResetConsume, Crash, TypeOK
  <2>2. new.op \in {"idle", "reuseDelete", "reuseMark", "cut", "revokeMark"}
    BY <1>1, <1>5 DEF ReuseList, ReuseDelete, ReuseMark, Cut, RefreshDrop, LogoutBlacklist,
       RevokeDelete, RevokeMark, DeactivateBlacklist, ResetConsume, Crash, Done, GoWith, Goto,
       Idle, TypeOK
  <2>3. PasswordClaim(new)
    BY <2>2 DEF PasswordClaim, Renews
  <2> QED
    BY <1>0, <1>1, <2>1, <2>3, PasswordsFade
<1>6. CASE Logout(r) \/ Deactivate(r)
  <2>1. PICK s \in Held : \/ Goto(r, [op |-> "logoutBlacklist", s |-> s])
                          \/ Goto(r, [op |-> "deactivateWrite", s |-> s])
    BY <1>6 DEF Logout, Deactivate, GoWith
  <2>2. PasswordClaim(new)
    BY <1>1, <2>1 DEF Goto, TypeOK, PasswordClaim, Renews
  <2>3. UNCHANGED <<user, past>> /\ Fades
    BY <1>0, <1>6 DEF Logout, Deactivate
  <2> QED
    BY <1>0, <1>1, <2>2, <2>3, PasswordsFade
<1>7. CASE DeactivateWrite(r)
  <2>1. /\ user'.password = 0 /\ Fades
        /\ past'.floor = past.floor /\ past'.set = past.set
        /\ past.set <= past'.set
    BY <1>0, <1>7, Fields DEF DeactivateWrite, User, TypeOK
  <2>2. PasswordClaim(new)'
    BY <1>1, <1>7 DEF DeactivateWrite, Goto, GoWith, TypeOK, PasswordClaim, Renews
  <2> QED
    BY <1>0, <1>1, <2>1, <2>2, PasswordsStep, CurrentFades DEF Passwords
<1>8. CASE SessionCreate(r) \/ Renew(r)
  <2>1. PICK u \in Unused, pw \in Nat, p \in Nat :
          NewSession(u, pw, p) /\ (OneAtATime => Current(pw))
    <3>1. Min(Unused) \in Unused
      BY <1>8, Chosen DEF SessionCreate, Renew
    <3>2. CASE SessionCreate(r)
      BY <1>0, <3>1, <3>2, RecordFields DEF SessionCreate, At, PasswordClaim
    <3>3. CASE Renew(r)
      BY <1>0, <3>1, <3>3, RecordFields, Fields DEF Renew, At, Sids, PasswordClaim, Renews
    <3> QED
      BY <1>8, <3>2, <3>3
  <2>2. UNCHANGED <<user, past>> /\ past.set <= past.set
    BY <1>8 DEF SessionCreate, Renew, TypeOK
  <2>3. OneAtATime => (\A s \in Live : Current(session[s].pw))'
    BY <2>1, <2>2, NewSessionIs DEF Live, Current, Passwords
  <2>4. PasswordClaim(new)'
    BY <1>1, <1>8 DEF SessionCreate, Renew, Goto, GoWith, TypeOK, PasswordClaim, Renews
  <2> QED
    BY <1>0, <1>1, <2>2, <2>3, <2>4, PasswordsStep DEF Passwords
<1>9. CASE Sign(r)
  <2>1. \A s \in Sids : session'[s].row = session[s].row /\ session'[s].pw = session[s].pw
    BY <1>0, <1>9, RecordFields, Fields DEF Sign, At, TypeOK, Session
  <2>2. UNCHANGED <<user, past>> /\ past.set <= past.set
    BY <1>9 DEF Sign, TypeOK
  <2>3. OneAtATime => (\A s \in Live : Current(session[s].pw))'
    BY <2>1, <2>2 DEF Live, Current, Passwords
  <2>4. PasswordClaim(new)'
    BY <1>1, <1>9 DEF Sign, Goto, Done, Idle, TypeOK, PasswordClaim, Renews
  <2> QED
    BY <1>0, <1>1, <2>2, <2>3, <2>4, PasswordsStep DEF Passwords
<1>10. CASE ResetCommit(r)
  <2>1. /\ past'.floor = NewPassword /\ past'.set = NewPassword /\ user'.password = NewPassword
        /\ NewPassword \in Nat
    BY <1>10, Fields DEF ResetCommit, TypeOK, User
  <2>2. Live' = {}
    BY <1>10, WithoutFades, FadesKeeps DEF ResetCommit, Live
  <2>3. OneAtATime => \A q \in Requests : PasswordClaim(reqs[q])'
    <3>1. PasswordClaim(new)'
      BY <1>1, <1>10 DEF ResetCommit, Goto, TypeOK, PasswordClaim, Renews
    <3>2. PasswordClaim(Idle)'
      BY DEF PasswordClaim, Renews, Idle
    <3> QED
      BY <1>0, <1>1, <3>1, <3>2, Alone DEF TypeOK
  <2> QED
    BY <1>0, <2>1, <2>2, <2>3 DEF Passwords, OneAtATime
<1> QED
  BY <1>2, <1>3, <1>4, <1>5, <1>6, <1>7, <1>8, <1>9, <1>10 DEF Handler, Aside

LEMMA NextPasswords ==
  ASSUME TypeOK, OnDuty, Lives, Passwords, [Next]_vars
  PROVE  Passwords'
<1>1. CASE \E r \in Requests : Handler(r)
  BY <1>1, HandlerPasswords
<1>2. CASE /\ UNCHANGED <<load, user, session, reqs>>
           /\ past' = past \/ past' = [past EXCEPT !.tries = 0]
  <2>1. past'.floor = past.floor /\ past'.set = past.set
    BY <1>2 DEF TypeOK
  <2> QED
    BY <1>2, <2>1 DEF Passwords, PasswordClaim, Current, OneAtATime, Live
<1> QED
  BY <1>1, <1>2, OtherSteps

LEMMA InitPurges ==
  ASSUME Init
  PROVE  Purges /\ Passwords
  BY AuthAssumption DEF Init, Purges, Passwords, PasswordClaim, Current, Renews, Live, Idle,
     NoSession

Inv2 == Inv1 /\ Purges /\ Passwords

LEMMA Invariant2 == Spec => []Inv2
<1>1. Init => Inv2
  <2>1. Init => Inv1
    BY InitType, InitLives, InitMarkers DEF Init, OnDuty, Inv1
  <2> QED
    BY <2>1, InitPurges DEF Inv2
<1>2. Inv2 /\ [Next]_vars => Inv2'
  BY NextType, NextOnDuty, NextLives, NextMarkers, NextPurges, NextPasswords DEF Inv1, Inv2
<1> QED
  BY <1>1, <1>2, PTL DEF Spec

\* PurgedIsOver: the tokens of a purged session either met a marker, or were signed before the
\* second that the cut-off keeps turned down for as long as they last; and with one request at
\* a time what a handler knows of the password is not older than the last reset.
THEOREM PurgedForGood == Spec => []PurgedIsOver
<1>1. Inv2 => PurgedIsOver
  <2> SUFFICES ASSUME Inv2 PROVE PurgedIsOver
    OBVIOUS
  <2>1. ~Cutting /\ crashes = 0
          => \A s \in past.purged : Accepted(s) => session[s].iat >= past.over
    <3> SUFFICES ASSUME ~Cutting, crashes = 0, NEW s \in past.purged, Accepted(s)
                 PROVE  session[s].iat >= past.over
      OBVIOUS
    <3>1. past.over <= cutoff.at
      BY DEF Inv2, Purges
    <3>2. s \in Held /\ s \in Sids
      BY DEF Accepted, Held
    <3>3. cutoff.at <= session[s].iat
      BY <3>2, Acceptance DEF Inv2, Inv1, NoMarker
    <3>4. session[s].iat \in Nat /\ cutoff.at \in Nat /\ past.over \in Nat
      BY <3>2, Fields DEF Inv2, Inv1, Held, TypeOK, Time
    <3> QED
      BY <3>1, <3>3, <3>4
  <2>2. OneAtATime => \A s \in Live : session[s].pw # 0 => session[s].pw >= past.floor
    BY Fields DEF Inv2, Inv1, Passwords, Current, TypeOK, Live
  <2> QED
    BY <2>1, <2>2 DEF Inv2, Purges, PurgedIsOver
<1> QED
  BY <1>1, Invariant2, PTL

-----------------------------------------------------------------------------
\* Room.

LEMMA LiveFinite ==
  /\ IsFiniteSet(Live) /\ Cardinality(Live) \in Nat
  /\ \A S \in SUBSET Sids : IsFiniteSet(S) /\ Cardinality(S) \in Nat
<1>1. IsFiniteSet(Sids)
  BY AuthAssumption, FS_Interval DEF Sids
<1>2. \A S \in SUBSET Sids : IsFiniteSet(S) /\ Cardinality(S) \in Nat
  BY <1>1, FS_Subset, FS_CardinalityType
<1>3. Live \in SUBSET Sids
  BY DEF Live
<1> QED
  BY <1>2, <1>3

LEMMA LiveFades ==
  ASSUME TypeOK, Fades
  PROVE  /\ Live' \subseteq Live
         /\ Cardinality(Live') \in Nat /\ Cardinality(Live') <= Cardinality(Live)
<1>1. Live' \in SUBSET Live
  BY FadesKeeps DEF Live
<1> QED
  BY <1>1, LiveFinite, FS_Subset, FS_CardinalityType

LEMMA LiveLoses ==
  ASSUME TypeOK, NEW s \in Live, session' = Without({s})
  PROVE  Live' = Live \ {s} /\ Cardinality(Live') = Cardinality(Live) - 1
<1>1. Live' = Live \ {s}
  BY DEF Live, Without, TypeOK
<1> QED
  BY <1>1, LiveFinite, FS_RemoveElement

LEMMA LiveGains ==
  ASSUME TypeOK, NEW u \in Unused, NEW pw, NEW p, NewSession(u, pw, p)
  PROVE  Cardinality(Live') = Cardinality(Live) + 1
<1>1. Live' = Live \cup {u} /\ u \notin Live
  BY NewSessionIs DEF Live, Unused
<1> QED
  BY <1>1, LiveFinite, FS_AddElement

\* The oldest live session is evicted when one is too many.
LEMMA OldestOne ==
  ASSUME TypeOK, Live # {}
  PROVE  Oldest(1) # {}
<1>1. Live \in SUBSET (1..NSessions) /\ NSessions \in Nat
  BY AuthAssumption DEF Live, Sids
<1>2. Min(Live) \in Live /\ \A t \in Live : Min(Live) <= t
  BY <1>1, MinIsLeast
<1>3. \A t \in Live : ~(t < Min(Live))
  <2> TAKE t \in Live
  <2>1. Live \subseteq Nat
    BY <1>1
  <2>2. t \in Nat /\ Min(Live) \in Nat
    BY <1>2, <2>1
  <2>3. Min(Live) <= t
    BY <1>2
  <2> QED
    BY <2>2, <2>3
<1>4. Cardinality({t \in Live : t < Min(Live)}) < 1
  <2>1. {t \in Live : t < Min(Live)} = {}
    BY <1>3
  <2> QED
    BY <2>1, FS_EmptySet
<1> QED
  BY <1>2, <1>4 DEF Oldest

LEMMA RoomStep ==
  ASSUME TypeOK, TypeOK', OnDuty, NEW r \in Requests, r \in load.crew, load' = load,
         NEW new \in Request, Goto(r, new),
         OneAtATime => Cardinality(Live') <= MaxSessions /\ RoomClaim(new)'
  PROVE  Room'
<1>1. reqs'[r] = new /\ \A q \in Requests : q # r => reqs'[q] = reqs[q]
  BY DEF TypeOK, Goto
<1>2. RoomClaim(Idle)'
  BY DEF RoomClaim, Renews, Idle
<1> QED
  BY <1>1, <1>2, Alone DEF Room, OneAtATime

\* A handler whose next statement needs no room.
LEMMA RoomFade ==
  ASSUME TypeOK, TypeOK', OnDuty, Room, NEW r \in Requests, r \in load.crew, load' = load,
         Fades, NEW new \in Request, Goto(r, new),
         new.op \notin {"evict", "evictMark", "sessionCreate", "retire", "renew"}
  PROVE  Room'
<1>1. OneAtATime => Cardinality(Live') <= MaxSessions
  BY LiveFades, LiveFinite, AuthAssumption DEF Room
<1>2. RoomClaim(new)'
  BY DEF RoomClaim, Renews
<1> QED
  BY <1>1, <1>2, RoomStep

LEMMA HandlerRoom ==
  ASSUME TypeOK, OnDuty, Room, NEW r \in Requests, Handler(r)
  PROVE  Room'
<1> DEFINE rec == reqs[r]
<1>0. /\ TypeOK' /\ rec \in Request /\ r \in load.crew /\ load' = load
      /\ OneAtATime => RoomClaim(rec) /\ Cardinality(Live) <= MaxSessions
      /\ UNCHANGED session => Fades
      /\ \A S : session' = Without(S) => Fades
  BY HandlerType, HandlerFrame, WithoutFades DEF TypeOK, Fades, Room
<1>1. PICK new \in Request : Goto(r, new) /\ reqs' = [reqs EXCEPT ![r] = new] /\ reqs'[r] = new
  BY HandlerType DEF Goto, TypeOK
<1>n. MaxSessions \in Nat /\ Cardinality(Live) \in Nat
  BY AuthAssumption, LiveFinite
<1>2. CASE Aside(r)
  <2>1. new.op \notin Weighty
    <3>1. PICK c \in Request : Goto(r, c) /\ c.op \notin Weighty
      BY <1>2, AsideIsPlain
    <3> QED
      BY <1>1, <3>1 DEF Goto, TypeOK
  <2> QED
    BY <1>0, <1>1, <1>2, <2>1, AsideIsPlain, RoomFade DEF Weighty
<1>3. CASE SessionCapRead(r)
  <2>1. UNCHANGED Live
    BY <1>3 DEF SessionCapRead, Live
  <2>2. ASSUME OneAtATime
        PROVE  RoomClaim(new)
    <3>1. CASE TooMany > 0
      <4>1. TooMany = 1 /\ Cardinality(Live) = MaxSessions
        BY <1>0, <1>n, <2>2, <3>1 DEF TooMany
      <4>2. Live # {}
        BY <4>1, FS_EmptySet, AuthAssumption
      <4>3. new.op = "evict" /\ new.todo = Oldest(1)
        BY <1>1, <1>3, <3>1, <4>1 DEF SessionCapRead, Goto, TypeOK
      <4>4. Oldest(1) \subseteq Live /\ Oldest(1) \in SUBSET Sids /\ Oldest(1) # {}
        BY <4>2, OldestOne, Chosen DEF Oldest
      <4>5. Cardinality(Oldest(1)) \in Nat \ {0}
        BY <4>4, LiveFinite, FS_EmptySet
      <4> QED
        BY <1>n, <4>1, <4>3, <4>4, <4>5 DEF RoomClaim, Renews
    <3>2. CASE ~(TooMany > 0)
      <4>1. Cardinality(Live) < MaxSessions
        BY <1>n, <3>2 DEF TooMany
      <4>2. new.op = "sessionCreate"
        BY <1>1, <1>3, <3>2 DEF SessionCapRead, Goto, TypeOK
      <4> QED
        BY <4>1, <4>2 DEF RoomClaim
    <3> QED
      BY <3>1, <3>2
  <2> QED
    BY <1>0, <1>1, <2>1, <2>2, RoomStep DEF RoomClaim
<1>4. CASE Evict(r)
  <2>1. CASE OneAtATime
    <3>1. /\ rec.todo # {} /\ rec.todo \subseteq Live /\ rec.todo \in SUBSET Sids
          /\ Cardinality(Live) - Cardinality(rec.todo) < MaxSessions
      BY <1>0, <1>4, <2>1, RecordFields DEF Evict, At, RoomClaim
    <3>2. PICK s \in Live : s = Min(rec.todo) /\ s \in rec.todo
      BY <3>1, Chosen
    <3>3. session' = Without({s}) /\ new.op = "evictMark" /\ new.todo = rec.todo \ {s}
      BY <1>1, <1>4, <3>2 DEF Evict, Goto, TypeOK
    <3>4. Live' = Live \ {s} /\ Cardinality(Live') = Cardinality(Live) - 1
      BY <3>3, LiveLoses
    <3>5. Cardinality(rec.todo \ {s}) = Cardinality(rec.todo) - 1 /\ Cardinality(rec.todo) \in Nat
      BY <3>1, <3>2, LiveFinite, FS_RemoveElement
    <3>6. Cardinality(Live') <= MaxSessions /\ RoomClaim(new)'
      BY <1>0, <1>n, <2>1, <3>1, <3>3, <3>4, <3>5 DEF RoomClaim, Renews
    <3> QED
      BY <1>0, <1>1, <3>6, RoomStep
  <2>2. CASE ~OneAtATime
    BY <1>0, <2>2 DEF Room, OneAtATime
  <2> QED
    BY <2>1, <2>2
<1>5. CASE EvictMark(r)
  <2>1. UNCHANGED Live
    BY <1>5 DEF EvictMark, Live
  <2>2. OneAtATime => /\ rec.todo \subseteq Live
                      /\ Cardinality(Live) - Cardinality(rec.todo) < MaxSessions
    BY <1>0, <1>5 DEF EvictMark, At, RoomClaim
  <2>3. CASE rec.todo = {}
    <3>1. new.op = "sessionCreate" /\ Cardinality(rec.todo) = 0
      BY <1>1, <1>5, <2>3, FS_EmptySet DEF EvictMark, Goto, TypeOK
    <3>2. OneAtATime => RoomClaim(new)'
      BY <1>n, <2>1, <2>2, <3>1 DEF RoomClaim, Renews
    <3> QED
      BY <1>0, <1>1, <2>1, <3>2, RoomStep
  <2>4. CASE rec.todo # {}
    <3>1. new.op = "evict" /\ new.todo = rec.todo
      BY <1>1, <1>5, <2>4 DEF EvictMark, Goto, TypeOK
    <3>2. OneAtATime => RoomClaim(new)'
      BY <2>1, <2>2, <2>4, <3>1 DEF RoomClaim, Renews
    <3> QED
      BY <1>0, <1>1, <2>1, <3>2, RoomStep
  <2> QED
    BY <2>3, <2>4
<1>6. CASE SessionCreate(r) \/ Renew(r)
  <2>1. PICK u \in Unused, pw \in Nat, p \in Nat : NewSession(u, pw, p)
    <3>1. Min(Unused) \in Unused
      BY <1>6, Chosen DEF SessionCreate, Renew
    <3>2. CASE SessionCreate(r)
      BY <1>0, <3>1, <3>2, RecordFields DEF SessionCreate, At
    <3>3. CASE Renew(r)
      BY <1>0, <3>1, <3>3, RecordFields, Fields DEF Renew, At, Sids
    <3> QED
      BY <1>6, <3>2, <3>3
  <2>2. OneAtATime => Cardinality(Live) < MaxSessions
    BY <1>0, <1>6 DEF SessionCreate, Renew, At, RoomClaim, Renews
  <2>3. OneAtATime => Cardinality(Live') <= MaxSessions
    BY <1>n, <2>1, <2>2, LiveGains
  <2>4. RoomClaim(new)'
    BY <1>1, <1>6 DEF SessionCreate, Renew, Goto, GoWith, TypeOK, RoomClaim, Renews
  <2> QED
    BY <1>0, <1>1, <2>3, <2>4, RoomStep
<1>7. CASE Sign(r)
  <2>1. \A s \in Sids : session'[s].row = session[s].row
    BY <1>0, <1>7, RecordFields, Fields DEF Sign, At, TypeOK, Session
  <2>2. UNCHANGED Live
    BY <2>1 DEF Live
  <2>3. RoomClaim(new)'
    BY <1>1, <1>7 DEF Sign, Goto, Done, Idle, TypeOK, RoomClaim, Renews
  <2> QED
    BY <1>0, <1>1, <2>2, <2>3, RoomStep
<1>8. CASE Rotate(r)
  <2>1. CASE rec.s \in Live
    <3>1. PICK s \in Live : s = rec.s
      BY <2>1
    <3>2. session' = Without({s}) /\ new.op = "retire"
      BY <1>1, <1>8, <3>1 DEF Rotate, Goto, GoWith, TypeOK
    <3>3. Cardinality(Live') = Cardinality(Live) - 1
      BY <3>2, LiveLoses
    <3>4. OneAtATime => Cardinality(Live') <= MaxSessions /\ RoomClaim(new)'
      BY <1>0, <1>n, <3>2, <3>3 DEF RoomClaim, Renews
    <3> QED
      BY <1>0, <1>1, <3>4, RoomStep
  <2>2. CASE rec.s \notin Live
    <3>1. new.op = "idle" /\ Fades
      BY <1>0, <1>1, <1>8, <2>2 DEF Rotate, Goto, Done, Idle, TypeOK
    <3> QED
      BY <1>0, <1>1, <3>1, RoomFade
  <2> QED
    BY <2>1, <2>2
<1>9. CASE Retire(r)
  <2>1. UNCHANGED Live
    BY <1>9 DEF Retire, Live
  <2>2. OneAtATime => RoomClaim(new)'
    BY <1>0, <1>1, <1>9, <2>1 DEF Retire, At, Goto, GoWith, TypeOK, RoomClaim, Renews
  <2> QED
    BY <1>0, <1>1, <2>1, <2>2, RoomStep
<1>10. CASE \/ ReuseList(r) \/ ReuseDelete(r) \/ ReuseMark(r) \/ Cut(r) \/ RefreshDrop(r)
            \/ LogoutBlacklist(r) \/ RevokeDelete(r) \/ RevokeMark(r) \/ DeactivateWrite(r)
            \/ DeactivateBlacklist(r) \/ ResetCommit(r) \/ ResetConsume(r) \/ Crash(r)
  <2>1. Fades
    BY <1>0, <1>10 DEF ReuseList, ReuseDelete, ReuseMark, Cut, RefreshDrop, LogoutBlacklist,
       RevokeDelete, RevokeMark, DeactivateWrite, DeactivateBlacklist, ResetCommit, ResetConsume,
       Crash
  <2>2. new.op \in {"idle", "reuseDelete", "reuseMark", "cut", "revokeMark",
                    "deactivateBlacklist", "resetConsume"}
    BY <1>1, <1>10 DEF ReuseList, ReuseDelete, ReuseMark, Cut, RefreshDrop, LogoutBlacklist,
       RevokeDelete, RevokeMark, DeactivateWrite, DeactivateBlacklist, ResetCommit, ResetConsume,
       Crash, Done, GoWith, Goto, Idle, TypeOK
  <2> QED
    BY <1>0, <1>1, <2>1, <2>2, RoomFade
<1>11. CASE Logout(r) \/ Deactivate(r)
  <2>1. PICK s \in Held : \/ Goto(r, [op |-> "logoutBlacklist", s |-> s])
                          \/ Goto(r, [op |-> "deactivateWrite", s |-> s])
    BY <1>11 DEF Logout, Deactivate, GoWith
  <2>2. new.op \in {"logoutBlacklist", "deactivateWrite"}
    BY <1>1, <2>1 DEF Goto, TypeOK
  <2>3. Fades
    BY <1>0, <1>11 DEF Logout, Deactivate
  <2> QED
    BY <1>0, <1>1, <2>2, <2>3, RoomFade
<1> QED
  BY <1>2, <1>3, <1>4, <1>5, <1>6, <1>7, <1>8, <1>9, <1>10, <1>11 DEF Handler, Aside

LEMMA NextRoom ==
  ASSUME TypeOK, OnDuty, Room, [Next]_vars
  PROVE  Room'
<1>1. CASE \E r \in Requests : Handler(r)
  BY <1>1, HandlerRoom
<1>2. CASE UNCHANGED <<load, session, reqs>>
  BY <1>2 DEF Room, RoomClaim, OneAtATime, Live
<1> QED
  BY <1>1, <1>2, OtherSteps

LEMMA InitRoom ==
  ASSUME Init
  PROVE  Room
<1>1. Live = {}
  BY DEF Init, Live, NoSession
<1> QED
  BY <1>1, FS_EmptySet, AuthAssumption DEF Init, Room, RoomClaim, Renews, Idle

Inv3 == Inv1 /\ Room

LEMMA Invariant3 == Spec => []Inv3
<1>1. Init => Inv3
  <2>1. Init => Inv1
    BY InitType, InitLives, InitMarkers DEF Init, OnDuty, Inv1
  <2> QED
    BY <2>1, InitRoom DEF Inv3
<1>2. Inv3 /\ [Next]_vars => Inv3'
  BY NextType, NextOnDuty, NextLives, NextMarkers, NextRoom DEF Inv1, Inv3
<1> QED
  BY <1>1, <1>2, PTL DEF Spec

\* SessionsCounted: of the handlers that race to replace a session only the one that deleted its
\* row goes on, and each that opens a session has made room for it before.
THEOREM SessionsAreCounted == Spec => []SessionsCounted
<1>1. Inv3 => SessionsCounted
  BY DEF Inv3, Inv1, Lives, OneSuccessor, Room, SessionsCounted
<1> QED
  BY <1>1, Invariant3, PTL

-----------------------------------------------------------------------------
\* Answers and their counting.
Coding == {"codeCount", "codeLock", "codeClear", "codeUse", "resetCommit", "resetConsume"}

CodeStep(r) ==
  \/ CodeVoid(r) \/ CodeIssue(r) \/ CodeTry(r) \/ CodeUse(r) \/ CodeForgive(r) \/ CodeGrant(r)
  \/ CodeCount(r) \/ CodeLock(r) \/ CodeClear(r)
  \/ ResetRead(r) \/ ResetCommit(r) \/ ResetConsume(r)
  \/ Crash(r)

SameAnswers == /\ UNCHANGED <<otp, crashes>>
               /\ past'.tries = past.tries /\ past'.spent = past.spent
               /\ past'.twice = past.twice

\* The other handlers have nothing to do with one-time codes.
LEMMA CodesAreApart ==
  ASSUME TypeOK, NEW r \in Requests, Handler(r), ~CodeStep(r)
  PROVE  SameAnswers /\ reqs[r].op \notin Coding /\ reqs'[r].op \notin Coding
<1>1. \A new : Goto(r, new) => reqs'[r] = new
  BY DEF TypeOK, Goto
<1>2. Idle.op \notin Coding
  BY DEF Idle, Coding
<1>3. /\ \A x : past' = [past EXCEPT !.set = x] => SameAnswers \/ ~UNCHANGED <<otp, crashes>>
      /\ \A x, y : past' = [past EXCEPT !.purged = x, !.over = y]
                     => SameAnswers \/ ~UNCHANGED <<otp, crashes>>
  BY DEF TypeOK, SameAnswers
<1>4. CASE \/ RegisterRead(r) \/ RegisterWrite(r) \/ FirebaseSignIn(r) \/ PhoneCreate(r)
           \/ SocialSignIn(r) \/ SocialWrite(r) \/ Login(r) \/ ChangePassword(r)
           \/ ChangeWrite(r) \/ CodeSend(r)
  <2>1. SameAnswers
    BY <1>3, <1>4 DEF RegisterRead, RegisterWrite, FirebaseSignIn, PhoneCreate, SocialSignIn,
       SocialWrite, Login, ChangePassword, ChangeWrite, CodeSend, SameAnswers
  <2>2. reqs[r].op \notin Coding
    BY <1>2, <1>4 DEF RegisterRead, RegisterWrite, FirebaseSignIn, PhoneCreate, SocialSignIn,
       SocialWrite, Login, ChangePassword, ChangeWrite, CodeSend, Starts, At, Coding
  <2>3. reqs'[r].op \notin Coding
    BY <1>1, <1>2, <1>4 DEF RegisterRead, RegisterWrite, FirebaseSignIn, PhoneCreate,
       SocialSignIn, SocialWrite, Login, ChangePassword, ChangeWrite, CodeSend, Done, Coding
  <2> QED
    BY <2>1, <2>2, <2>3
<1>5. CASE \/ SessionCapRead(r) \/ Evict(r) \/ EvictMark(r) \/ SessionCreate(r) \/ Sign(r)
           \/ ReuseList(r) \/ ReuseDelete(r) \/ ReuseMark(r) \/ Cut(r)
  <2>1. SameAnswers
    BY <1>3, <1>5 DEF SessionCapRead, Evict, EvictMark, SessionCreate, Sign, ReuseList,
       ReuseDelete, ReuseMark, Cut, SameAnswers
  <2>2. reqs[r].op \notin Coding
    BY <1>2, <1>5 DEF SessionCapRead, Evict, EvictMark, SessionCreate, Sign, ReuseList,
       ReuseDelete, ReuseMark, Cut, At, Coding
  <2>3. reqs'[r].op \notin Coding
    BY <1>1, <1>2, <1>5 DEF SessionCapRead, Evict, EvictMark, SessionCreate, Sign, ReuseList,
       ReuseDelete, ReuseMark, Cut, Done, GoWith, Coding
  <2> QED
    BY <2>1, <2>2, <2>3
<1>6. CASE \/ RefreshFind(r) \/ RefreshDrop(r) \/ Rotate(r) \/ Retire(r) \/ Renew(r)
           \/ LogoutBlacklist(r) \/ RevokeDelete(r) \/ RevokeMark(r)
           \/ DeactivateWrite(r) \/ DeactivateBlacklist(r) \/ AdminStatusWrite(r)
  <2>1. SameAnswers
    BY <1>3, <1>6 DEF RefreshFind, RefreshDrop, Rotate, Retire, Renew, LogoutBlacklist,
       RevokeDelete, RevokeMark, DeactivateWrite, DeactivateBlacklist, AdminStatusWrite,
       SameAnswers
  <2>2. reqs[r].op \notin Coding
    BY <1>2, <1>6 DEF RefreshFind, RefreshDrop, Rotate, Retire, Renew, LogoutBlacklist,
       RevokeDelete, RevokeMark, DeactivateWrite, DeactivateBlacklist, AdminStatusWrite, At,
       Coding
  <2>3. reqs'[r].op \notin Coding
    BY <1>1, <1>2, <1>6 DEF RefreshFind, RefreshDrop, Rotate, Retire, Renew, LogoutBlacklist,
       RevokeDelete, RevokeMark, DeactivateWrite, DeactivateBlacklist, AdminStatusWrite, Done,
       GoWith, Coding
  <2> QED
    BY <2>1, <2>2, <2>3
<1>7. CASE RefreshStart(r) \/ Logout(r) \/ RevokeRead(r) \/ Deactivate(r) \/ AdminStatusRead(r)
  <2>1. SameAnswers /\ reqs[r] = Idle
    BY <1>7 DEF RefreshStart, Logout, RevokeRead, Deactivate, AdminStatusRead, Starts,
       SameAnswers
  <2>2. PICK new : Goto(r, new) /\ new.op \notin Coding
    <3>1. CASE RefreshStart(r)
      BY <3>1 DEF RefreshStart, GoWith, Coding
    <3>2. CASE Logout(r)
      BY <3>2 DEF Logout, GoWith, Coding
    <3>3. CASE RevokeRead(r)
      BY <3>3 DEF RevokeRead, GoWith, Coding
    <3>4. CASE Deactivate(r)
      BY <3>4 DEF Deactivate, GoWith, Coding
    <3>5. CASE AdminStatusRead(r)
      BY <3>5 DEF AdminStatusRead, Coding
    <3> QED
      BY <1>7, <3>1, <3>2, <3>3, <3>4, <3>5
  <2> QED
    BY <1>1, <1>2, <2>1, <2>2
<1> QED
  BY <1>4, <1>5, <1>6, <1>7 DEF Handler, CodeStep

\* The sizes that a step of a handler changes.
LEMMA AtStepSize ==
  ASSUME TypeOK, OnDuty
  PROVE  /\ \A step : step # "idle"
              => /\ AtStep(step) \subseteq load.crew /\ IsFiniteSet(AtStep(step))
                 /\ Cardinality(AtStep(step)) \in Nat
         /\ Cardinality(load.crew) \in Nat
         /\ Cardinality(AtStep("codeCount")) + Cardinality(AtStep("codeLock"))
              <= Cardinality(load.crew)
         /\ \A r \in load.crew : reqs[r].op \notin {"codeCount", "codeLock"}
              => Cardinality(AtStep("codeCount")) + Cardinality(AtStep("codeLock"))
                   <= Cardinality(load.crew) - 1
<1>1. load.crew \subseteq Requests /\ IsFiniteSet(load.crew) /\ Cardinality(load.crew) \in Nat
  BY AuthAssumption, FS_Subset, FS_CardinalityType DEF TypeOK
<1>2. \A step : step # "idle" => AtStep(step) \in SUBSET load.crew
  BY DEF OnDuty, AtStep, At, Idle
<1>3. \A step : step # "idle"
        => /\ AtStep(step) \subseteq load.crew /\ IsFiniteSet(AtStep(step))
           /\ Cardinality(AtStep(step)) \in Nat
  BY <1>1, <1>2, FS_Subset, FS_CardinalityType
<1>4. AtStep("codeCount") \cap AtStep("codeLock") = {}
  BY DEF AtStep, At
<1>5. Cardinality(AtStep("codeCount") \cup AtStep("codeLock"))
        = Cardinality(AtStep("codeCount")) + Cardinality(AtStep("codeLock"))
  <2>1. Cardinality(AtStep("codeCount") \cap AtStep("codeLock")) = 0
    BY <1>4, FS_EmptySet
  <2>2. /\ IsFiniteSet(AtStep("codeCount")) /\ IsFiniteSet(AtStep("codeLock"))
        /\ Cardinality(AtStep("codeCount")) \in Nat /\ Cardinality(AtStep("codeLock")) \in Nat
    BY <1>3
  <2>3. Cardinality(AtStep("codeCount") \cup AtStep("codeLock"))
          = Cardinality(AtStep("codeCount")) + Cardinality(AtStep("codeLock"))
              - Cardinality(AtStep("codeCount") \cap AtStep("codeLock"))
    BY <2>2, FS_Union, Zenon
  <2> QED
    BY <2>1, <2>2, <2>3
<1>6. AtStep("codeCount") \cup AtStep("codeLock") \in SUBSET load.crew
  BY <1>2
<1>7. Cardinality(AtStep("codeCount") \cup AtStep("codeLock")) <= Cardinality(load.crew)
  BY <1>1, <1>6, FS_Subset
<1>8. ASSUME NEW r \in load.crew, reqs[r].op \notin {"codeCount", "codeLock"}
      PROVE  Cardinality(AtStep("codeCount") \cup AtStep("codeLock"))
               <= Cardinality(load.crew) - 1
  <2>1. /\ IsFiniteSet(load.crew \ {r})
        /\ Cardinality(load.crew \ {r}) = Cardinality(load.crew) - 1
    BY <1>1, FS_RemoveElement
  <2>2. r \notin AtStep("codeCount") \cup AtStep("codeLock")
    BY <1>8 DEF AtStep, At
  <2>3. AtStep("codeCount") \cup AtStep("codeLock") \in SUBSET (load.crew \ {r})
    BY <1>6, <2>2
  <2> QED
    BY <2>1, <2>3, FS_Subset
<1> QED
  BY <1>1, <1>3, <1>5, <1>7, <1>8

LEMMA AtStepChange ==
  ASSUME TypeOK, OnDuty, NEW r \in Requests, NEW new, Goto(r, new), NEW step, step # "idle"
  PROVE  /\ new.op = step
              => AtStep(step)' = AtStep(step) \cup {r}
         /\ new.op # step
              => AtStep(step)' = AtStep(step) \ {r}
         /\ Cardinality(AtStep(step)') =
              Cardinality(AtStep(step)) + (IF new.op = step THEN 1 ELSE 0)
                                        - (IF reqs[r].op = step THEN 1 ELSE 0)
<1>1. /\ reqs'[r] = new /\ \A q \in Requests : q # r => reqs'[q] = reqs[q]
  BY DEF TypeOK, Goto
<1>2. /\ new.op = step => AtStep(step)' = AtStep(step) \cup {r}
      /\ new.op # step => AtStep(step)' = AtStep(step) \ {r}
      /\ r \in AtStep(step) <=> reqs[r].op = step
  BY <1>1 DEF AtStep, At
<1>3. IsFiniteSet(AtStep(step)) /\ Cardinality(AtStep(step)) \in Nat
  BY AtStepSize
<1>4. CASE new.op = step /\ reqs[r].op = step
  <2>1. AtStep(step)' = AtStep(step)
    BY <1>2, <1>4
  <2> QED
    BY <1>2, <1>3, <1>4, <2>1
<1>5. CASE new.op = step /\ reqs[r].op # step
  BY <1>2, <1>3, <1>5, FS_AddElement
<1>6. CASE new.op # step /\ reqs[r].op = step
  BY <1>2, <1>3, <1>6, FS_RemoveElement
<1>7. CASE new.op # step /\ reqs[r].op # step
  <2>1. AtStep(step)' = AtStep(step)
    BY <1>2, <1>7
  <2> QED
    BY <1>2, <1>3, <1>7, <2>1
<1> QED
  BY <1>4, <1>5, <1>6, <1>7

LEMMA AnswersStep ==
  ASSUME TypeOK, TypeOK', OnDuty, Answers, NEW r \in Requests, load' = load,
         NEW new, Goto(r, new),
         LET K == Cardinality(AtStep("codeCount")) + (IF new.op = "codeCount" THEN 1 ELSE 0)
                    - (IF reqs[r].op = "codeCount" THEN 1 ELSE 0)
             L == Cardinality(AtStep("codeLock")) + (IF new.op = "codeLock" THEN 1 ELSE 0)
                    - (IF reqs[r].op = "codeLock" THEN 1 ELSE 0)
         IN  /\ ~locked' => /\ past'.tries <= failures' + K + crashes'
                            /\ past'.tries < MaxFailures + K + L + crashes'
             /\ past'.tries < MaxFailures + Cardinality(load.crew) + crashes',
         new.op = "codeClear" => locked',
         locked => locked'
  PROVE  Answers'
<1>1. /\ reqs'[r] = new /\ \A q \in Requests : q # r => reqs'[q] = reqs[q]
  BY DEF TypeOK, Goto
<1>2. \A q \in Requests : At(q, "codeClear")' => locked'
  BY <1>1 DEF Answers, At
<1>3. /\ Cardinality(AtStep("codeCount")') =
           Cardinality(AtStep("codeCount")) + (IF new.op = "codeCount" THEN 1 ELSE 0)
             - (IF reqs[r].op = "codeCount" THEN 1 ELSE 0)
      /\ Cardinality(AtStep("codeLock")') =
           Cardinality(AtStep("codeLock")) + (IF new.op = "codeLock" THEN 1 ELSE 0)
             - (IF reqs[r].op = "codeLock" THEN 1 ELSE 0)
  BY AtStepChange
<1> QED
  BY <1>2, <1>3 DEF Answers

LEMMA HandlerAnswers ==
  ASSUME TypeOK, OnDuty, Answers, NEW r \in Requests, Handler(r)
  PROVE  Answers'
<1> DEFINE K == Cardinality(AtStep("codeCount"))
           L == Cardinality(AtStep("codeLock"))
           C == Cardinality(load.crew)
<1>0. /\ TypeOK' /\ load' = load
      /\ K \in Nat /\ L \in Nat /\ C \in Nat /\ K + L <= C
      /\ MaxFailures \in Nat \ {0}
      /\ failures \in Nat /\ crashes \in Nat /\ past.tries \in Nat
      /\ ~locked => past.tries <= failures + K + crashes
      /\ ~locked => past.tries < MaxFailures + K + L + crashes
      /\ past.tries < MaxFailures + C + crashes
  BY HandlerType, HandlerFrame, AtStepSize, AuthAssumption DEF TypeOK, Answers
<1>1. PICK new : Goto(r, new) /\ reqs' = [reqs EXCEPT ![r] = new] /\ reqs'[r] = new
  BY HandlerType DEF Goto, TypeOK
<1>2. /\ reqs[r].op = "codeCount" => K >= 1 /\ r \in load.crew
      /\ reqs[r].op = "codeLock" => L >= 1
  <2>1. /\ IsFiniteSet(AtStep("codeCount")) /\ IsFiniteSet(AtStep("codeLock"))
    BY AtStepSize
  <2>2. /\ reqs[r].op = "codeCount" => AtStep("codeCount") # {}
        /\ reqs[r].op = "codeLock" => AtStep("codeLock") # {}
    BY DEF AtStep, At
  <2>3. /\ AtStep("codeCount") # {} => K # 0
        /\ AtStep("codeLock") # {} => L # 0
    BY <2>1, FS_EmptySet
  <2> QED
    BY <1>0, <2>2, <2>3, HandlerFrame
<1> HIDE DEF K, L, C
<1>3. CASE ~CodeStep(r)
  <2>1. /\ SameAnswers /\ reqs[r].op \notin Coding /\ new.op \notin Coding
    BY <1>1, <1>3, CodesAreApart
  <2> QED
    BY <1>0, <1>1, <2>1, AnswersStep DEF SameAnswers, otp, Coding, K, L, C
<1>4. CASE CodeVoid(r) \/ CodeIssue(r) \/ CodeUse(r) \/ CodeGrant(r) \/ ResetRead(r)
            \/ ResetCommit(r) \/ ResetConsume(r)
  <2>1. UNCHANGED <<failures, locked, crashes>>
    BY <1>4 DEF CodeVoid, CodeIssue, CodeUse, CodeGrant, ResetRead, ResetCommit, ResetConsume,
       otp
  <2>2. past'.tries = past.tries
    BY <1>4 DEF CodeVoid, CodeIssue, CodeUse, CodeGrant, ResetRead, ResetCommit, ResetConsume,
       TypeOK
  <2>3. /\ new.op \notin {"codeCount", "codeLock", "codeClear"}
        /\ reqs[r].op \notin {"codeCount", "codeLock", "codeClear"}
    BY <1>1, <1>4 DEF CodeVoid, CodeIssue, CodeUse, CodeGrant, ResetRead, ResetCommit,
       ResetConsume, Starts, At, Done, Goto, Idle, TypeOK
  <2> QED
    BY <1>0, <1>1, <2>1, <2>2, <2>3, AnswersStep DEF K, L, C
<1>5. CASE CodeTry(r)
  <2>1. reqs[r].op = "idle" /\ UNCHANGED <<failures, locked, crashes>> /\ ~locked
    BY <1>5 DEF CodeTry, Starts, Idle, otp
  <2>2. \/ new.op = "codeUse" /\ past'.tries = past.tries
        \/ new.op = "codeCount" /\ past'.tries = past.tries + 1
    BY <1>1, <1>5 DEF CodeTry, Goto, TypeOK
  <2>3. K + L <= C - 1
    BY <2>1, AtStepSize, HandlerFrame DEF K, L, C
  <2> QED
    BY <1>0, <1>1, <2>1, <2>2, <2>3, AnswersStep DEF K, L, C
<1>6. CASE CodeForgive(r)
  <2>1. /\ reqs[r].op = "codeForgive" /\ new.op = "codeGrant"
        /\ failures' = 0 /\ UNCHANGED <<locked, crashes>> /\ past'.tries = 0
    BY <1>1, <1>6 DEF CodeForgive, At, Goto, TypeOK
  <2> QED
    BY <1>0, <1>1, <2>1, AnswersStep DEF K, L, C
<1>7. CASE CodeCount(r)
  <2>1. /\ reqs[r].op = "codeCount" /\ failures' = failures + 1
        /\ UNCHANGED <<locked, crashes, past>>
        /\ new.op = IF failures + 1 >= MaxFailures THEN "codeLock" ELSE "idle"
    BY <1>1, <1>7 DEF CodeCount, At, Goto, Done, Idle, TypeOK
  <2> QED
    BY <1>0, <1>1, <1>2, <2>1, AnswersStep DEF K, L, C
<1>8. CASE CodeLock(r)
  <2>1. /\ reqs[r].op = "codeLock" /\ new.op = "codeClear"
        /\ locked' /\ UNCHANGED <<crashes, past>>
    BY <1>1, <1>8 DEF CodeLock, At, Goto, TypeOK
  <2> QED
    BY <1>0, <1>1, <2>1, AnswersStep DEF K, L, C
<1>9. CASE CodeClear(r)
  <2>1. /\ reqs[r].op = "codeClear" /\ new.op = "idle" /\ locked
        /\ UNCHANGED <<locked, crashes, past>>
    BY <1>1, <1>9 DEF CodeClear, At, Goto, Done, Idle, TypeOK, Answers
  <2> QED
    BY <1>0, <1>1, <2>1, AnswersStep DEF K, L, C
<1>10. CASE Crash(r)
  <2>1. /\ new.op = "idle" /\ crashes' = crashes + 1 /\ UNCHANGED <<failures, locked, past>>
    BY <1>1, <1>10 DEF Crash, Goto, Done, Idle, TypeOK, otp
  <2> QED
    BY <1>0, <1>1, <2>1, AnswersStep DEF K, L, C
<1> QED
  BY <1>3, <1>4, <1>5, <1>6, <1>7, <1>8, <1>9, <1>10 DEF CodeStep

LEMMA NextAnswers ==
  ASSUME TypeOK, OnDuty, Answers, [Next]_vars
  PROVE  Answers'
<1>1. CASE \E r \in Requests : Handler(r)
  BY <1>1, HandlerAnswers
<1>2. CASE Tick \/ CodeExpire \/ ResetKeyExpire \/ UNCHANGED vars
  <2>1. UNCHANGED <<load, failures, locked, reqs, crashes, past>>
    BY <1>2 DEF Tick, CodeExpire, ResetKeyExpire, vars, otp
  <2>2. UNCHANGED <<AtStep("codeCount"), AtStep("codeLock")>>
    BY <2>1 DEF AtStep, At
  <2> QED
    BY <2>1, <2>2 DEF Answers, At
<1>3. CASE CountersExpire
  <2>1. /\ past'.tries = 0 /\ failures' = 0 /\ ~locked' /\ UNCHANGED <<reqs, crashes, load>>
        /\ \A r \in Requests : reqs[r] = Idle
    BY <1>3 DEF CountersExpire, TypeOK
  <2>2. /\ Cardinality(AtStep("codeCount")) \in Nat /\ Cardinality(AtStep("codeLock")) \in Nat
        /\ Cardinality(load.crew) \in Nat /\ crashes \in Nat /\ MaxFailures \in Nat \ {0}
    BY AtStepSize, AuthAssumption DEF TypeOK
  <2>3. \A r \in Requests : ~At(r, "codeClear")'
    BY <2>1 DEF At, Idle
  <2>4. UNCHANGED <<AtStep("codeCount"), AtStep("codeLock")>>
    BY <2>1 DEF AtStep, At
  <2> QED
    BY <2>1, <2>2, <2>3, <2>4 DEF Answers
<1> QED
  BY <1>1, <1>2, <1>3 DEF Next

LEMMA InitAnswers ==
  ASSUME Init
  PROVE  Answers
<1>1. TypeOK /\ OnDuty
  BY InitType DEF Init, OnDuty
<1>2. /\ Cardinality(AtStep("codeCount")) \in Nat /\ Cardinality(AtStep("codeLock")) \in Nat
      /\ Cardinality(load.crew) \in Nat /\ MaxFailures \in Nat \ {0}
  BY <1>1, AtStepSize, AuthAssumption
<1>3. \A r \in Requests : ~At(r, "codeClear")
  BY DEF Init, At, Idle
<1> QED
  BY <1>2, <1>3 DEF Init, Answers

\* What is asked of the handler at a step that uses a code or a reset token.
UseClaim(rec) ==
  /\ rec.op = "codeUse" => code[rec.c] # "used"
  /\ rec.op = "resetCommit" => rec.t \notin past.spent

LEMMA UsedOnceStep ==
  ASSUME TypeOK, OnDuty, UsedOnce, NEW r \in Requests, r \in load.crew, load' = load,
         NEW new, Goto(r, new),
         past'.spent \subseteq 1..issued', issued <= issued', issued' \in Nat,
         new.op = "resetCommit" => new.t \in 1..issued',
         OneAtATime /\ crashes' = 0
           => /\ ~past'.twice
              /\ UseClaim(new)'
              /\ resetKey' \in past'.spent => new.op = "resetConsume"
  PROVE  UsedOnce'
<1>1. /\ reqs'[r] = new /\ \A q \in Requests : q # r => reqs'[q] = reqs[q]
  BY DEF TypeOK, Goto
<1>2. \A q \in Requests : At(q, "resetCommit")' => reqs'[q].t \in 1..issued'
  <2> SUFFICES ASSUME NEW q \in Requests, q # r, reqs[q].op = "resetCommit"
               PROVE  reqs[q].t \in 1..issued'
    BY <1>1 DEF At
  <2>1. reqs[q].t \in 1..issued /\ issued \in Nat
    BY DEF UsedOnce, At, TypeOK
  <2> QED
    BY <2>1
<1>3. ASSUME OneAtATime, crashes' = 0
      PROVE  /\ ~past'.twice
             /\ \A q \in Requests : At(q, "codeUse")' => code'[reqs'[q].c] # "used"
             /\ resetKey' \in past'.spent => AtStep("resetConsume")' # {}
             /\ \A q \in Requests : At(q, "resetCommit")' => reqs'[q].t \notin past'.spent
  <2>1. \A q \in Requests : q # r => reqs'[q].op = "idle"
    BY <1>1, <1>3, Alone DEF Idle
  <2> QED
    BY <1>1, <1>3, <2>1 DEF UseClaim, At, AtStep
<1> QED
  BY <1>2, <1>3 DEF UsedOnce, OneAtATime

LEMMA HandlerUsedOnce ==
  ASSUME TypeOK, OnDuty, UsedOnce, NEW r \in Requests, Handler(r)
  PROVE  UsedOnce'
<1>0. /\ TypeOK' /\ r \in load.crew /\ load' = load
      /\ issued \in Nat /\ past.spent \subseteq 1..issued
      /\ reqs[r].op = "resetCommit" => reqs[r].t \in 1..issued
      /\ resetKey \in 0..issued
  BY HandlerType, HandlerFrame DEF TypeOK, UsedOnce, At
<1>n. OneAtATime /\ crashes = 0
        => /\ ~past.twice /\ UseClaim(reqs[r])
           /\ reqs[r].op # "resetConsume" => resetKey \notin past.spent
  <2> SUFFICES ASSUME OneAtATime, crashes = 0
               PROVE  /\ ~past.twice /\ UseClaim(reqs[r])
                      /\ reqs[r].op # "resetConsume" => resetKey \notin past.spent
    OBVIOUS
  <2>1. \A q \in Requests : q # r => reqs[q].op = "idle"
    BY <1>0, Alone DEF Idle
  <2>2. reqs[r].op # "resetConsume" => AtStep("resetConsume") = {}
    BY <2>1 DEF AtStep, At
  <2> QED
    BY <2>2 DEF UsedOnce, UseClaim, At
<1>1. PICK new : Goto(r, new) /\ reqs' = [reqs EXCEPT ![r] = new] /\ reqs'[r] = new
  BY HandlerType DEF Goto, TypeOK
<1>2. CASE ~CodeStep(r)
  <2>1. /\ SameAnswers /\ reqs[r].op \notin Coding /\ new.op \notin Coding
    BY <1>1, <1>2, CodesAreApart
  <2> QED
    BY <1>0, <1>n, <1>1, <2>1, UsedOnceStep DEF SameAnswers, otp, Coding, UseClaim
<1>3. CASE \/ CodeVoid(r) \/ CodeIssue(r) \/ CodeForgive(r)
           \/ CodeCount(r) \/ CodeLock(r) \/ CodeClear(r)
  <2>1. UNCHANGED <<issued, resetKey, crashes>>
    BY <1>3 DEF CodeVoid, CodeIssue, CodeForgive, CodeCount, CodeLock, CodeClear
  <2>2. past'.spent = past.spent /\ past'.twice = past.twice
    BY <1>3 DEF CodeVoid, CodeIssue, CodeForgive, CodeCount, CodeLock, CodeClear, TypeOK
  <2>3. /\ new.op \notin {"codeUse", "resetCommit", "resetConsume"}
        /\ reqs[r].op \notin {"codeUse", "resetCommit", "resetConsume"}
    BY <1>1, <1>3 DEF CodeVoid, CodeIssue, CodeForgive, CodeCount, CodeLock, CodeClear,
       At, Done, Goto, Idle, TypeOK
  <2> QED
    BY <1>0, <1>n, <1>1, <2>1, <2>2, <2>3, UsedOnceStep DEF UseClaim
<1>4. CASE CodeTry(r)
  <2>1. /\ UNCHANGED <<otp, crashes>> /\ reqs[r].op = "idle"
        /\ past'.spent = past.spent /\ past'.twice = past.twice
    BY <1>4 DEF CodeTry, Starts, Idle, TypeOK
  <2>2. /\ new.op \in {"codeUse", "codeCount"}
        /\ new.op = "codeUse" => new.c = Max(Valid)
    BY <1>1, <1>4 DEF CodeTry, Goto, TypeOK
  <2>3. Max(Valid) \in Valid
    BY <1>4, Chosen DEF CodeTry
  <2>4. UseClaim(new)'
    BY <2>1, <2>2, <2>3 DEF UseClaim, Valid, otp
  <2> QED
    BY <1>0, <1>n, <1>1, <2>1, <2>2, <2>4, UsedOnceStep DEF otp
<1>5. CASE CodeUse(r)
  <2>1. /\ UNCHANGED <<issued, resetKey, crashes>> /\ reqs[r].op = "codeUse"
        /\ past'.spent = past.spent /\ new.op = "codeForgive"
    BY <1>1, <1>5 DEF CodeUse, At, Goto, TypeOK
  <2>2. past'.twice = (past.twice \/ code[reqs[r].c] = "used")
    BY <1>5 DEF CodeUse, TypeOK
  <2>3. OneAtATime /\ crashes' = 0 => ~past'.twice
    BY <1>n, <2>1, <2>2 DEF UseClaim
  <2> QED
    BY <1>0, <1>n, <1>1, <2>1, <2>3, UsedOnceStep DEF UseClaim
<1>6. CASE CodeGrant(r)
  <2>1. /\ UNCHANGED <<crashes, past>> /\ reqs[r].op = "codeGrant" /\ new.op = "idle"
        /\ issued' = issued + 1 /\ resetKey' = issued + 1
    BY <1>1, <1>6 DEF CodeGrant, At, Done, Goto, Idle, TypeOK
  <2>2. past.spent \subseteq 1..(issued + 1) /\ issued + 1 \notin past.spent
    BY <1>0
  <2> QED
    BY <1>0, <1>n, <1>1, <2>1, <2>2, UsedOnceStep DEF UseClaim
<1>7. CASE ResetRead(r)
  <2>1. /\ UNCHANGED <<otp, crashes, past>> /\ reqs[r].op = "idle" /\ resetKey # 0
        /\ new.op = "resetCommit" /\ new.t = resetKey
    BY <1>1, <1>7 DEF ResetRead, Starts, Idle, Goto, TypeOK
  <2>2. resetKey \in 1..issued
    BY <1>0, <2>1
  <2> QED
    BY <1>0, <1>n, <1>1, <2>1, <2>2, UsedOnceStep DEF UseClaim, otp
<1>8. CASE ResetCommit(r)
  <2>1. /\ UNCHANGED <<otp, crashes>> /\ reqs[r].op = "resetCommit" /\ new.op = "resetConsume"
    BY <1>1, <1>8 DEF ResetCommit, At, Goto, TypeOK
  <2>2. /\ past'.spent = past.spent \cup {reqs[r].t}
        /\ past'.twice = (past.twice \/ reqs[r].t \in past.spent)
    BY <1>8 DEF ResetCommit, TypeOK
  <2>3. OneAtATime /\ crashes' = 0 => ~past'.twice
    BY <1>n, <2>1, <2>2 DEF UseClaim
  <2> QED
    BY <1>0, <1>n, <1>1, <2>1, <2>2, <2>3, UsedOnceStep DEF UseClaim, otp
<1>9. CASE ResetConsume(r)
  <2>1. /\ UNCHANGED <<issued, crashes, past>> /\ resetKey' = 0 /\ new.op = "cut"
    BY <1>1, <1>9 DEF ResetConsume, Goto, TypeOK
  <2>2. 0 \notin past.spent
    BY <1>0
  <2> QED
    BY <1>0, <1>n, <1>1, <2>1, <2>2, UsedOnceStep DEF UseClaim
<1>10. CASE Crash(r)
  <2>1. /\ UNCHANGED <<issued, past>> /\ crashes' # 0 /\ new.op = "idle"
    BY <1>1, <1>10 DEF Crash, Goto, Done, Idle, TypeOK, otp
  <2> QED
    BY <1>0, <1>1, <2>1, UsedOnceStep
<1> QED
  BY <1>2, <1>3, <1>4, <1>5, <1>6, <1>7, <1>8, <1>9, <1>10 DEF CodeStep

LEMMA NextUsedOnce ==
  ASSUME TypeOK, OnDuty, UsedOnce, [Next]_vars
  PROVE  UsedOnce'
<1>1. CASE \E r \in Requests : Handler(r)
  BY <1>1, HandlerUsedOnce
<1>2. CASE Tick \/ ResetKeyExpire \/ CountersExpire \/ CodeExpire \/ UNCHANGED vars
  <2>1. /\ UNCHANGED <<load, issued, reqs, crashes>>
        /\ past'.spent = past.spent /\ past'.twice = past.twice
    BY <1>2 DEF Tick, ResetKeyExpire, CountersExpire, CodeExpire, vars, otp, TypeOK
  <2>2. resetKey' = resetKey \/ (resetKey' = 0 /\ 0 \notin past'.spent)
    <3>1. 0 \notin past.spent
      BY DEF UsedOnce, TypeOK
    <3> QED
      BY <1>2, <2>1, <3>1 DEF Tick, ResetKeyExpire, CountersExpire, CodeExpire, vars, otp
  <2>3. \A c : code'[c] = "used" => code[c] = "used"
    <3>1. CASE UNCHANGED code
      BY <3>1
    <3>2. CASE CodeExpire
      <4>1. PICK c \in Valid : code' = [code EXCEPT ![c] = "expired"]
        BY <3>2 DEF CodeExpire
      <4> QED
        BY <4>1 DEF TypeOK
    <3> QED
      BY <1>2, <3>1, <3>2 DEF Tick, ResetKeyExpire, CountersExpire, vars, otp
  <2>4. /\ \A r \in Requests : At(r, "codeUse")' = At(r, "codeUse")
        /\ \A r \in Requests : At(r, "resetCommit")' = At(r, "resetCommit")
        /\ UNCHANGED AtStep("resetConsume")
    BY <2>1 DEF At, AtStep
  <2> QED
    BY <2>1, <2>2, <2>3, <2>4 DEF UsedOnce, OneAtATime
<1> QED
  BY <1>1, <1>2 DEF Next

LEMMA InitUsedOnce ==
  ASSUME Init
  PROVE  UsedOnce
  BY DEF Init, UsedOnce, At, AtStep, Idle

Inv4 == TypeOK /\ OnDuty /\ Answers /\ UsedOnce

LEMMA Invariant4 == Spec => []Inv4
<1>1. Init => Inv4
  BY InitType, InitAnswers, InitUsedOnce DEF Init, OnDuty, Inv4
<1>2. Inv4 /\ [Next]_vars => Inv4'
  BY NextType, NextOnDuty, NextAnswers, NextUsedOnce DEF Inv4
<1> QED
  BY <1>1, <1>2, PTL DEF Spec

\* CodesHold: a wrong answer is either counted, or its handler is about to count it, or has
\* crashed before it did; and once as many as the limit are counted one handler is about to lock.
THEOREM CodesAlwaysHold == Spec => []CodesHold
<1>1. Inv4 => CodesHold
  BY AtStepSize, AuthAssumption DEF Inv4, Answers, UsedOnce, CodesHold, TypeOK
<1> QED
  BY <1>1, Invariant4, PTL
=============================================================================
