---- MODULE Accounts ----
(***************************************************************************)
(* Accounts, logins, lockout and sessions (src/itds/auth.py), and the      *)
(* handlers and CLI commands that use them.  Each `with store.connect()`   *)
(* block is a step; threads interleave between steps, and Fail ends a      *)
(* handler anywhere.                                                       *)
(*                                                                         *)
(* Time is not counted: a lock or a session that has a deadline passes it  *)
(* in a step of its own, whenever that is (LockExpires, SessionExpires).   *)
(***************************************************************************)
EXTENDS Naturals, FiniteSets

CONSTANTS
    User,         \* usernames
    Role,         \* the roles in use, some of those in RoleNames
    Thread,       \* threads of the server and CLI processes
    Token,        \* session tokens
    MaxFailed,    \* MAX_FAILED, 5 in the code
    None

RoleNames == {"analyst", "lead", "admin"}

ASSUME AccountsAssumption ==
    /\ Role \subseteq RoleNames
    /\ MaxFailed \in Nat \ {0}
    /\ None \notin User \cup Token \cup RoleNames

\* What the handlers ask `need` for.  "cases:read" stands for what analysts and
\* leads may do alike, "reveal:approve" for what only leads may do.
Permission == {"users:manage", "audit:read", "reveal:approve", "cases:read"}

PERMISSIONS ==
    [analyst |-> {"cases:read"},
     lead    |-> {"cases:read", "reveal:approve", "audit:read"},
     admin   |-> {"users:manage", "audit:read"}]

VARIABLES
    users,      \* table users by username; role None: no such row
    sessions,   \* table sessions: records of [token, user, expired]
    signedIn,   \* login.success in the audit log, the only entries that a property
                \* here reads: whom it names and, as history, the token it is for
    handler,    \* handler[t]: what t runs and its locals
    tokens,     \* history: tokens generated so far
    held,       \* history: tokens sent to a client in a login response
    ended,      \* history: tokens whose session expired or was logged out
    missed,     \* history: missed[u], wrong passwords since the last right one,
                \* lock, or end of a lock (counted to MaxFailed)
    due,        \* history: due[u], u was locked and the 15 minutes are not over
    overlapped, \* history: users of whom two logins were under way at once
    acts        \* history: who used which permission, [user, permission]

vars == <<users, sessions, signedIn, handler, tokens, held, ended, missed, due, overlapped, acts>>

NoUser == [role |-> None, disabled |-> FALSE, failed |-> 0, locked |-> FALSE]

UserRow == [role : Role \cup {None}, disabled : BOOLEAN,
            failed : 0..(MaxFailed - 1), locked : BOOLEAN]

\* Locals.  `row` is the failed_logins that was read, `stale` a history field:
\* the session had ended or the account was disabled when it was accepted.
Idle == [at |-> "idle", user |-> None, token |-> None, permission |-> None,
         target |-> None, role |-> None, row |-> 0, stale |-> FALSE]

Handler == [at : {"idle", "verify", "audit_success", "respond", "acting", "insert",
                  "delete_session", "audit"},
            user : User \cup {None}, token : Token \cup {None},
            permission : Permission \cup {None}, target : User \cup {None},
            role : Role \cup {None}, row : 0..(MaxFailed - 1), stale : BOOLEAN]

TypeOK ==
    /\ users \in [User -> UserRow]
    /\ sessions \subseteq [token : Token, user : User, expired : BOOLEAN]
    /\ signedIn \subseteq [user : User, token : Token]
    /\ handler \in [Thread -> Handler]
    /\ tokens \subseteq Token
    /\ held \subseteq Token
    /\ ended \subseteq Token
    /\ missed \in [User -> 0..MaxFailed]
    /\ due \in [User -> BOOLEAN]
    /\ overlapped \subseteq User
    /\ acts \subseteq [user : User, permission : Permission]

Init ==
    /\ users = [u \in User |-> NoUser]
    /\ sessions = {}
    /\ signedIn = {}
    /\ handler = [t \in Thread |-> Idle]
    /\ tokens = {}
    /\ held = {}
    /\ ended = {}
    /\ missed = [u \in User |-> 0]
    /\ due = [u \in User |-> FALSE]
    /\ overlapped = {}
    /\ acts = {}

----------------------------------------------------------------------------
At(t, place) == handler[t].at = place

Go(t, h) == handler' = [handler EXCEPT ![t] = h]

Done(t) == Go(t, Idle)

Exists(u) == users[u].role # None

----------------------------------------------------------------------------
(* POST /api/login.                                                        *)

LoadUserIgnoringLock(t, u) ==
    /\ At(t, "idle")
    /\ LET refused == ~Exists(u) \/ users[u].disabled
       IN  Go(t, IF refused THEN [Idle EXCEPT !.at = "audit"]
                 ELSE [Idle EXCEPT !.at = "verify", !.user = u, !.row = users[u].failed])
    /\ overlapped' = overlapped \cup
           {v \in {u} : \E o \in Thread : At(o, "verify") /\ handler[o].user = v}
    /\ UNCHANGED <<users, sessions, signedIn, tokens, held, ended, missed, due, acts>>

\* The row is read once.  An unknown, disabled or locked account ends here
\* with login.failed in the audit log; any other goes on to the password.
LoadUser(t, u) ==
    /\ At(t, "idle")
    /\ LET refused == ~Exists(u) \/ users[u].disabled \/ users[u].locked
       IN  Go(t, IF refused THEN [Idle EXCEPT !.at = "audit"]
                 ELSE [Idle EXCEPT !.at = "verify", !.user = u, !.row = users[u].failed])
    /\ overlapped' = overlapped \cup
           {v \in {u} : \E o \in Thread : At(o, "verify") /\ handler[o].user = v}
    /\ UNCHANGED <<users, sessions, signedIn, tokens, held, ended, missed, due, acts>>

LocksOneLate(failed) ==
    IF failed > MaxFailed THEN [failed |-> 0, locked |-> TRUE]
                          ELSE [failed |-> failed, locked |-> FALSE]

\* What a wrong password writes: one more than the count that was read, or a
\* lock and a count of zero.  Below the limit locked_until becomes NULL.
AfterFailure(failed) ==
    IF failed >= MaxFailed THEN [failed |-> 0, locked |-> TRUE]
                           ELSE [failed |-> failed, locked |-> FALSE]

WrongPassword(t) ==
    /\ At(t, "verify")
    /\ LET u == handler[t].user
           new == AfterFailure(handler[t].row + 1)
       IN  /\ users' = [users EXCEPT ![u].failed = new.failed,
                                     ![u].locked = new.locked]
           /\ missed' = [missed EXCEPT ![u] = IF new.locked THEN 0
                                      ELSE IF @ < MaxFailed THEN @ + 1 ELSE @]
           /\ due' = [due EXCEPT ![u] = @ \/ new.locked]
    /\ Go(t, [Idle EXCEPT !.at = "audit"])
    /\ UNCHANGED <<sessions, signedIn, tokens, held, ended, overlapped, acts>>

\* One transaction: counters reset, expired sessions deleted, session opened.
RightPassword(t, token) ==
    /\ At(t, "verify")
    /\ token \notin tokens
    /\ LET u == handler[t].user
       IN  /\ users' = [users EXCEPT ![u].failed = 0, ![u].locked = FALSE]
           /\ sessions' = {s \in sessions : ~s.expired} \cup
                              {[token |-> token, user |-> u, expired |-> FALSE]}
           /\ missed' = [missed EXCEPT ![u] = 0]
    /\ tokens' = tokens \cup {token}
    /\ Go(t, [handler[t] EXCEPT !.at = "audit_success", !.token = token])
    /\ UNCHANGED <<signedIn, held, ended, due, overlapped, acts>>

SignIn(t) == [user |-> handler[t].user, token |-> handler[t].token]

AuditSuccessIfPossible(t) ==
    /\ At(t, "audit_success")
    /\ signedIn' \in {signedIn, signedIn \cup {SignIn(t)}}
    /\ Go(t, [handler[t] EXCEPT !.at = "respond"])
    /\ UNCHANGED <<users, sessions, tokens, held, ended, missed, due, overlapped, acts>>

AuditSuccess(t) ==
    /\ At(t, "audit_success")
    /\ signedIn' = signedIn \cup {SignIn(t)}
    /\ Go(t, [handler[t] EXCEPT !.at = "respond"])
    /\ UNCHANGED <<users, sessions, tokens, held, ended, missed, due, overlapped, acts>>

\* The response with the cookie.
Respond(t) ==
    /\ At(t, "respond")
    /\ held' = held \cup {handler[t].token}
    /\ Done(t)
    /\ UNCHANGED <<users, sessions, signedIn, tokens, ended, missed, due, overlapped, acts>>

----------------------------------------------------------------------------
(* Every other request: user_for_token, then need(permission).             *)

AcceptsDisabled(s) == ~s.expired

\* user_for_token: the session's row joined with its user's.
Accepts(s) == ~users[s.user].disabled /\ ~s.expired

Authenticate(t, s, permission) ==
    /\ At(t, "idle")
    /\ s.token \in held
    /\ Accepts(s)
    /\ permission \in PERMISSIONS[users[s.user].role]
    /\ Go(t, [Idle EXCEPT !.at = "acting", !.user = s.user,
                          !.permission = permission,
                          !.stale = s.token \in ended \/ users[s.user].disabled])
    /\ UNCHANGED <<users, sessions, signedIn, tokens, held, ended, missed, due, overlapped, acts>>

\* `itds user add | disable`: no session, no self to protect.
RunCli(t) ==
    /\ At(t, "idle")
    /\ Go(t, [Idle EXCEPT !.at = "acting", !.permission = "users:manage"])
    /\ UNCHANGED <<users, sessions, signedIn, tokens, held, ended, missed, due, overlapped, acts>>

Acted(t) ==
    LET h == handler[t]
    IN  acts' = IF h.user = None THEN acts
                ELSE acts \cup {[user |-> h.user, permission |-> h.permission]}

\* A handler that manages no accounts does its work.
Perform(t) ==
    /\ At(t, "acting")
    /\ handler[t].permission # "users:manage"
    /\ Acted(t)
    /\ Done(t)
    /\ UNCHANGED <<users, sessions, signedIn, tokens, held, ended, missed, due, overlapped>>

\* set_disabled(username, True): one transaction.
Disable(t, u) ==
    /\ At(t, "acting")
    /\ handler[t].permission = "users:manage"
    /\ u # handler[t].user
    /\ Exists(u)
    /\ users' = [users EXCEPT ![u].disabled = TRUE]
    /\ sessions' = {s \in sessions : s.user # u}
    /\ Acted(t)
    /\ Go(t, [Idle EXCEPT !.at = "audit"])
    /\ UNCHANGED <<signedIn, tokens, held, ended, missed, due, overlapped>>

\* create_user: the SELECT runs before any transaction has begun ...
CheckNewUser(t, u, role) ==
    /\ At(t, "acting")
    /\ handler[t].permission = "users:manage"
    /\ ~Exists(u)
    /\ Go(t, [handler[t] EXCEPT !.at = "insert", !.target = u, !.role = role])
    /\ UNCHANGED <<users, sessions, signedIn, tokens, held, ended, missed, due, overlapped, acts>>

InsertOrReplaceUser(t) ==
    /\ At(t, "insert")
    /\ users' = [users EXCEPT ![handler[t].target] =
                     [NoUser EXCEPT !.role = handler[t].role]]
    /\ Acted(t)
    /\ Go(t, [Idle EXCEPT !.at = "audit"])
    /\ UNCHANGED <<sessions, signedIn, tokens, held, ended, missed, due, overlapped>>

\* ... so the primary key is what refuses a name taken meanwhile.
InsertUser(t) ==
    /\ At(t, "insert")
    /\ ~Exists(handler[t].target)
    /\ users' = [users EXCEPT ![handler[t].target] =
                     [NoUser EXCEPT !.role = handler[t].role]]
    /\ Acted(t)
    /\ Go(t, [Idle EXCEPT !.at = "audit"])
    /\ UNCHANGED <<sessions, signedIn, tokens, held, ended, missed, due, overlapped>>

----------------------------------------------------------------------------
(* POST /api/logout.                                                       *)

\* An unknown or refused token is deleted too, but nobody is audited for it.
Logout(t, token) ==
    /\ At(t, "idle")
    /\ token \in held
    /\ LET owners == {s.user : s \in {r \in sessions : r.token = token /\ Accepts(r)}}
       IN  \E u \in IF owners = {} THEN {None} ELSE owners :
               Go(t, [Idle EXCEPT !.at = "delete_session", !.user = u,
                                  !.token = token])
    /\ UNCHANGED <<users, sessions, signedIn, tokens, held, ended, missed, due, overlapped, acts>>

DeleteSession(t) ==
    /\ At(t, "delete_session")
    /\ sessions' = {s \in sessions : s.token # handler[t].token}
    /\ ended' = ended \cup {handler[t].token}
    /\ IF handler[t].user = None THEN Done(t)
       ELSE Go(t, [Idle EXCEPT !.at = "audit"])
    /\ UNCHANGED <<users, signedIn, tokens, held, missed, due, overlapped, acts>>

----------------------------------------------------------------------------
(* Deadlines and failures.                                                 *)

LockExpires(u) ==
    /\ due[u]
    /\ users' = [users EXCEPT ![u].locked = FALSE]
    /\ missed' = [missed EXCEPT ![u] = 0]
    /\ due' = [due EXCEPT ![u] = FALSE]
    /\ UNCHANGED <<sessions, signedIn, handler, tokens, held, ended, overlapped, acts>>

SessionExpires(s) ==
    /\ ~s.expired
    /\ sessions' = (sessions \ {s}) \cup {[s EXCEPT !.expired = TRUE]}
    /\ ended' = ended \cup {s.token}
    /\ UNCHANGED <<users, signedIn, handler, tokens, held, missed, due, overlapped, acts>>

\* login.failed, user.create, user.disable or logout goes to the audit log.
Record(t) ==
    /\ At(t, "audit")
    /\ Done(t)
    /\ UNCHANGED <<users, sessions, signedIn, tokens, held, ended, missed, due, overlapped, acts>>

Fail(t) ==
    /\ ~At(t, "idle")
    /\ Done(t)
    /\ UNCHANGED <<users, sessions, signedIn, tokens, held, ended, missed, due, overlapped, acts>>

Login(t) ==
    \/ \E u \in User : LoadUser(t, u)
    \/ WrongPassword(t)
    \/ \E token \in Token : RightPassword(t, token)
    \/ AuditSuccess(t)
    \/ Respond(t)

Serve(t) ==
    \/ \E s \in sessions, p \in Permission : Authenticate(t, s, p)
    \/ Perform(t)
    \/ \E token \in Token : Logout(t, token)
    \/ DeleteSession(t)

Manage(t) ==
    \/ RunCli(t)
    \/ \E u \in User : Disable(t, u)
    \/ \E u \in User, r \in Role : CheckNewUser(t, u, r)
    \/ InsertUser(t)

Next ==
    \/ \E t \in Thread : Login(t) \/ Serve(t) \/ Manage(t) \/ Record(t) \/ Fail(t)
    \/ \E u \in User : LockExpires(u)
    \/ \E s \in sessions : SessionExpires(s)

Spec == Init /\ [][Next]_vars

----------------------------------------------------------------------------
(* Properties that hold.                                                   *)

\* Once a session was logged out or expired, or its account was disabled, no
\* request is accepted on it, though a login that was under way when the
\* account was disabled still opens a session.
RevokedStaysOut == \A t \in Thread : At(t, "acting") => ~handler[t].stale

\* docs/PRIVACY.md:14: a session is in somebody's hands, and a request was ever
\* served to somebody, only with a sign in under that name in the audit log, though
\* the session is committed before it and a login may die in between.
SignInAudited ==
    /\ \A s \in sessions : s.token \in held => [user |-> s.user, token |-> s.token] \in signedIn
    /\ \A a \in acts : \E e \in signedIn : e.user = a.user

\* auth.py:10-11, "the person who creates accounts should not also be able to
\* approve reveals": over the whole history, whoever managed accounts did nothing
\* else but read the audit log.
SeparationOfDuties ==
    \A a, b \in acts :
        a.user = b.user /\ a.permission = "users:manage"
            => b.permission \in {"users:manage", "audit:read"}

\* auth.py:15: the password of an account cannot be got wrong MaxFailed times
\* without a lock, as long as no two logins of it overlap.
FailuresLock == \A u \in User \ overlapped : missed[u] < MaxFailed

\* auth.py:15: while no two of its logins overlap, an account that was locked
\* is locked until the 15 minutes are over: nothing else opens it.
LockLasts == \A u \in User \ overlapped : due[u] => users[u].locked

----------------------------------------------------------------------------
(* What the documentation says and the code does not keep.                 *)

\* auth.py:15, "Five failed logins lock an account for 15 minutes."
FiveFailuresLock == \A u \in User : missed[u] < MaxFailed
====
