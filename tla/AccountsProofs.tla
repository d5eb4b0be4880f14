---- MODULE AccountsProofs ----
(***************************************************************************)
(* Theorems about Accounts, for any users, roles, threads and tokens and   *)
(* any number of failures that locks.                                      *)
(***************************************************************************)
EXTENDS Accounts, TLAPS

----------------------------------------------------------------------------
(* The inductive invariant.                                                *)

\* Rows have their types; a name without an account has no counters either.
AccountsSound ==
    /\ users \in [User -> UserRow]
    /\ \A u \in User : ~Exists(u) => users[u].failed = 0 /\ ~users[u].locked

HistoryTyped ==
    /\ signedIn \subseteq [user : User, token : Token]
    /\ tokens \subseteq Token
    /\ held \subseteq tokens
    /\ ended \subseteq tokens
    /\ missed \in [User -> 0..MaxFailed]
    /\ due \in [User -> BOOLEAN]
    /\ overlapped \subseteq User

\* A token has one session, which is of an account, and which no longer works
\* once it ended.
SessionSound(s) ==
    /\ s.token \in tokens
    /\ Exists(s.user)
    /\ s.token \in ended => s.expired

SessionsSound ==
    /\ sessions \subseteq [token : Token, user : User, expired : BOOLEAN]
    /\ \A s \in sessions : SessionSound(s)
    /\ \A s, r \in sessions : s.token = r.token => s = r

Permitted(u, permission) == Exists(u) /\ permission \in PERMISSIONS[users[u].role]

\* Whoever did something has, and had, the role for it.
ActsSound ==
    /\ acts \subseteq [user : User, permission : Permission]
    /\ \A a \in acts : Permitted(a.user, a.permission)

\* What a handler whose locals are h knows about the tables, at each place.
Sound(h) ==
    /\ h \in Handler
    /\ h.at = "verify" => h.user \in User /\ Exists(h.user)
    /\ h.at \in {"audit_success", "respond", "delete_session"} => h.token \in tokens
    /\ h.at \in {"audit_success", "respond"} => h.user \in User
    /\ h.at \in {"acting", "insert"} =>
          /\ ~h.stale
          /\ h.permission \in Permission
          /\ h.user # None => h.user \in User /\ Permitted(h.user, h.permission)
    /\ h.at = "insert" => h.target \in User /\ h.role \in Role

HandlersSound ==
    /\ handler \in [Thread -> Handler]
    /\ \A t \in Thread : Sound(handler[t])

IInv ==
    /\ AccountsSound
    /\ HistoryTyped
    /\ SessionsSound
    /\ ActsSound
    /\ HandlersSound

LEMMA InvariantTypes == IInv => TypeOK
BY DEF IInv, AccountsSound, HistoryTyped, SessionsSound, ActsSound, HandlersSound, TypeOK

----------------------------------------------------------------------------
(* What no step takes back.                                                *)

\* An account keeps its role, and a token is never generated again.
Grows ==
    /\ \A u \in User : Exists(u) => Exists(u)' /\ users'[u].role = users[u].role
    /\ tokens \subseteq tokens'

\* A handler that stands still stays sound.
LEMMA SoundStable ==
    ASSUME NEW h, Sound(h), Grows
    PROVE  Sound(h)'
BY DEF Sound, Grows, Permitted

\* One handler moves on, to locals that are sound; all others stand still.
LEMMA OneMoves ==
    ASSUME HandlersSound, Grows, NEW t \in Thread, NEW h, Go(t, h), Sound(h)'
    PROVE  HandlersSound'
<1>1. h \in Handler
  BY DEF Sound
<1>2. handler' \in [Thread -> Handler]
  BY <1>1 DEF HandlersSound, Go
<1>3. ASSUME NEW o \in Thread
      PROVE  Sound(handler[o])'
  <2>1. CASE o = t
    BY <2>1 DEF Go, HandlersSound
  <2>2. CASE o # t
    <3>1. handler'[o] = handler[o]
      BY <2>2 DEF Go, HandlersSound
    <3>2. PICK k : k = handler[o]
      OBVIOUS
    <3>3. Sound(k)'
      BY <3>2, SoundStable DEF HandlersSound
    <3> QED
      BY <3>1, <3>2, <3>3
  <2> QED
    BY <2>1, <2>2
<1> QED
  BY <1>2, <1>3 DEF HandlersSound

LEMMA AllStand ==
    ASSUME HandlersSound, Grows, UNCHANGED handler
    PROVE  HandlersSound'
<1>1. ASSUME NEW o \in Thread
      PROVE  Sound(handler[o])'
  <2>1. PICK k : k = handler[o]
    OBVIOUS
  <2>2. Sound(k)'
    BY <2>1, SoundStable DEF HandlersSound
  <2> QED
    BY <2>1, <2>2
<1> QED
  BY <1>1 DEF HandlersSound

\* The locals with which a handler ends, or goes on to its audit entry.
LEMMA EndSound ==
    /\ Sound(Idle)
    /\ Sound([Idle EXCEPT !.at = "audit"])
<1>1. 0 \in 0..(MaxFailed - 1)
  BY AccountsAssumption
<1> QED
  BY <1>1 DEF Sound, Idle, Handler

LEMMA EndMoves ==
    ASSUME HandlersSound, Grows, NEW t \in Thread,
           Done(t) \/ Go(t, [Idle EXCEPT !.at = "audit"])
    PROVE  HandlersSound'
<1>1. PICK h : h \in {Idle, [Idle EXCEPT !.at = "audit"]} /\ Go(t, h)
  BY DEF Done
<1>2. Sound(h)
  BY <1>1, EndSound
<1>3. Sound(h)'
  BY <1>2, SoundStable
<1> QED
  BY <1>1, <1>3, OneMoves

----------------------------------------------------------------------------
(* Steps that leave the tables as they are.                                *)

Tables == <<users, sessions, tokens, ended, missed, due, acts>>

LEMMA TablesStand ==
    ASSUME IInv, UNCHANGED Tables, signedIn' \subseteq [user : User, token : Token],
           held' \subseteq tokens, overlapped' \subseteq User
    PROVE  AccountsSound' /\ HistoryTyped' /\ SessionsSound' /\ ActsSound' /\ Grows
<1>1. AccountsSound'
  BY DEF Tables, IInv, AccountsSound, Exists
<1>2. HistoryTyped'
  BY DEF Tables, IInv, HistoryTyped
<1>3. SessionsSound'
  BY DEF Tables, IInv, SessionsSound, SessionSound, Exists
<1>4. ActsSound'
  BY DEF Tables, IInv, ActsSound, Permitted, Exists
<1>5. Grows
  BY DEF Tables, Grows, Exists
<1> QED
  BY <1>1, <1>2, <1>3, <1>4, <1>5

\* A step that only reads the tables and moves one handler on.
LEMMA ReadKeeps ==
    ASSUME IInv, UNCHANGED <<users, sessions, signedIn, tokens, held, ended, missed, due,
                             overlapped, acts>>,
           NEW t \in Thread, NEW h, Go(t, h), Sound(h)'
    PROVE  IInv'
<1>1. /\ UNCHANGED Tables /\ signedIn' \subseteq [user : User, token : Token]
      /\ held' \subseteq tokens /\ overlapped' \subseteq User
  BY DEF Tables, IInv, HistoryTyped
<1> QED
  BY <1>1, TablesStand, OneMoves DEF IInv

LEMMA EndKeeps ==
    ASSUME IInv, UNCHANGED <<users, sessions, signedIn, tokens, held, ended, missed, due,
                             overlapped, acts>>,
           NEW t \in Thread, Done(t)
    PROVE  IInv'
<1>1. /\ UNCHANGED Tables /\ signedIn' \subseteq [user : User, token : Token]
      /\ held' \subseteq tokens /\ overlapped' \subseteq User
  BY DEF Tables, IInv, HistoryTyped
<1> QED
  BY <1>1, TablesStand, EndMoves DEF IInv

LEMMA LoadUserKeeps ==
    ASSUME IInv, NEW t \in Thread, NEW u \in User, LoadUser(t, u)
    PROVE  IInv'
<1>1. PICK refused \in BOOLEAN : refused <=> ~Exists(u) \/ users[u].disabled \/ users[u].locked
  OBVIOUS
<1>2. PICK h : h = IF refused THEN [Idle EXCEPT !.at = "audit"]
                   ELSE [Idle EXCEPT !.at = "verify", !.user = u, !.row = users[u].failed]
  OBVIOUS
<1>3. Go(t, h)
  BY <1>1, <1>2 DEF LoadUser
<1>4. UNCHANGED Tables /\ UNCHANGED <<signedIn, held>> /\ overlapped' \subseteq User
  BY DEF LoadUser, Tables, IInv, HistoryTyped
<1>5. Sound(h)
  <2>1. CASE refused
    BY <1>2, <2>1, EndSound
  <2>2. CASE ~refused
    <3>1. users[u].failed \in 0..(MaxFailed - 1)
      BY DEF IInv, AccountsSound, UserRow
    <3> QED
      BY <1>1, <1>2, <2>2, <3>1 DEF Sound, Idle, Handler
  <2> QED
    BY <2>1, <2>2
<1>6. AccountsSound' /\ HistoryTyped' /\ SessionsSound' /\ ActsSound' /\ Grows
  BY <1>4, TablesStand DEF IInv, HistoryTyped
<1> QED
  BY <1>3, <1>5, <1>6, SoundStable, OneMoves DEF IInv

LEMMA AuthenticateKeeps ==
    ASSUME IInv, NEW t \in Thread, NEW s \in sessions, NEW p \in Permission,
           Authenticate(t, s, p)
    PROVE  IInv'
<1>1. /\ s.user \in User /\ SessionSound(s)
      /\ ~users[s.user].disabled /\ ~s.expired
  BY DEF Authenticate, Accepts, IInv, SessionsSound
<1>2. PICK h : h = [Idle EXCEPT !.at = "acting", !.user = s.user, !.permission = p,
                                !.stale = s.token \in ended \/ users[s.user].disabled]
  OBVIOUS
<1>3. /\ Go(t, h)
      /\ UNCHANGED <<users, sessions, signedIn, tokens, held, ended, missed, due,
                     overlapped, acts>>
  BY <1>2 DEF Authenticate
<1>4. Permitted(s.user, p)
  BY <1>1 DEF Authenticate, SessionSound, Permitted
<1>5. (s.token \in ended \/ users[s.user].disabled) = FALSE
  BY <1>1 DEF SessionSound
<1>6. h = [Idle EXCEPT !.at = "acting", !.user = s.user, !.permission = p, !.stale = FALSE]
  BY <1>2, <1>5
<1>7. 0 \in 0..(MaxFailed - 1)
  BY AccountsAssumption
<1>8. Sound(h)
  BY <1>1, <1>4, <1>6, <1>7 DEF Sound, Idle, Handler
<1>9. Grows
  BY <1>3 DEF Grows, Exists
<1> QED
  BY <1>3, <1>8, <1>9, SoundStable, ReadKeeps

LEMMA RunCliKeeps ==
    ASSUME IInv, NEW t \in Thread, RunCli(t)
    PROVE  IInv'
<1>1. PICK h : h = [Idle EXCEPT !.at = "acting", !.permission = "users:manage"]
  OBVIOUS
<1>2. 0 \in 0..(MaxFailed - 1)
  BY AccountsAssumption
<1>3. Sound(h)'
  BY <1>1, <1>2 DEF Sound, Idle, Handler, Permission
<1> QED
  BY <1>1, <1>3, ReadKeeps DEF RunCli

LEMMA LogoutKeeps ==
    ASSUME IInv, NEW t \in Thread, NEW token \in Token, Logout(t, token)
    PROVE  IInv'
<1>1. PICK owner \in User \cup {None} :
          Go(t, [Idle EXCEPT !.at = "delete_session", !.user = owner, !.token = token])
  BY DEF Logout, IInv, SessionsSound
<1>2. PICK h : h = [Idle EXCEPT !.at = "delete_session", !.user = owner, !.token = token]
  OBVIOUS
<1>3. 0 \in 0..(MaxFailed - 1)
  BY AccountsAssumption
<1>4. token \in tokens'
  BY DEF Logout, IInv, HistoryTyped
<1>5. Sound(h)'
  BY <1>2, <1>3, <1>4 DEF Sound, Idle, Handler
<1> QED
  BY <1>1, <1>2, <1>5, ReadKeeps DEF Logout

LEMMA CheckNewUserKeeps ==
    ASSUME IInv, NEW t \in Thread, NEW u \in User, NEW role \in Role,
           CheckNewUser(t, u, role)
    PROVE  IInv'
<1>1. PICK k : k = handler[t]
  OBVIOUS
<1>2. Sound(k) /\ k.at = "acting"
  BY <1>1 DEF IInv, HandlersSound, CheckNewUser, At
<1>3. PICK h : h = [k EXCEPT !.at = "insert", !.target = u, !.role = role]
  OBVIOUS
<1>4. /\ h \in Handler /\ h.at = "insert" /\ h.target = u /\ h.role = role
      /\ h.stale = k.stale /\ h.permission = k.permission /\ h.user = k.user
  BY <1>2, <1>3 DEF Sound, Handler
<1>5. Sound(h)
  BY <1>2, <1>4 DEF Sound
<1>6. Grows
  BY DEF CheckNewUser, Grows, Exists
<1>7. Go(t, h)
  BY <1>1, <1>3 DEF CheckNewUser
<1> QED
  BY <1>5, <1>6, <1>7, SoundStable, ReadKeeps DEF CheckNewUser

----------------------------------------------------------------------------
(* The steps that write.                                                   *)

\* One row of users changes, which is of an account and stays of its role.
LEMMA RowChanges ==
    ASSUME IInv, NEW u \in User, NEW row \in UserRow, Exists(u), row.role = users[u].role,
           users' = [users EXCEPT ![u] = row], tokens \subseteq tokens'
    PROVE  /\ AccountsSound' /\ Grows
           /\ \A v \in User : \A p : Permitted(v, p) => Permitted(v, p)'
<1>1. /\ users' \in [User -> UserRow]
      /\ users'[u] = row
      /\ \A v \in User : v # u => users'[v] = users[v]
  BY DEF IInv, AccountsSound
<1>2. AccountsSound'
  BY <1>1 DEF IInv, AccountsSound, Exists
<1>3. \A v \in User : users'[v].role = users[v].role
  BY <1>1
<1> QED
  BY <1>2, <1>3 DEF Grows, Permitted, Exists

LEMMA WrongPasswordKeeps ==
    ASSUME IInv, NEW t \in Thread, WrongPassword(t)
    PROVE  IInv'
<1>1. PICK u : u = handler[t].user
  OBVIOUS
<1>2. u \in User /\ Exists(u) /\ handler[t].row \in 0..(MaxFailed - 1)
  BY <1>1 DEF WrongPassword, At, IInv, HandlersSound, Sound, Handler
<1>3. PICK new : new = AfterFailure(handler[t].row + 1)
  OBVIOUS
<1>4. new.failed \in 0..(MaxFailed - 1) /\ new.locked \in BOOLEAN
  BY <1>2, <1>3, AccountsAssumption DEF AfterFailure
<1>5. PICK row : row = [users[u] EXCEPT !.failed = new.failed, !.locked = new.locked]
  OBVIOUS
<1>6. row \in UserRow /\ row.role = users[u].role
  BY <1>2, <1>4, <1>5 DEF IInv, AccountsSound, UserRow
<1>7. users' = [users EXCEPT ![u] = row]
  BY <1>1, <1>2, <1>3, <1>5 DEF WrongPassword, IInv, AccountsSound, UserRow
<1>8. /\ AccountsSound' /\ Grows
      /\ \A v \in User : \A p : Permitted(v, p) => Permitted(v, p)'
  BY <1>2, <1>6, <1>7, RowChanges DEF WrongPassword
<1>9. HistoryTyped'
  <2>1. missed' = [missed EXCEPT ![u] = IF new.locked THEN 0
                                  ELSE IF @ < MaxFailed THEN @ + 1 ELSE @]
    BY <1>1, <1>3 DEF WrongPassword
  <2>2. due' = [due EXCEPT ![u] = @ \/ new.locked]
    BY <1>1, <1>3 DEF WrongPassword
  <2>3. missed' \in [User -> 0..MaxFailed]
    BY <1>2, <2>1, AccountsAssumption DEF IInv, HistoryTyped
  <2>4. due' \in [User -> BOOLEAN]
    BY <2>2 DEF IInv, HistoryTyped
  <2> QED
    BY <2>3, <2>4 DEF WrongPassword, IInv, HistoryTyped
<1>10. SessionsSound'
  BY <1>8 DEF WrongPassword, IInv, SessionsSound, SessionSound, Grows
<1>11. ActsSound'
  BY <1>8 DEF WrongPassword, IInv, ActsSound
<1>12. HandlersSound'
  BY <1>8, EndMoves DEF WrongPassword, IInv
<1> QED
  BY <1>8, <1>9, <1>10, <1>11, <1>12 DEF IInv

LEMMA RightPasswordKeeps ==
    ASSUME IInv, NEW t \in Thread, NEW token \in Token, RightPassword(t, token)
    PROVE  IInv'
<1>1. PICK u : u = handler[t].user
  OBVIOUS
<1>2. u \in User /\ Exists(u)
  BY <1>1 DEF RightPassword, At, IInv, HandlersSound, Sound
<1>3. 0 \in 0..(MaxFailed - 1) /\ 0 \in 0..MaxFailed
  BY AccountsAssumption
<1>4. PICK row : row = [users[u] EXCEPT !.failed = 0, !.locked = FALSE]
  OBVIOUS
<1>5. row \in UserRow /\ row.role = users[u].role
  BY <1>2, <1>3, <1>4 DEF IInv, AccountsSound, UserRow
<1>6. users' = [users EXCEPT ![u] = row]
  BY <1>1, <1>2, <1>4 DEF RightPassword, IInv, AccountsSound, UserRow
<1>7. tokens' = tokens \cup {token} /\ token \notin tokens
  BY DEF RightPassword
<1>8. /\ AccountsSound' /\ Grows
      /\ \A v \in User : \A p : Permitted(v, p) => Permitted(v, p)'
  BY <1>2, <1>5, <1>6, <1>7, RowChanges
<1>9. HistoryTyped'
  BY <1>1, <1>3, <1>7 DEF RightPassword, IInv, HistoryTyped
<1>10. SessionsSound'
  <2>1. PICK new : new = [token |-> token, user |-> u, expired |-> FALSE]
    OBVIOUS
  <2>2. sessions' = {s \in sessions : ~s.expired} \cup {new}
    BY <1>1, <2>1 DEF RightPassword
  <2>3. /\ new.token = token /\ new.user = u
        /\ new \in [token : Token, user : User, expired : BOOLEAN]
    BY <1>2, <2>1
  <2>4. \A s \in sessions : SessionSound(s)'
    BY <1>7, <1>8 DEF RightPassword, IInv, SessionsSound, SessionSound, Grows
  <2>5. SessionSound(new)'
    BY <1>2, <1>7, <1>8, <2>3 DEF RightPassword, IInv, HistoryTyped, SessionSound, Grows
  <2>6. \A s \in sessions : s.token # token
    BY <1>7 DEF IInv, SessionsSound, SessionSound
  <2> QED
    BY <2>2, <2>3, <2>4, <2>5, <2>6 DEF IInv, SessionsSound
<1>11. ActsSound'
  BY <1>8 DEF RightPassword, IInv, ActsSound
<1>12. PICK h : h = [handler[t] EXCEPT !.at = "audit_success", !.token = token]
  OBVIOUS
<1>13. Go(t, h)
  BY <1>12 DEF RightPassword
<1>14. Sound(h)'
  <2>1. handler[t] \in Handler
    BY DEF IInv, HandlersSound
  <2>2. h \in Handler /\ h.at = "audit_success" /\ h.token = token /\ h.user = u
    BY <1>1, <1>12, <2>1 DEF Handler
  <2> QED
    BY <1>2, <1>7, <2>2 DEF Sound
<1> QED
  BY <1>8, <1>9, <1>10, <1>11, <1>13, <1>14, OneMoves DEF IInv

\* The locals of a login that opened a session, at its next place.
LEMMA LoginGoesOn ==
    ASSUME NEW k, Sound(k), k.at = "audit_success",
           NEW h, h = [k EXCEPT !.at = "respond"]
    PROVE  Sound(h) /\ h.at = "respond" /\ h.user = k.user /\ h.token = k.token
BY DEF Sound, Handler

LEMMA AuditSuccessKeeps ==
    ASSUME IInv, NEW t \in Thread, AuditSuccess(t)
    PROVE  IInv'
<1>1. PICK k : k = handler[t]
  OBVIOUS
<1>2. Sound(k) /\ k.at = "audit_success"
  BY <1>1 DEF AuditSuccess, At, IInv, HandlersSound
<1>3. PICK h : h = [k EXCEPT !.at = "respond"]
  OBVIOUS
<1>4. Go(t, h)
  BY <1>1, <1>3 DEF AuditSuccess
<1>5. Sound(h)
  BY <1>2, <1>3, LoginGoesOn
<1>6. SignIn(t) \in [user : User, token : Token]
  BY <1>1, <1>2 DEF SignIn, Sound, IInv, HistoryTyped
<1>7. /\ UNCHANGED Tables /\ signedIn' \subseteq [user : User, token : Token]
      /\ held' \subseteq tokens /\ overlapped' \subseteq User
  BY <1>6 DEF AuditSuccess, Tables, IInv, HistoryTyped
<1>8. AccountsSound' /\ HistoryTyped' /\ SessionsSound' /\ ActsSound' /\ Grows
  BY <1>7, TablesStand
<1> QED
  BY <1>4, <1>5, <1>8, SoundStable, OneMoves DEF IInv

LEMMA RespondKeeps ==
    ASSUME IInv, NEW t \in Thread, Respond(t)
    PROVE  IInv'
<1>1. handler[t].token \in tokens
  BY DEF Respond, At, IInv, HandlersSound, Sound
<1>2. /\ UNCHANGED Tables /\ signedIn' \subseteq [user : User, token : Token]
      /\ held' \subseteq tokens /\ overlapped' \subseteq User
  BY <1>1 DEF Respond, Tables, IInv, HistoryTyped
<1> QED
  BY <1>2, TablesStand, EndMoves DEF Respond, IInv

\* Somebody acted, as their handler was permitted to.
LEMMA ActedKeeps ==
    ASSUME IInv, NEW t \in Thread, At(t, "acting") \/ At(t, "insert"), Acted(t), Grows
    PROVE  ActsSound'
<1>1. PICK h : h = handler[t]
  OBVIOUS
<1>2. /\ h.permission \in Permission
      /\ h.user # None => h.user \in User /\ Permitted(h.user, h.permission)
  BY <1>1 DEF IInv, HandlersSound, Sound, At
<1>3. \A a \in acts : Permitted(a.user, a.permission)'
  BY DEF IInv, ActsSound, Permitted, Grows
<1>4. CASE h.user = None
  BY <1>1, <1>3, <1>4 DEF Acted, IInv, ActsSound
<1>5. CASE h.user # None
  <2>1. PICK a : a = [user |-> h.user, permission |-> h.permission]
    OBVIOUS
  <2>2. acts' = acts \cup {a}
    BY <1>1, <1>5, <2>1 DEF Acted
  <2>3. a \in [user : User, permission : Permission] /\ Permitted(a.user, a.permission)'
    BY <1>2, <1>5, <2>1 DEF Permitted, Grows
  <2> QED
    BY <1>3, <2>2, <2>3 DEF IInv, ActsSound
<1> QED
  BY <1>4, <1>5

LEMMA PerformKeeps ==
    ASSUME IInv, NEW t \in Thread, Perform(t)
    PROVE  IInv'
<1>1. Grows
  BY DEF Perform, Grows, Exists
<1>2. ActsSound'
  BY <1>1, ActedKeeps DEF Perform
<1>3. AccountsSound' /\ HistoryTyped' /\ SessionsSound'
  BY DEF Perform, IInv, AccountsSound, HistoryTyped, SessionsSound, SessionSound, Exists
<1>4. HandlersSound'
  BY <1>1, EndMoves DEF Perform, IInv
<1> QED
  BY <1>2, <1>3, <1>4 DEF IInv

LEMMA DisableKeeps ==
    ASSUME IInv, NEW t \in Thread, NEW u \in User, Disable(t, u)
    PROVE  IInv'
<1>1. PICK row : row = [users[u] EXCEPT !.disabled = TRUE]
  OBVIOUS
<1>2. /\ row \in UserRow /\ row.role = users[u].role
      /\ users' = [users EXCEPT ![u] = row]
  BY <1>1 DEF Disable, IInv, AccountsSound, UserRow
<1>3. AccountsSound' /\ Grows
  BY <1>2, RowChanges DEF Disable
<1>4. HistoryTyped'
  BY DEF Disable, IInv, HistoryTyped
<1>5. SessionsSound'
  BY <1>3 DEF Disable, IInv, SessionsSound, SessionSound, Grows
<1>6. ActsSound'
  BY <1>3, ActedKeeps DEF Disable
<1>7. HandlersSound'
  BY <1>3, EndMoves DEF Disable, IInv
<1> QED
  BY <1>3, <1>4, <1>5, <1>6, <1>7 DEF IInv

LEMMA InsertUserKeeps ==
    ASSUME IInv, NEW t \in Thread, InsertUser(t)
    PROVE  IInv'
<1>1. PICK u : u = handler[t].target
  OBVIOUS
<1>2. u \in User /\ handler[t].role \in Role /\ ~Exists(u)
  BY <1>1 DEF InsertUser, At, IInv, HandlersSound, Sound
<1>3. PICK row : row = [NoUser EXCEPT !.role = handler[t].role]
  OBVIOUS
<1>4. row \in UserRow /\ row.role # None
  <2>1. 0 \in 0..(MaxFailed - 1) /\ handler[t].role # None
    BY <1>2, AccountsAssumption
  <2>2. row = [role |-> handler[t].role, disabled |-> FALSE, failed |-> 0, locked |-> FALSE]
    BY <1>3 DEF NoUser
  <2> QED
    BY <1>2, <2>1, <2>2 DEF UserRow
<1>5. users' = [users EXCEPT ![u] = row]
  BY <1>1, <1>3 DEF InsertUser
<1>6. /\ users' \in [User -> UserRow]
      /\ users'[u] = row
      /\ \A v \in User : v # u => users'[v] = users[v]
  BY <1>2, <1>4, <1>5 DEF IInv, AccountsSound
<1>7. AccountsSound'
  BY <1>4, <1>6 DEF IInv, AccountsSound, Exists
<1>8. Grows
  BY <1>2, <1>4, <1>6 DEF InsertUser, Grows, Exists
<1>9. HistoryTyped'
  BY DEF InsertUser, IInv, HistoryTyped
<1>10. SessionsSound'
  BY <1>8 DEF InsertUser, IInv, SessionsSound, SessionSound, Grows
<1>11. ActsSound'
  BY <1>8, ActedKeeps DEF InsertUser
<1>12. HandlersSound'
  BY <1>8, EndMoves DEF InsertUser, IInv
<1> QED
  BY <1>7, <1>9, <1>10, <1>11, <1>12 DEF IInv

LEMMA DeleteSessionKeeps ==
    ASSUME IInv, NEW t \in Thread, DeleteSession(t)
    PROVE  IInv'
<1>1. handler[t].token \in tokens
  BY DEF DeleteSession, At, IInv, HandlersSound, Sound
<1>2. AccountsSound' /\ ActsSound' /\ Grows
  BY DEF DeleteSession, IInv, AccountsSound, ActsSound, Permitted, Exists, Grows
<1>3. HistoryTyped'
  BY <1>1 DEF DeleteSession, IInv, HistoryTyped
<1>4. SessionsSound'
  BY DEF DeleteSession, IInv, SessionsSound, SessionSound, Exists
<1>5. HandlersSound'
  BY <1>2, EndMoves DEF DeleteSession, IInv
<1> QED
  BY <1>2, <1>3, <1>4, <1>5 DEF IInv

LEMMA LockExpiresKeeps ==
    ASSUME IInv, NEW u \in User, LockExpires(u)
    PROVE  IInv'
<1>1. 0 \in 0..MaxFailed
  BY AccountsAssumption
<1>2. PICK row : row = [users[u] EXCEPT !.locked = FALSE]
  OBVIOUS
<1>3. /\ row \in UserRow /\ row.role = users[u].role
      /\ row.failed = users[u].failed /\ ~row.locked
      /\ users' = [users EXCEPT ![u] = row]
  BY <1>2 DEF LockExpires, IInv, AccountsSound, UserRow
<1>4. /\ users' \in [User -> UserRow]
      /\ users'[u] = row
      /\ \A v \in User : v # u => users'[v] = users[v]
  BY <1>3 DEF IInv, AccountsSound
<1>5. AccountsSound'
  BY <1>3, <1>4 DEF IInv, AccountsSound, Exists
<1>6. Grows
  BY <1>3, <1>4 DEF LockExpires, Grows, Exists
<1>7. HistoryTyped'
  BY <1>1 DEF LockExpires, IInv, HistoryTyped
<1>8. SessionsSound'
  BY <1>6 DEF LockExpires, IInv, SessionsSound, SessionSound, Grows
<1>9. ActsSound'
  BY <1>6 DEF LockExpires, IInv, ActsSound, Permitted, Grows
<1>10. HandlersSound'
  BY <1>6, AllStand DEF LockExpires, IInv
<1> QED
  BY <1>5, <1>7, <1>8, <1>9, <1>10 DEF IInv

LEMMA SessionExpiresKeeps ==
    ASSUME IInv, NEW s \in sessions, SessionExpires(s)
    PROVE  IInv'
<1>1. AccountsSound' /\ ActsSound' /\ Grows
  BY DEF SessionExpires, IInv, AccountsSound, ActsSound, Permitted, Exists, Grows
<1>2. s.token \in tokens
  BY DEF IInv, SessionsSound, SessionSound
<1>3. HistoryTyped'
  BY <1>2 DEF SessionExpires, IInv, HistoryTyped
<1>4. SessionsSound'
  <2>1. PICK e : e = [s EXCEPT !.expired = TRUE]
    OBVIOUS
  <2>2. /\ e \in [token : Token, user : User, expired : BOOLEAN]
        /\ e.token = s.token /\ e.user = s.user /\ e.expired
    BY <2>1 DEF IInv, SessionsSound
  <2>3. sessions' = (sessions \ {s}) \cup {e} /\ ended' = ended \cup {s.token}
    BY <2>1 DEF SessionExpires
  <2>4. \A r \in sessions : r # s => SessionSound(r)' /\ r.token # e.token
    BY <1>1, <2>2, <2>3 DEF SessionExpires, IInv, SessionsSound, SessionSound, Grows
  <2>5. SessionSound(e)'
    BY <1>1, <1>2, <2>2, <2>3 DEF SessionExpires, IInv, SessionsSound, SessionSound, Grows
  <2> QED
    BY <2>2, <2>3, <2>4, <2>5 DEF IInv, SessionsSound
<1>5. HandlersSound'
  BY <1>1, AllStand DEF SessionExpires, IInv
<1> QED
  BY <1>1, <1>3, <1>4, <1>5 DEF IInv

----------------------------------------------------------------------------
(* The theorems that need no more than this invariant.                     *)

LEMMA Starts == Init => IInv
<1>1. 0 \in 0..(MaxFailed - 1) /\ 0 \in 0..MaxFailed
  BY AccountsAssumption
<1>2. NoUser \in UserRow /\ NoUser.role = None /\ NoUser.failed = 0 /\ ~NoUser.locked
  BY <1>1 DEF NoUser, UserRow
<1> SUFFICES ASSUME Init PROVE IInv
  OBVIOUS
<1>3. AccountsSound
  BY <1>2 DEF Init, AccountsSound, Exists
<1>4. HistoryTyped /\ SessionsSound /\ ActsSound
  BY <1>1 DEF Init, HistoryTyped, SessionsSound, ActsSound
<1>5. Idle \in Handler /\ Sound(Idle)
  BY <1>1, EndSound DEF Sound
<1>6. HandlersSound
  BY <1>5 DEF Init, HandlersSound
<1> QED
  BY <1>3, <1>4, <1>6 DEF IInv

LEMMA StepKeeps ==
    ASSUME IInv, [Next]_vars
    PROVE  IInv'
<1>1. ASSUME NEW t \in Thread, Login(t)
      PROVE  IInv'
  BY <1>1, LoadUserKeeps, WrongPasswordKeeps, RightPasswordKeeps, AuditSuccessKeeps,
     RespondKeeps DEF Login
<1>2. ASSUME NEW t \in Thread, Serve(t)
      PROVE  IInv'
  BY <1>2, AuthenticateKeeps, PerformKeeps, LogoutKeeps, DeleteSessionKeeps DEF Serve
<1>3. ASSUME NEW t \in Thread, Manage(t)
      PROVE  IInv'
  BY <1>3, RunCliKeeps, DisableKeeps, CheckNewUserKeeps, InsertUserKeeps DEF Manage
<1>4. ASSUME NEW t \in Thread, Record(t) \/ Fail(t)
      PROVE  IInv'
  BY <1>4, EndKeeps DEF Record, Fail
<1>5. CASE UNCHANGED vars
  BY <1>5 DEF vars, IInv, AccountsSound, HistoryTyped, SessionsSound, SessionSound,
              ActsSound, Permitted, Exists, HandlersSound, Sound
<1> QED
  BY <1>1, <1>2, <1>3, <1>4, <1>5, LockExpiresKeeps, SessionExpiresKeeps DEF Next

LEMMA Inductive == Spec => []IInv
<1>1. Init => IInv
  BY Starts
<1>2. IInv /\ [Next]_vars => IInv'
  BY StepKeeps
<1> QED
  BY <1>1, <1>2, PTL DEF Spec

\* Every table, history and handler's locals keep their types; in particular
\* no row ever holds MAX_FAILED failures (auth.py:205, the lock writes 0).
THEOREM TypeCorrect == Spec => []TypeOK
BY Inductive, InvariantTypes, PTL

\* user_for_token accepts no session that was logged out or expired, nor one
\* of a disabled account, however logins, logouts and disabling interleave.
THEOREM RevokedSessions == Spec => []RevokedStaysOut
<1>1. IInv => RevokedStaysOut
  BY DEF IInv, HandlersSound, Sound, RevokedStaysOut, At
<1> QED
  BY <1>1, Inductive, PTL

\* Whoever managed accounts did nothing else, in the whole history, but read the
\* audit log: `need` asks for the permission of each handler, PERMISSIONS gives an
\* admin no other, and no handler changes the role of an account.
THEOREM DutiesSeparate == Spec => []SeparationOfDuties
<1>1. ASSUME IInv, NEW a \in acts, NEW b \in acts, a.user = b.user,
             a.permission = "users:manage"
      PROVE  b.permission \in {"users:manage", "audit:read"}
  <2>1. PICK role : role = users[a.user].role
    OBVIOUS
  <2>2. role \in RoleNames
    BY <1>1, <2>1, AccountsAssumption
       DEF IInv, AccountsSound, ActsSound, UserRow, Permitted, Exists
  <2>3. a.permission \in PERMISSIONS[role] /\ b.permission \in PERMISSIONS[role]
    BY <1>1, <2>1 DEF IInv, ActsSound, Permitted
  <2> QED
    BY <1>1, <2>2, <2>3 DEF PERMISSIONS, RoleNames
<1>2. IInv => SeparationOfDuties
  BY <1>1 DEF SeparationOfDuties
<1> QED
  BY <1>2, Inductive, PTL

----------------------------------------------------------------------------
(* Sign ins: the session is committed first, the entry second, and the     *)
(* response is sent third, by a handler that may die in between.           *)

Named(u) == \E e \in signedIn : e.user = u

\* What a handler whose locals are h knows of the sign in it is, or acts on.
Known(h) ==
    /\ h.at \in {"audit_success", "respond"} =>
          \A s \in sessions : s.token = h.token => s.user = h.user
    /\ h.at = "respond" => [user |-> h.user, token |-> h.token] \in signedIn
    /\ h.at \in {"acting", "insert"} /\ h.user # None => Named(h.user)

SignIns == SignInAudited /\ \A t \in Thread : Known(handler[t])

\* No session is opened, and no sign in forgotten.
NoSessionOpens ==
    /\ \A s \in sessions' : \E r \in sessions : r.token = s.token /\ r.user = s.user
    /\ signedIn \subseteq signedIn'

LEMMA KnownStands ==
    ASSUME NEW h, Known(h), NoSessionOpens
    PROVE  Known(h)'
BY DEF Known, NoSessionOpens, Named

\* What is held and what was done is audited, if that is so of what was added.
LEMMA AuditedStands ==
    ASSUME SignInAudited, NoSessionOpens,
           \A s \in sessions : s.token \in held' \ held
               => [user |-> s.user, token |-> s.token] \in signedIn,
           \A a \in acts' \ acts : Named(a.user)
    PROVE  SignInAudited'
<1>1. \A s \in sessions : s.token \in held' => [user |-> s.user, token |-> s.token] \in signedIn
  BY DEF SignInAudited
<1>2. ASSUME NEW s \in sessions', s.token \in held'
      PROVE  [user |-> s.user, token |-> s.token] \in signedIn'
  <2>1. PICK r \in sessions : r.token = s.token /\ r.user = s.user
    BY DEF NoSessionOpens
  <2> QED
    BY <1>1, <1>2, <2>1 DEF NoSessionOpens
<1>3. ASSUME NEW a \in acts'
      PROVE  \E e \in signedIn' : e.user = a.user
  <2>1. Named(a.user)
    BY DEF SignInAudited, Named
  <2> QED
    BY <2>1 DEF Named, NoSessionOpens
<1> QED
  BY <1>2, <1>3 DEF SignInAudited

\* One handler moves on, to locals that are known; all others stand still.
LEMMA KnownMoves ==
    ASSUME IInv, SignIns, NoSessionOpens, NEW t \in Thread, NEW h, Go(t, h), Known(h)'
    PROVE  \A o \in Thread : Known(handler[o])'
<1>1. handler'[t] = h /\ \A o \in Thread : o # t => handler'[o] = handler[o]
  BY DEF IInv, HandlersSound, Go
<1>2. ASSUME NEW o \in Thread
      PROVE  Known(handler[o])'
  <2>1. CASE o = t
    BY <1>1, <2>1
  <2>2. CASE o # t
    <3>1. PICK k : k = handler[o]
      OBVIOUS
    <3>2. Known(k)'
      BY <3>1, KnownStands DEF SignIns
    <3> QED
      BY <1>1, <2>2, <3>1, <3>2
  <2> QED
    BY <2>1, <2>2
<1> QED
  BY <1>2

LEMMA EndKnown ==
    ASSUME IInv, SignIns, NoSessionOpens, NEW t \in Thread,
           Done(t) \/ Go(t, [Idle EXCEPT !.at = "audit"])
    PROVE  \A o \in Thread : Known(handler[o])'
<1>1. PICK h : h \in {Idle, [Idle EXCEPT !.at = "audit"]} /\ Go(t, h)
  BY DEF Done
<1>2. Known(h)'
  BY <1>1 DEF Known, Idle
<1> QED
  BY <1>1, <1>2, KnownMoves

\* A step that opens no session, responds to no login and serves no request.
LEMMA ReadKeepsSignIns ==
    ASSUME IInv, SignIns, NoSessionOpens, UNCHANGED <<held, acts>>,
           \A o \in Thread : Known(handler[o])'
    PROVE  SignIns'
BY AuditedStands DEF SignIns

LEMMA RightPasswordKeepsSignIns ==
    ASSUME IInv, SignIns, NEW t \in Thread, NEW token \in Token, RightPassword(t, token)
    PROVE  SignIns'
<1>1. PICK u : u = handler[t].user
  OBVIOUS
<1>2. PICK new : new = [token |-> token, user |-> u, expired |-> FALSE]
  OBVIOUS
<1>3. /\ sessions' = {s \in sessions : ~s.expired} \cup {new}
      /\ new.token = token /\ new.user = u
      /\ UNCHANGED <<signedIn, held, acts>>
  BY <1>1, <1>2 DEF RightPassword
<1>4. token \notin tokens /\ token \notin held /\ \A s \in sessions : s.token # token
  BY DEF RightPassword, IInv, HistoryTyped, SessionsSound, SessionSound
<1>5. SignInAudited'
  BY <1>3, <1>4 DEF SignIns, SignInAudited
<1>6. PICK h : h = [handler[t] EXCEPT !.at = "audit_success", !.token = token]
  OBVIOUS
<1>7. handler'[t] = h /\ \A o \in Thread : o # t => handler'[o] = handler[o]
  BY <1>6 DEF RightPassword, Go, IInv, HandlersSound
<1>8. h.at = "audit_success" /\ h.token = token /\ h.user = u
  BY <1>1, <1>6 DEF IInv, HandlersSound, Handler
<1>9. Known(h)'
  BY <1>3, <1>4, <1>8 DEF Known
<1>10. ASSUME NEW o \in Thread, o # t
       PROVE  Known(handler[o])'
  <2>1. PICK k : k = handler[o]
    OBVIOUS
  <2>2. k.at \in {"audit_success", "respond"} => k.token # token
    BY <1>4, <2>1 DEF IInv, HandlersSound, Sound
  <2>3. Known(k)
    BY <2>1 DEF SignIns
  <2>4. Known(k)'
    BY <1>3, <2>2, <2>3 DEF Known, Named
  <2> QED
    BY <1>7, <1>10, <2>1, <2>4
<1> QED
  BY <1>5, <1>7, <1>9, <1>10 DEF SignIns

LEMMA AuditSuccessKeepsSignIns ==
    ASSUME IInv, SignIns, NEW t \in Thread, AuditSuccess(t)
    PROVE  SignIns'
<1>1. PICK k : k = handler[t]
  OBVIOUS
<1>2. Sound(k) /\ Known(k) /\ k.at = "audit_success"
  BY <1>1 DEF AuditSuccess, At, IInv, HandlersSound, SignIns
<1>3. PICK h : h = [k EXCEPT !.at = "respond"]
  OBVIOUS
<1>4. Go(t, h)
  BY <1>1, <1>3 DEF AuditSuccess
<1>5. h.at = "respond" /\ h.user = k.user /\ h.token = k.token
  BY <1>2, <1>3, LoginGoesOn
<1>6. signedIn' = signedIn \cup {[user |-> k.user, token |-> k.token]}
  BY <1>1 DEF AuditSuccess, SignIn
<1>7. NoSessionOpens /\ UNCHANGED <<sessions, held, acts>>
  BY DEF AuditSuccess, NoSessionOpens
<1>8. Known(h)'
  BY <1>2, <1>5, <1>6, <1>7 DEF Known
<1> QED
  BY <1>4, <1>7, <1>8, KnownMoves, ReadKeepsSignIns

LEMMA RespondKeepsSignIns ==
    ASSUME IInv, SignIns, NEW t \in Thread, Respond(t)
    PROVE  SignIns'
<1>1. PICK k : k = handler[t]
  OBVIOUS
<1>2. Known(k) /\ k.at = "respond" /\ held' = held \cup {k.token}
  BY <1>1 DEF Respond, At, SignIns
<1>3. NoSessionOpens /\ UNCHANGED acts
  BY DEF Respond, NoSessionOpens
<1>4. \A s \in sessions : s.token \in held' \ held
          => [user |-> s.user, token |-> s.token] \in signedIn
  BY <1>2 DEF Known
<1>5. SignInAudited'
  BY <1>3, <1>4, AuditedStands DEF SignIns
<1>6. \A o \in Thread : Known(handler[o])'
  BY <1>3, EndKnown DEF Respond
<1> QED
  BY <1>5, <1>6 DEF SignIns

\* A handler that does its work serves somebody who is named.
LEMMA ActedKeepsSignIns ==
    ASSUME IInv, SignIns, NEW t \in Thread, At(t, "acting") \/ At(t, "insert"), Acted(t),
           NoSessionOpens, UNCHANGED held,
           Done(t) \/ Go(t, [Idle EXCEPT !.at = "audit"])
    PROVE  SignIns'
<1>1. PICK k : k = handler[t]
  OBVIOUS
<1>2. k.user # None => Named(k.user)
  BY <1>1 DEF At, SignIns, Known
<1>3. acts' = IF k.user = None THEN acts
              ELSE acts \cup {[user |-> k.user, permission |-> k.permission]}
  BY <1>1 DEF Acted
<1>4. \A a \in acts' \ acts : Named(a.user)
  BY <1>2, <1>3
<1>5. SignInAudited'
  BY <1>4, AuditedStands DEF SignIns
<1>6. \A o \in Thread : Known(handler[o])'
  BY EndKnown
<1> QED
  BY <1>5, <1>6 DEF SignIns

LEMMA AuthenticateKeepsSignIns ==
    ASSUME IInv, SignIns, NEW t \in Thread, NEW s \in sessions, NEW p \in Permission,
           Authenticate(t, s, p)
    PROVE  SignIns'
<1>1. PICK h : h = [Idle EXCEPT !.at = "acting", !.user = s.user, !.permission = p,
                                !.stale = s.token \in ended \/ users[s.user].disabled]
  OBVIOUS
<1>2. Go(t, h) /\ NoSessionOpens /\ UNCHANGED <<signedIn, held, acts>>
  BY <1>1 DEF Authenticate, NoSessionOpens
<1>3. h.at = "acting" /\ h.user = s.user
  BY <1>1 DEF Idle
<1>4. PICK e : e = [user |-> s.user, token |-> s.token]
  OBVIOUS
<1>5. e \in signedIn /\ e.user = s.user
  BY <1>4 DEF Authenticate, SignIns, SignInAudited
<1>6. Known(h)'
  BY <1>2, <1>3, <1>5 DEF Known, Named
<1> QED
  BY <1>2, <1>6, KnownMoves, ReadKeepsSignIns

LEMMA CheckNewUserKeepsSignIns ==
    ASSUME IInv, SignIns, NEW t \in Thread, NEW u \in User, NEW role \in Role,
           CheckNewUser(t, u, role)
    PROVE  SignIns'
<1>1. PICK k : k = handler[t]
  OBVIOUS
<1>2. k \in Handler /\ Known(k) /\ k.at = "acting"
  BY <1>1 DEF IInv, HandlersSound, SignIns, CheckNewUser, At
<1>3. PICK h : h = [k EXCEPT !.at = "insert", !.target = u, !.role = role]
  OBVIOUS
<1>4. Go(t, h) /\ NoSessionOpens /\ UNCHANGED <<signedIn, held, acts>>
  BY <1>1, <1>3 DEF CheckNewUser, NoSessionOpens
<1>5. h.at = "insert" /\ h.user = k.user
  BY <1>2, <1>3 DEF Handler
<1>6. Known(h)'
  BY <1>2, <1>4, <1>5 DEF Known, Named
<1> QED
  BY <1>4, <1>6, KnownMoves, ReadKeepsSignIns

LEMMA LogoutKeepsSignIns ==
    ASSUME IInv, SignIns, NEW t \in Thread, NEW token \in Token, Logout(t, token)
    PROVE  SignIns'
<1>1. PICK owner : Go(t, [Idle EXCEPT !.at = "delete_session", !.user = owner,
                                      !.token = token])
  BY DEF Logout
<1>2. PICK h : h = [Idle EXCEPT !.at = "delete_session", !.user = owner, !.token = token]
  OBVIOUS
<1>3. NoSessionOpens /\ UNCHANGED <<held, acts>>
  BY DEF Logout, NoSessionOpens
<1>4. Known(h)'
  BY <1>2 DEF Known, Idle
<1> QED
  BY <1>1, <1>2, <1>3, <1>4, KnownMoves, ReadKeepsSignIns

LEMMA LoadUserKeepsSignIns ==
    ASSUME IInv, SignIns, NEW t \in Thread, NEW u \in User, LoadUser(t, u)
    PROVE  SignIns'
<1>1. PICK h : /\ Go(t, h)
               /\ h \in {[Idle EXCEPT !.at = "audit"],
                         [Idle EXCEPT !.at = "verify", !.user = u, !.row = users[u].failed]}
  BY DEF LoadUser
<1>2. NoSessionOpens /\ UNCHANGED <<held, acts>>
  BY DEF LoadUser, NoSessionOpens
<1>3. Known(h)'
  BY <1>1 DEF Known, Idle
<1> QED
  BY <1>1, <1>2, <1>3, KnownMoves, ReadKeepsSignIns

LEMMA RunCliKeepsSignIns ==
    ASSUME IInv, SignIns, NEW t \in Thread, RunCli(t)
    PROVE  SignIns'
<1>1. PICK h : h = [Idle EXCEPT !.at = "acting", !.permission = "users:manage"]
  OBVIOUS
<1>2. Go(t, h) /\ NoSessionOpens /\ UNCHANGED <<held, acts>>
  BY <1>1 DEF RunCli, NoSessionOpens
<1>3. Known(h)'
  BY <1>1 DEF Known, Idle
<1> QED
  BY <1>2, <1>3, KnownMoves, ReadKeepsSignIns

\* The steps that belong to no handler.
LEMMA TimePassesKeepsSignIns ==
    ASSUME IInv, SignIns, NoSessionOpens, UNCHANGED <<handler, held, acts>>
    PROVE  SignIns'
<1>1. ASSUME NEW o \in Thread
      PROVE  Known(handler[o])'
  <2>1. PICK k : k = handler[o]
    OBVIOUS
  <2>2. Known(k)'
    BY <2>1, KnownStands DEF SignIns
  <2> QED
    BY <2>1, <2>2
<1> QED
  BY <1>1, ReadKeepsSignIns

LEMMA SignInsKept ==
    ASSUME IInv, SignIns, [Next]_vars
    PROVE  SignIns'
<1>1. ASSUME NEW t \in Thread, WrongPassword(t) \/ DeleteSession(t) \/ Record(t) \/ Fail(t)
      PROVE  SignIns'
  <2>1. /\ NoSessionOpens /\ UNCHANGED <<held, acts>>
        /\ Done(t) \/ Go(t, [Idle EXCEPT !.at = "audit"])
    BY <1>1 DEF WrongPassword, DeleteSession, Record, Fail, NoSessionOpens
  <2> QED
    BY <2>1, EndKnown, ReadKeepsSignIns
<1>2. ASSUME NEW t \in Thread, Perform(t) \/ InsertUser(t) \/ \E u \in User : Disable(t, u)
      PROVE  SignIns'
  <2>1. /\ At(t, "acting") \/ At(t, "insert")
        /\ Acted(t) /\ NoSessionOpens /\ UNCHANGED held
        /\ Done(t) \/ Go(t, [Idle EXCEPT !.at = "audit"])
    BY <1>2 DEF Perform, InsertUser, Disable, NoSessionOpens
  <2> QED
    BY <2>1, ActedKeepsSignIns
<1>3. ASSUME NEW s \in sessions, SessionExpires(s)
      PROVE  SignIns'
  <2>1. PICK e : e = [s EXCEPT !.expired = TRUE]
    OBVIOUS
  <2>2. e.token = s.token /\ e.user = s.user
    BY <2>1 DEF IInv, SessionsSound
  <2>3. NoSessionOpens /\ UNCHANGED <<handler, held, acts>>
    BY <1>3, <2>1, <2>2 DEF SessionExpires, NoSessionOpens
  <2> QED
    BY <2>3, TimePassesKeepsSignIns
<1>4. CASE UNCHANGED vars \/ \E u \in User : LockExpires(u)
  <2>1. NoSessionOpens /\ UNCHANGED <<handler, held, acts>>
    BY <1>4 DEF vars, LockExpires, NoSessionOpens
  <2> QED
    BY <2>1, TimePassesKeepsSignIns
<1> QED
  BY <1>1, <1>2, <1>3, <1>4, RightPasswordKeepsSignIns, AuditSuccessKeepsSignIns,
     RespondKeepsSignIns, AuthenticateKeepsSignIns, CheckNewUserKeepsSignIns,
     LogoutKeepsSignIns, LoadUserKeepsSignIns, RunCliKeepsSignIns
     DEF Next, Login, Serve, Manage

\* docs/PRIVACY.md:14, whatever order handlers commit in and wherever they die: a
\* session whose token a client holds, and every request that was served, has a
\* login.success in the audit log that names its user.
THEOREM SignInsAudited == Spec => []SignInAudited
<1>1. Init => SignIns
  BY DEF Init, SignIns, SignInAudited, Known, Idle
<1>2. IInv /\ SignIns /\ [Next]_vars => SignIns'
  BY SignInsKept
<1>3. SignIns => SignInAudited
  BY DEF SignIns
<1> QED
  BY <1>1, <1>2, <1>3, Inductive, PTL DEF Spec

----------------------------------------------------------------------------
(* Lockout, of the users whose logins never overlapped.                    *)

Verifies(t, u) == At(t, "verify") /\ handler[t].user = u

\* What the row says of u's failures is what happened, and the one login of u
\* that is under way, if any, has read just that.
LockoutOf(u) ==
    /\ \A t, o \in Thread : Verifies(t, u) /\ Verifies(o, u) => t = o
    /\ \A t \in Thread : Verifies(t, u) => handler[t].row = users[u].failed /\ ~due[u]
    /\ missed[u] = users[u].failed
    /\ due[u] => users[u].locked /\ users[u].failed = 0

Lockout == \A u \in User \ overlapped : LockoutOf(u)

\* No login of u has come to its password check in this step.
NoNewLogin(u) ==
    \A t \in Thread : Verifies(t, u)' => Verifies(t, u) /\ handler'[t].row = handler[t].row

SameCounters(u) ==
    /\ users'[u].failed = users[u].failed /\ users'[u].locked = users[u].locked
    /\ missed'[u] = missed[u] /\ due'[u] = due[u]

LEMMA LockoutStands ==
    ASSUME NEW u \in User, LockoutOf(u), NoNewLogin(u), SameCounters(u)
    PROVE  LockoutOf(u)'
BY DEF LockoutOf, NoNewLogin, SameCounters

\* A step of t that ends at any other place brings no login to its check.
LEMMA MovesElsewhere ==
    ASSUME IInv, NEW t \in Thread, NEW h, Go(t, h), h.at # "verify"
    PROVE  \A u \in User : NoNewLogin(u) /\ ~Verifies(t, u)'
<1>1. handler'[t] = h /\ \A o \in Thread : o # t => handler'[o] = handler[o]
  BY DEF IInv, HandlersSound, Go
<1> QED
  BY <1>1 DEF NoNewLogin, Verifies, At

LEMMA EndsElsewhere ==
    ASSUME IInv, NEW t \in Thread, Done(t) \/ Go(t, [Idle EXCEPT !.at = "audit"])
    PROVE  \A u \in User : NoNewLogin(u) /\ ~Verifies(t, u)'
<1>1. PICK h : h \in {Idle, [Idle EXCEPT !.at = "audit"]} /\ Go(t, h)
  BY DEF Done
<1>2. h.at # "verify"
  BY <1>1 DEF Idle
<1> QED
  BY <1>1, <1>2, MovesElsewhere

\* Any step but the four below leaves counters and locks alone.
LEMMA OtherStepsKeepLockout ==
    ASSUME IInv, Lockout, UNCHANGED <<missed, due, overlapped>>,
           \A u \in User : NoNewLogin(u) /\ users'[u].failed = users[u].failed
                                          /\ users'[u].locked = users[u].locked
    PROVE  Lockout'
<1>1. \A u \in User : SameCounters(u)
  BY DEF SameCounters
<1> QED
  BY <1>1, LockoutStands DEF Lockout

LEMMA LoadUserKeepsLockout ==
    ASSUME IInv, Lockout, NEW t \in Thread, NEW u \in User, LoadUser(t, u)
    PROVE  Lockout'
<1>1. PICK refused \in BOOLEAN : refused <=> ~Exists(u) \/ users[u].disabled \/ users[u].locked
  OBVIOUS
<1>2. PICK h : h = IF refused THEN [Idle EXCEPT !.at = "audit"]
                   ELSE [Idle EXCEPT !.at = "verify", !.user = u, !.row = users[u].failed]
  OBVIOUS
<1>3. handler'[t] = h /\ \A o \in Thread : o # t => handler'[o] = handler[o]
  BY <1>1, <1>2 DEF LoadUser, Go, IInv, HandlersSound
<1>4. ~refused => h.at = "verify" /\ h.user = u /\ h.row = users[u].failed /\ ~users[u].locked
  BY <1>1, <1>2 DEF Idle
<1>5. refused => h.at # "verify"
  BY <1>2 DEF Idle
<1>6. \A v \in User : SameCounters(v)
  BY DEF LoadUser, SameCounters
<1>7. ASSUME NEW v \in User \ overlapped'
      PROVE  LockoutOf(v)'
  <2>1. LockoutOf(v)
    BY DEF LoadUser, Lockout
  <2>2. CASE v # u \/ refused
    <3>1. NoNewLogin(v)
      BY <1>3, <1>4, <1>5, <2>2 DEF NoNewLogin, Verifies, At
    <3> QED
      BY <1>6, <2>1, <3>1, LockoutStands
  <2>3. CASE v = u /\ ~refused
    <3>1. \A o \in Thread : ~Verifies(o, u)
      BY <2>3 DEF LoadUser, Verifies
    <3>2. \A o \in Thread : Verifies(o, u)' => o = t
      BY <1>3, <3>1 DEF Verifies, At
    <3>3. ~due[u]
      BY <1>4, <2>1, <2>3 DEF LockoutOf
    <3> QED
      BY <1>3, <1>4, <1>6, <2>1, <2>3, <3>2, <3>3 DEF LockoutOf, SameCounters, Verifies
  <2> QED
    BY <2>2, <2>3
<1> QED
  BY <1>7 DEF Lockout

LEMMA WrongPasswordKeepsLockout ==
    ASSUME IInv, Lockout, NEW t \in Thread, WrongPassword(t)
    PROVE  Lockout'
<1>1. PICK u : u = handler[t].user
  OBVIOUS
<1>2. u \in User /\ Verifies(t, u)
  BY <1>1 DEF WrongPassword, At, IInv, HandlersSound, Sound, Verifies
<1>3. PICK row : row = handler[t].row
  OBVIOUS
<1>4. PICK new : new = AfterFailure(row + 1)
  OBVIOUS
<1>5. /\ users'[u].failed = new.failed /\ users'[u].locked = new.locked
      /\ \A v \in User : v # u => users'[v] = users[v]
  BY <1>1, <1>2, <1>3, <1>4 DEF WrongPassword, IInv, AccountsSound, UserRow
<1>6. /\ missed'[u] = IF new.locked THEN 0
                      ELSE IF missed[u] < MaxFailed THEN missed[u] + 1 ELSE missed[u]
      /\ due'[u] <=> due[u] \/ new.locked
      /\ \A v \in User : v # u => missed'[v] = missed[v] /\ due'[v] = due[v]
  BY <1>1, <1>2, <1>3, <1>4 DEF WrongPassword, IInv, HistoryTyped
<1>7. \A v \in User : NoNewLogin(v) /\ ~Verifies(t, v)'
  BY EndsElsewhere DEF WrongPassword
<1>8. ASSUME NEW v \in User \ overlapped'
      PROVE  LockoutOf(v)'
  <2>1. LockoutOf(v)
    BY DEF WrongPassword, Lockout
  <2>2. CASE v # u
    BY <1>5, <1>6, <1>7, <2>1, <2>2, LockoutStands DEF SameCounters
  <2>3. CASE v = u
    <3>1. \A o \in Thread : ~Verifies(o, u)'
      BY <1>2, <1>7, <2>1, <2>3 DEF NoNewLogin, LockoutOf
    <3>2. row = users[u].failed /\ ~due[u] /\ missed[u] = row
      BY <1>2, <1>3, <2>1, <2>3 DEF LockoutOf
    <3>3. row \in 0..(MaxFailed - 1)
      BY <1>2, <3>2 DEF IInv, AccountsSound, UserRow
    <3>4. CASE row + 1 >= MaxFailed
      <4>1. new.failed = 0 /\ new.locked
        BY <1>4, <3>4 DEF AfterFailure
      <4> QED
        BY <1>5, <1>6, <2>3, <3>1, <4>1 DEF LockoutOf
    <3>5. CASE row + 1 < MaxFailed
      <4>1. new.failed = row + 1 /\ ~new.locked
        BY <1>4, <3>3, <3>5, AccountsAssumption DEF AfterFailure
      <4>2. missed'[u] = row + 1
        BY <1>6, <3>2, <3>3, <4>1, AccountsAssumption
      <4>3. ~due'[u]
        BY <1>6, <3>2, <4>1
      <4> QED
        BY <1>5, <2>3, <3>1, <4>1, <4>2, <4>3 DEF LockoutOf
    <3> QED
      BY <3>3, <3>4, <3>5, AccountsAssumption
  <2> QED
    BY <2>2, <2>3
<1> QED
  BY <1>8 DEF Lockout

LEMMA RightPasswordKeepsLockout ==
    ASSUME IInv, Lockout, NEW t \in Thread, NEW token \in Token, RightPassword(t, token)
    PROVE  Lockout'
<1>1. PICK u : u = handler[t].user
  OBVIOUS
<1>2. u \in User /\ Verifies(t, u)
  BY <1>1 DEF RightPassword, At, IInv, HandlersSound, Sound, Verifies
<1>3. /\ users'[u].failed = 0 /\ missed'[u] = 0
      /\ \A v \in User : v # u => users'[v] = users[v] /\ missed'[v] = missed[v]
      /\ UNCHANGED <<due, overlapped>>
  BY <1>1, <1>2 DEF RightPassword, IInv, AccountsSound, UserRow, HistoryTyped
<1>4. PICK h : h = [handler[t] EXCEPT !.at = "audit_success", !.token = token]
  OBVIOUS
<1>5. Go(t, h) /\ h.at # "verify"
  BY <1>4 DEF RightPassword, IInv, HandlersSound, Handler
<1>6. \A v \in User : NoNewLogin(v) /\ ~Verifies(t, v)'
  BY <1>5, MovesElsewhere
<1>7. ASSUME NEW v \in User \ overlapped
      PROVE  LockoutOf(v)'
  <2>1. LockoutOf(v)
    BY DEF Lockout
  <2>2. CASE v # u
    BY <1>3, <1>6, <2>1, <2>2, LockoutStands DEF SameCounters
  <2>3. CASE v = u
    <3>1. \A o \in Thread : ~Verifies(o, u)'
      BY <1>2, <1>6, <2>1, <2>3 DEF NoNewLogin, LockoutOf
    <3> QED
      BY <1>2, <1>3, <2>1, <2>3, <3>1 DEF LockoutOf
  <2> QED
    BY <2>2, <2>3
<1> QED
  BY <1>3, <1>7 DEF Lockout

LEMMA InsertUserKeepsLockout ==
    ASSUME IInv, Lockout, NEW t \in Thread, InsertUser(t)
    PROVE  Lockout'
<1>1. PICK u : u = handler[t].target
  OBVIOUS
<1>2. u \in User /\ users[u].failed = 0 /\ ~users[u].locked
  BY <1>1 DEF InsertUser, At, IInv, HandlersSound, Sound, AccountsSound
<1>3. /\ users'[u].failed = 0 /\ ~users'[u].locked
      /\ \A v \in User : v # u => users'[v] = users[v]
  BY <1>1, <1>2 DEF InsertUser, IInv, AccountsSound, NoUser
<1>4. \A v \in User : NoNewLogin(v)
  BY EndsElsewhere DEF InsertUser
<1>5. /\ \A v \in User : v # u => SameCounters(v)
      /\ users'[u].failed = users[u].failed /\ missed'[u] = missed[u] /\ due'[u] = due[u]
      /\ UNCHANGED overlapped
  BY <1>2, <1>3 DEF InsertUser, SameCounters
<1>6. LockoutOf(u) => LockoutOf(u)'
  BY <1>2, <1>4, <1>5 DEF LockoutOf, NoNewLogin
<1> QED
  BY <1>4, <1>5, <1>6, LockoutStands DEF Lockout

LEMMA LockExpiresKeepsLockout ==
    ASSUME IInv, Lockout, NEW u \in User, LockExpires(u)
    PROVE  Lockout'
<1>1. /\ users'[u].failed = users[u].failed
      /\ missed'[u] = 0 /\ ~due'[u]
      /\ \A v \in User : v # u => users'[v] = users[v] /\ missed'[v] = missed[v]
                                                    /\ due'[v] = due[v]
      /\ UNCHANGED <<handler, overlapped>>
  BY DEF LockExpires, IInv, AccountsSound, UserRow, HistoryTyped
<1>2. \A v \in User : NoNewLogin(v)
  BY <1>1 DEF NoNewLogin, Verifies, At
<1>3. LockoutOf(u) => LockoutOf(u)'
  BY <1>1, <1>2 DEF LockExpires, LockoutOf, NoNewLogin
<1>4. \A v \in User : v # u => SameCounters(v)
  BY <1>1 DEF SameCounters
<1> QED
  BY <1>1, <1>2, <1>3, <1>4, LockoutStands DEF Lockout

LEMMA AuditSuccessKeepsLockout ==
    ASSUME IInv, Lockout, NEW t \in Thread, AuditSuccess(t)
    PROVE  Lockout'
<1>1. PICK h : h = [handler[t] EXCEPT !.at = "respond"]
  OBVIOUS
<1>2. Go(t, h) /\ h.at # "verify"
  BY <1>1 DEF AuditSuccess, IInv, HandlersSound, Handler
<1> QED
  BY <1>2, MovesElsewhere, OtherStepsKeepLockout DEF AuditSuccess

LEMMA LockoutKept ==
    ASSUME IInv, Lockout, [Next]_vars
    PROVE  Lockout'
<1>1. ASSUME NEW t \in Thread, NEW s \in sessions, NEW p \in Permission,
             Authenticate(t, s, p)
      PROVE  Lockout'
  <2>1. PICK h : h = [Idle EXCEPT !.at = "acting", !.user = s.user, !.permission = p,
                                  !.stale = s.token \in ended \/ users[s.user].disabled]
    OBVIOUS
  <2>2. Go(t, h) /\ h.at # "verify"
    BY <1>1, <2>1 DEF Authenticate, Idle
  <2> QED
    BY <1>1, <2>2, MovesElsewhere, OtherStepsKeepLockout DEF Authenticate
<1>2. ASSUME NEW t \in Thread, Perform(t) \/ Record(t) \/ Fail(t)
      PROVE  Lockout'
  BY <1>2, EndsElsewhere, OtherStepsKeepLockout DEF Perform, Record, Fail
<1>3. ASSUME NEW t \in Thread, Respond(t) \/ DeleteSession(t)
      PROVE  Lockout'
  BY <1>3, EndsElsewhere, OtherStepsKeepLockout DEF Respond, DeleteSession
<1>4. ASSUME NEW t \in Thread, NEW token \in Token, Logout(t, token)
      PROVE  Lockout'
  <2>1. PICK owner : Go(t, [Idle EXCEPT !.at = "delete_session", !.user = owner,
                                        !.token = token])
    BY <1>4 DEF Logout
  <2>2. PICK h : h = [Idle EXCEPT !.at = "delete_session", !.user = owner, !.token = token]
    OBVIOUS
  <2>3. Go(t, h) /\ h.at # "verify"
    BY <2>1, <2>2 DEF Idle
  <2> QED
    BY <1>4, <2>3, MovesElsewhere, OtherStepsKeepLockout DEF Logout
<1>5. ASSUME NEW t \in Thread, RunCli(t)
      PROVE  Lockout'
  <2>1. PICK h : h = [Idle EXCEPT !.at = "acting", !.permission = "users:manage"]
    OBVIOUS
  <2>2. Go(t, h) /\ h.at # "verify"
    BY <1>5, <2>1 DEF RunCli, Idle
  <2> QED
    BY <1>5, <2>2, MovesElsewhere, OtherStepsKeepLockout DEF RunCli
<1>6. ASSUME NEW t \in Thread, NEW u \in User, Disable(t, u)
      PROVE  Lockout'
  <2>1. \A v \in User : users'[v].failed = users[v].failed /\ users'[v].locked = users[v].locked
    BY <1>6 DEF Disable, IInv, AccountsSound, UserRow
  <2> QED
    BY <1>6, <2>1, EndsElsewhere, OtherStepsKeepLockout DEF Disable
<1>7. ASSUME NEW t \in Thread, NEW u \in User, NEW role \in Role,
             CheckNewUser(t, u, role)
      PROVE  Lockout'
  <2>1. PICK k : k = handler[t]
    OBVIOUS
  <2>2. PICK h : h = [k EXCEPT !.at = "insert", !.target = u, !.role = role]
    OBVIOUS
  <2>3. k \in Handler
    BY <2>1 DEF IInv, HandlersSound
  <2>4. Go(t, h) /\ h.at # "verify"
    BY <1>7, <2>1, <2>2, <2>3 DEF CheckNewUser, Handler
  <2> QED
    BY <1>7, <2>4, MovesElsewhere, OtherStepsKeepLockout DEF CheckNewUser
<1>8. CASE UNCHANGED vars \/ \E s \in sessions : SessionExpires(s)
  <2>1. \A u \in User : NoNewLogin(u)
    BY <1>8 DEF vars, SessionExpires, NoNewLogin, Verifies, At
  <2> QED
    BY <1>8, <2>1, OtherStepsKeepLockout DEF vars, SessionExpires
<1> QED
  BY <1>1, <1>2, <1>3, <1>4, <1>5, <1>6, <1>7, <1>8, LoadUserKeepsLockout,
     WrongPasswordKeepsLockout, RightPasswordKeepsLockout, InsertUserKeepsLockout,
     LockExpiresKeepsLockout, AuditSuccessKeepsLockout
     DEF Next, Login, Serve, Manage

LEMMA LockoutInductive == Spec => []Lockout
<1>1. Init => Lockout
  BY DEF Init, Lockout, LockoutOf, Verifies, At, Idle, NoUser
<1>2. IInv /\ Lockout /\ [Next]_vars => Lockout'
  BY LockoutKept
<1> QED
  BY <1>1, <1>2, Inductive, PTL DEF Spec

\* auth.py:15, for any limit: a user whose logins never overlapped does not get
\* the password wrong MaxFailed times without a lock.  The side condition is
\* needed: two logins that read the same count lose a failure.
THEOREM FailuresLockAccounts == Spec => []FailuresLock
<1>1. IInv /\ Lockout => FailuresLock
  <2> SUFFICES ASSUME IInv, Lockout, NEW u \in User \ overlapped
               PROVE  missed[u] < MaxFailed
    BY DEF FailuresLock
  <2>1. users[u].failed \in 0..(MaxFailed - 1) /\ missed[u] = users[u].failed
    BY DEF IInv, AccountsSound, UserRow, Lockout, LockoutOf
  <2> QED
    BY <2>1, AccountsAssumption
<1> QED
  BY <1>1, Inductive, LockoutInductive, PTL

\* auth.py:15: nothing but the end of the 15 minutes unlocks such an account,
\* neither a right password nor a wrong one, nor managing accounts.
THEOREM LocksLast == Spec => []LockLasts
<1>1. Lockout => LockLasts
  BY DEF Lockout, LockoutOf, LockLasts
<1> QED
  BY <1>1, LockoutInductive, PTL
====
