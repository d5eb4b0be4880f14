---- MODULE Reveal ----
(***************************************************************************)
(* Re-identification: the request, decide and view handlers of             *)
(* src/itds/api/main.py, the CLI reveal, and the tables they share.        *)
(*                                                                         *)
(* A handler runs in a thread of the server's pool and uses one SQLite     *)
(* transaction per `with store.connect()` block, so each block is a step   *)
(* and the handlers of all threads interleave between steps.  A step that  *)
(* raises (a lock timeout, a dead process) ends its handler there, with    *)
(* the blocks before it committed: Fail.                                   *)
(***************************************************************************)
EXTENDS Naturals, FiniteSets

CONSTANTS
    Analyst,      \* user names with role analyst
    Lead,         \* user names with role lead
    Outsider,     \* other names someone may type on the command line
    Thread,       \* threads of the server
    CliProcess,   \* processes running `itds reveal`
    Case,         \* case ids
    Request,      \* request ids uuid4 may return
    Actor,        \* monitored people
    CaseActor,    \* CaseActor[c]: whose case c is
    MaxCli,       \* bound: reveals that the command line starts to record
    Pseud,        \* Pseud[a]: the pseudonym of a, 6 hex digits of an HMAC
    None          \* SQL NULL, Python None

User == Analyst \cup Lead
Name == User \cup Outsider
Runner == Thread \cup CliProcess

ASSUME RevealAssumption ==
    /\ CaseActor \in [Case -> Actor]
    /\ DOMAIN Pseud = Actor
    /\ MaxCli \in Nat
    /\ Analyst \cap Lead = {}
    /\ User \cap Outsider = {}
    /\ Thread \cap CliProcess = {}
    /\ None \notin Name \cup Request \cup Case \cup Actor

VARIABLES
    cases,      \* the case ids in table cases
    requests,   \* table reveal_requests, by request_id
    reveals,    \* table reveals (rows that differ in id and time are one)
    audit,      \* entries of the audit log; their order is AuditChain's concern
    handler,    \* handler[t]: what thread t runs and its local variables
    decided,    \* history: the decisions that were written
    disclosed,  \* history: identities in responses to get_case
    printed     \* history: identities printed by the CLI

vars == <<cases, requests, reveals, audit, handler, decided, disclosed, printed>>

----------------------------------------------------------------------------
NoRow == [status |-> "absent", case |-> None, requested_by |-> None,
          decided_by |-> None]

RequestRow == [status : {"absent", "pending", "approved", "denied"},
               case : Case \cup {None},
               requested_by : User \cup {None},
               decided_by : User \cup {None}]

RevealRow == [request : Request \cup {None}, actor : Actor,
              requested_by : Name, approved_by : Name]

Entry == [by : Name, action : {"request", "approve", "deny", "view", "cli"},
          of : Request \cup Case \cup {None}, shown : BOOLEAN]

\* A handler's locals; unused ones are None.  `before` is a history field: the
\* decisions on its request that were already written when it was loaded.
Idle == [at |-> "idle", user |-> None, request |-> None, case |-> None,
         actor |-> None, approve |-> FALSE, with |-> None, before |-> {}]

Decision == [request : Request, by : User, approve : BOOLEAN]

Handler == [at : {"idle", "insert", "audit_request", "find_actor", "reveal",
                  "update", "audit_decision", "load_requests", "audit_view",
                  "respond", "cli_reveal", "cli_audit", "cli_print"},
            user : Name \cup {None}, request : Request \cup {None},
            case : Case \cup {None}, actor : Actor \cup {None},
            approve : BOOLEAN, with : Name \cup {None},
            before : SUBSET Decision]

TypeOK ==
    /\ cases \subseteq Case
    /\ requests \in [Request -> RequestRow]
    /\ reveals \subseteq RevealRow
    /\ audit \subseteq Entry
    /\ handler \in [Runner -> Handler]
    /\ decided \subseteq Decision
    /\ disclosed \subseteq [viewer : User, request : Request, case : Case]
    /\ printed \subseteq [to : Name, approver : Name, actor : Actor]

Init ==
    /\ cases = {}
    /\ requests = [r \in Request |-> NoRow]
    /\ reveals = {}
    /\ audit = {}
    /\ handler = [t \in Runner |-> Idle]
    /\ decided = {}
    /\ disclosed = {}
    /\ printed = {}

----------------------------------------------------------------------------
At(t, place) == handler[t].at = place

\* The next step of t's handler, with some locals changed.
Go(t, h) == handler' = [handler EXCEPT ![t] = h]

Done(t) == Go(t, Idle)

Audit(u, action, of, shown) ==
    audit' = audit \cup {[by |-> u, action |-> action, of |-> of, shown |-> shown]}

----------------------------------------------------------------------------
(* POST /api/reveals.  A case that is not there is a 404: no step.         *)

RequestReveal(t, u, c) ==
    /\ At(t, "idle")
    /\ c \in cases
    /\ Go(t, [Idle EXCEPT !.at = "insert", !.user = u, !.case = c])
    /\ UNCHANGED <<cases, requests, reveals, audit, decided, disclosed, printed>>

InsertRequest(t, r) ==
    /\ At(t, "insert")
    /\ requests[r].status = "absent"
    /\ requests' = [requests EXCEPT ![r] =
                       [status |-> "pending", case |-> handler[t].case,
                        requested_by |-> handler[t].user, decided_by |-> None]]
    /\ Go(t, [handler[t] EXCEPT !.at = "audit_request", !.request = r])
    /\ UNCHANGED <<cases, reveals, audit, decided, disclosed, printed>>

AuditRequest(t) ==
    /\ At(t, "audit_request")
    /\ Audit(handler[t].user, "request", handler[t].request, FALSE)
    /\ Done(t)
    /\ UNCHANGED <<cases, requests, reveals, decided, disclosed, printed>>

----------------------------------------------------------------------------
(* POST /api/reveals/{request_id}/approve and /deny: _decide.              *)

DecidableWithoutStatusCheck(r, u) ==
    /\ requests[r].status # "absent"
    /\ requests[r].requested_by # u

\* Not 404, not 409, not 403.
Decidable(r, u) ==
    /\ requests[r].status = "pending"
    /\ requests[r].requested_by # u

LoadRequest(t, u, r, approve) ==
    /\ At(t, "idle")
    /\ u \in Lead
    /\ Decidable(r, u)
    /\ Go(t, [Idle EXCEPT !.at = IF approve THEN "find_actor" ELSE "update",
                          !.user = u, !.request = r, !.approve = approve,
                          !.before = {d \in decided : d.request = r}])
    /\ UNCHANGED <<cases, requests, reveals, audit, decided, disclosed, printed>>

RequestPseudonym(r) == Pseud[CaseActor[requests[r].case]]

AllCases(p) == cases

CasesNamed(p) == {c \in cases : Pseud[CaseActor[c]] = p}

\* actor_for_pseudonym: whichever case with that pseudonym comes first; with
\* none, a 404.  Pseudonymizer.reveal then checks the two people again.
FindActor(t) ==
    /\ At(t, "find_actor")
    /\ LET r == handler[t].request
           found == CasesNamed(RequestPseudonym(r))
       IN  IF found # {} /\ handler[t].user # requests[r].requested_by
           THEN \E c \in found :
                    Go(t, [handler[t] EXCEPT !.at = "reveal", !.actor = CaseActor[c]])
           ELSE Done(t)
    /\ UNCHANGED <<cases, requests, reveals, audit, decided, disclosed, printed>>

ReplaceReveal(t) ==
    /\ At(t, "reveal")
    /\ LET r == handler[t].request
       IN  reveals' = {row \in reveals : row.request # r} \cup
               {[request |-> r, actor |-> handler[t].actor,
                 requested_by |-> requests[r].requested_by,
                 approved_by |-> handler[t].user]}
    /\ Go(t, [handler[t] EXCEPT !.at = "update"])
    /\ UNCHANGED <<cases, requests, audit, decided, disclosed, printed>>

RecordReveal(t) ==
    /\ At(t, "reveal")
    /\ LET r == handler[t].request
       IN  reveals' = reveals \cup
               {[request |-> r, actor |-> handler[t].actor,
                 requested_by |-> requests[r].requested_by,
                 approved_by |-> handler[t].user]}
    /\ Go(t, [handler[t] EXCEPT !.at = "update"])
    /\ UNCHANGED <<cases, requests, audit, decided, disclosed, printed>>

UpdateWith(t, status, by) ==
    /\ At(t, "update")
    /\ LET h == handler[t]
       IN  /\ requests' = [requests EXCEPT ![h.request].status = status,
                                           ![h.request].decided_by = by]
           /\ decided' = decided \cup
                  {[request |-> h.request, by |-> h.user, approve |-> h.approve]}
           /\ Go(t, [h EXCEPT !.at = "audit_decision"])
    /\ UNCHANGED <<cases, reveals, audit, disclosed, printed>>

NewStatus(t) == IF handler[t].approve THEN "approved" ELSE "denied"

UpdateWithVerb(t) ==
    UpdateWith(t, IF handler[t].approve THEN "approve" ELSE "deny", handler[t].user)

UpdateIfPending(t) ==
    \/ /\ At(t, "update")
       /\ requests[handler[t].request].status = "pending"
       /\ UpdateWith(t, NewStatus(t), handler[t].user)
    \/ /\ At(t, "update")
       /\ requests[handler[t].request].status # "pending"
       /\ Go(t, [handler[t] EXCEPT !.at = "audit_decision"])
       /\ UNCHANGED <<cases, requests, reveals, audit, decided, disclosed, printed>>

\* The UPDATE has no condition on the status the request has by now.
UpdateRequest(t) == UpdateWith(t, NewStatus(t), handler[t].user)

AuditDecision(t) ==
    /\ At(t, "audit_decision")
    /\ Audit(handler[t].user, IF handler[t].approve THEN "approve" ELSE "deny",
             handler[t].request, FALSE)
    /\ Done(t)
    /\ UNCHANGED <<cases, requests, reveals, decided, disclosed, printed>>

----------------------------------------------------------------------------
(* GET /api/cases/{case_id}: the one place an identity is sent.            *)

LoadCase(t, u, c) ==
    /\ At(t, "idle")
    /\ c \in cases
    /\ Go(t, [Idle EXCEPT !.at = "load_requests", !.user = u, !.case = c])
    /\ UNCHANGED <<cases, requests, reveals, audit, decided, disclosed, printed>>

GrantsToAnyone(r, c, u) ==
    requests[r].case = c /\ requests[r].status = "approved"

Grants(r, c, u) ==
    /\ requests[r].case = c
    /\ requests[r].status = "approved"
    /\ u \in {requests[r].requested_by, requests[r].decided_by}

\* The newest request that grants it; any will do here.
LoadRequests(t) ==
    /\ At(t, "load_requests")
    /\ LET h == handler[t]
           granting == {r \in Request : Grants(r, h.case, h.user)}
       IN  IF granting = {} THEN Go(t, [h EXCEPT !.at = "audit_view"])
           ELSE \E r \in granting :
                    Go(t, [h EXCEPT !.at = "audit_view", !.request = r])
    /\ UNCHANGED <<cases, requests, reveals, audit, decided, disclosed, printed>>

AuditViewIfPossible(t) ==
    /\ At(t, "audit_view")
    /\ \/ Audit(handler[t].user, "view", handler[t].case, handler[t].request # None)
       \/ UNCHANGED audit
    /\ Go(t, [handler[t] EXCEPT !.at = "respond"])
    /\ UNCHANGED <<cases, requests, reveals, decided, disclosed, printed>>

AuditView(t) ==
    /\ At(t, "audit_view")
    /\ Audit(handler[t].user, "view", handler[t].case, handler[t].request # None)
    /\ Go(t, [handler[t] EXCEPT !.at = "respond"])
    /\ UNCHANGED <<cases, requests, reveals, decided, disclosed, printed>>

Respond(t) ==
    /\ At(t, "respond")
    /\ disclosed' = disclosed \cup
           (IF handler[t].request = None THEN {}
            ELSE {[viewer |-> handler[t].user, request |-> handler[t].request,
                   case |-> handler[t].case]})
    /\ Done(t)
    /\ UNCHANGED <<cases, requests, reveals, audit, decided, printed>>

----------------------------------------------------------------------------
(* `itds reveal`: both names come from the command line.                   *)

CliReveal(t, u, approver, a) ==
    /\ At(t, "idle")
    /\ approver # u
    /\ Cardinality({row \in reveals : row.request = None}) < MaxCli
    /\ Go(t, [Idle EXCEPT !.at = "cli_reveal", !.user = u, !.with = approver,
                          !.actor = a])
    /\ UNCHANGED <<cases, requests, reveals, audit, decided, disclosed, printed>>

CliRecord(t) ==
    /\ At(t, "cli_reveal")
    /\ reveals' = reveals \cup
           {[request |-> None, actor |-> handler[t].actor,
             requested_by |-> handler[t].user, approved_by |-> handler[t].with]}
    /\ Go(t, [handler[t] EXCEPT !.at = "cli_audit"])
    /\ UNCHANGED <<cases, requests, audit, decided, disclosed, printed>>

CliAudit(t) ==
    /\ At(t, "cli_audit")
    /\ Audit(handler[t].user, "cli", None, TRUE)
    /\ Go(t, [handler[t] EXCEPT !.at = "cli_print"])
    /\ UNCHANGED <<cases, requests, reveals, decided, disclosed, printed>>

CliPrint(t) ==
    /\ At(t, "cli_print")
    /\ printed' = printed \cup
           {[to |-> handler[t].user, approver |-> handler[t].with,
             actor |-> handler[t].actor]}
    /\ Done(t)
    /\ UNCHANGED <<cases, requests, reveals, audit, decided, disclosed>>

----------------------------------------------------------------------------
(* What else happens to the tables and to a thread.                        *)

\* A pipeline run inserts a case; it may be one that was purged before.
CaseOpens(c) ==
    /\ c \notin cases
    /\ cases' = cases \cup {c}
    /\ UNCHANGED <<requests, reveals, audit, handler, decided, disclosed, printed>>

\* Retention deletes closed cases and no reveal_requests.
CasePurged(c) ==
    /\ c \in cases
    /\ cases' = cases \ {c}
    /\ UNCHANGED <<requests, reveals, audit, handler, decided, disclosed, printed>>

Fail(t) ==
    /\ ~At(t, "idle")
    /\ Done(t)
    /\ UNCHANGED <<cases, requests, reveals, audit, decided, disclosed, printed>>

Start(t) ==
    \/ \E u \in User, c \in Case : RequestReveal(t, u, c) \/ LoadCase(t, u, c)
    \/ \E u \in User, r \in Request, approve \in BOOLEAN :
           LoadRequest(t, u, r, approve)

StartCli(t) == \E u, approver \in Name, a \in Actor : CliReveal(t, u, approver, a)

Continue(t) ==
    \/ \E r \in Request : InsertRequest(t, r)
    \/ AuditRequest(t)
    \/ FindActor(t)
    \/ RecordReveal(t)
    \/ UpdateRequest(t)
    \/ AuditDecision(t)
    \/ LoadRequests(t)
    \/ AuditView(t)
    \/ Respond(t)

ContinueCli(t) == CliRecord(t) \/ CliAudit(t) \/ CliPrint(t)

Next ==
    \/ \E t \in Thread : Start(t) \/ Continue(t)
    \/ \E t \in CliProcess : StartCli(t) \/ ContinueCli(t)
    \/ \E t \in Runner : Fail(t)
    \/ \E c \in Case : CaseOpens(c) \/ CasePurged(c)

Spec == Init /\ [][Next]_vars

----------------------------------------------------------------------------
(* Properties that hold.                                                   *)

\* Every identity that was sent or printed was put in the audit log first, by
\* the name of whoever received it, even when a crash follows.
AuditedBeforeShown ==
    /\ \A d \in disclosed :
          [by |-> d.viewer, action |-> "view", of |-> d.case, shown |-> TRUE]
              \in audit
    /\ \A p \in printed :
          [by |-> p.to, action |-> "cli", of |-> None, shown |-> TRUE] \in audit

\* The audit log claims no request and no decision that was not written.
AuditTellsTheTruth ==
    \A e \in audit :
        /\ e.action = "request" => requests[e.of].requested_by = e.by
        /\ e.action \in {"approve", "deny"} =>
              [request |-> e.of, by |-> e.by, approve |-> e.action = "approve"]
                  \in decided

\* A request is never approved without the reveals row that records who
\* approved it: the row is committed before the status, and leads who decide
\* at the same time each write their own.
ApprovedHasReveal ==
    \A r \in Request :
        requests[r].status = "approved" =>
            \E row \in reveals :
                /\ row.request = r
                /\ row.requested_by = requests[r].requested_by
                /\ row.approved_by = requests[r].decided_by

\* A request that has been decided is open to no later decision: a handler
\* that decides one had loaded it before anybody's decision was written.
LateDecisionRefused ==
    \A t \in Thread :
        handler[t].at \in {"find_actor", "reveal", "update"} =>
            handler[t].before = {}

\* What a decided request says is the last decision written, whole: status
\* and decider never come from two different decisions.
RowIsOneDecision ==
    \A r \in Request :
        requests[r].status \in {"approved", "denied"} =>
            [request |-> r, by |-> requests[r].decided_by,
             approve |-> requests[r].status = "approved"] \in decided

\* When no two people share a pseudonym, the reveals row of a request names
\* the person the request's case is about, though the approval looks that
\* person up by pseudonym in a table that is purged and refilled meanwhile.
RevealNamesTheActor ==
    \A row \in reveals :
        row.request # None =>
            row.actor = CaseActor[requests[row.request].case]

\* The handlers implement the two-person reveal.
Policy == INSTANCE RevealPolicy WITH
    asked <- {[request |-> r, by |-> requests[r].requested_by,
               case |-> requests[r].case] :
              r \in {q \in Request : requests[q].status # "absent"}},
    approvals <- {[request |-> d.request, by |-> d.by] :
                  d \in {e \in decided : e.approve}},
    seen <- disclosed

ImplementsPolicy == Policy!PolicySpec

----------------------------------------------------------------------------
(* What a test says and the code does not keep.                             *)

\* tests/test_api.py:129, "Cannot be decided twice."
DecidedOnce ==
    \A d, e \in decided : d.request = e.request => d = e
====
