---- MODULE RevealProofs ----
(***************************************************************************)
(* Theorems about Reveal, for any people, cases, requests, threads and     *)
(* command lines.                                                          *)
(***************************************************************************)
EXTENDS Reveal, TLAPS

----------------------------------------------------------------------------
(* The inductive invariant.                                                *)

\* Someone's approval of r has its row in table reveals.
HasReveal(r, approver) ==
    \E row \in reveals :
        /\ row.request = r
        /\ row.requested_by = requests[r].requested_by
        /\ row.approved_by = approver

IsDecided(r, u, approve) ==
    [request |-> r, by |-> u, approve |-> approve] \in decided

\* Who may be shown the identity behind r, and behind which case.
MayBeShown(r, c, u) ==
    /\ r \in Request
    /\ requests[r].status # "absent"
    /\ requests[r].case = c
    /\ \E approver \in User :
          /\ IsDecided(r, approver, TRUE)
          /\ u \in {requests[r].requested_by, approver}

\* What a handler whose locals are h knows about the tables, at each place.
SoundRequest(h) ==
    /\ h.at = "insert" => h.user \in User /\ h.case \in Case
    /\ h.at = "audit_request" =>
          /\ h.user \in User /\ h.request \in Request
          /\ requests[h.request].status # "absent"
          /\ requests[h.request].requested_by = h.user

SoundDecision(h) ==
    /\ h.at \in {"find_actor", "reveal", "update"} =>
          /\ h.user \in Lead /\ h.request \in Request
          /\ requests[h.request].status # "absent"
          /\ requests[h.request].requested_by # h.user
          /\ h.before = {}
    /\ h.at \in {"find_actor", "reveal"} => h.approve
    /\ h.at = "reveal" => h.actor \in Actor
    /\ h.at = "update" /\ h.approve => HasReveal(h.request, h.user)
    /\ h.at = "audit_decision" =>
          /\ h.user \in User /\ h.request \in Request
          /\ IsDecided(h.request, h.user, h.approve)

ViewEntry(u, c) == [by |-> u, action |-> "view", of |-> c, shown |-> TRUE]

CliEntry(u) == [by |-> u, action |-> "cli", of |-> None, shown |-> TRUE]

SoundView(h) ==
    /\ h.at \in {"load_requests", "audit_view", "respond"} =>
          h.user \in User /\ h.case \in Case
    /\ h.at = "load_requests" => h.request = None
    /\ h.at \in {"audit_view", "respond"} /\ h.request # None =>
          MayBeShown(h.request, h.case, h.user)
    /\ h.at = "respond" /\ h.request # None => ViewEntry(h.user, h.case) \in audit

SoundCli(h) ==
    /\ h.at \in {"cli_reveal", "cli_audit", "cli_print"} =>
          h.user \in Name /\ h.with \in Name /\ h.actor \in Actor
    /\ h.at = "cli_print" => CliEntry(h.user) \in audit

Sound(h) ==
    h \in Handler /\ SoundRequest(h) /\ SoundDecision(h) /\ SoundView(h) /\ SoundCli(h)

HandlersSound ==
    /\ handler \in [Runner -> Handler]
    /\ \A t \in Runner : Sound(handler[t])

\* A row of reveal_requests agrees with the decisions on it.
RowSound(r) ==
    /\ requests[r].status # "absent" =>
          requests[r].requested_by \in User /\ requests[r].case \in Case
    /\ requests[r].status \in {"absent", "pending"} =>
          \A d \in decided : d.request # r
    /\ requests[r].status \in {"approved", "denied"} =>
          /\ requests[r].decided_by \in User
          /\ IsDecided(r, requests[r].decided_by, requests[r].status = "approved")
    /\ requests[r].status = "approved" => HasReveal(r, requests[r].decided_by)

RowsSound ==
    /\ requests \in [Request -> RequestRow]
    /\ \A r \in Request : RowSound(r)

EntrySound(e) ==
    /\ e.action = "request" =>
          /\ e.of \in Request
          /\ requests[e.of].status # "absent"
          /\ requests[e.of].requested_by = e.by
    /\ e.action \in {"approve", "deny"} => IsDecided(e.of, e.by, e.action = "approve")

AuditSound == audit \subseteq Entry /\ \A e \in audit : EntrySound(e)

SetsTyped ==
    /\ cases \subseteq Case
    /\ reveals \subseteq RevealRow
    /\ decided \subseteq Decision
    /\ disclosed \subseteq [viewer : User, request : Request, case : Case]
    /\ printed \subseteq [to : Name, approver : Name, actor : Actor]

IInv ==
    /\ SetsTyped
    /\ RowsSound
    /\ AuditSound
    /\ HandlersSound
    /\ AuditedBeforeShown

----------------------------------------------------------------------------
(* What no step takes back.                                                *)

SameRequest(r) ==
    requests[r].status # "absent" =>
        /\ requests'[r].status # "absent"
        /\ requests'[r].requested_by = requests[r].requested_by
        /\ requests'[r].case = requests[r].case

Grows ==
    /\ \A r \in Request : SameRequest(r)
    /\ reveals \subseteq reveals'
    /\ audit \subseteq audit'
    /\ decided \subseteq decided'

\* A handler that stands still stays sound.
LEMMA SoundStable ==
    ASSUME NEW h, Sound(h), Grows
    PROVE  Sound(h)'
<1>1. SoundRequest(h)'
  BY DEF Sound, Grows, SameRequest, SoundRequest
<1>2. SoundDecision(h)'
  BY DEF Sound, Grows, SameRequest, SoundDecision, HasReveal, IsDecided
<1>3. SoundView(h)'
  BY DEF Sound, Grows, SameRequest, SoundView, MayBeShown, IsDecided, ViewEntry
<1>4. SoundCli(h)'
  BY DEF Sound, Grows, SoundCli, CliEntry
<1> QED
  BY <1>1, <1>2, <1>3, <1>4 DEF Sound

\* One handler moves on, to locals that are sound; all others stand still.
LEMMA OneMoves ==
    ASSUME HandlersSound, Grows, NEW t \in Runner, NEW h, Go(t, h), Sound(h)'
    PROVE  HandlersSound'
<1>1. h \in Handler
  BY DEF Sound
<1>2. handler' \in [Runner -> Handler]
  BY <1>1 DEF HandlersSound, Go
<1>3. ASSUME NEW o \in Runner
      PROVE  Sound(handler[o])'
  <2>1. CASE o = t
    BY <2>1 DEF Go, HandlersSound
  <2>2. CASE o # t
    <3>1. handler'[o] = handler[o]
      BY <2>2 DEF Go, HandlersSound
    <3>2. PICK k : k = handler[o]
      OBVIOUS
    <3>3. Sound(k)'
      BY <3>2, SoundStable DEF HandlersSound
    <3> QED
      BY <3>1, <3>2, <3>3
  <2> QED
    BY <2>1, <2>2
<1> QED
  BY <1>2, <1>3 DEF HandlersSound

LEMMA DoneSound ==
    ASSUME HandlersSound, Grows, NEW t \in Runner, Done(t)
    PROVE  HandlersSound'
<1>1. Sound(Idle)'
  BY DEF Sound, Idle, Handler, SoundRequest, SoundDecision, SoundView, SoundCli
<1>2. PICK h : h = Idle
  OBVIOUS
<1>3. Go(t, h) /\ Sound(h)'
  BY <1>1, <1>2 DEF Done, Idle
<1> QED
  BY <1>3, OneMoves

Tables == <<cases, requests, reveals, audit, decided, disclosed, printed>>

LEMMA TablesStand ==
    ASSUME IInv, UNCHANGED Tables
    PROVE  SetsTyped' /\ RowsSound' /\ AuditSound' /\ AuditedBeforeShown' /\ Grows
<1>1. SetsTyped' /\ Grows
  BY DEF Tables, IInv, SetsTyped, Grows, SameRequest
<1>2. RowsSound'
  BY DEF Tables, IInv, RowsSound, RowSound, HasReveal, IsDecided
<1>3. AuditSound'
  BY DEF Tables, IInv, AuditSound, EntrySound, IsDecided
<1>4. AuditedBeforeShown'
  BY DEF Tables, IInv, AuditedBeforeShown
<1> QED
  BY <1>1, <1>2, <1>3, <1>4

\* A step that reads the tables and moves one handler on.
LEMMA ReadKeeps ==
    ASSUME IInv, UNCHANGED Tables, NEW t \in Runner, NEW h, Go(t, h), Sound(h)'
    PROVE  IInv'
BY TablesStand, OneMoves DEF IInv

LEMMA DoneKeeps ==
    ASSUME IInv, UNCHANGED Tables, NEW t \in Runner, Done(t)
    PROVE  IInv'
BY TablesStand, DoneSound DEF IInv

----------------------------------------------------------------------------
(* The steps that only read.                                               *)

LEMMA RequestRevealKeeps ==
    ASSUME IInv, NEW t \in Runner, NEW u \in User, NEW c \in Case,
           RequestReveal(t, u, c)
    PROVE  IInv'
<1>1. PICK h : h = [Idle EXCEPT !.at = "insert", !.user = u, !.case = c]
  OBVIOUS
<1>2. Go(t, h) /\ UNCHANGED Tables
  BY <1>1 DEF RequestReveal, Tables
<1>3. Sound(h)'
  BY <1>1 DEF Sound, Idle, Handler, Name, SoundRequest, SoundDecision, SoundView, SoundCli
<1> QED
  BY <1>2, <1>3, ReadKeeps

LEMMA LoadCaseKeeps ==
    ASSUME IInv, NEW t \in Runner, NEW u \in User, NEW c \in Case, LoadCase(t, u, c)
    PROVE  IInv'
<1>1. PICK h : h = [Idle EXCEPT !.at = "load_requests", !.user = u, !.case = c]
  OBVIOUS
<1>2. Go(t, h) /\ UNCHANGED Tables
  BY <1>1 DEF LoadCase, Tables
<1>3. Sound(h)'
  BY <1>1 DEF Sound, Idle, Handler, Name, SoundRequest, SoundDecision, SoundView, SoundCli
<1> QED
  BY <1>2, <1>3, ReadKeeps

LEMMA LoadRequestKeeps ==
    ASSUME IInv, NEW t \in Runner, NEW u \in User, NEW r \in Request,
           NEW approve \in BOOLEAN, LoadRequest(t, u, r, approve)
    PROVE  IInv'
<1>1. PICK h : h = [Idle EXCEPT !.at = IF approve THEN "find_actor" ELSE "update",
                                !.user = u, !.request = r, !.approve = approve,
                                !.before = {d \in decided : d.request = r}]
  OBVIOUS
<1>2. Go(t, h) /\ UNCHANGED Tables
  BY <1>1 DEF LoadRequest, Tables
<1>3. /\ u \in Lead
      /\ requests[r].status = "pending"
      /\ requests[r].requested_by # u
  BY DEF LoadRequest, Decidable
<1>4. h.before = {}
  BY <1>1, <1>3 DEF Idle, IInv, RowsSound, RowSound
<1>5. h \in Handler
  <2>1. {d \in decided : d.request = r} \subseteq Decision
    BY DEF IInv, SetsTyped
  <2> QED
    BY <1>1, <2>1 DEF Idle, Handler, Name
<1>6. SoundDecision(h)'
  BY <1>1, <1>2, <1>3, <1>4 DEF Idle, SoundDecision, Tables
<1>7. SoundRequest(h)' /\ SoundView(h)' /\ SoundCli(h)'
  BY <1>1 DEF Idle, SoundRequest, SoundView, SoundCli
<1> QED
  BY <1>2, <1>5, <1>6, <1>7, ReadKeeps DEF Sound

LEMMA FindActorKeeps ==
    ASSUME IInv, NEW t \in Runner, FindActor(t)
    PROVE  IInv'
<1>1. UNCHANGED Tables
  BY DEF FindActor, Tables
<1>2. CASE Done(t)
  BY <1>1, <1>2, DoneKeeps
<1>3. ASSUME NEW c \in cases,
             Go(t, [handler[t] EXCEPT !.at = "reveal", !.actor = CaseActor[c]])
      PROVE  IInv'
  <2>1. PICK h : h = [handler[t] EXCEPT !.at = "reveal", !.actor = CaseActor[c]]
    OBVIOUS
  <2>2. PICK k : k = handler[t]
    OBVIOUS
  <2>3. Sound(k) /\ k.at = "find_actor"
    BY <2>2 DEF IInv, HandlersSound, FindActor, At
  <2>4. CaseActor[c] \in Actor
    BY RevealAssumption DEF IInv, SetsTyped
  <2>5. h = [k EXCEPT !.at = "reveal", !.actor = CaseActor[c]]
    BY <2>1, <2>2
  <2>6. h \in Handler
    BY <2>3, <2>4, <2>5 DEF Sound, Handler
  <2>7. /\ h.at = "reveal" /\ h.actor \in Actor /\ h.user = k.user
        /\ h.request = k.request /\ h.before = k.before /\ h.approve = k.approve
    BY <2>3, <2>4, <2>5 DEF Sound, Handler
  <2>8. SoundDecision(h)'
    BY <1>1, <2>3, <2>7 DEF Sound, SoundDecision, Tables
  <2>9. SoundRequest(h)' /\ SoundView(h)' /\ SoundCli(h)'
    BY <2>7 DEF SoundRequest, SoundView, SoundCli
  <2> QED
    BY <1>1, <1>3, <2>1, <2>6, <2>8, <2>9, ReadKeeps DEF Sound
<1> QED
  BY <1>2, <1>3 DEF FindActor, CasesNamed

LEMMA LoadRequestsKeeps ==
    ASSUME IInv, NEW t \in Runner, LoadRequests(t)
    PROVE  IInv'
<1> DEFINE G(r) == [handler[t] EXCEPT !.at = "audit_view", !.request = r]
<1>1. UNCHANGED Tables
  BY DEF LoadRequests, Tables
<1>2. PICK k : k = handler[t]
  OBVIOUS
<1>3. Sound(k) /\ k.at = "load_requests"
  BY <1>2 DEF IInv, HandlersSound, LoadRequests, At
<1>4. CASE Go(t, [handler[t] EXCEPT !.at = "audit_view"])
  <2>1. PICK h : h = [k EXCEPT !.at = "audit_view"]
    OBVIOUS
  <2>2. h \in Handler
    BY <1>3, <2>1 DEF Sound, Handler
  <2>3. /\ h.at = "audit_view" /\ h.request = None
        /\ h.user \in User /\ h.case \in Case
    BY <1>3, <2>1 DEF Sound, Handler, SoundView
  <2>4. /\ SoundView(h)' /\ SoundRequest(h)' /\ SoundDecision(h)' /\ SoundCli(h)'
    BY <2>3 DEF SoundView, SoundRequest, SoundDecision, SoundCli
  <2>5. Go(t, h)
    BY <1>2, <1>4, <2>1
  <2> QED
    BY <1>1, <2>2, <2>4, <2>5, ReadKeeps DEF Sound
<1>5. ASSUME NEW r \in Request, Grants(r, handler[t].case, handler[t].user),
             Go(t, G(r))
      PROVE  IInv'
  <2>1. PICK h : h = [k EXCEPT !.at = "audit_view", !.request = r]
    OBVIOUS
  <2>2. h \in Handler
    BY <1>3, <2>1 DEF Sound, Handler
  <2>3. /\ h.at = "audit_view" /\ h.user = k.user /\ h.case = k.case
        /\ h.request = r /\ h.user \in User /\ h.case \in Case
    BY <1>3, <2>1 DEF Sound, Handler, SoundView
  <2>4. MayBeShown(r, h.case, h.user)'
    BY <1>1, <1>2, <1>5, <2>3 DEF Tables, IInv, RowsSound, RowSound, Grants, MayBeShown, IsDecided
  <2>5. SoundView(h)'
    BY <2>3, <2>4 DEF SoundView
  <2>6. SoundRequest(h)' /\ SoundDecision(h)' /\ SoundCli(h)'
    BY <2>3 DEF SoundRequest, SoundDecision, SoundCli
  <2>7. Go(t, h)
    BY <1>2, <1>5, <2>1
  <2> QED
    BY <1>1, <2>2, <2>5, <2>6, <2>7, ReadKeeps DEF Sound
<1> QED
  BY <1>4, <1>5 DEF LoadRequests

LEMMA CliRevealKeeps ==
    ASSUME IInv, NEW t \in Runner, NEW u \in Name, NEW approver \in Name,
           NEW a \in Actor, CliReveal(t, u, approver, a)
    PROVE  IInv'
<1>1. PICK h : h = [Idle EXCEPT !.at = "cli_reveal", !.user = u,
                                !.with = approver, !.actor = a]
  OBVIOUS
<1>2. Go(t, h) /\ UNCHANGED Tables
  BY <1>1 DEF CliReveal, Tables
<1>3. Sound(h)'
  BY <1>1 DEF Sound, Idle, Handler, SoundRequest, SoundDecision, SoundView, SoundCli
<1> QED
  BY <1>2, <1>3, ReadKeeps

----------------------------------------------------------------------------
(* The steps that write reveal_requests.                                   *)

LEMMA InsertRequestKeeps ==
    ASSUME IInv, NEW t \in Runner, NEW r \in Request, InsertRequest(t, r)
    PROVE  IInv'
<1>1. PICK k : k = handler[t]
  OBVIOUS
<1>2. /\ Sound(k) /\ k.at = "insert" /\ k.user \in User /\ k.case \in Case
      /\ requests[r].status = "absent"
  BY <1>1 DEF IInv, HandlersSound, InsertRequest, At, Sound, SoundRequest
<1>3. PICK row : row = [status |-> "pending", case |-> k.case,
                        requested_by |-> k.user, decided_by |-> None]
  OBVIOUS
<1>4. requests' = [requests EXCEPT ![r] = row]
  BY <1>1, <1>3 DEF InsertRequest
<1>5. row \in RequestRow
  BY <1>2, <1>3 DEF RequestRow
<1>6. /\ requests' \in [Request -> RequestRow]
      /\ requests'[r] = row
      /\ \A q \in Request : q # r => requests'[q] = requests[q]
  BY <1>4, <1>5 DEF IInv, RowsSound
<1>7. UNCHANGED <<cases, reveals, audit, decided, disclosed, printed>>
  BY DEF InsertRequest
<1>8. Grows
  BY <1>2, <1>6, <1>7 DEF Grows, SameRequest
<1>9. RowsSound'
  <2>1. RowSound(r)'
    BY <1>2, <1>3, <1>6, <1>7 DEF IInv, RowsSound, RowSound
  <2>2. ASSUME NEW q \in Request, q # r
        PROVE  RowSound(q)'
    BY <1>6, <1>7, <2>2 DEF IInv, RowsSound, RowSound, HasReveal, IsDecided
  <2> QED
    BY <1>6, <2>1, <2>2 DEF RowsSound
<1>10. AuditSound'
  <2>1. ASSUME NEW e \in audit
        PROVE  EntrySound(e)'
    BY <1>2, <1>6, <1>7 DEF IInv, AuditSound, EntrySound, IsDecided
  <2> QED
    BY <1>7, <2>1 DEF IInv, AuditSound
<1>11. SetsTyped' /\ AuditedBeforeShown'
  BY <1>7 DEF IInv, SetsTyped, AuditedBeforeShown
<1>12. PICK h : h = [k EXCEPT !.at = "audit_request", !.request = r]
  OBVIOUS
<1>13. Go(t, h)
  BY <1>1, <1>12 DEF InsertRequest
<1>14. Sound(h)'
  <2>1. h \in Handler
    BY <1>2, <1>12 DEF Sound, Handler
  <2>2. h.at = "audit_request" /\ h.request = r /\ h.user = k.user
    BY <1>2, <1>12 DEF Sound, Handler
  <2>3. SoundRequest(h)' /\ SoundDecision(h)' /\ SoundView(h)' /\ SoundCli(h)'
    BY <1>2, <1>3, <1>6, <2>2 DEF SoundRequest, SoundDecision, SoundView, SoundCli
  <2> QED
    BY <2>1, <2>3 DEF Sound
<1> QED
  BY <1>8, <1>9, <1>10, <1>11, <1>13, <1>14, OneMoves DEF IInv

LEMMA UpdateRequestKeeps ==
    ASSUME IInv, NEW t \in Runner, UpdateRequest(t)
    PROVE  IInv'
<1>1. PICK k : k = handler[t]
  OBVIOUS
<1>2. PICK r : r = k.request
  OBVIOUS
<1>3. PICK status : status = (IF k.approve THEN "approved" ELSE "denied")
  OBVIOUS
<1>4. PICK d : d = [request |-> r, by |-> k.user, approve |-> k.approve]
  OBVIOUS
<1>5. /\ Sound(k) /\ k.at = "update" /\ r \in Request /\ k.user \in User
      /\ k.approve \in BOOLEAN
      /\ requests[r].status # "absent"
      /\ k.approve => HasReveal(r, k.user)
  BY <1>1, <1>2 DEF IInv, HandlersSound, UpdateRequest, UpdateWith, At, Sound,
                    SoundDecision, Handler, User
<1>6. /\ requests' = [requests EXCEPT ![r].status = status, ![r].decided_by = k.user]
      /\ decided' = decided \cup {d}
      /\ UNCHANGED <<cases, reveals, audit, disclosed, printed>>
  BY <1>1, <1>2, <1>3, <1>4 DEF UpdateRequest, UpdateWith, NewStatus
<1>7. /\ requests' \in [Request -> RequestRow]
      /\ requests'[r].status = status /\ requests'[r].decided_by = k.user
      /\ requests'[r].case = requests[r].case
      /\ requests'[r].requested_by = requests[r].requested_by
      /\ \A q \in Request : q # r => requests'[q] = requests[q]
  BY <1>3, <1>5, <1>6 DEF IInv, RowsSound, RequestRow
<1>8. d \in Decision
  BY <1>4, <1>5 DEF Decision
<1>9. Grows
  BY <1>3, <1>6, <1>7 DEF Grows, SameRequest
<1>10. RowsSound'
  <2>1. RowSound(r)'
    <3>1. HasReveal(r, k.user) => HasReveal(r, k.user)'
      BY <1>6, <1>7 DEF HasReveal
    <3>2. IsDecided(r, k.user, k.approve)'
      BY <1>4, <1>6 DEF IsDecided
    <3>3. /\ k.approve => status = "approved"
          /\ ~k.approve => status = "denied"
          /\ (status = "approved") = k.approve
      BY <1>3, <1>5
    <3>4. requests'[r].requested_by \in User /\ requests'[r].case \in Case
      BY <1>5, <1>7 DEF IInv, RowsSound, RowSound
    <3> QED
      BY <1>5, <1>7, <3>1, <3>2, <3>3, <3>4 DEF RowSound
  <2>2. ASSUME NEW q \in Request, q # r
        PROVE  RowSound(q)'
    <3>1. d.request # q
      BY <1>4, <2>2
    <3> QED
      BY <1>6, <1>7, <2>2, <3>1 DEF IInv, RowsSound, RowSound, HasReveal, IsDecided
  <2> QED
    BY <1>7, <2>1, <2>2 DEF RowsSound
<1>11. AuditSound'
  <2>1. ASSUME NEW e \in audit
        PROVE  EntrySound(e)'
    BY <1>9 DEF IInv, AuditSound, EntrySound, IsDecided, Grows, SameRequest
  <2> QED
    BY <1>6, <2>1 DEF IInv, AuditSound
<1>12. SetsTyped' /\ AuditedBeforeShown'
  BY <1>6, <1>8 DEF IInv, SetsTyped, AuditedBeforeShown
<1>13. PICK h : h = [k EXCEPT !.at = "audit_decision"]
  OBVIOUS
<1>14. Go(t, h)
  BY <1>1, <1>13 DEF UpdateRequest, UpdateWith
<1>15. Sound(h)'
  <2>1. h \in Handler
    BY <1>5, <1>13 DEF Sound, Handler
  <2>2. /\ h.at = "audit_decision" /\ h.request = r /\ h.user = k.user
        /\ h.approve = k.approve
    BY <1>2, <1>5, <1>13 DEF Sound, Handler
  <2>3. IsDecided(r, k.user, k.approve)'
    BY <1>4, <1>6 DEF IsDecided
  <2>4. SoundRequest(h)' /\ SoundDecision(h)' /\ SoundView(h)' /\ SoundCli(h)'
    BY <1>5, <2>2, <2>3 DEF SoundRequest, SoundDecision, SoundView, SoundCli
  <2> QED
    BY <2>1, <2>4 DEF Sound
<1> QED
  BY <1>9, <1>10, <1>11, <1>12, <1>14, <1>15, OneMoves DEF IInv

----------------------------------------------------------------------------
(* The steps that write reveals.                                           *)

LEMMA RevealAdds ==
    ASSUME IInv, NEW row \in RevealRow, reveals' = reveals \cup {row},
           UNCHANGED <<cases, requests, audit, decided, disclosed, printed>>
    PROVE  SetsTyped' /\ RowsSound' /\ AuditSound' /\ AuditedBeforeShown' /\ Grows
<1>1. Grows
  BY DEF Grows, SameRequest
<1>2. RowsSound'
  BY DEF IInv, RowsSound, RowSound, HasReveal, IsDecided
<1>3. AuditSound'
  BY DEF IInv, AuditSound, EntrySound, IsDecided
<1>4. SetsTyped' /\ AuditedBeforeShown'
  BY DEF IInv, SetsTyped, AuditedBeforeShown
<1> QED
  BY <1>1, <1>2, <1>3, <1>4

LEMMA RecordRevealKeeps ==
    ASSUME IInv, NEW t \in Runner, RecordReveal(t)
    PROVE  IInv'
<1>1. PICK k : k = handler[t]
  OBVIOUS
<1>2. PICK r : r = k.request
  OBVIOUS
<1>3. /\ Sound(k) /\ k.at = "reveal" /\ r \in Request /\ k.user \in Lead
      /\ k.actor \in Actor /\ k.before = {} /\ k.approve
      /\ requests[r].status # "absent" /\ requests[r].requested_by # k.user
  BY <1>1, <1>2 DEF IInv, HandlersSound, RecordReveal, At, Sound, SoundDecision
<1>4. PICK row : row = [request |-> r, actor |-> k.actor,
                        requested_by |-> requests[r].requested_by,
                        approved_by |-> k.user]
  OBVIOUS
<1>5. row \in RevealRow
  <2>1. requests[r].requested_by \in User
    BY <1>3 DEF IInv, RowsSound, RowSound
  <2> QED
    BY <1>3, <1>4, <2>1 DEF RevealRow, Name, User
<1>6. /\ reveals' = reveals \cup {row}
      /\ UNCHANGED <<cases, requests, audit, decided, disclosed, printed>>
  BY <1>1, <1>2, <1>4 DEF RecordReveal
<1>7. PICK h : h = [k EXCEPT !.at = "update"]
  OBVIOUS
<1>8. Go(t, h)
  BY <1>1, <1>7 DEF RecordReveal
<1>9. Sound(h)'
  <2>1. h \in Handler
    BY <1>3, <1>7 DEF Sound, Handler
  <2>2. /\ h.at = "update" /\ h.request = r /\ h.user = k.user
        /\ h.approve = k.approve /\ h.before = k.before
    BY <1>2, <1>3, <1>7 DEF Sound, Handler
  <2>3. HasReveal(r, k.user)'
    BY <1>4, <1>6 DEF HasReveal
  <2>4. SoundRequest(h)' /\ SoundDecision(h)' /\ SoundView(h)' /\ SoundCli(h)'
    BY <1>3, <1>6, <2>2, <2>3 DEF SoundRequest, SoundDecision, SoundView, SoundCli
  <2> QED
    BY <2>1, <2>4 DEF Sound
<1> QED
  BY <1>5, <1>6, <1>8, <1>9, RevealAdds, OneMoves DEF IInv

LEMMA CliRecordKeeps ==
    ASSUME IInv, NEW t \in Runner, CliRecord(t)
    PROVE  IInv'
<1>1. PICK k : k = handler[t]
  OBVIOUS
<1>2. /\ Sound(k) /\ k.at = "cli_reveal" /\ k.user \in Name /\ k.with \in Name
      /\ k.actor \in Actor
  BY <1>1 DEF IInv, HandlersSound, CliRecord, At, Sound, SoundCli
<1>3. PICK row : row = [request |-> None, actor |-> k.actor,
                        requested_by |-> k.user, approved_by |-> k.with]
  OBVIOUS
<1>4. row \in RevealRow
  BY <1>2, <1>3 DEF RevealRow
<1>5. /\ reveals' = reveals \cup {row}
      /\ UNCHANGED <<cases, requests, audit, decided, disclosed, printed>>
  BY <1>1, <1>3 DEF CliRecord
<1>6. PICK h : h = [k EXCEPT !.at = "cli_audit"]
  OBVIOUS
<1>7. Go(t, h)
  BY <1>1, <1>6 DEF CliRecord
<1>8. Sound(h)'
  <2>1. h \in Handler
    BY <1>2, <1>6 DEF Sound, Handler
  <2>2. /\ h.at = "cli_audit" /\ h.user = k.user /\ h.with = k.with
        /\ h.actor = k.actor
    BY <1>2, <1>6 DEF Sound, Handler
  <2>3. SoundRequest(h)' /\ SoundDecision(h)' /\ SoundView(h)' /\ SoundCli(h)'
    BY <1>2, <2>2 DEF SoundRequest, SoundDecision, SoundView, SoundCli
  <2> QED
    BY <2>1, <2>3 DEF Sound
<1> QED
  BY <1>4, <1>5, <1>7, <1>8, RevealAdds, OneMoves DEF IInv

----------------------------------------------------------------------------
(* The steps that write to the audit log.                                  *)

LEMMA EntryAdds ==
    ASSUME IInv, NEW e \in Entry, EntrySound(e), audit' = audit \cup {e},
           UNCHANGED <<cases, requests, reveals, decided, disclosed, printed>>
    PROVE  SetsTyped' /\ RowsSound' /\ AuditSound' /\ AuditedBeforeShown' /\ Grows
<1>1. Grows
  BY DEF Grows, SameRequest
<1>2. RowsSound'
  BY DEF IInv, RowsSound, RowSound, HasReveal, IsDecided
<1>3. AuditSound'
  BY DEF IInv, AuditSound, EntrySound, IsDecided
<1>4. SetsTyped' /\ AuditedBeforeShown'
  BY DEF IInv, SetsTyped, AuditedBeforeShown
<1> QED
  BY <1>1, <1>2, <1>3, <1>4

LEMMA AuditRequestKeeps ==
    ASSUME IInv, NEW t \in Runner, AuditRequest(t)
    PROVE  IInv'
<1>1. PICK k : k = handler[t]
  OBVIOUS
<1>2. SoundRequest(k) /\ k.at = "audit_request"
  BY <1>1 DEF IInv, HandlersSound, AuditRequest, At, Sound
<1>3. PICK e : e = [by |-> k.user, action |-> "request", of |-> k.request,
                    shown |-> FALSE]
  OBVIOUS
<1>4. e \in Entry /\ EntrySound(e)
  BY <1>2, <1>3 DEF Entry, EntrySound, SoundRequest, Name
<1>5. /\ audit' = audit \cup {e}
      /\ UNCHANGED <<cases, requests, reveals, decided, disclosed, printed>>
  BY <1>1, <1>3 DEF AuditRequest, Audit
<1> QED
  BY <1>4, <1>5, EntryAdds, DoneSound DEF IInv, AuditRequest

LEMMA AuditDecisionKeeps ==
    ASSUME IInv, NEW t \in Runner, AuditDecision(t)
    PROVE  IInv'
<1>1. PICK k : k = handler[t]
  OBVIOUS
<1>2. SoundDecision(k) /\ k \in Handler /\ k.at = "audit_decision"
  BY <1>1 DEF IInv, HandlersSound, AuditDecision, At, Sound
<1>3. PICK e : e = [by |-> k.user, action |-> IF k.approve THEN "approve" ELSE "deny",
                    of |-> k.request, shown |-> FALSE]
  OBVIOUS
<1>4. e \in Entry /\ EntrySound(e)
  <2>1. k.approve \in BOOLEAN
    BY <1>2 DEF Handler
  <2>2. k.user \in User /\ k.request \in Request
    BY <1>2 DEF SoundDecision
  <2>3. e.action \in {"approve", "deny"} /\ (e.action = "approve") = k.approve
    BY <1>3, <2>1
  <2>4. e \in Entry
    BY <1>3, <2>2 DEF Entry, Name
  <2>5. IsDecided(e.of, e.by, e.action = "approve")
    BY <1>2, <1>3, <2>3 DEF SoundDecision
  <2> QED
    BY <2>3, <2>4, <2>5 DEF EntrySound
<1>5. /\ audit' = audit \cup {e}
      /\ UNCHANGED <<cases, requests, reveals, decided, disclosed, printed>>
  BY <1>1, <1>3 DEF AuditDecision, Audit
<1> QED
  BY <1>4, <1>5, EntryAdds, DoneSound DEF IInv, AuditDecision

LEMMA AuditViewKeeps ==
    ASSUME IInv, NEW t \in Runner, AuditView(t)
    PROVE  IInv'
<1>1. PICK k : k = handler[t]
  OBVIOUS
<1>2. Sound(k) /\ k.at = "audit_view" /\ k.user \in User /\ k.case \in Case
  BY <1>1 DEF IInv, HandlersSound, AuditView, At, Sound, SoundView
<1>3. PICK e : e = [by |-> k.user, action |-> "view", of |-> k.case,
                    shown |-> k.request # None]
  OBVIOUS
<1>4. e \in Entry /\ EntrySound(e)
  BY <1>2, <1>3 DEF Entry, EntrySound, Name
<1>5. /\ audit' = audit \cup {e}
      /\ UNCHANGED <<cases, requests, reveals, decided, disclosed, printed>>
  BY <1>1, <1>3 DEF AuditView, Audit
<1>6. PICK h : h = [k EXCEPT !.at = "respond"]
  OBVIOUS
<1>7. Go(t, h)
  BY <1>1, <1>6 DEF AuditView
<1>8. Sound(h)'
  <2>1. h \in Handler
    BY <1>2, <1>6 DEF Sound, Handler
  <2>2. /\ h.at = "respond" /\ h.user = k.user /\ h.case = k.case
        /\ h.request = k.request
    BY <1>2, <1>6 DEF Sound, Handler
  <2>3. k.request # None => ViewEntry(k.user, k.case) \in audit'
    BY <1>3, <1>5 DEF ViewEntry
  <2>4. k.request # None => MayBeShown(k.request, k.case, k.user)'
    BY <1>2, <1>5 DEF Sound, SoundView, MayBeShown, IsDecided
  <2>5. SoundView(h)'
    BY <1>2, <2>2, <2>3, <2>4 DEF SoundView, ViewEntry
  <2>6. SoundRequest(h)' /\ SoundDecision(h)' /\ SoundCli(h)'
    BY <2>2 DEF SoundRequest, SoundDecision, SoundCli
  <2> QED
    BY <2>1, <2>5, <2>6 DEF Sound
<1> QED
  BY <1>4, <1>5, <1>7, <1>8, EntryAdds, OneMoves DEF IInv

LEMMA CliAuditKeeps ==
    ASSUME IInv, NEW t \in Runner, CliAudit(t)
    PROVE  IInv'
<1>1. PICK k : k = handler[t]
  OBVIOUS
<1>2. /\ Sound(k) /\ k.at = "cli_audit" /\ k.user \in Name /\ k.with \in Name
      /\ k.actor \in Actor
  BY <1>1 DEF IInv, HandlersSound, CliAudit, At, Sound, SoundCli
<1>3. PICK e : e = CliEntry(k.user)
  OBVIOUS
<1>4. e \in Entry /\ EntrySound(e)
  BY <1>2, <1>3 DEF Entry, EntrySound, CliEntry
<1>5. /\ audit' = audit \cup {e}
      /\ UNCHANGED <<cases, requests, reveals, decided, disclosed, printed>>
  BY <1>1, <1>3 DEF CliAudit, Audit, CliEntry
<1>6. PICK h : h = [k EXCEPT !.at = "cli_print"]
  OBVIOUS
<1>7. Go(t, h)
  BY <1>1, <1>6 DEF CliAudit
<1>8. Sound(h)'
  <2>1. h \in Handler
    BY <1>2, <1>6 DEF Sound, Handler
  <2>2. /\ h.at = "cli_print" /\ h.user = k.user /\ h.with = k.with
        /\ h.actor = k.actor
    BY <1>2, <1>6 DEF Sound, Handler
  <2>3. SoundRequest(h)' /\ SoundDecision(h)' /\ SoundView(h)' /\ SoundCli(h)'
    BY <1>2, <1>3, <1>5, <2>2 DEF SoundRequest, SoundDecision, SoundView, SoundCli, CliEntry
  <2> QED
    BY <2>1, <2>3 DEF Sound
<1> QED
  BY <1>4, <1>5, <1>7, <1>8, EntryAdds, OneMoves DEF IInv

----------------------------------------------------------------------------
(* The steps that show an identity, and those outside the handlers.        *)

LEMMA RowsAndEntriesStand ==
    ASSUME IInv, UNCHANGED <<requests, reveals, audit, decided>>
    PROVE  RowsSound' /\ AuditSound' /\ Grows
<1>1. RowsSound'
  BY DEF IInv, RowsSound, RowSound, HasReveal, IsDecided
<1>2. AuditSound'
  BY DEF IInv, AuditSound, EntrySound, IsDecided
<1>3. Grows
  BY DEF Grows, SameRequest
<1> QED
  BY <1>1, <1>2, <1>3

LEMMA RespondKeeps ==
    ASSUME IInv, NEW t \in Runner, Respond(t)
    PROVE  IInv'
<1>1. PICK k : k = handler[t]
  OBVIOUS
<1>2. SoundView(k) /\ k.at = "respond" /\ k.user \in User /\ k.case \in Case
  BY <1>1 DEF IInv, HandlersSound, Respond, At, Sound, SoundView
<1>3. PICK d : d = [viewer |-> k.user, request |-> k.request, case |-> k.case]
  OBVIOUS
<1>4. k.request # None =>
          /\ d \in [viewer : User, request : Request, case : Case]
          /\ ViewEntry(d.viewer, d.case) \in audit
  BY <1>2, <1>3 DEF SoundView, MayBeShown
<1>5. /\ disclosed' = disclosed \cup (IF k.request = None THEN {} ELSE {d})
      /\ UNCHANGED <<cases, requests, reveals, audit, decided, printed>>
  BY <1>1, <1>3 DEF Respond
<1>6. SetsTyped'
  BY <1>4, <1>5 DEF IInv, SetsTyped
<1>7. AuditedBeforeShown'
  BY <1>4, <1>5 DEF IInv, AuditedBeforeShown, ViewEntry
<1> QED
  BY <1>5, <1>6, <1>7, RowsAndEntriesStand, DoneSound DEF IInv, Respond

LEMMA CliPrintKeeps ==
    ASSUME IInv, NEW t \in Runner, CliPrint(t)
    PROVE  IInv'
<1>1. PICK k : k = handler[t]
  OBVIOUS
<1>2. SoundCli(k) /\ k.at = "cli_print"
  BY <1>1 DEF IInv, HandlersSound, CliPrint, At, Sound
<1>3. PICK p : p = [to |-> k.user, approver |-> k.with, actor |-> k.actor]
  OBVIOUS
<1>4. /\ p \in [to : Name, approver : Name, actor : Actor]
      /\ CliEntry(p.to) \in audit
  BY <1>2, <1>3 DEF SoundCli
<1>5. /\ printed' = printed \cup {p}
      /\ UNCHANGED <<cases, requests, reveals, audit, decided, disclosed>>
  BY <1>1, <1>3 DEF CliPrint
<1>6. SetsTyped'
  BY <1>4, <1>5 DEF IInv, SetsTyped
<1>7. AuditedBeforeShown'
  BY <1>4, <1>5 DEF IInv, AuditedBeforeShown, CliEntry
<1> QED
  BY <1>5, <1>6, <1>7, RowsAndEntriesStand, DoneSound DEF IInv, CliPrint

LEMMA CasesKeep ==
    ASSUME IInv, NEW c \in Case, CaseOpens(c) \/ CasePurged(c)
    PROVE  IInv'
<1>1. /\ cases' \subseteq Case
      /\ UNCHANGED <<requests, reveals, audit, handler, decided, disclosed, printed>>
  BY DEF IInv, SetsTyped, CaseOpens, CasePurged
<1>2. RowsSound' /\ AuditSound' /\ Grows
  BY <1>1, RowsAndEntriesStand
<1>3. SetsTyped' /\ AuditedBeforeShown'
  BY <1>1 DEF IInv, SetsTyped, AuditedBeforeShown
<1>4. HandlersSound'
  <2>1. ASSUME NEW o \in Runner
        PROVE  Sound(handler[o])'
    <3>1. PICK k : k = handler[o]
      OBVIOUS
    <3>2. Sound(k)'
      BY <1>2, <3>1, SoundStable DEF IInv, HandlersSound
    <3> QED
      BY <1>1, <3>1, <3>2
  <2> QED
    BY <1>1, <2>1 DEF IInv, HandlersSound
<1> QED
  BY <1>2, <1>3, <1>4 DEF IInv

LEMMA FailKeeps ==
    ASSUME IInv, NEW t \in Runner, Fail(t)
    PROVE  IInv'
BY DoneKeeps DEF Fail, Tables

----------------------------------------------------------------------------
(* The invariant holds.                                                    *)

LEMMA InitEstablishes == Init => IInv
<1> SUFFICES ASSUME Init PROVE IInv
  OBVIOUS
<1>1. \A r \in Request : requests[r] = NoRow
  BY DEF Init
<1>2. NoRow \in RequestRow /\ NoRow.status = "absent"
  BY DEF NoRow, RequestRow
<1>3. RowsSound
  <2>1. requests \in [Request -> RequestRow]
    BY <1>2 DEF Init
  <2>2. \A r \in Request : RowSound(r)
    BY <1>1, <1>2 DEF RowSound, Init
  <2> QED
    BY <2>1, <2>2 DEF RowsSound
<1>4. SetsTyped /\ AuditSound /\ AuditedBeforeShown
  BY DEF Init, SetsTyped, AuditSound, AuditedBeforeShown
<1>5. Sound(Idle)
  BY DEF Sound, Idle, Handler, SoundRequest, SoundDecision, SoundView, SoundCli
<1>6. HandlersSound
  BY <1>5 DEF Init, HandlersSound, Sound
<1> QED
  BY <1>3, <1>4, <1>6 DEF IInv

LEMMA StutterKeeps == IInv /\ UNCHANGED vars => IInv'
<1> SUFFICES ASSUME IInv, UNCHANGED vars PROVE IInv'
  OBVIOUS
<1>1. RowsSound' /\ AuditSound' /\ AuditedBeforeShown' /\ SetsTyped' /\ Grows
  BY TablesStand DEF vars, Tables
<1>2. HandlersSound'
  <2>1. ASSUME NEW o \in Runner
        PROVE  Sound(handler[o])'
    <3>1. PICK k : k = handler[o]
      OBVIOUS
    <3>2. Sound(k)'
      BY <1>1, <3>1, SoundStable DEF IInv, HandlersSound
    <3> QED
      BY <3>1, <3>2 DEF vars
  <2> QED
    BY <2>1 DEF IInv, HandlersSound, vars
<1> QED
  BY <1>1, <1>2 DEF IInv

LEMMA NextKeeps == IInv /\ Next => IInv'
<1> SUFFICES ASSUME IInv, Next PROVE IInv'
  OBVIOUS
<1>1. ASSUME NEW t \in Thread, Start(t)
      PROVE  IInv'
  BY <1>1, RequestRevealKeeps, LoadCaseKeeps, LoadRequestKeeps DEF Start, Runner
<1>2. ASSUME NEW t \in Thread, Continue(t)
      PROVE  IInv'
  BY <1>2, InsertRequestKeeps, AuditRequestKeeps, FindActorKeeps, RecordRevealKeeps,
     UpdateRequestKeeps, AuditDecisionKeeps, LoadRequestsKeeps, AuditViewKeeps,
     RespondKeeps DEF Continue, Runner
<1>3. ASSUME NEW t \in CliProcess, StartCli(t) \/ ContinueCli(t)
      PROVE  IInv'
  BY <1>3, CliRevealKeeps, CliRecordKeeps, CliAuditKeeps, CliPrintKeeps
     DEF StartCli, ContinueCli, Runner
<1>4. ASSUME NEW t \in Runner, Fail(t)
      PROVE  IInv'
  BY <1>4, FailKeeps
<1>5. ASSUME NEW c \in Case, CaseOpens(c) \/ CasePurged(c)
      PROVE  IInv'
  BY <1>5, CasesKeep
<1> QED
  BY <1>1, <1>2, <1>3, <1>4, <1>5 DEF Next

LEMMA Inductive == Spec => []IInv
BY InitEstablishes, NextKeeps, StutterKeeps, PTL DEF Spec

\* Every reachable state of the tables and handlers of api/main.py and cli.py
\* that take part in a reveal is well typed.
THEOREM TypeCorrect == Spec => []TypeOK
<1>1. IInv => TypeOK
  BY DEF IInv, SetsTyped, RowsSound, AuditSound, HandlersSound, TypeOK
<1> QED
  BY <1>1, Inductive, PTL

\* Whatever fails and whatever overlaps, nobody has been sent or shown an
\* identity without an entry in the audit log under that person's name.
THEOREM NothingShownUnaudited == Spec => []AuditedBeforeShown
<1>1. IInv => AuditedBeforeShown
  BY DEF IInv
<1> QED
  BY <1>1, Inductive, PTL

\* The audit log never claims a request or a decision that was not written.
THEOREM LogIsTrue == Spec => []AuditTellsTheTruth
<1>1. IInv => AuditTellsTheTruth
  BY DEF IInv, AuditSound, EntrySound, IsDecided, AuditTellsTheTruth
<1> QED
  BY <1>1, Inductive, PTL

\* However many leads decide at once, an approved request has a reveals row
\* with its own requester and the very lead it names.
THEOREM ApprovalsRecorded == Spec => []ApprovedHasReveal
<1>1. IInv => ApprovedHasReveal
  BY DEF IInv, RowsSound, RowSound, HasReveal, ApprovedHasReveal
<1> QED
  BY <1>1, Inductive, PTL

\* No handler decides a request that had been decided when it was loaded.
THEOREM NoLateDecision == Spec => []LateDecisionRefused
<1>1. IInv => LateDecisionRefused
  BY DEF IInv, HandlersSound, Sound, SoundDecision, LateDecisionRefused, Runner
<1> QED
  BY <1>1, Inductive, PTL

\* Status and decider of a request always come from one decision.
THEOREM DecisionsWhole == Spec => []RowIsOneDecision
<1>1. IInv => RowIsOneDecision
  BY DEF IInv, RowsSound, RowSound, IsDecided, RowIsOneDecision
<1> QED
  BY <1>1, Inductive, PTL

----------------------------------------------------------------------------
(* The person a reveal names, when pseudonyms do not collide.              *)

DistinctPseudonyms == \A a, b \in Actor : Pseud[a] = Pseud[b] => a = b

Subject(r) == CaseActor[requests[r].case]

RevealNamed(row) ==
    row.request # None =>
        /\ requests[row.request].status # "absent"
        /\ row.actor = Subject(row.request)

FoundSubject(h) == h.at = "reveal" => h.actor = Subject(h.request)

Named ==
    /\ \A row \in reveals : RevealNamed(row)
    /\ \A t \in Runner : FoundSubject(handler[t])

\* The subject of a request that was made never changes.
LEMMA NextGrows == IInv /\ [Next]_vars => Grows
<1> SUFFICES ASSUME IInv, [Next]_vars PROVE Grows
  OBVIOUS
<1>1. ASSUME NEW t \in Runner, NEW r \in Request, InsertRequest(t, r)
      PROVE  Grows
  BY <1>1 DEF InsertRequest, Grows, SameRequest, IInv, RowsSound
<1>2. ASSUME NEW t \in Runner, UpdateRequest(t)
      PROVE  Grows
  <2>1. PICK k : k = handler[t]
    OBVIOUS
  <2>2. k.request \in Request
    BY <1>2, <2>1 DEF IInv, HandlersSound, Sound, SoundDecision, UpdateRequest,
                      UpdateWith, At
  <2>3. PICK status : status = NewStatus(t) /\ status # "absent"
    BY DEF NewStatus
  <2>4. PICK q : q = [requests[k.request] EXCEPT !.status = status,
                                                 !.decided_by = k.user]
    OBVIOUS
  <2>5. /\ q.status = status
        /\ q.case = requests[k.request].case
        /\ q.requested_by = requests[k.request].requested_by
    BY <2>2, <2>4 DEF IInv, RowsSound, RequestRow
  <2>6. /\ requests' = [requests EXCEPT ![k.request] = q]
        /\ decided \subseteq decided'
        /\ UNCHANGED <<reveals, audit>>
    BY <1>2, <2>1, <2>2, <2>3, <2>4
       DEF UpdateRequest, UpdateWith, IInv, RowsSound, RequestRow
  <2> QED
    BY <2>2, <2>3, <2>5, <2>6 DEF Grows, SameRequest, IInv, RowsSound
<1>3. ASSUME UNCHANGED <<requests, decided>>, reveals \subseteq reveals',
             audit \subseteq audit'
      PROVE  Grows
  BY <1>3 DEF Grows, SameRequest
<1>4. CASE UNCHANGED vars
  BY <1>3, <1>4 DEF vars
<1>5. ASSUME NEW t \in Thread, Start(t) \/ Continue(t)
      PROVE  Grows
  BY <1>1, <1>2, <1>3, <1>5
     DEF Start, Continue, Runner, RequestReveal, LoadCase, LoadRequest, AuditRequest,
         FindActor, RecordReveal, AuditDecision, LoadRequests, AuditView, Respond, Audit
<1>6. ASSUME NEW t \in CliProcess, StartCli(t) \/ ContinueCli(t)
      PROVE  Grows
  BY <1>3, <1>6 DEF StartCli, ContinueCli, CliReveal, CliRecord, CliAudit, CliPrint, Audit
<1>7. ASSUME NEW t \in Runner, Fail(t)
      PROVE  Grows
  BY <1>3, <1>7 DEF Fail
<1>8. ASSUME NEW c \in Case, CaseOpens(c) \/ CasePurged(c)
      PROVE  Grows
  BY <1>3, <1>8 DEF CaseOpens, CasePurged
<1> QED
  BY <1>4, <1>5, <1>6, <1>7, <1>8 DEF Next

\* How a step may move the handlers and the reveals without misnaming anyone.
LEMMA NamedStable ==
    ASSUME IInv, Named, Grows, NEW t \in Runner, NEW h, Go(t, h),
           h.at = "reveal" => h.request \in Request /\ h.actor = Subject(h.request)',
           \A row \in reveals' \ reveals : RevealNamed(row)'
    PROVE  Named'
<1>1. ASSUME NEW row \in reveals
      PROVE  RevealNamed(row)'
  <2>1. row.request # None => row.request \in Request
    BY DEF IInv, SetsTyped, RevealRow
  <2> QED
    BY <2>1 DEF Named, RevealNamed, Subject, Grows, SameRequest
<1>2. ASSUME NEW o \in Runner
      PROVE  FoundSubject(handler[o])'
  <2>1. CASE o = t
    BY <2>1 DEF Go, FoundSubject, IInv, HandlersSound
  <2>2. CASE o # t
    <3>1. handler'[o] = handler[o]
      BY <2>2 DEF Go, IInv, HandlersSound
    <3>2. PICK k : k = handler[o]
      OBVIOUS
    <3>3. FoundSubject(k) /\ SoundDecision(k)
      BY <3>2 DEF Named, IInv, HandlersSound, Sound
    <3>4. FoundSubject(k)'
      BY <3>3 DEF FoundSubject, SoundDecision, Subject, Grows, SameRequest
    <3> QED
      BY <3>1, <3>2, <3>4
  <2> QED
    BY <2>1, <2>2
<1> QED
  BY <1>1, <1>2 DEF Named

\* A step of t that goes anywhere but to "reveal" and writes no reveals row of
\* a request.
Elsewhere(t) ==
    /\ \E h \in Handler : Go(t, h) /\ h.at # "reveal"
    /\ \A row \in reveals' \ reveals : row.request = None

LEMMA ElsewhereKeepsNames ==
    ASSUME IInv, Named, Grows, NEW t \in Runner, Elsewhere(t)
    PROVE  Named'
<1>1. PICK h \in Handler : Go(t, h) /\ h.at # "reveal"
  BY DEF Elsewhere
<1>2. \A row \in reveals' \ reveals : RevealNamed(row)'
  BY DEF Elsewhere, RevealNamed
<1> QED
  BY <1>1, <1>2, NamedStable

LEMMA FindActorKeepsNames ==
    ASSUME DistinctPseudonyms, IInv, Named, Grows, NEW t \in Runner, FindActor(t)
    PROVE  Named'
<1>1. PICK k : k = handler[t]
  OBVIOUS
<1>2. /\ k \in Handler /\ k.request \in Request
      /\ requests[k.request].status # "absent"
      /\ requests[k.request].case \in Case
  BY <1>1 DEF IInv, HandlersSound, Sound, SoundDecision, FindActor, At, RowsSound, RowSound
<1>3. UNCHANGED <<requests, reveals>>
  BY DEF FindActor
<1>4. CASE Done(t)
  <2>1. Idle \in Handler /\ Idle.at # "reveal"
    BY DEF Idle, Handler
  <2> QED
    BY <1>3, <1>4, <2>1, ElsewhereKeepsNames DEF Elsewhere, Done
<1>5. ASSUME NEW c \in CasesNamed(RequestPseudonym(k.request)),
             Go(t, [k EXCEPT !.at = "reveal", !.actor = CaseActor[c]])
      PROVE  Named'
  <2>1. CaseActor[c] = Subject(k.request)
    <3>1. c \in Case /\ Pseud[CaseActor[c]] = Pseud[CaseActor[requests[k.request].case]]
      BY <1>5 DEF CasesNamed, RequestPseudonym, IInv, SetsTyped
    <3> QED
      BY <1>2, <3>1, RevealAssumption DEF DistinctPseudonyms, Subject
  <2>2. PICK h : h = [k EXCEPT !.at = "reveal", !.actor = CaseActor[c]]
    OBVIOUS
  <2>3. h.actor = CaseActor[c] /\ h.request = k.request
    BY <1>2, <2>2 DEF Handler
  <2>4. h.actor = Subject(h.request)'
    BY <1>3, <2>1, <2>3 DEF Subject
  <2> QED
    BY <1>2, <1>3, <1>5, <2>2, <2>3, <2>4, NamedStable
<1> QED
  BY <1>1, <1>4, <1>5 DEF FindActor

LEMMA RecordRevealKeepsNames ==
    ASSUME IInv, Named, Grows, NEW t \in Runner, RecordReveal(t)
    PROVE  Named'
<1>1. PICK k : k = handler[t]
  OBVIOUS
<1>2. /\ k \in Handler /\ k.at = "reveal" /\ k.request \in Request
      /\ requests[k.request].status # "absent"
      /\ k.actor = Subject(k.request)
  BY <1>1 DEF IInv, Named, FoundSubject, HandlersSound, Sound, SoundDecision,
              RecordReveal, At
<1>3. PICK row : row = [request |-> k.request, actor |-> k.actor,
                        requested_by |-> requests[k.request].requested_by,
                        approved_by |-> k.user]
  OBVIOUS
<1>4. reveals' = reveals \cup {row} /\ UNCHANGED requests
  BY <1>1, <1>3 DEF RecordReveal
<1>5. RevealNamed(row)'
  BY <1>2, <1>3, <1>4 DEF RevealNamed, Subject
<1>6. PICK h : h = [k EXCEPT !.at = "update"]
  OBVIOUS
<1>7. Go(t, h) /\ h.at = "update"
  BY <1>1, <1>2, <1>6 DEF RecordReveal, Handler
<1> QED
  BY <1>4, <1>5, <1>7, NamedStable

LEMMA NamedPreserved ==
    ASSUME DistinctPseudonyms
    PROVE  IInv /\ IInv' /\ Named /\ [Next]_vars => Named'
<1> SUFFICES ASSUME IInv, IInv', Named, [Next]_vars PROVE Named'
  OBVIOUS
<1>1. Grows
  BY NextGrows
<1>2. ASSUME NEW t \in Runner, NEW h, Go(t, h), h.at # "reveal",
             \A row \in reveals' \ reveals : row.request = None
      PROVE  Named'
  <2>1. h \in Handler
    BY <1>2 DEF IInv, HandlersSound, Go
  <2> QED
    BY <1>1, <1>2, <2>1, ElsewhereKeepsNames DEF Elsewhere
<1>3. ASSUME NEW t \in Runner, Done(t), UNCHANGED reveals
      PROVE  Named'
  <2>1. PICK h : h = Idle
    OBVIOUS
  <2>2. h.at = "idle"
    BY <2>1 DEF Idle
  <2> QED
    BY <1>2, <1>3, <2>1, <2>2 DEF Done
<1>4. ASSUME NEW t \in Runner, NEW at, at # "reveal", NEW k \in Handler,
             Go(t, [k EXCEPT !.at = at]), UNCHANGED reveals
      PROVE  Named'
  <2>1. PICK h : h = [k EXCEPT !.at = at]
    OBVIOUS
  <2>2. h.at = at
    BY <1>4, <2>1 DEF Handler
  <2> QED
    BY <1>2, <1>4, <2>1, <2>2
<1>5. Idle \in Handler
  BY DEF Idle, Handler
<1>6. ASSUME NEW t \in Thread, NEW u \in User, NEW c \in Case,
             RequestReveal(t, u, c) \/ LoadCase(t, u, c)
      PROVE  Named'
  <2>1. PICK at : /\ at \in {"insert", "load_requests"}
                  /\ Go(t, [Idle EXCEPT !.at = at, !.user = u, !.case = c])
    BY <1>6 DEF RequestReveal, LoadCase
  <2>2. PICK h : h = [Idle EXCEPT !.at = at, !.user = u, !.case = c]
    OBVIOUS
  <2>3. h.at = at
    BY <2>2 DEF Idle
  <2>4. UNCHANGED reveals
    BY <1>6 DEF RequestReveal, LoadCase
  <2> QED
    BY <1>2, <2>1, <2>2, <2>3, <2>4 DEF Runner
<1>7. ASSUME NEW t \in Thread, NEW u \in User, NEW r \in Request,
             NEW approve \in BOOLEAN, LoadRequest(t, u, r, approve)
      PROVE  Named'
  <2>1. PICK h : h = [Idle EXCEPT !.at = IF approve THEN "find_actor" ELSE "update",
                                  !.user = u, !.request = r, !.approve = approve,
                                  !.before = {d \in decided : d.request = r}]
    OBVIOUS
  <2>2. h.at # "reveal"
    BY <2>1 DEF Idle
  <2> QED
    BY <1>2, <1>7, <2>1, <2>2 DEF LoadRequest, Runner
<1>8. ASSUME NEW t \in Thread, Continue(t)
      PROVE  Named'
  <2>1. PICK k : k = handler[t]
    OBVIOUS
  <2>2. k \in Handler
    BY <1>8, <2>1 DEF IInv, HandlersSound, Runner
  <2>3. CASE \E r \in Request : InsertRequest(t, r)
    <3>1. PICK r \in Request : Go(t, [k EXCEPT !.at = "audit_request", !.request = r])
      BY <2>1, <2>3 DEF InsertRequest
    <3>2. PICK h : h = [k EXCEPT !.at = "audit_request", !.request = r]
      OBVIOUS
    <3>3. h.at # "reveal"
      BY <2>2, <3>2 DEF Handler
    <3> QED
      BY <1>2, <2>3, <3>1, <3>2, <3>3 DEF InsertRequest, Runner
  <2>4. CASE LoadRequests(t)
    <3>1. CASE Go(t, [k EXCEPT !.at = "audit_view"])
      BY <1>4, <2>2, <2>4, <3>1 DEF LoadRequests, Runner
    <3>2. ASSUME NEW r \in Request, Go(t, [k EXCEPT !.at = "audit_view", !.request = r])
          PROVE  Named'
      <4>1. PICK h : h = [k EXCEPT !.at = "audit_view", !.request = r]
        OBVIOUS
      <4>2. h.at # "reveal"
        BY <2>2, <4>1 DEF Handler
      <4> QED
        BY <1>2, <2>4, <3>2, <4>1, <4>2 DEF LoadRequests, Runner
    <3> QED
      BY <2>1, <2>4, <3>1, <3>2 DEF LoadRequests
  <2>5. CASE UpdateRequest(t)
    BY <1>4, <2>1, <2>2, <2>5 DEF UpdateRequest, UpdateWith, Runner
  <2>6. CASE AuditView(t)
    BY <1>4, <2>1, <2>2, <2>6 DEF AuditView, Runner
  <2>7. CASE AuditRequest(t) \/ AuditDecision(t) \/ Respond(t)
    BY <1>3, <2>7 DEF AuditRequest, AuditDecision, Respond, Runner
  <2>8. CASE FindActor(t)
    BY <1>1, <2>8, FindActorKeepsNames DEF Runner
  <2>9. CASE RecordReveal(t)
    BY <1>1, <2>9, RecordRevealKeepsNames DEF Runner
  <2> QED
    BY <1>8, <2>3, <2>4, <2>5, <2>6, <2>7, <2>8, <2>9 DEF Continue
<1>9. ASSUME NEW t \in CliProcess, NEW u \in Name, NEW approver \in Name,
             NEW a \in Actor, CliReveal(t, u, approver, a)
      PROVE  Named'
  <2>1. PICK h : h = [Idle EXCEPT !.at = "cli_reveal", !.user = u,
                                  !.with = approver, !.actor = a]
    OBVIOUS
  <2>2. h.at # "reveal"
    BY <2>1 DEF Idle
  <2> QED
    BY <1>2, <1>9, <2>1, <2>2 DEF CliReveal, Runner
<1>10. ASSUME NEW t \in CliProcess, ContinueCli(t)
       PROVE  Named'
  <2>1. PICK k : k = handler[t]
    OBVIOUS
  <2>2. k \in Handler
    BY <1>10, <2>1 DEF IInv, HandlersSound, Runner
  <2>3. CASE CliRecord(t)
    <3>1. PICK h : h = [k EXCEPT !.at = "cli_audit"]
      OBVIOUS
    <3>2. h.at # "reveal"
      BY <2>2, <3>1 DEF Handler
    <3>3. Go(t, h) /\ \A row \in reveals' \ reveals : row.request = None
      BY <2>1, <2>3, <3>1 DEF CliRecord
    <3> QED
      BY <1>2, <3>2, <3>3 DEF Runner
  <2>4. CASE CliAudit(t)
    BY <1>4, <2>1, <2>2, <2>4 DEF CliAudit, Runner
  <2>5. CASE CliPrint(t)
    BY <1>3, <2>5 DEF CliPrint, Runner
  <2> QED
    BY <1>10, <2>3, <2>4, <2>5 DEF ContinueCli
<1>11. ASSUME NEW t \in Runner, Fail(t)
       PROVE  Named'
  BY <1>3, <1>11 DEF Fail
<1>12. CASE UNCHANGED <<requests, reveals, handler>>
  BY <1>12 DEF Named, RevealNamed, FoundSubject, Subject
<1>13. ASSUME NEW c \in Case, CaseOpens(c) \/ CasePurged(c)
       PROVE  Named'
  BY <1>12, <1>13 DEF CaseOpens, CasePurged
<1> QED
  BY <1>6, <1>7, <1>8, <1>9, <1>10, <1>11, <1>12, <1>13
     DEF Next, Start, StartCli, vars

\* With distinct pseudonyms, the row that documents a reveal names the person
\* the requested case is about, whatever was purged and inserted meanwhile.
THEOREM RevealsName == ASSUME DistinctPseudonyms PROVE Spec => []RevealNamesTheActor
<1>1. Init => Named
  BY DEF Init, Named, FoundSubject, Idle
<1>2. Named => RevealNamesTheActor
  BY DEF Named, RevealNamed, Subject, RevealNamesTheActor
<1> QED
  BY <1>1, <1>2, NamedPreserved, Inductive, PTL DEF Spec

----------------------------------------------------------------------------
(* The handlers implement the two-person reveal.                           *)

AskedFor == {[request |-> r, by |-> requests[r].requested_by,
              case |-> requests[r].case] :
                r \in {q \in Request : requests[q].status # "absent"}}

ApprovedBy == {[request |-> d.request, by |-> d.by] : d \in {e \in decided : e.approve}}

LEMMA InsertAsks ==
    ASSUME IInv, NEW t \in Runner, NEW r \in Request, InsertRequest(t, r)
    PROVE  Policy!PolicyNext
<1>1. PICK k : k = handler[t]
  OBVIOUS
<1>2. /\ k.user \in User /\ k.case \in Case
      /\ requests[r].status = "absent"
  BY <1>1 DEF IInv, HandlersSound, InsertRequest, At, Sound, SoundRequest
<1>3. PICK row : /\ row = [status |-> "pending", case |-> k.case,
                           requested_by |-> k.user, decided_by |-> None]
  OBVIOUS
<1>4. /\ row.status = "pending" /\ row.case = k.case /\ row.requested_by = k.user
  BY <1>3
<1>5. /\ requests' = [requests EXCEPT ![r] = row]
      /\ UNCHANGED <<decided, disclosed>>
  BY <1>1, <1>3 DEF InsertRequest
<1>6. /\ requests'[r] = row
      /\ \A q \in Request : q # r => requests'[q] = requests[q]
  BY <1>5 DEF IInv, RowsSound
<1>7. \A a \in AskedFor : a.request # r
  BY <1>2 DEF AskedFor
<1>8. AskedFor' = AskedFor \cup {[request |-> r, by |-> k.user, case |-> k.case]}
  BY <1>2, <1>4, <1>6 DEF AskedFor
<1>9. Policy!Ask(r, k.user, k.case)
  BY <1>5, <1>7, <1>8 DEF Policy!Ask, AskedFor
<1> QED
  BY <1>2, <1>9 DEF Policy!PolicyNext

\* A decision is an approval of the abstract specification, or changes nothing.
LEMMA UpdateApproves ==
    ASSUME IInv, NEW t \in Runner, UpdateRequest(t)
    PROVE  Policy!PolicyNext \/ UNCHANGED <<AskedFor, ApprovedBy, disclosed>>
<1>1. PICK k : k = handler[t]
  OBVIOUS
<1>2. PICK r : r = k.request
  OBVIOUS
<1>3. /\ r \in Request /\ k.user \in Lead /\ k.approve \in BOOLEAN
      /\ requests[r].status # "absent" /\ requests[r].requested_by # k.user
  BY <1>1, <1>2 DEF IInv, HandlersSound, UpdateRequest, UpdateWith, At, Sound,
                    SoundDecision, Handler
<1>4. PICK status : status = NewStatus(t) /\ status # "absent"
  BY DEF NewStatus
<1>5. PICK row : row = [requests[r] EXCEPT !.status = status, !.decided_by = k.user]
  OBVIOUS
<1>6. /\ row.status = status
      /\ row.case = requests[r].case
      /\ row.requested_by = requests[r].requested_by
  BY <1>3, <1>5 DEF IInv, RowsSound, RequestRow
<1>7. PICK d : d = [request |-> r, by |-> k.user, approve |-> k.approve]
  OBVIOUS
<1>8. /\ requests' = [requests EXCEPT ![r] = row]
      /\ decided' = decided \cup {d}
      /\ disclosed' = disclosed
  BY <1>1, <1>2, <1>3, <1>4, <1>5, <1>7
     DEF UpdateRequest, UpdateWith, IInv, RowsSound, RequestRow
<1>9. /\ requests'[r] = row
      /\ \A q \in Request : q # r => requests'[q] = requests[q]
  BY <1>3, <1>8 DEF IInv, RowsSound
<1>10. AskedFor' = AskedFor
  BY <1>3, <1>4, <1>6, <1>9 DEF AskedFor
<1>11. CASE ~k.approve
  <2>1. ApprovedBy' = ApprovedBy
    BY <1>7, <1>8, <1>11 DEF ApprovedBy
  <2> QED
    BY <1>8, <1>10, <2>1
<1>12. CASE k.approve
  <2>1. PICK a : a = [request |-> r, by |-> requests[r].requested_by,
                      case |-> requests[r].case]
    OBVIOUS
  <2>2. a \in AskedFor
    BY <1>3, <2>1 DEF AskedFor
  <2>3. ApprovedBy' = ApprovedBy \cup {[request |-> a.request, by |-> k.user]}
    BY <1>7, <1>8, <1>12, <2>1 DEF ApprovedBy
  <2>4. Policy!Approve(a, k.user)
    BY <1>3, <1>8, <1>10, <2>1, <2>3 DEF Policy!Approve, AskedFor, ApprovedBy
  <2> QED
    BY <1>3, <2>2, <2>4 DEF Policy!PolicyNext, AskedFor, User
<1> QED
  BY <1>3, <1>11, <1>12

\* An identity is sent only to the requester or to somebody who approved.
LEMMA RespondSees ==
    ASSUME IInv, NEW t \in Runner, Respond(t)
    PROVE  Policy!PolicyNext \/ UNCHANGED <<AskedFor, ApprovedBy, disclosed>>
<1>1. PICK k : k = handler[t]
  OBVIOUS
<1>2. PICK r : r = k.request
  OBVIOUS
<1>3. SoundView(k) /\ k.at = "respond" /\ k.user \in User
  BY <1>1 DEF IInv, HandlersSound, Respond, At, Sound, SoundView
<1>4. UNCHANGED <<AskedFor, ApprovedBy>>
  BY DEF Respond, AskedFor, ApprovedBy
<1>5. CASE r = None
  BY <1>1, <1>2, <1>4, <1>5 DEF Respond
<1>6. CASE r # None
  <2>1. MayBeShown(r, k.case, k.user)
    BY <1>2, <1>3, <1>6 DEF SoundView
  <2>2. PICK a : a = [request |-> r, by |-> requests[r].requested_by,
                      case |-> requests[r].case]
    OBVIOUS
  <2>3. a \in AskedFor /\ a.case = k.case
    BY <2>1, <2>2 DEF AskedFor, MayBeShown
  <2>4. disclosed' = disclosed \cup
            {[viewer |-> k.user, request |-> a.request, case |-> a.case]}
    BY <1>1, <1>2, <1>6, <2>2, <2>3 DEF Respond
  <2>5. \E p \in ApprovedBy : p.request = a.request /\ k.user \in {a.by, p.by}
    <3>1. PICK approver \in User : /\ IsDecided(r, approver, TRUE)
                                   /\ k.user \in {a.by, approver}
      BY <2>1, <2>2 DEF MayBeShown
    <3>2. PICK p : p = [request |-> r, by |-> approver]
      OBVIOUS
    <3>3. p \in ApprovedBy
      BY <3>1, <3>2 DEF ApprovedBy, IsDecided
    <3> QED
      BY <2>2, <3>1, <3>2, <3>3
  <2>6. \E p \in ApprovedBy : Policy!See(a, p, k.user)
    BY <1>4, <2>4, <2>5 DEF Policy!See, AskedFor, ApprovedBy
  <2> QED
    BY <1>3, <2>3, <2>6 DEF Policy!PolicyNext, AskedFor, ApprovedBy
<1> QED
  BY <1>5, <1>6

\* Whatever the threads, crashes, purges and command lines do, the handlers
\* are an implementation of the two-person rule of RevealPolicy.
THEOREM ImplementsTwoPersonRule == Spec => ImplementsPolicy
<1>1. Init => Policy!PolicyInit
  <2> SUFFICES ASSUME Init PROVE Policy!PolicyInit
    OBVIOUS
  <2>1. \A r \in Request : requests[r].status = "absent"
    BY DEF Init, NoRow
  <2>2. AskedFor = {} /\ ApprovedBy = {} /\ disclosed = {}
    BY <2>1 DEF Init, AskedFor, ApprovedBy
  <2> QED
    BY <2>2 DEF Policy!PolicyInit, AskedFor, ApprovedBy
<1>2. IInv /\ [Next]_vars => [Policy!PolicyNext]_(Policy!policyVars)
  <2> SUFFICES ASSUME IInv, [Next]_vars
               PROVE  Policy!PolicyNext \/ UNCHANGED <<AskedFor, ApprovedBy, disclosed>>
    BY DEF Policy!policyVars, AskedFor, ApprovedBy
  <2>1. CASE UNCHANGED <<requests, decided, disclosed>>
    BY <2>1 DEF AskedFor, ApprovedBy
  <2>2. ASSUME NEW t \in Thread, Start(t) \/ Continue(t)
        PROVE  Policy!PolicyNext \/ UNCHANGED <<AskedFor, ApprovedBy, disclosed>>
    BY <2>1, <2>2, InsertAsks, UpdateApproves, RespondSees
       DEF Start, Continue, Runner, RequestReveal, LoadCase, LoadRequest, AuditRequest,
           FindActor, RecordReveal, AuditDecision, LoadRequests, AuditView
  <2>3. ASSUME NEW t \in CliProcess, StartCli(t) \/ ContinueCli(t)
        PROVE  UNCHANGED <<requests, decided, disclosed>>
    BY <2>3 DEF StartCli, ContinueCli, CliReveal, CliRecord, CliAudit, CliPrint
  <2>4. ASSUME NEW t \in Runner, Fail(t)
        PROVE  UNCHANGED <<requests, decided, disclosed>>
    BY <2>4 DEF Fail
  <2>5. ASSUME NEW c \in Case, CaseOpens(c) \/ CasePurged(c)
        PROVE  UNCHANGED <<requests, decided, disclosed>>
    BY <2>5 DEF CaseOpens, CasePurged
  <2> QED
    BY <2>1, <2>2, <2>3, <2>4, <2>5 DEF Next, vars
<1> QED
  BY <1>1, <1>2, Inductive, PTL DEF Spec, ImplementsPolicy, Policy!PolicySpec
====
