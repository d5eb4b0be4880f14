---- MODULE RevealPolicy ----
(***************************************************************************)
(* Two-person reveal as src/itds/api/main.py:6-8 promises it: somebody     *)
(* asks in writing, a lead who is not that person approves, and only those *)
(* two then see the identity behind the case.  No handlers, no database,   *)
(* no crashes.  More than one lead may approve the same request: with more *)
(* than one, each is somebody who approved it.                             *)
(***************************************************************************)
CONSTANTS User, Lead, Case, Request

VARIABLES
    asked,      \* requests made: records of [request, by, case]
    approvals,  \* records of [request, by]
    seen        \* identities shown: records of [viewer, request, case]

policyVars == <<asked, approvals, seen>>

PolicyInit == asked = {} /\ approvals = {} /\ seen = {}

Ask(r, u, c) ==
    /\ \A a \in asked : a.request # r
    /\ asked' = asked \cup {[request |-> r, by |-> u, case |-> c]}
    /\ UNCHANGED <<approvals, seen>>

Approve(a, u) ==
    /\ u \in Lead
    /\ u # a.by
    /\ approvals' = approvals \cup {[request |-> a.request, by |-> u]}
    /\ UNCHANGED <<asked, seen>>

See(a, p, u) ==
    /\ p.request = a.request
    /\ u \in {a.by, p.by}
    /\ seen' = seen \cup {[viewer |-> u, request |-> a.request, case |-> a.case]}
    /\ UNCHANGED <<asked, approvals>>

PolicyNext ==
    \/ \E r \in Request, u \in User, c \in Case : Ask(r, u, c)
    \/ \E a \in asked, u \in User : Approve(a, u)
    \/ \E a \in asked, p \in approvals, u \in User : See(a, p, u)

PolicySpec == PolicyInit /\ [][PolicyNext]_policyVars
====
