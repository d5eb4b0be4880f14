---- MODULE MCReveal ----
(***************************************************************************)
(* TLC instance of Reveal: two people, each the subject of one case.       *)
(***************************************************************************)
EXTENDS Reveal, TLC

CONSTANTS an, l1, l2, c1, c2, alice, bob

MCOneCase == c1 :> alice
MCCaseActor == c1 :> alice @@ c2 :> bob

MCPseudDistinct == alice :> "EMP-a" @@ bob :> "EMP-b"

Symmetric == Permutations(Lead) \cup Permutations(Thread)

----------------------------------------------------------------------------
(* The view: the state without what neither a step nor a property tells    *)
(* apart.  No step reads the audit log, and an entry that was true when it *)
(* was written stays true, so an entry counts where it is untrue or        *)
(* missing.  Nor does a step read the names typed on the command line.     *)

InLog(u, action, of) ==
    [by |-> u, action |-> action, of |-> of, shown |-> TRUE] \in audit

Untrue(e) ==
    \/ e \notin Entry
    \/ e.action = "request" /\ requests[e.of].requested_by # e.by
    \/ e.action \in {"approve", "deny"} /\
          [request |-> e.of, by |-> e.by, approve |-> e.action = "approve"] \notin decided

OnServer(h) ==
    IF h.at # "respond" THEN h
    ELSE [h EXCEPT !.approve = h.request # None /\ ~InLog(h.user, "view", h.case)]

OnCommandLine(h) == <<h.at, h.at = "cli_print" /\ ~InLog(h.user, "cli", None)>>

Abstracted ==
    <<cases, requests, {row \in reveals : row.request # None},
      Cardinality({row \in reveals : row.request = None}),
      {e \in audit : Untrue(e)},
      [t \in Thread |-> OnServer(handler[t])],
      [t \in CliProcess |-> OnCommandLine(handler[t])],
      decided, disclosed, {p \in printed : ~InLog(p.to, "cli", None)}>>
====
