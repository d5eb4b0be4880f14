\* Two server threads and the command line, an analyst and two leads, and one
\* request about one of two cases, which are purged and inserted again.
CONSTANTS
    an = an
    l1 = l1
    l2 = l2
    c1 = c1
    c2 = c2
    alice = alice
    bob = bob
    Analyst = {an}
    Lead = {l1, l2}
    Outsider = {}
    Thread = {t1, t2}
    CliProcess = {p1}
    Case = {c1, c2}
    Request = {r1}
    Actor = {alice, bob}
    CaseActor <- MCCaseActor
    Pseud <- MCPseudDistinct
    MaxCli = 1
    None = None
SPECIFICATION Spec
SYMMETRY Symmetric
VIEW Abstracted
INVARIANTS
    TypeOK
    AuditedBeforeShown
    AuditTellsTheTruth
    ApprovedHasReveal
    LateDecisionRefused
    RevealNamesTheActor
PROPERTIES
    ImplementsPolicy
