\* Two leads decide one request at the same time.
CONSTANTS
    an = an
    l1 = l1
    l2 = l2
    c1 = c1
    c2 = c2
    alice = alice
    bob = bob
    Analyst = {an}
    Lead = {l1, l2}
    Outsider = {}
    Thread = {t1, t2}
    CliProcess = {}
    Case = {c1}
    Request = {r1}
    Actor = {alice, bob}
    CaseActor <- MCOneCase
    Pseud <- MCPseudDistinct
    MaxCli = 0
    None = None
SPECIFICATION Spec
INVARIANTS
    DecidedOnce
