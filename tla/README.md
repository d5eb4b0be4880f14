# Sentry (itds): specifications and proofs

TLA+ models of Sentry, an insider-threat detection system that runs as a batch
job (`itds run`), a server for analysts (`itds serve`) and a few administrative
commands, all on one SQLite database. The modules model what several processes
and threads do to that database, TLC checks them on small instances, and TLAPS
proves the central results for every instance.

## The system

| Part | Source | State | Operations |
|---|---|---|---|
| Audit log | `itds/audit.py` | table `audit_log`, a hash chain | `record`, `verify`, `head`, `entries` |
| Re-identification | `itds/api/main.py`, `privacy.py`, `cli.py` | tables `reveal_requests`, `reveals` | request, approve, deny, view a case, `itds reveal` |
| Accounts and sessions | `itds/auth.py`, `api/main.py`, `cli.py` | tables `users`, `sessions` | login, lockout, logout, create, disable, `need(permission)` |
| Case queue | `pipeline.py`, `scoring/risk.py`, `storage.py` | tables `cases`, `detections`, `entity_days`, `runs` | a run's upsert, close, reopen, purge |
| Alerting | `alerts.py` | none; messages leave the system | `notify`, one channel after the other |
| Feedback | `feedback.py` | tables `feedback`, `suppressions` | verdict, suppress, unsuppress, statistics, learned weights |
| Risk scoring | `scoring/risk.py` | none | score of a person, cases of a run |
| Baselines, rules, statistics, ML | `baseline/`, `detect/` | fitted per run | fit, evaluate a day |
| Normalizer, ingest, collection policy | `normalize/`, `ingest/`, `privacy.py` | none across commands | scrub a row, map it, resolve whose it is |
| Dataset on disk | `cli.py` | `events.jsonl`, `identities.json`, `labels.json` | `itds generate`, `itds import`, a run's load |
| Evaluation | `evaluation.py` | none | replay a log window by window |
| Dashboard, catalogue, configuration | `dashboard/`, `detect/attack.py`, `config.py` | none | render, look up |

How they interact. Logs become a dataset of three files (`itds import`), which a
run loads. Everything else that lasts is in SQLite. A `with store.connect()`
block is one connection and, if it writes, one transaction; **nothing spans two
blocks**. FastAPI runs the synchronous handlers in a pool of threads, and CLI
commands are processes of their own, so between any two blocks of a handler any
block of any other may run, and a handler may end at any of them (a lock that
stays taken for five seconds is an exception, a process can be killed). Python's
`sqlite3` begins a transaction at the first INSERT, UPDATE or DELETE: a SELECT
before it is *outside*. Only `audit.record` asks for the lock first.

So the hard behaviour is: a check in one block and its use in another (a
decision, a failed login, a new user name, a case that exists); a crash between
a change and its audit entry, or between new cases and their alerts; two runs, or
a run, an analyst and a purge at the same time; deadlines (locks, sessions,
suppressions, retention) that pass in between. The files of the dataset have
neither transactions nor a lock. What makes each part correct:

* *Audit log*: one chain whatever writes to it; `verify` blames the right row.
* *Re-identification*: nobody sees an identity without a written request and
  another person's approval, and never before the log says so.
* *Accounts*: revoked means out; limits on guessing; nobody both manages
  accounts and approves reveals.
* *Case queue*: decisions outlive runs; open and recent cases are kept.
* *Alerting*: once per new case and working channel, silent otherwise.
* *Feedback*: a suppression is backed by a verdict and silences only its person.
* *Dataset*: a run works on what the imports so far say, one person is one actor,
  no row's forbidden fields get in and nothing else is lost (what is nested in a
  field does get in, see below).
* *Timelines*: what the dashboard draws under a case is what the run saw.

## The modules

`AppendOnlyLog` is the log that readers are promised. **`AuditChain`** is
`audit.py`: a `record` call is `Call`, `Begin` (BEGIN IMMEDIATE, or
`LockTimeout`), `SelectHead`, `InsertCommit`, or an `Abort` by a crash; other
transactions take the same lock (`OtherBegin`, `OtherEnd`). Somebody with a
database shell edits and deletes rows (`EditRow`, `DeleteRow`). A SHA-256 value
is the list of contents it was computed from, which makes it free of collisions
and keeps everything else about it open. `ProgramSpec` is the program alone,
`Spec` the program beside the editing hand. `written` is history: what was
committed under each seq, and after which row.

`RevealPolicy` is the two-person rule without handlers or tables. **`Reveal`**
has the handlers of `api/main.py` that concern it, one step per transaction
(`handler[t].at` is the place, the other fields its locals): `RequestReveal`,
`InsertRequest`, `AuditRequest`; `LoadRequest`, `FindActor`, `RecordReveal`,
`UpdateRequest`, `AuditDecision` for `_decide`; `LoadCase`, `LoadRequests`,
`AuditView`, `Respond` for `get_case`; `CliReveal` to `CliPrint` for the command
line. `CaseOpens` and `CasePurged` are the pipeline and the retention, `Fail` is
any exception or crash. The audit log is a set here; its order is `AuditChain`'s
subject.

**`Accounts`** is `auth.py` with the handlers and commands around it: `LoadUser` and
`WrongPassword` / `RightPassword` are the two halves of `login`, and after a right
password, whose transaction has opened the session, `AuditSuccess` writes the entry
and `Respond` hands out the cookie, so that a login may die between any two;
`Authenticate` is `current_user` with `need(permission)`, after which the handler is
"acting" (the permissions are those of auth.py:24-33 that the handlers ask for, with
one for what analysts and leads may do alike); `CheckNewUser` and `InsertUser` are
the SELECT and the INSERT of `create_user`, of which only the second is in a
transaction. `RunCli` is `itds user`. Deadlines pass in `LockExpires` and
`SessionExpires`. `missed`, `due`, `overlapped`, `held`, `ended` and `acts` are
history.

**`CaseQueue`** has the runs, the analysts' requests, and the retention. A run reads
the suppressions (`ReadSuppressions`), scores (`Assess`), looks up its first case
outside any transaction (`LookUpFirst`), upserts all of them in one (`Upsert`), and
sends message by message (`Send`, `ChannelFails`). `SetStatus`, `ReadFindings`,
`InsertFeedback`, `AddSuppression` (a transaction per detection) and
`RemoveSuppression` are the requests; `Purge` is `itds purge`. A case shows up to
`TopDetections` names (five in the code), chosen from its findings; a verdict is
about the names shown, and is a row of its own however often it is given (`nth`, up
to `MaxFeedback` rows). Which findings turn up, and who reaches the threshold, is any
choice: the arithmetic of the score is not needed for what is claimed here.

**`Pipeline`** is `Pipeline.run` itself, with `Baseline` (profiles and which of them
is used for whom), `Detection` (rules, statistics, the gates of the forest) and
`RiskScore` (learned weights, scores, the cut to the budget), three modules of
operators that it extends. `LoadEvents` is what `itds run` loads before anything
else; `Assess` reads the learned weights and computes from those events what the run
finds and queues; `StoreDetections` and `UpsertCases` are the two transactions that
store it, `SaveEntityDays` replaces the timelines of the people with a case, one
transaction each. Events arrive between the steps, in any order (`Arrives`). The
tables, the analysts and the fate of a run are those of `CaseQueue`, which is
instantiated: where `CaseQueue` lets a run find anything, `Pipeline` computes it, and
`ImplementsQueue` says that this is one of the choices. `result[r]` keeps what a run
read and computed.

Numbers in these modules are integers and every product is rounded down. The z-score
test is multiplied out and exact. Decay is a table of hundredths. The exponential of
the score is replaced by another increasing curve below the same maximum: nothing
claimed depends on which. Repeats of a name are ranked by weight as in
`weights.sort`; among equal weights the day, then the engine, in the order of the
engines in `Pipeline.run`, and then the place in what the engine lists for a day
(`NameOrder`) decide, so that every rank is taken once, and the names a case shows
are those of its first findings. The log has one clock: the code takes the date of an
event in the offset it came with, and events with different offsets are not modelled.
Four features stand for the 21 (a sum over some events, a sum over all, a count of
files, a count of hours), and the isolation forest is an operator the instance
chooses, as is which outliers have a driver to name (`HasDrivers`; without one there
is no detection). Alerts are off (`--no-alerts`).

**`Evaluation`** extends it by the replay of `evaluation.py`: the windows, the
chunk each is computed from, the insiders active in it and who counts as
detected. It keeps no state; its operators are applied to the log that
`Pipeline` grows.

**`Normalizer`** and **`Sources`** are operators from the rows of a source to events:
`resolve` is `IdentityResolver` filled from an extract of HR, `scrub` the collection
policy, `normalize_many` the driver, and each mapper decides whether a row becomes an
event, of whom, of which kind, and with which fields (`read_auditd` first collects
the lines of a kernel event): the sequence of one event or of none, and `Survivors`
flattens what the rows of a file give. A row whose number or time does not parse is
dropped, one whose number is missing counts zero, and one that `raises` (an error
that `normalize_many` does not expect, as `scrub` has for a CSV row longer than its
header) ends the import before it has written anything. `Selected` and `InOrder` pick
and sort by place and rank, where the library's `SelectSeq` and `SortSeq` would do:
the prover knows nothing of these two. A row has the names of the fields no mapper
looks at; an event keeps the ones its row had (`of`), as history. The sensitivity of
an object, hosts, addresses and the spellings of times are left out, a time that does
not parse is None, and the name of an audit watch is only what it contains.
**`Dataset`** has the files and the commands: `OpenEvents`, `WriteHalf` and
`WriteLine` for `events.jsonl` (a flush may end within a line, tail "cut"; an append
after such a tail runs on in the same line, "glued", which no JSON parser reads),
`TruncateIdentities` to `Finish` for the rest, `WriterDies` anywhere, and
`LoadEvents`, `LoadIdentities`, `LoadLabels` for a run. A run reads a file in one
step; a death that loses only the newline of a line is left out, as is the filter
`--users` of CERT data. `done`, `directory` and `sound` are history: what the dataset
should be.

`AuditChainProofs`, `RevealProofs`, `AccountsProofs`, `CaseQueueProofs`,
`PipelineProofs` (with `Evaluation`) and `DatasetProofs` (with `Normalizer` and
`Sources`) have the theorems about the module they are named after; `RiskProofs` has
lemmas about the operators of `RiskScore` and `Detection`, `NumberFacts` what all of
them need about numbers, sums and ranks.

`MCAuditChain`, `MCReveal`, `MCAccounts`, `MCCaseQueue`, `MCPipeline` and
`MCDataset` give TLC its constants and symmetries. A definition that stands
directly before another one and has its parameters (`DeferredBegin` before
`Begin`) is a plausible mistake in that code; nothing but a mutant run uses it.

## The runs

| Run | Shows | Size |
|---|---|---|
| `AuditChainByHand` | two writers, two bodies, four entries; any edits and deletions; every `record` returns | 677 000 states |
| `RevealServer` | two threads and the command line, an analyst, two leads, one request, two people with a case each; refinement of `RevealPolicy` | 1.6 million |
| `RevealDecidedTwice` | *violated*: both leads decide | - |
| `AccountsSessions` | two users, two threads, two tokens, two failures lock | 4.6 million |
| `AccountsMissedLock` | *violated*: five failures and no lock | - |
| `QueueRuns` | two runs, two people, a webhook and mail; liveness | 2 513 |
| `QueueDesk` | two runs, one person with two days and three names of which a case shows two, an analyst, three verdicts, two suppressions, purge | 2.3 million |
| `PipelineRuns` | two runs, an analyst, three people (one new), three events that may arrive before, between or after; three verdicts, timelines, replay; refinement of `CaseQueue` | 500 000 |
| `PipelineLastDay` | *violated*: someone leaves on day 4 and takes files that day | - |
| `DatasetImports` | three of nine commands in any order, five formats, deaths anywhere, one that raises, a run beside them | 1.2 million |
| `DatasetOneActor` | *violated*: the three imports of docs/DATASET.md | - |
| `DatasetForbidden` | *violated*: an import of a row whose `extra` has a forbidden field | - |

Why the bounds are enough. Every race modelled is between two actors, so two threads
(or two runs, or a run and an analyst) show it; a third adds only repetitions. In
`AuditChain`, four entries (`MaxEntries`) leave room for a deletion in the middle
with rows on both sides and an edit after it. One reveal request suffices as requests
share no row except the reveals of the CLI, which `MaxCli` limits to one. Two
decisions need two leads. `PipelineRuns` has days of two ticks, a window of two days,
and thresholds small enough that two ordinary days make a baseline: in it all three
engines find things, one person is judged by the peers, two people compete for a
budget of one, a repeat has a lighter and a heavier one beside it, and three verdicts
(`MaxFeedback`), equal or not, move weights to either bound and between. The replay
of that log has windows of one day after two days of training, so that a log has
several windows. Three commands (`MaxCommands`) are an import, one that appends or
dies, and one that mends or retries; their rows include machine accounts, unknown
people, several names of one person, records without a time and of no interest.
`MaxFailed` is 2 where lockout is checked with everything else and 5, as in the code,
in the violated run. Symmetry is used for interchangeable actors, never in a run with
liveness. Two runs have a VIEW, defined in their MC module: it leaves out what
neither a guard nor a property of the run reads. In `MCReveal`, nothing reads an
entry of the log that says the truth (a false one counts, and so does a missing one
where it is due), nor the name typed on the command line; in `MCAccounts`, nothing
reads the sign-in or the end of a session that is no longer stored, the failures of
an account whose logins overlapped, or which of the permissions that manage nothing a
handler has.

Fairness. `AuditChain` assumes that a transaction that has begun ends
(`OtherEnd`) and that a call of `record` goes on: the lock has a timeout, so
waiting ends either way; the person with the database shell is not fair, and
`RecordReturns` holds beside them. `CaseQueue` assumes that a run goes on; each
of its channels has a timeout of ten seconds and each lock one of five. A crash
is always possible and never fair. No handler in `Reveal` or `Accounts` and no
command in `Dataset` is assumed to end, as nothing claimed of them is a liveness
property.

### What the code does not keep

Five runs refute, on purpose, a sentence of the documentation or the tests.

* `DecidedOnce`: tests/test_api.py:129, "Cannot be decided twice." Two leads
  load the pending request, both pass the check, both write. The row then says
  what the last one wrote (`RowIsOneDecision`), each approval has its own row in
  `reveals` (`ApprovedHasReveal`), and a decision that was already written is
  never overruled by somebody who came later (`LateDecisionRefused`).
* `FiveFailuresLock`: auth.py:15. The count is read before the password is
  verified and written afterwards, so failures that overlap count once. It holds
  while the logins of an account do not overlap (`FailuresLock`); the same
  overlap lets a login clear a lock (`LockLasts` has the same condition).
* `DepartingToTheLastDay`: schema.py:170, "True once notice has been given and the
  last day has not passed." The time left is rounded down to whole days and
  counted to the midnight at which the last day begins, so during that day it is
  -1. The rules for leavers, which ask at noon, are silent on the last day.
* `OneActorPerPerson`: docs/ARCHITECTURE.md:22, "Identifiers are resolved to one
  actor". Each command resolves with the extract it was given, and aliases are
  not stored. The example of docs/DATASET.md imports Windows logs with
  `--identities` and then appends auditd and Microsoft 365 without: the same
  person is then two or three actors. With the extract given every time it holds
  (`OneActorPerExtract`), if no two rows of it have aliases that look the same.
* `NothingForbiddenEnters`: docs/ARCHITECTURE.md:22, "whatever the source sends".
  `scrub` compares the names of a row's fields with the policy; `map_generic` then
  takes over the row's `extra` as it is, and what is forbidden in there is written to
  the events file. The fields of the row itself never are: `GateStripsOnlyFields`.

config.py:39 says that below `min_days_history` statistical and ML detections are
suppressed; the code uses the peers or the organization instead, as README.md:47
says. The tag INSUFFICIENT_HISTORY exists only in that comment.

Other gaps in the same family were met while modelling and are described in the
hazards of `PROJECT.json` without a run of their own: a decision whose handler dies
before `audit.record` is not in the log; the CLI takes any approver's name; two
people with the same 24-bit pseudonym are mistaken for each other by
`actor_for_pseudonym`; cases of a run that dies before `notify` are announced to
nobody; `set_status` of a case that was just purged answers ok; the open cases of
earlier runs are added to the alert budget of the next; one CSV row longer than its
header ends a whole import with an AttributeError; deleting the newest entries of the
log leaves a chain that verifies, unless the head was noted elsewhere; `itds purge`
leaves `events.jsonl` alone, and `itds run --persist-events` inserts its old events
again; an import that died leaves a line that every later run raises on, until the
file is written anew. Smaller ones: an auditd line in the enriched format whose login
user is `AUID="unset"` makes an actor of that name (sources.py:247); two admins can
disable each other (main.py:468); a baseline's window ends with the person's own last
active day (profiler.py:249).

## What is proved

Each theorem holds for every value of the constants that satisfies the
assumptions of its module, with no bound on runs, threads, entries or events
beyond those constants. "Inv" below stands for `Spec => []Inv`.

| Module | Theorem | Says |
|---|---|---|
| `AuditChainProofs` | `TypeCorrect` | Inv `TypeOK` |
| | `VerifyExact` | Inv `VerifyFindsFirstDamage`: `verify` reports the first damaged row, exactly |
| | `ParentsDistinct` | Inv `NoSharedParent` |
| | `Implements` | `ProgramSpec => ImplementsLog` |
| `RevealProofs` | `TypeCorrect` | Inv `TypeOK` |
| | `NothingShownUnaudited` | Inv `AuditedBeforeShown`: first the entry, then the identity |
| | `LogIsTrue` | Inv `AuditTellsTheTruth` |
| | `ApprovalsRecorded` | Inv `ApprovedHasReveal` |
| | `NoLateDecision` | Inv `LateDecisionRefused` |
| | `DecisionsWhole` | Inv `RowIsOneDecision` |
| | `RevealsName` | `DistinctPseudonyms` implies Inv `RevealNamesTheActor` |
| | `ImplementsTwoPersonRule` | `Spec => ImplementsPolicy` |
| `AccountsProofs` | `TypeCorrect` | Inv `TypeOK` |
| | `RevokedSessions` | Inv `RevokedStaysOut` |
| | `DutiesSeparate` | Inv `SeparationOfDuties`: whoever managed accounts did nothing else but read the audit log |
| | `SignInsAudited` | Inv `SignInAudited`: no session in anybody's hands, and no request served, without its sign-in in the log |
| | `FailuresLockAccounts` | Inv `FailuresLock` |
| | `LocksLast` | Inv `LockLasts` |
| `CaseQueueProofs` | `TypeCorrect` | Inv `TypeOK` |
| | `InsertersAlert` | Inv `OnlyTheInserterAlerts` |
| | `WorkingChannelsTold` | Inv `EveryWorkingChannelTold` |
| | `RetentionKept` | Inv `RetentionHonoured` |
| | `SuppressionsJustified` | Inv `SuppressionJustified` |
| | `DecisionsOutliveRuns` | `Spec => DecisionOutlivesRuns`, an action property |
| `PipelineProofs` | `EvidenceIsOnFile` | Inv `EvidenceOnFile` |
| | `TimelinesShowTheirCase` | Inv `TimelineShowsTheCase` |
| | `DaysJudgedByThePast` | Inv `JudgedByThePast` |
| | `ReplaysAreLive` | Inv `ReplayIsLive` |
| | `TypeCorrect` | Inv `TypeOK` * |
| | `QueueImplemented` | `Spec => ImplementsQueue` * |
| | `EvidenceOnlyAdds` | Inv `EvidenceAddsUp` * |
| | `OthersStayInTheQueue` | Inv `MutedForThatPersonOnly` * |
| | `VerdictsAdjust` | Inv `FeedbackAdjusts` * |
| | `RisksFade` | Inv `OldNewsFades` *, if `MultipliersRaise` |
| `DatasetProofs` | `TypeCorrect` | Inv `TypeOK` |
| | `RunsSeeTheDataset` | Inv `RunSeesTheDataset` |
| | `OneActorEach` | Inv `OneActorPerExtract` |
| | `AuditEventsAreWhole` | Inv `AuditEventsWhole` |
| | `GateOnlyStrips` | Inv `GateStripsOnlyFields`: the policy costs no event, and no forbidden field of a row gets in |

\* under `ScoresInHundredths`, see the assumptions.

### The arguments

*Audit chain.* One inductive invariant, `IInv`: the rows are well typed; their seqs
ascend and none exceeds the number of entries ever written; each row still carries
the hash of the row it was chained to and of what was written under its seq
(`Chained`: *the hash columns* remember the past even when bodies are edited or rows
deleted, which is why `verify` can tell); and a writer that has selected a head holds
the lock, and the head is still the last row's (`LockHeld`). The properties follow
from it without reference to steps. The refinement needs one more invariant, that the
program alone numbers its rows 1, 2, 3.

*Reveal.* Every handler acts on what it read some transactions ago, so the
properties are not inductive: nothing in them says why `AuditDecision` may write
its entry. `IInv` adds what a handler at each of its places still knows about the
tables (`Sound`: at "update" an approval has its row in `reveals`; at "respond"
the entry of the view is committed), and that a row of `reveal_requests` agrees
with the decisions committed to it (`RowsSound`). What a handler knows stays true
while others run because no step takes it back: rows of `reveals` and `audit_log`
are never deleted, a request keeps its case and its requester. `Grows` states that
once, `SoundStable` draws the conclusion, and each action then has one lemma about
the thread that moves. The refinement maps `asked` and `approved` to requests and
committed decisions; the step that matters is `Respond`, which must find an
approval by somebody other than the requester.

*Accounts.* The same shape. A handler that is past its check knows that its user
exists and has the role for what it does (`Sound`); accounts are never deleted and
keep their role (`Grows`), though they may be disabled meanwhile, which is why
`RevokedStaysOut` speaks of the moment the session was accepted. A session whose
token was ended is expired and stays so, because tokens are never issued twice
(`SessionsSound`). `SignInAudited` compares what is written at three different times,
the session, the entry and the cookie: a login that is about to respond has its entry
(`Sound`), every token that somebody holds has one (`SignIns`), and so has whoever an
accepted session belongs to, which is how it reaches `acts`. The two lockout
properties have an invariant of their own, `Lockout`, that speaks of accounts outside
`overlapped` only: there the counter in the row equals the failures since it was last
reset, and at most one login is between its two halves, holding that counter, with no
lock due. With an overlap neither is true, which is what `AccountsMissedLock` shows.

*Case queue.* `IInv` says what a run at each place has inserted and told
(`RunSound`: while it notifies, the cases it inserted are exactly those it is
about to announce, and every earlier channel that did not fail was told of all),
that a case which must be kept is there and not aged (`AllKept`), and that a
request which is about to suppress is backed by a verdict that was committed
(`Backed`). `DecisionOutlivesRuns` needs no invariant beyond the types: it is a
fact about every action of a run, the upsert above all.

*Pipeline.* `IInv` ties what a run keeps in memory to the tables: an assessed result
is what the stages compute from the log it read, a run that may upsert has stored its
detections, a case that is present cites stored ones, a timeline shown is one of a
run that queued the person. What `LoadEvents` read is part of what every later place
knows, as the log goes on growing. The delicate steps are the two that replace rows
(`INSERT OR REPLACE` by another run) and the upsert after a death. `JudgedByThePast`
is a fact about the operators: each of them looks at the log before the window and at
the day in question only. `ReplayIsLive` is arithmetic of windows that begin at
midnight. `RowsTyped` adds that results and rows are well typed, finite, and told
apart by their ids, for which `RiskProofs` shows what the engines find. With it,
`QueueImplemented` maps each step to one of `CaseQueue` or a stutter (`LoadEvents` is
one); the only step that needs an argument is `Assess`: the computed queue is one
that `Queue!Assess` may choose, since its cases are those of people with findings
left, each shows the names of its first findings, which are as many as there are or
`TopDetections` (`NamesOfACase`), and it is never longer than the budget
(`BudgetHonoured`: of the cases that fewer than `AlertBudget` rank before, the last
one has all others before it). `TypeCorrect` then takes the invariant of
`CaseQueueProofs` over, through the instance `QP`, instead of proving it again.

*Risk.* A new finding changes the rank, and so the discount, of every repeat behind
it; that this never lowers the sum is not obvious and is the lemma
`ContributionsGrow`: if findings S can be mapped one to one to findings T of the same
name and no less weight, the sum over S is no more than that over T. Each finding of
S at rank n is compared with the one of T at rank n (`PlaceIsFound`): were that one
lighter, the n + 1 findings of S up to rank n would all have their images before it.
It needs that an order of a finite set takes every rank once (`EveryRankIsTaken`),
and that amounts that fit one by one into others sum to no more (`SumInjects`).
`EvidenceAddsUp` uses it twice, for "never lower" and, by exchanging two findings of
equal weight, for the bound on a lighter repeat; `OldNewsFades` adds that weights
fall with age (`WeightFades`); `MutedForThatPersonOnly` follows because everybody's
risk without some findings is no higher, so the cases ahead of an unaffected one can
be mapped one to one to those ahead of it before (`CaseStays`). The bonus for several
engines, the multipliers and the curve all ascend (`BonusGrows`, `RiskGrows`,
`CurveAscends`); rounding down keeps the order (`FractionGrows`). `FeedbackAdjusts`
bounds a risk by another with half to one and a half of the weights, and each product
rounds. The bound is carried through (`HalfToOneAndAHalf`, `SlackCarries`): the slack
is multiplied with the number and grows by at most 3, so that the slack of a risk
(`SlackOfRisk`) follows from the multipliers and the number of findings; with those
of the instance it is 55 hundredths of a point for one finding. The sum is the
delicate step, since verdicts change which repeat counts first: each weight is
compared with twice, or three times, the other one plus the slack, a change that
leaves the order of the repeats as it is (`ContributionsScale`), and
`ContributionsGrow` does the rest.

*Dataset.* `IInv` says what a writer at each place has written: the lines in the file
and those left are what was there before and the command's events (`EventsGrow`), the
file has what the finished commands amount to unless a death went before
(`EventsLast`, `LabelsLast`, `IdentitiesLast`), and a run that was alone so far has
read what the files hold (`ReadAlone`). An overwrite mends the lines even if the
dataset was not sound, which is why `EventsGrow` and `EventsLast` have different
conditions. `RunSeesTheDataset` follows at once. The other three are about events
that were written at any time, and rest on two facts about the types: every line is
an event of its command's batch, and a batch is what the mappers gave, flattened and
sorted. `OneActorPerExtract` then compares what `resolve` makes of two names in one
extract: the last row registered under a name's key shares that key with every row
that lists the name, and in an unambiguous extract such rows are about one person
(`ListedIsResolved`). `GateStripsOnlyFields` compares a mapper on the row and on the
scrubbed row (`Gated`): a mapper reads none of the fields the policy takes away, so
the same events come out with the same times, and a stable sort moves two lists with
the same times alike (`SortShuffles`). `AuditEventsWhole` is the hardest of the
three: the lines of a kernel event, chosen from between the others, form one group,
read like the group they form alone, and give events that `of` tells from all others
after flattening and sorting. What makes all of this provable without induction over
data is that flattening is a bijection of places (`FlattenLaysOut`: place k of the
flattened sequence is place j of the i-th one), itself drawn from
`LeastNumberExists`, and that sorting takes each rank once (`InOrderEnumerates`).

*Numbers.* The prover has no induction over data. Where one is needed, for sums,
powers, tables and chains, the proofs take a smallest case in which the claim
fails (`LeastNumberExists`, or `SmallestSetExists` for finite sets, which rests on
the library's theorem that strict inclusion of finite sets is well-founded) and
find a smaller one.

### The assumptions

They are named in the modules that declare the constants, and TLC evaluates them
in the runs. What they take from the code:

* `AuditAssumption`: the lock's two extra values are not writers; there is a body.
  SHA-256 has no collisions.
* `AccountsAssumption`, `CaseQueueAssumption`: limits are positive, days are
  numbers, names are finitely many, `None` is none of the values it is used beside.
* `DetectionAssumption`: rules are finitely many and have an id of their own
  (`load_rules` refuses a second one, rules.py:109), a severity of the enumeration,
  a confidence from 0 to 100 (clamped where a detection is made, base.py:61), and
  something to match. `NamesAssumption`: the names of the statistical detections
  differ; evident, but strings have no spelling in the prover.
* `RiskAssumption`: decay starts at 100 and never rises; multipliers, thresholds
  and the highest score are natural numbers, the budget is positive.
* `PipelineAssumption`: logs are finite sets of events. `OrderAssumption`: no two
  names have the same place in the order in which they are listed.
* `NormalizerAssumption`: a canonical key has nothing left that `canonical_key` would
  take away (normalizer.py:31), the policy's names are in lower case (privacy.py
  compares lowered names with a set of lower-case ones), an extract is a sequence of
  rows. `SourcesAssumption`: the fields a mapper writes itself are none the policy
  forbids.
* `DatasetAssumption`: the commands are those of the formats, with rows of their
  format's type; generated events name no user of an extract.
* `ScoresInHundredths` is a hypothesis of the theorems marked above: whatever the
  isolation forest was trained on, its score lies between 0 and 1, as scikit-learn
  documents of `score_samples`. It quantifies over everything a forest may be
  given, so TLC cannot evaluate it; the instance's forest has the property.
* `MultipliersRaise`: the multipliers for leavers and privileged people are at least
  one. config.py has 2.0 and 1.5 and checks neither; with a smaller one a person who
  ceases to be a leaver would rise.

### Only model-checked

* Liveness (`RecordReturns`, `RunsEnd`): it needs ENABLED, which is out of the prover's
  reach.

Every invariant, every refinement and the action property of the runs are proved.

## Not modelled, and why

The synthetic generator is random data without state. Formats of logs (JSON, CSV,
XML, the fields of an auditd line), the sensitivity of objects and the answer key
of CERT are conversions covered by tests. The isolation forest is numeric. The
tables of events, identities and run statistics are written and displayed, but no
other part decides on them. The dashboard holds no state that the server relies
on. Password hashing, wording and HTTP are below this level.

## Plan

1. Audit chain and reveal with their proofs; accounts; case queue; the pipeline
   with its timelines and the replay; the normalizer, the sources and the dataset.
   *(done)*
2. Proofs about `Accounts`, `CaseQueue`, `Pipeline` and the risk score, each from
   an inductive invariant of what a handler or a run at each place still knows, and
   what no step takes back; the pipeline implements the queue. *(done)*
3. `Dataset` with `Normalizer` and `Sources`: its invariants from what a writer at
   each place has written, and from facts about `resolve`, `scrub`, the mappers, and
   sequences that are flattened and sorted. *(done)*
4. A form of `FeedbackAdjusts` whose slack follows from the multipliers. *(done)*
5. A composition of `CaseQueue` with the audit entries of its handlers, to state
   what the log says of closings that did not happen.
