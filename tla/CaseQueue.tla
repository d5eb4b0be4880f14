---- MODULE CaseQueue ----
(***************************************************************************)
(* The case queue: `itds run` processes write cases and alert on the new   *)
(* ones (pipeline.py, storage.py, alerts.py) while the analysts' handlers  *)
(* close cases, give verdicts and suppress detections (api/main.py,        *)
(* feedback.py) and `itds purge` deletes (cli.py).  Each database          *)
(* transaction is a step, and so is each message to a channel.             *)
(*                                                                         *)
(* Which detections survive scoring is data: any set of findings may turn  *)
(* up in a run, any of their actors may pass the threshold.  Deadlines     *)
(* pass in steps of their own (SuppressionExpires, RetentionEnds).  The    *)
(* audit entries of these handlers are not read by any property here.      *)
(***************************************************************************)
EXTENDS Integers, Sequences, FiniteSets, FiniteSetsExt

CONSTANTS
    Actor,
    Name,            \* detection names
    Day,
    Run,             \* `itds run` processes; each runs once
    Thread,          \* threads that serve the analysts' requests
    SuppressionId,
    Channels,        \* the configured channels, in the order notify uses them
    AlertBudget,
    TopDetections,   \* findings a case shows, of different names: 5 (risk.py:203)
    MaxFeedback,     \* a bound: rows of feedback
    None

ASSUME CaseQueueAssumption ==
    /\ Day \subseteq Nat
    /\ IsFiniteSet(Name)
    /\ AlertBudget \in Nat \ {0}
    /\ TopDetections \in Nat \ {0}
    /\ MaxFeedback \in Nat
    /\ Channels \in Seq({"webhook", "slack", "email"})
    /\ None \notin {"open", "closed", "true_positive", "false_positive"}

\* benign_positive is treated like true_positive by everything below.
Disposition == {"true_positive", "false_positive"}

Finding == [actor : Actor, name : Name, day : Day]

\* _make_case hashes the actor and the first day; no two hashes collide here.
CaseId == [actor : Actor, day : Day]

\* Rows with the same content have ids of their own: nth counts them.
FeedbackRow == [case : CaseId, disposition : Disposition, names : SUBSET Name,
                nth : 1..MaxFeedback]

Case == [id : CaseId, names : (SUBSET Name) \ {{}}]

VARIABLES
    cases,         \* table cases by case_id; status None: no such row
    suppressions,  \* rows of table suppressions that have not expired
    feedback,      \* table feedback: records of [case, disposition, names, nth]
    run,           \* run[r]: where r is and its locals
    handler,       \* handler[t]: the request t serves and its locals
    messages,      \* messages that reached a channel: [run, case, channel]
    inserted,      \* history: records of [run, case], rows of cases inserted
    retained       \* history: cases that are open or closed recently

vars == <<cases, suppressions, feedback, run, handler, messages, inserted, retained>>

NoRow == [status |-> None, disposition |-> None, names |-> {}, aged |-> FALSE]

Row == [status : {"open", "closed", None}, disposition : Disposition \cup {None},
        names : SUBSET Name, aged : BOOLEAN]

\* `stale` is the first case and whether it existed when looked up, `new` the
\* new_case_ids, `channel` and `unsent` where notify is and what is left for
\* that channel, `failed` the channels that failed, `muted` the suppressions read.
Fresh == [at |-> "start", cases |-> {}, muted |-> {}, stale |-> {}, new |-> {},
          channel |-> 1, unsent |-> {}, failed |-> {}]

RunState == [at : {"start", "assess", "look", "upsert", "notify", "done", "dead"},
             cases : SUBSET Case, muted : SUBSET (Actor \X Name),
             stale : SUBSET [id : CaseId, exists : BOOLEAN],
             new : SUBSET CaseId,
             channel : 1..Max({1, Len(Channels)}), unsent : SUBSET CaseId,
             failed : SUBSET (1..Len(Channels))]

Idle == [at |-> "idle", case |-> None, status |-> None, disposition |-> None,
         suppress |-> FALSE, names |-> {}]

Handler == [at : {"idle", "status", "read", "insert", "suppress", "audit"},
            case : CaseId \cup {None}, status : {"open", "closed", None},
            disposition : Disposition \cup {None}, suppress : BOOLEAN,
            names : SUBSET Name]

TypeOK ==
    /\ cases \in [CaseId -> Row]
    /\ suppressions \subseteq [id : SuppressionId, actor : Actor, name : Name]
    /\ feedback \subseteq FeedbackRow
    /\ run \in [Run -> RunState]
    /\ handler \in [Thread -> Handler]
    /\ messages \subseteq [run : Run, case : CaseId, channel : 1..Len(Channels)]
    /\ inserted \subseteq [run : Run, case : CaseId]
    /\ retained \subseteq CaseId

Init ==
    /\ cases = [c \in CaseId |-> NoRow]
    /\ suppressions = {}
    /\ feedback = {}
    /\ run = [r \in Run |-> Fresh]
    /\ handler = [t \in Thread |-> Idle]
    /\ messages = {}
    /\ inserted = {}
    /\ retained = {}

Present(c) == cases[c].status # None

Ids(cs) == {c.id : c \in cs}

----------------------------------------------------------------------------
(* itds run.                                                               *)

RunAt(r, place) == run[r].at = place

Unsuppressed(found, muted) == {f \in found : <<f.actor, f.name>> \notin muted}

\* top_detections: the weights decide which names they are; any may be it.
Tops(names) ==
    {top \in SUBSET names : Cardinality(top) = Min({TopDetections, Cardinality(names)})}

\* _make_case: the cases an actor may get, opened on the first day of a finding
\* that was kept.
Made(actor, kept) ==
    LET own == {f \in kept : f.actor = actor}
    IN  {[id |-> [actor |-> actor, day |-> Min({f.day : f \in own})], names |-> top] :
            top \in Tops({f.name : f \in own})}

\* build_cases: one for each of the actors with findings that reach the
\* threshold, cut to the budget.  The scores decide which; any of them may be it.
Queues(kept) ==
    {queue \in SUBSET UNION {Made(f.actor, kept) : f \in kept} :
        /\ Cardinality(queue) <= AlertBudget
        /\ \A c, k \in queue : c.id.actor = k.id.actor => c = k}

\* suppression_set is read once, before anything is scored.
ReadSuppressions(r) ==
    /\ RunAt(r, "start")
    /\ run' = [run EXCEPT ![r].muted = {<<s.actor, s.name>> : s \in suppressions},
                          ![r].at = "assess"]
    /\ UNCHANGED <<cases, suppressions, feedback, handler, messages, inserted, retained>>

\* The run goes on with the cases of queue.
Enqueue(r, queue) ==
    /\ run' = [run EXCEPT ![r].cases = queue,
                          ![r].at = IF queue = {} THEN "done" ELSE "look"]
    /\ UNCHANGED <<cases, suppressions, feedback, handler, messages, inserted, retained>>

Assess(r, found) ==
    /\ RunAt(r, "assess")
    /\ \E queue \in Queues(Unsuppressed(found, run[r].muted)) : Enqueue(r, queue)

\* upsert_cases: a SELECT opens no transaction, so the one for the first case
\* is over before the write that follows takes the lock.
LookUpFirst(r) ==
    /\ RunAt(r, "look")
    /\ \E c \in Ids(run[r].cases) :
           run' = [run EXCEPT ![r].stale = {[id |-> c, exists |-> Present(c)]},
                              ![r].at = "upsert"]
    /\ UNCHANGED <<cases, suppressions, feedback, handler, messages, inserted, retained>>

\* What r believes about case c when it writes it.
Exists(r, c) ==
    \A s \in run[r].stale : IF s.id = c THEN s.exists ELSE Present(c)

ReplacedRow(r, c) ==
    LET new == CHOOSE n \in run[r].cases : n.id = c
    IN  [NoRow EXCEPT !.status = "open", !.names = new.names]

\* The row of case c after r wrote it: inserted, refreshed, or, if the row that
\* was seen is gone, still absent.
WrittenRow(r, c) ==
    LET new == CHOOSE n \in run[r].cases : n.id = c
    IN  IF ~Exists(r, c) THEN [NoRow EXCEPT !.status = "open", !.names = new.names]
        ELSE IF Present(c) THEN [cases[c] EXCEPT !.names = new.names]
        ELSE NoRow

\* The locals of a run that has upserted: notify is next, unless there is nothing
\* to tell or nobody to tell it to.
AfterUpsert(new) ==
    [Fresh EXCEPT !.at = IF new = {} \/ Channels = <<>> THEN "done" ELSE "notify",
                  !.new = new, !.unsent = new]

UpsertOnConflict(r) ==
    /\ RunAt(r, "upsert")
    /\ LET ids == Ids(run[r].cases)
           new == {c \in ids : ~Exists(r, c)}
           row(c) == IF Present(c) THEN [cases[c] EXCEPT !.names = WrittenRow(r, c).names]
                                   ELSE WrittenRow(r, c)
       IN  /\ cases' = [c \in CaseId |-> IF c \in ids THEN row(c) ELSE cases[c]]
           /\ inserted' = inserted \cup
                  {[run |-> r, case |-> c] : c \in {n \in new : ~Present(n)}}
           /\ retained' = retained \cup new
           /\ run' = [run EXCEPT ![r] = AfterUpsert(new)]
    /\ UNCHANGED <<suppressions, feedback, handler, messages>>

\* The transaction.  An INSERT of a case that appeared since it was looked up
\* breaks the primary key: nothing is written and the process ends.
Upsert(r) ==
    /\ RunAt(r, "upsert")
    /\ LET ids == Ids(run[r].cases)
           new == {c \in ids : ~Exists(r, c)}
       IN  IF \E c \in new : Present(c)
           THEN /\ run' = [run EXCEPT ![r] = [Fresh EXCEPT !.at = "dead"]]
                /\ UNCHANGED <<cases, inserted, retained>>
           ELSE /\ cases' = [c \in CaseId |-> IF c \in ids THEN WrittenRow(r, c)
                                                         ELSE cases[c]]
                /\ inserted' = inserted \cup {[run |-> r, case |-> c] : c \in new}
                /\ retained' = retained \cup new
                /\ run' = [run EXCEPT ![r] = AfterUpsert(new)]
    /\ UNCHANGED <<suppressions, feedback, handler, messages>>

\* notify posts case by case, but mails all the cases in one message.
Messages(r) ==
    IF Channels[run[r].channel] = "email" THEN {run[r].unsent}
    ELSE {{c} : c \in run[r].unsent}

Delivered(r, batch) ==
    messages' = messages \cup
        {[run |-> r, case |-> c, channel |-> run[r].channel] : c \in batch}

PastLastChannel(s) ==
    IF s.channel > Len(Channels)
    THEN [Fresh EXCEPT !.at = "done", !.failed = s.failed]
    ELSE [s EXCEPT !.channel = @ + 1, !.unsent = s.new]

\* The locals of a run that is finished with its channel.
NextChannel(s) ==
    IF s.channel = Len(Channels)
    THEN [Fresh EXCEPT !.at = "done", !.failed = s.failed]
    ELSE [s EXCEPT !.channel = @ + 1, !.unsent = s.new]

Send(r, batch) ==
    /\ RunAt(r, "notify")
    /\ batch \in Messages(r)
    /\ Delivered(r, batch)
    /\ LET left == [run[r] EXCEPT !.unsent = @ \ batch]
       IN  run' = [run EXCEPT ![r] = IF left.unsent = {} THEN NextChannel(left) ELSE left]
    /\ UNCHANGED <<cases, suppressions, feedback, handler, inserted, retained>>

FailEndsRun(r, batch) ==
    /\ RunAt(r, "notify")
    /\ batch \in Messages(r)
    /\ \/ Delivered(r, batch)
       \/ UNCHANGED messages
    /\ run' = [run EXCEPT ![r].failed = @ \cup {run[r].channel}, ![r].at = "done"]
    /\ UNCHANGED <<cases, suppressions, feedback, handler, inserted, retained>>

FailAndRestart(r, batch) ==
    /\ RunAt(r, "notify")
    /\ batch \in Messages(r)
    /\ \/ Delivered(r, batch)
       \/ UNCHANGED messages
    /\ run' = [run EXCEPT ![r].unsent = run[r].new]
    /\ UNCHANGED <<cases, suppressions, feedback, handler, inserted, retained>>

\* An exception, after the message arrived or before, ends the channel: what is
\* left for it is not sent.
ChannelFails(r, batch) ==
    /\ RunAt(r, "notify")
    /\ batch \in Messages(r)
    /\ \/ Delivered(r, batch)
       \/ UNCHANGED messages
    /\ run' = [run EXCEPT ![r] =
                   NextChannel([run[r] EXCEPT !.failed = @ \cup {run[r].channel}])]
    /\ UNCHANGED <<cases, suppressions, feedback, handler, inserted, retained>>

----------------------------------------------------------------------------
(* The analysts' requests.                                                 *)

At(t, place) == handler[t].at = place

Go(t, h) == handler' = [handler EXCEPT ![t] = h]

\* set_status and give_feedback begin with case_or_404.
AskStatus(t, c, status, disposition) ==
    /\ At(t, "idle")
    /\ Present(c)
    /\ status = "closed" => disposition # None
    /\ Go(t, [Idle EXCEPT !.at = "status", !.case = c, !.status = status,
                          !.disposition = disposition])
    /\ UNCHANGED <<cases, suppressions, feedback, run, messages, inserted, retained>>

SetStatusKeepingClosedAt(t) ==
    /\ At(t, "status")
    /\ LET h == handler[t]
       IN  IF Present(h.case)
           THEN /\ cases' = [cases EXCEPT
                       ![h.case].status = h.status,
                       ![h.case].disposition =
                           IF h.disposition = None THEN @ ELSE h.disposition]
                /\ retained' = retained \cup {h.case}
           ELSE UNCHANGED <<cases, retained>>
    /\ Go(t, [handler[t] EXCEPT !.at = "audit"])
    /\ UNCHANGED <<suppressions, feedback, run, messages, inserted>>

\* set_case_status: closed_at becomes now, or NULL.  A case that was purged
\* meanwhile is not found, and nobody looks at the count that says so.
SetStatus(t) ==
    /\ At(t, "status")
    /\ LET h == handler[t]
       IN  IF Present(h.case)
           THEN /\ cases' = [cases EXCEPT
                       ![h.case].status = h.status,
                       ![h.case].disposition =
                           IF h.disposition = None THEN @ ELSE h.disposition,
                       ![h.case].aged = FALSE]
                /\ retained' = retained \cup {h.case}
           ELSE UNCHANGED <<cases, retained>>
    /\ Go(t, [handler[t] EXCEPT !.at = "audit"])
    /\ UNCHANGED <<suppressions, feedback, run, messages, inserted>>

\* Only a false positive can suppress.
AskFeedback(t, c, disposition, suppress) ==
    /\ At(t, "idle")
    /\ Present(c)
    /\ suppress => disposition = "false_positive"
    /\ Go(t, [Idle EXCEPT !.at = "read", !.case = c, !.disposition = disposition,
                          !.suppress = suppress])
    /\ UNCHANGED <<cases, suppressions, feedback, run, messages, inserted, retained>>

\* feedback.record reads the case again: a KeyError ends the request if it is
\* gone.  A case in the queue always has top detections.
ReadFindings(t) ==
    /\ At(t, "read")
    /\ LET c == handler[t].case
       IN  IF Present(c)
           THEN Go(t, [handler[t] EXCEPT !.at = "insert", !.names = cases[c].names])
           ELSE Go(t, Idle)
    /\ UNCHANGED <<cases, suppressions, feedback, run, messages, inserted, retained>>

SuppressFirst(t) ==
    /\ At(t, "insert")
    /\ LET h == handler[t]
       IN  Go(t, [h EXCEPT !.at = IF h.suppress THEN "suppress" ELSE "audit"])
    /\ UNCHANGED <<cases, suppressions, feedback, run, messages, inserted, retained>>

InsertFeedback(t) ==
    /\ At(t, "insert")
    /\ LET h == handler[t]
           row(n) == [case |-> h.case, disposition |-> h.disposition,
                      names |-> h.names, nth |-> n]
       IN  /\ Cardinality(feedback) < MaxFeedback
           /\ \E n \in 1..MaxFeedback :
                  /\ row(n) \notin feedback
                  /\ \A k \in 1..(n - 1) : row(k) \in feedback
                  /\ feedback' = feedback \cup {row(n)}
           /\ Go(t, [h EXCEPT !.at = IF h.suppress THEN "suppress" ELSE "audit"])
    /\ UNCHANGED <<cases, suppressions, run, messages, inserted, retained>>

\* add_suppression, a transaction for each name.
AddSuppression(t, id, name) ==
    /\ At(t, "suppress")
    /\ name \in handler[t].names
    /\ \A s \in suppressions : s.id # id
    /\ suppressions' = suppressions \cup
           {[id |-> id, actor |-> handler[t].case.actor, name |-> name]}
    /\ LET left == handler[t].names \ {name}
       IN  Go(t, [handler[t] EXCEPT !.names = left,
                                    !.at = IF left = {} THEN "audit" ELSE "suppress"])
    /\ UNCHANGED <<cases, feedback, run, messages, inserted, retained>>

\* DELETE /api/suppressions/{suppression_id}
RemoveSuppression(t, s) ==
    /\ At(t, "idle")
    /\ suppressions' = suppressions \ {s}
    /\ Go(t, [Idle EXCEPT !.at = "audit"])
    /\ UNCHANGED <<cases, feedback, run, messages, inserted, retained>>

Record(t) ==
    /\ At(t, "audit")
    /\ Go(t, Idle)
    /\ UNCHANGED <<cases, suppressions, feedback, run, messages, inserted, retained>>

----------------------------------------------------------------------------
(* Deadlines, retention and failures.                                      *)

SuppressionExpires(s) ==
    /\ suppressions' = suppressions \ {s}
    /\ UNCHANGED <<cases, feedback, run, handler, messages, inserted, retained>>

\* A closed case becomes older than case_retention_days.
RetentionEnds(c) ==
    /\ cases[c].status = "closed"
    /\ c \in retained
    /\ cases' = [cases EXCEPT ![c].aged = TRUE]
    /\ retained' = retained \ {c}
    /\ UNCHANGED <<suppressions, feedback, run, handler, messages, inserted>>

\* itds purge: one DELETE.  It leaves feedback and suppressions alone.
Purge ==
    /\ cases' = [c \in CaseId |->
           IF cases[c].status = "closed" /\ cases[c].aged THEN NoRow ELSE cases[c]]
    /\ UNCHANGED <<suppressions, feedback, run, handler, messages, inserted, retained>>

\* A transaction that cannot get its lock, an exception, a killed process.
RunDies(r) ==
    /\ run[r].at \notin {"done", "dead"}
    /\ run' = [run EXCEPT ![r] = [Fresh EXCEPT !.at = "dead", !.failed = run[r].failed]]
    /\ UNCHANGED <<cases, suppressions, feedback, handler, messages, inserted, retained>>

RequestFails(t) ==
    /\ ~At(t, "idle")
    /\ Go(t, Idle)
    /\ UNCHANGED <<cases, suppressions, feedback, run, messages, inserted, retained>>

RunStep(r) ==
    \/ ReadSuppressions(r)
    \/ \E found \in SUBSET Finding : Assess(r, found)
    \/ LookUpFirst(r)
    \/ Upsert(r)
    \/ \E batch \in SUBSET CaseId : Send(r, batch) \/ ChannelFails(r, batch)

StatusRequest(t) ==
    \/ \E c \in CaseId, s \in {"open", "closed"}, d \in Disposition \cup {None} :
           AskStatus(t, c, s, d)
    \/ SetStatus(t)

FeedbackRequest(t) ==
    \/ \E c \in CaseId, d \in Disposition, suppress \in BOOLEAN :
           AskFeedback(t, c, d, suppress)
    \/ ReadFindings(t)
    \/ InsertFeedback(t)
    \/ \E id \in SuppressionId, n \in Name : AddSuppression(t, id, n)
    \/ \E s \in suppressions : RemoveSuppression(t, s)

Deadline ==
    \/ \E s \in suppressions : SuppressionExpires(s)
    \/ \E c \in CaseId : RetentionEnds(c)

Next ==
    \/ \E r \in Run : RunStep(r) \/ RunDies(r)
    \/ \E t \in Thread : StatusRequest(t) \/ FeedbackRequest(t) \/ Record(t) \/ RequestFails(t)
    \/ Deadline
    \/ Purge

\* A run waits for nobody: each channel has a timeout, and a lock that is not
\* free for five seconds is an exception.
Spec == Init /\ [][Next]_vars /\ \A r \in Run : WF_vars(RunStep(r))

----------------------------------------------------------------------------
(* Properties that hold.                                                   *)

\* storage.py:368-369, "an analyst's decision outlives the next batch run":
\* whatever overlaps, a run changes no status and no disposition, and deletes
\* no case.
DecisionOutlivesRuns ==
    [][\A c \in CaseId :
            run' # run /\ Present(c) =>
                /\ cases'[c].status = cases[c].status
                /\ cases'[c].disposition = cases[c].disposition]_vars

\* alerts.py:3-4, "re-runs that only update an existing case stay quiet": only
\* the run that inserted a case tells a channel of it, also when two runs find
\* the same new case at the same time.
OnlyTheInserterAlerts ==
    \A m \in messages : [run |-> m.run, case |-> m.case] \in inserted

\* alerts.py:126-127, "a broken webhook must not stop the detection run": a run
\* that ended normally told every channel that works of every case it inserted.
EveryWorkingChannelTold ==
    \A i \in inserted, ch \in 1..Len(Channels) :
        RunAt(i.run, "done") /\ ch \notin run[i.run].failed =>
            [run |-> i.run, case |-> i.case, channel |-> ch] \in messages

\* A case that is open, or whose last closing is younger than the retention
\* period, is in the table: a case reopened and closed again starts anew.
RetentionHonoured == \A c \in retained : Present(c)

\* feedback.py:6-8, "for that person only": a suppression is backed by a stored
\* false-positive verdict on a case of that person, also when the request that
\* made it failed half way.
SuppressionJustified ==
    \A s \in suppressions : \E f \in feedback :
        /\ f.disposition = "false_positive"
        /\ f.case.actor = s.actor
        /\ s.name \in f.names

\* Every run ends, however its channels behave.
RunsEnd == \A r \in Run : <>(run[r].at \in {"done", "dead"})
====
