---- MODULE CaseQueueProofs ----
(***************************************************************************)
(* Theorems about CaseQueue, for any people, detections and days, any runs *)
(* and analysts, any channels and any budget.                              *)
(***************************************************************************)
EXTENDS CaseQueue, NumberFacts, TLAPS

----------------------------------------------------------------------------
(* Facts about the model's operators.                                      *)

LEMMA MaxOfOneAnd ==
    ASSUME NEW n \in Nat
    PROVE  Max({1, n}) \in Nat /\ Max({1, n}) >= 1 /\ Max({1, n}) >= n
<1>1. \E m \in {1, n} : \A k \in {1, n} : m >= k
  OBVIOUS
<1>2. /\ Max({1, n}) \in {1, n}
      /\ \A k \in {1, n} : Max({1, n}) >= k
  BY <1>1 DEF Max
<1> QED
  BY <1>2

\* The channels are numbered from 1, and every number of one is a number that
\* a run may stand at.
LEMMA ChannelNumbers ==
    /\ Len(Channels) \in Nat
    /\ 1..Len(Channels) \subseteq 1..Max({1, Len(Channels)})
    /\ 1 \in 1..Max({1, Len(Channels)})
<1>1. Len(Channels) \in Nat
  BY CaseQueueAssumption
<1> QED
  BY <1>1, MaxOfOneAnd

\* Whatever is on top, something is.
LEMMA TopsShow ==
    ASSUME NEW names \in (SUBSET Name) \ {{}}, NEW top \in Tops(names)
    PROVE  top \in (SUBSET Name) \ {{}}
<1>1. IsFiniteSet(names)
  BY CaseQueueAssumption, FS_Subset
<1>2. Cardinality(names) \in Nat /\ Cardinality(names) # 0
  BY <1>1, FS_EmptySet, FS_CardinalityType
<1>3. PICK n \in Nat, k \in Nat : n = Cardinality(names) /\ k = TopDetections /\ k # 0
  BY <1>2, CaseQueueAssumption
<1>4. Min({k, n}) \in {k, n}
  BY <1>3, MinIsMember
<1>5. top \subseteq names /\ Cardinality(top) # 0
  BY <1>2, <1>3, <1>4 DEF Tops
<1> QED
  BY <1>5, FS_EmptySet

\* build_cases makes well-formed cases: the first day of a finding is a day, and
\* a finding has a name to show.
LEMMA MadeIsACase ==
    ASSUME NEW kept \in SUBSET Finding, NEW f \in kept, NEW c \in Made(f.actor, kept)
    PROVE  c \in Case
<1> DEFINE own == {g \in kept : g.actor = f.actor}
<1>1. PICK top \in Tops({g.name : g \in own}) :
          c = [id |-> [actor |-> f.actor, day |-> Min({g.day : g \in own})], names |-> top]
  BY DEF Made
<1>2. {g.day : g \in own} # {} /\ {g.day : g \in own} \subseteq Day
  BY DEF Finding
<1>3. Min({g.day : g \in own}) \in Day
  BY <1>2, MinIsMember, CaseQueueAssumption
<1>4. {g.name : g \in own} \in (SUBSET Name) \ {{}}
  BY DEF Finding
<1>5. top \in (SUBSET Name) \ {{}}
  <2> HIDE DEF own
  <2> QED
    BY <1>4, TopsShow
<1>6. f.actor \in Actor
  BY DEF Finding
<1> HIDE DEF own
<1> QED
  BY <1>1, <1>3, <1>5, <1>6 DEF Case, CaseId

LEMMA QueuesOfCases ==
    ASSUME NEW kept \in SUBSET Finding, NEW queue \in Queues(kept)
    PROVE  queue \subseteq Case
<1>1. queue \subseteq UNION {Made(f.actor, kept) : f \in kept}
  BY DEF Queues
<1> QED
  BY <1>1, MadeIsACase

----------------------------------------------------------------------------
(* The inductive invariant.                                                *)

Inserted(r, c) == [run |-> r, case |-> c] \in inserted

Told(r, c, ch) == [run |-> r, case |-> c, channel |-> ch] \in messages

TablesTyped ==
    /\ cases \in [CaseId -> Row]
    /\ suppressions \subseteq [id : SuppressionId, actor : Actor, name : Name]
    /\ feedback \subseteq FeedbackRow
    /\ messages \subseteq [run : Run, case : CaseId, channel : 1..Len(Channels)]
    /\ inserted \subseteq [run : Run, case : CaseId]
    /\ retained \subseteq CaseId

\* A case that is to be kept is there, and not old enough for a purge.
Kept(c) == Present(c) /\ ~(cases[c].status = "closed" /\ cases[c].aged)

AllKept == \A c \in retained : Kept(c)

\* What a run whose locals are s knows about the tables, at each place.
RunSound(r, s) ==
    /\ s \in RunState
    /\ s.at \notin {"notify", "done", "dead"} => \A c \in CaseId : ~Inserted(r, c)
    /\ s.at = "notify" =>
          /\ s.channel \in 1..Len(Channels)
          /\ s.unsent \subseteq s.new
          /\ \A c \in CaseId : Inserted(r, c) <=> c \in s.new
          /\ \A c \in s.new, ch \in 1..(s.channel - 1) : ch \notin s.failed => Told(r, c, ch)
          /\ \A c \in s.new \ s.unsent : Told(r, c, s.channel)
    /\ s.at = "done" =>
          \A c \in CaseId, ch \in 1..Len(Channels) :
              Inserted(r, c) /\ ch \notin s.failed => Told(r, c, ch)

RunsSound ==
    /\ run \in [Run -> RunState]
    /\ \A r \in Run : RunSound(r, run[r])

\* A verdict that allows to suppress these detections for the person of case c.
Backed(c, names) ==
    \E f \in feedback : f.disposition = "false_positive" /\ f.case = c /\ names \subseteq f.names

\* What a handler whose locals are h knows.
HandlerSound(h) ==
    /\ h \in Handler
    /\ h.at \in {"status", "read", "insert", "suppress"} => h.case \in CaseId
    /\ h.at = "status" => h.status \in {"open", "closed"}
    /\ h.at \in {"read", "insert", "suppress"} =>
          /\ h.disposition \in Disposition
          /\ h.suppress => h.disposition = "false_positive"
    /\ h.at = "suppress" => Backed(h.case, h.names)

HandlersSound ==
    /\ handler \in [Thread -> Handler]
    /\ \A t \in Thread : HandlerSound(handler[t])

IInv ==
    /\ TablesTyped
    /\ AllKept
    /\ OnlyTheInserterAlerts
    /\ SuppressionJustified
    /\ RunsSound
    /\ HandlersSound

LEMMA InvariantTypes == IInv => TypeOK
BY DEF IInv, TablesTyped, RunsSound, HandlersSound, TypeOK

----------------------------------------------------------------------------
(* What no step takes back.                                                *)

Grows == messages \subseteq messages' /\ feedback \subseteq feedback'

\* No row is inserted on behalf of run r.
InsertsNothing(r) == \A c \in CaseId : Inserted(r, c)' <=> Inserted(r, c)

LEMMA RunStable ==
    ASSUME NEW r \in Run, NEW s, RunSound(r, s), Grows, InsertsNothing(r)
    PROVE  RunSound(r, s)'
BY DEF RunSound, Grows, InsertsNothing, Told

LEMMA HandlerStable ==
    ASSUME NEW h, HandlerSound(h), Grows
    PROVE  HandlerSound(h)'
BY DEF HandlerSound, Grows, Backed

LEMMA RunsStand ==
    ASSUME RunsSound, Grows, UNCHANGED <<run, inserted>>
    PROVE  RunsSound'
<1>1. ASSUME NEW r \in Run
      PROVE  RunSound(r, run[r])'
  <2>1. PICK s : s = run[r]
    OBVIOUS
  <2>2. RunSound(r, s)'
    BY <2>1, RunStable DEF RunsSound, InsertsNothing, Inserted
  <2> QED
    BY <2>1, <2>2
<1> QED
  BY <1>1 DEF RunsSound

LEMMA HandlersStand ==
    ASSUME HandlersSound, Grows, UNCHANGED handler
    PROVE  HandlersSound'
<1>1. ASSUME NEW t \in Thread
      PROVE  HandlerSound(handler[t])'
  <2>1. PICK h : h = handler[t]
    OBVIOUS
  <2>2. HandlerSound(h)'
    BY <2>1, HandlerStable DEF HandlersSound
  <2> QED
    BY <2>1, <2>2
<1> QED
  BY <1>1 DEF HandlersSound

\* Run r moves on, to locals that are sound; the other runs stand still.
LEMMA RunMoves ==
    ASSUME RunsSound, Grows, NEW r \in Run, NEW s, run' = [run EXCEPT ![r] = s],
           RunSound(r, s)', \A o \in Run : o # r => InsertsNothing(o)
    PROVE  RunsSound'
<1>1. s \in RunState
  BY DEF RunSound
<1>2. run' \in [Run -> RunState]
  BY <1>1 DEF RunsSound
<1>3. ASSUME NEW o \in Run
      PROVE  RunSound(o, run[o])'
  <2>1. CASE o = r
    BY <2>1 DEF RunsSound
  <2>2. CASE o # r
    <3>1. run'[o] = run[o]
      BY <2>2 DEF RunsSound
    <3>2. PICK k : k = run[o]
      OBVIOUS
    <3>3. RunSound(o, k)'
      BY <2>2, <3>2, RunStable DEF RunsSound
    <3> QED
      BY <3>1, <3>2, <3>3
  <2> QED
    BY <2>1, <2>2
<1> QED
  BY <1>2, <1>3 DEF RunsSound

\* A handler moves on, to locals that are sound; the others stand still.
LEMMA HandlerMoves ==
    ASSUME HandlersSound, Grows, NEW t \in Thread, NEW h, Go(t, h), HandlerSound(h)'
    PROVE  HandlersSound'
<1>1. h \in Handler
  BY DEF HandlerSound
<1>2. handler' \in [Thread -> Handler]
  BY <1>1 DEF HandlersSound, Go
<1>3. ASSUME NEW o \in Thread
      PROVE  HandlerSound(handler[o])'
  <2>1. CASE o = t
    BY <2>1 DEF HandlersSound, Go
  <2>2. CASE o # t
    <3>1. handler'[o] = handler[o]
      BY <2>2 DEF HandlersSound, Go
    <3>2. PICK k : k = handler[o]
      OBVIOUS
    <3>3. HandlerSound(k)'
      BY <3>2, HandlerStable DEF HandlersSound
    <3> QED
      BY <3>1, <3>2, <3>3
  <2> QED
    BY <2>1, <2>2
<1> QED
  BY <1>2, <1>3 DEF HandlersSound

----------------------------------------------------------------------------
(* Steps that only read the tables.                                        *)

Tables == <<cases, suppressions, feedback, messages, inserted, retained>>

LEMMA TablesStand ==
    ASSUME IInv, UNCHANGED Tables
    PROVE  /\ TablesTyped' /\ AllKept' /\ OnlyTheInserterAlerts' /\ SuppressionJustified'
           /\ Grows /\ \A r \in Run : InsertsNothing(r)
BY DEF IInv, Tables, TablesTyped, AllKept, Kept, Present, OnlyTheInserterAlerts,
       SuppressionJustified, Grows, InsertsNothing, Inserted

LEMMA RunReads ==
    ASSUME IInv, UNCHANGED Tables, UNCHANGED handler, NEW r \in Run, NEW s,
           run' = [run EXCEPT ![r] = s], RunSound(r, s)
    PROVE  IInv'
<1>1. /\ TablesTyped' /\ AllKept' /\ OnlyTheInserterAlerts' /\ SuppressionJustified'
      /\ Grows /\ \A o \in Run : InsertsNothing(o)
  BY TablesStand
<1>2. RunSound(r, s)'
  BY <1>1, RunStable
<1> QED
  BY <1>1, <1>2, RunMoves, HandlersStand DEF IInv

LEMMA HandlerReads ==
    ASSUME IInv, UNCHANGED Tables, UNCHANGED run, NEW t \in Thread, NEW h,
           Go(t, h), HandlerSound(h)
    PROVE  IInv'
<1>1. /\ TablesTyped' /\ AllKept' /\ OnlyTheInserterAlerts' /\ SuppressionJustified'
      /\ Grows /\ UNCHANGED inserted
  BY TablesStand DEF Tables
<1>2. HandlerSound(h)'
  BY <1>1, HandlerStable
<1> QED
  BY <1>1, <1>2, HandlerMoves, RunsStand DEF IInv

----------------------------------------------------------------------------
(* The steps of a run.                                                     *)

\* A run that died has nothing to vouch for.
LEMMA DeadSound ==
    ASSUME NEW r \in Run
    PROVE  /\ Fresh \in RunState
           /\ \A failed \in SUBSET (1..Len(Channels)) :
                  RunSound(r, [Fresh EXCEPT !.at = "dead", !.failed = failed])
BY ChannelNumbers DEF RunSound, Fresh, RunState

LEMMA ReadSuppressionsKeeps ==
    ASSUME IInv, NEW r \in Run, ReadSuppressions(r)
    PROVE  IInv'
<1>1. PICK k : k = run[r]
  OBVIOUS
<1>2. RunSound(r, k) /\ k.at = "start"
  BY <1>1 DEF IInv, RunsSound, ReadSuppressions, RunAt
<1>3. PICK muted : muted = {<<s.actor, s.name>> : s \in suppressions}
  OBVIOUS
<1>4. muted \in SUBSET (Actor \X Name)
  BY <1>3 DEF IInv, TablesTyped
<1>5. PICK s : s = [k EXCEPT !.muted = muted, !.at = "assess"]
  OBVIOUS
<1>6. s \in RunState /\ s.at = "assess"
  BY <1>2, <1>4, <1>5 DEF RunSound, RunState
<1>7. RunSound(r, s)
  BY <1>2, <1>6 DEF RunSound
<1>8. run' = [run EXCEPT ![r] = s]
  BY <1>1, <1>3, <1>5 DEF ReadSuppressions, IInv, RunsSound
<1>9. UNCHANGED Tables /\ UNCHANGED handler
  BY DEF ReadSuppressions, Tables
<1> QED
  BY <1>7, <1>8, <1>9, RunReads

LEMMA AssessKeeps ==
    ASSUME IInv, NEW r \in Run, NEW found \in SUBSET Finding, Assess(r, found)
    PROVE  IInv'
<1>1. PICK k : k = run[r]
  OBVIOUS
<1>2. RunSound(r, k) /\ k.at = "assess"
  BY <1>1 DEF IInv, RunsSound, Assess, RunAt
<1>3. PICK queue \in Queues(Unsuppressed(found, run[r].muted)) : Enqueue(r, queue)
  BY DEF Assess
<1>4. queue \in SUBSET Case
  <2>1. Unsuppressed(found, run[r].muted) \in SUBSET Finding
    BY DEF Unsuppressed
  <2> QED
    BY <1>3, <2>1, QueuesOfCases
<1>5. PICK place : place = IF queue = {} THEN "done" ELSE "look"
  OBVIOUS
<1>6. PICK s : s = [k EXCEPT !.cases = queue, !.at = place]
  OBVIOUS
<1>7. s \in RunState /\ s.at \in {"done", "look"}
  BY <1>2, <1>4, <1>5, <1>6 DEF RunSound, RunState
<1>8. RunSound(r, s)
  BY <1>2, <1>7 DEF RunSound
<1>9. run' = [run EXCEPT ![r] = s]
  BY <1>1, <1>3, <1>5, <1>6 DEF Enqueue, IInv, RunsSound
<1>10. UNCHANGED Tables /\ UNCHANGED handler
  BY <1>3 DEF Enqueue, Tables
<1> QED
  BY <1>8, <1>9, <1>10, RunReads

LEMMA LookUpFirstKeeps ==
    ASSUME IInv, NEW r \in Run, LookUpFirst(r)
    PROVE  IInv'
<1>1. PICK k : k = run[r]
  OBVIOUS
<1>2. RunSound(r, k) /\ k.at = "look"
  BY <1>1 DEF IInv, RunsSound, LookUpFirst, RunAt
<1>3. PICK c \in Ids(run[r].cases) :
          run' = [run EXCEPT ![r].stale = {[id |-> c, exists |-> Present(c)]},
                             ![r].at = "upsert"]
  BY DEF LookUpFirst
<1>4. c \in CaseId
  BY <1>1, <1>2, <1>3 DEF RunSound, RunState, Ids, Case
<1>5. PICK stale : stale = {[id |-> c, exists |-> Present(c)]}
  OBVIOUS
<1>6. stale \in SUBSET [id : CaseId, exists : BOOLEAN]
  <2>1. Present(c) \in BOOLEAN
    BY DEF Present
  <2> QED
    BY <1>4, <1>5, <2>1
<1>7. PICK s : s = [k EXCEPT !.stale = stale, !.at = "upsert"]
  OBVIOUS
<1>8. s \in RunState /\ s.at = "upsert"
  BY <1>2, <1>6, <1>7 DEF RunSound, RunState
<1>9. RunSound(r, s)
  BY <1>2, <1>8 DEF RunSound
<1>10. run' = [run EXCEPT ![r] = s]
  BY <1>1, <1>3, <1>5, <1>7 DEF IInv, RunsSound
<1>11. UNCHANGED Tables /\ UNCHANGED handler
  BY DEF LookUpFirst, Tables
<1> QED
  BY <1>9, <1>10, <1>11, RunReads

LEMMA RunDiesKeeps ==
    ASSUME IInv, NEW r \in Run, RunDies(r)
    PROVE  IInv'
<1>1. PICK failed : failed = run[r].failed
  OBVIOUS
<1>2. failed \in SUBSET (1..Len(Channels))
  BY <1>1 DEF IInv, RunsSound, RunState
<1>3. PICK s : s = [Fresh EXCEPT !.at = "dead", !.failed = failed]
  OBVIOUS
<1>4. run' = [run EXCEPT ![r] = s] /\ UNCHANGED Tables /\ UNCHANGED handler
  BY <1>1, <1>3 DEF RunDies, Tables
<1> QED
  BY <1>2, <1>3, <1>4, DeadSound, RunReads

\* What an upsert makes of a row: a new open case, the same decision with other
\* detections, or nothing.
LEMMA WrittenRows ==
    ASSUME TablesTyped, NEW r \in Run, run[r].cases \in SUBSET Case,
           NEW c \in Ids(run[r].cases)
    PROVE  /\ c \in CaseId
           /\ WrittenRow(r, c) \in Row
           /\ ~Exists(r, c) => WrittenRow(r, c).status = "open"
           /\ Exists(r, c) /\ Present(c) =>
                 /\ WrittenRow(r, c).status = cases[c].status
                 /\ WrittenRow(r, c).disposition = cases[c].disposition
                 /\ WrittenRow(r, c).aged = cases[c].aged
<1>1. PICK new : new = CHOOSE n \in run[r].cases : n.id = c
  OBVIOUS
<1>2. \E n \in run[r].cases : n.id = c
  BY DEF Ids
<1>3. new \in Case /\ new.id = c
  BY <1>1, <1>2
<1>4. c \in CaseId /\ new.names \in SUBSET Name
  BY <1>3 DEF Case
<1>5. PICK names : names = new.names
  OBVIOUS
<1>6. PICK old : old = cases[c]
  OBVIOUS
<1>7. old \in Row /\ NoRow \in Row
  BY <1>4, <1>6 DEF TablesTyped, Row, NoRow
<1>8. PICK fresh : fresh = [NoRow EXCEPT !.status = "open", !.names = names]
  OBVIOUS
<1>9. fresh \in Row /\ fresh.status = "open"
  BY <1>4, <1>5, <1>8 DEF NoRow, Row
<1>10. PICK same : same = [old EXCEPT !.names = names]
  OBVIOUS
<1>11. /\ same \in Row /\ same.status = old.status /\ same.disposition = old.disposition
       /\ same.aged = old.aged
  BY <1>4, <1>5, <1>7, <1>10 DEF Row
<1>12. WrittenRow(r, c) = IF ~Exists(r, c) THEN fresh
                          ELSE IF Present(c) THEN same ELSE NoRow
  BY <1>1, <1>5, <1>6, <1>8, <1>10 DEF WrittenRow
<1> QED
  BY <1>4, <1>6, <1>7, <1>9, <1>11, <1>12

\* A run that has written is to tell every channel of just what it inserted.
LEMMA AfterUpsertSound ==
    ASSUME NEW r \in Run, NEW new \in SUBSET CaseId,
           \A c \in CaseId : Inserted(r, c)' <=> c \in new
    PROVE  RunSound(r, AfterUpsert(new))'
<1>1. PICK place : place = IF new = {} \/ Channels = <<>> THEN "done" ELSE "notify"
  OBVIOUS
<1>2. PICK s : s = [Fresh EXCEPT !.at = place, !.new = new, !.unsent = new]
  OBVIOUS
<1>3. /\ s.at = place /\ s.new = new /\ s.unsent = new /\ s.channel = 1
      /\ s \in RunState
  BY <1>1, <1>2, ChannelNumbers DEF Fresh, RunState
<1>4. CASE place = "done"
  <2>1. new = {} \/ 1..Len(Channels) = {}
    BY <1>1, <1>4
  <2>2. RunSound(r, s)'
    BY <1>3, <1>4, <2>1 DEF RunSound
  <2> QED
    BY <1>1, <1>2, <2>2 DEF AfterUpsert
<1>5. CASE place = "notify"
  <2>1. 1 \in 1..Len(Channels)
    BY <1>1, <1>5, ChannelNumbers, CaseQueueAssumption
  <2>2. RunSound(r, s)'
    BY <1>3, <1>5, <2>1 DEF RunSound
  <2> QED
    BY <1>1, <1>2, <2>2 DEF AfterUpsert
<1> QED
  BY <1>1, <1>4, <1>5

LEMMA UpsertKeeps ==
    ASSUME IInv, NEW r \in Run, Upsert(r)
    PROVE  IInv'
<1> DEFINE ids == Ids(run[r].cases)
<1>1. /\ RunSound(r, run[r]) /\ run[r].at = "upsert" /\ run[r].cases \in SUBSET Case
      /\ \A c \in CaseId : ~Inserted(r, c)
  BY DEF IInv, RunsSound, RunSound, RunState, Upsert, RunAt
<1>2. PICK new : new = {c \in ids : ~Exists(r, c)}
  OBVIOUS
<1>3. TablesTyped
  BY DEF IInv
<1>4. \A c \in ids : /\ c \in CaseId
                     /\ WrittenRow(r, c) \in Row
                     /\ ~Exists(r, c) => WrittenRow(r, c).status = "open"
                     /\ Exists(r, c) /\ Present(c) =>
                           /\ WrittenRow(r, c).status = cases[c].status
                           /\ WrittenRow(r, c).aged = cases[c].aged
  BY <1>1, <1>3, WrittenRows
<1>5. CASE \E c \in new : Present(c)
  <2>1. PICK s : s = [Fresh EXCEPT !.at = "dead"]
    OBVIOUS
  <2>2. RunSound(r, s)
    BY <2>1, DeadSound DEF RunSound, Fresh, RunState
  <2>3. run' = [run EXCEPT ![r] = s] /\ UNCHANGED Tables /\ UNCHANGED handler
    BY <1>2, <1>5, <2>1 DEF Upsert, Tables
  <2> QED
    BY <2>2, <2>3, RunReads
<1>6. CASE ~\E c \in new : Present(c)
  <2>1. /\ cases' = [c \in CaseId |-> IF c \in ids THEN WrittenRow(r, c) ELSE cases[c]]
        /\ inserted' = inserted \cup {[run |-> r, case |-> c] : c \in new}
        /\ retained' = retained \cup new
        /\ run' = [run EXCEPT ![r] = AfterUpsert(new)]
        /\ UNCHANGED <<suppressions, feedback, handler, messages>>
    BY <1>2, <1>6 DEF Upsert
  <2>2. new \in SUBSET CaseId
    BY <1>2, <1>4
  <2>3. TablesTyped'
    <3>1. cases' \in [CaseId -> Row]
      BY <1>3, <1>4, <2>1 DEF TablesTyped
    <3>2. inserted' \subseteq [run : Run, case : CaseId]
      BY <1>3, <2>1, <2>2 DEF TablesTyped
    <3> QED
      BY <1>3, <2>1, <2>2, <3>1, <3>2 DEF TablesTyped
  <2>4. AllKept'
    <3>1. ASSUME NEW c \in retained'
          PROVE  Kept(c)'
      <4>1. c \in CaseId
        BY <2>3 DEF TablesTyped
      <4>2. CASE c \in new
        <5>1. cases'[c].status = "open"
          BY <1>2, <1>4, <2>1, <4>1, <4>2
        <5> QED
          BY <5>1, CaseQueueAssumption DEF Kept, Present
      <4>3. CASE c \notin new
        <5>1. Kept(c)
          BY <2>1, <4>3 DEF IInv, AllKept
        <5>2. cases'[c].status = cases[c].status /\ cases'[c].aged = cases[c].aged
          BY <1>2, <1>4, <2>1, <4>1, <4>3, <5>1 DEF Kept
        <5> QED
          BY <5>1, <5>2 DEF Kept, Present
      <4> QED
        BY <4>2, <4>3
    <3> QED
      BY <3>1 DEF AllKept
  <2>5. OnlyTheInserterAlerts' /\ SuppressionJustified'
    BY <2>1 DEF IInv, OnlyTheInserterAlerts, SuppressionJustified
  <2>6. Grows
    BY <2>1 DEF Grows
  <2>7. RunsSound'
    <3>1. \A c \in CaseId : Inserted(r, c)' <=> c \in new
      BY <1>1, <2>1, <2>2 DEF Inserted
    <3>2. \A o \in Run : o # r => InsertsNothing(o)
      BY <2>1 DEF InsertsNothing, Inserted
    <3>3. PICK s : s = AfterUpsert(new)
      OBVIOUS
    <3>4. RunSound(r, s)'
      BY <2>2, <3>1, <3>3, AfterUpsertSound
    <3> QED
      BY <2>1, <2>6, <3>2, <3>3, <3>4, RunMoves DEF IInv
  <2>8. HandlersSound'
    BY <2>1, <2>6, HandlersStand DEF IInv
  <2> QED
    BY <2>3, <2>4, <2>5, <2>7, <2>8 DEF IInv
<1> QED
  BY <1>5, <1>6

\* Done with its channel, a run told it of everything or knows that it failed.
LEMMA NextChannelSound ==
    ASSUME NEW r \in Run, NEW s \in RunState, s.at = "notify", s.channel \in 1..Len(Channels),
           \A c \in CaseId : Inserted(r, c)' <=> c \in s.new,
           \A c \in s.new, ch \in 1..s.channel : ch \notin s.failed => Told(r, c, ch)'
    PROVE  RunSound(r, NextChannel(s))'
<1>1. PICK failed : failed = s.failed
  OBVIOUS
<1>2. PICK new : new = s.new
  OBVIOUS
<1>3. CASE s.channel = Len(Channels)
  <2>1. PICK k : k = [Fresh EXCEPT !.at = "done", !.failed = failed]
    OBVIOUS
  <2>2. k \in RunState /\ k.at = "done" /\ k.failed = s.failed
    BY <1>1, <2>1, ChannelNumbers DEF Fresh, RunState
  <2>3. RunSound(r, k)'
    BY <1>3, <2>2 DEF RunSound
  <2> QED
    BY <1>1, <1>3, <2>1, <2>3 DEF NextChannel
<1>4. CASE s.channel # Len(Channels)
  <2>1. PICK next : next = s.channel + 1
    OBVIOUS
  <2>2. next \in 1..Len(Channels) /\ 1..(next - 1) = 1..s.channel
    BY <1>4, <2>1, ChannelNumbers
  <2>3. PICK k : k = [s EXCEPT !.channel = next, !.unsent = new]
    OBVIOUS
  <2>4. /\ k \in RunState /\ k.at = "notify" /\ k.failed = s.failed
        /\ k.channel = next /\ k.unsent = s.new /\ k.new = s.new
    BY <1>2, <2>2, <2>3, ChannelNumbers DEF RunState
  <2>5. RunSound(r, k)'
    BY <2>2, <2>4 DEF RunSound
  <2> QED
    BY <1>2, <1>4, <2>1, <2>3, <2>5 DEF NextChannel, RunState
<1> QED
  BY <1>3, <1>4

\* A message, or part of none: what a step of notify may do to the tables.
LEMMA MessagesKeep ==
    ASSUME IInv, NEW r \in Run, RunAt(r, "notify"), NEW batch \in Messages(r),
           Delivered(r, batch) \/ UNCHANGED messages,
           UNCHANGED <<cases, suppressions, feedback, handler, inserted, retained>>
    PROVE  /\ batch \subseteq run[r].unsent
           /\ TablesTyped' /\ AllKept' /\ OnlyTheInserterAlerts' /\ SuppressionJustified'
           /\ Grows /\ HandlersSound'
           /\ \A o \in Run, c \in CaseId : Inserted(o, c)' <=> Inserted(o, c)
<1>1. RunSound(r, run[r]) /\ run[r].at = "notify"
  BY DEF IInv, RunsSound, RunAt
<1>2. /\ run[r].channel \in 1..Len(Channels) /\ run[r].unsent \subseteq run[r].new
      /\ run[r].new \subseteq CaseId
      /\ \A c \in CaseId : Inserted(r, c) <=> c \in run[r].new
  BY <1>1 DEF RunSound, RunState
<1>3. batch \subseteq run[r].unsent
  BY DEF Messages
<1>4. Grows
  BY DEF Delivered, Grows
<1>5. messages' \subseteq messages
                \cup {[run |-> r, case |-> c, channel |-> run[r].channel] : c \in batch}
  BY DEF Delivered
<1>6. TablesTyped'
  <2>1. {[run |-> r, case |-> c, channel |-> run[r].channel] : c \in batch}
            \subseteq [run : Run, case : CaseId, channel : 1..Len(Channels)]
    BY <1>2, <1>3
  <2> QED
    BY <1>5, <2>1 DEF IInv, TablesTyped
<1>7. OnlyTheInserterAlerts'
  <2>1. ASSUME NEW m \in messages', m \notin messages
        PROVE  [run |-> m.run, case |-> m.case] \in inserted
    <3>1. PICK c \in batch : m = [run |-> r, case |-> c, channel |-> run[r].channel]
      BY <1>5, <2>1
    <3>2. Inserted(r, c) /\ m.run = r /\ m.case = c
      BY <1>2, <1>3, <3>1
    <3> QED
      BY <3>2 DEF Inserted
  <2> QED
    BY <2>1 DEF IInv, OnlyTheInserterAlerts
<1>8. AllKept' /\ SuppressionJustified'
  BY DEF IInv, AllKept, Kept, Present, SuppressionJustified
<1>9. HandlersSound'
  BY <1>4, HandlersStand DEF IInv
<1> QED
  BY <1>3, <1>4, <1>6, <1>7, <1>8, <1>9 DEF Inserted

LEMMA SendKeeps ==
    ASSUME IInv, NEW r \in Run, NEW batch, Send(r, batch)
    PROVE  IInv'
<1>1. PICK k : k = run[r]
  OBVIOUS
<1>2. RunSound(r, k) /\ k.at = "notify"
  BY <1>1 DEF IInv, RunsSound, Send, RunAt
<1>3. /\ batch \subseteq k.unsent
      /\ TablesTyped' /\ AllKept' /\ OnlyTheInserterAlerts' /\ SuppressionJustified'
      /\ Grows /\ HandlersSound'
      /\ \A o \in Run, c \in CaseId : Inserted(o, c)' <=> Inserted(o, c)
  BY <1>1, MessagesKeep DEF Send
<1>4. PICK unsent : unsent = k.unsent \ batch
  OBVIOUS
<1>5. PICK left : left = [k EXCEPT !.unsent = unsent]
  OBVIOUS
<1>6. /\ left \in RunState /\ left.at = "notify" /\ left.channel = k.channel
      /\ left.new = k.new /\ left.failed = k.failed /\ left.unsent = unsent
  BY <1>2, <1>4, <1>5 DEF RunSound, RunState
<1>7. PICK s : s = IF left.unsent = {} THEN NextChannel(left) ELSE left
  OBVIOUS
<1>8. run' = [run EXCEPT ![r] = s]
  BY <1>1, <1>4, <1>5, <1>7 DEF Send
<1>9. \A c \in batch : Told(r, c, k.channel)'
  BY <1>1 DEF Send, Delivered, Told
<1>10. /\ k.channel \in 1..Len(Channels) /\ k.new \subseteq CaseId
       /\ \A c \in CaseId : Inserted(r, c)' <=> c \in k.new
       /\ \A c \in k.new, ch \in 1..(k.channel - 1) : ch \notin k.failed => Told(r, c, ch)'
       /\ \A c \in k.new \ unsent : Told(r, c, k.channel)'
  BY <1>2, <1>3, <1>4, <1>9 DEF RunSound, RunState, Grows, Told
<1>11. RunSound(r, s)'
  <2>1. CASE unsent = {}
    <3>1. \A ch \in 1..k.channel : ch = k.channel \/ ch \in 1..(k.channel - 1)
      BY <1>10, ChannelNumbers
    <3>2. \A c \in left.new, ch \in 1..left.channel : ch \notin left.failed => Told(r, c, ch)'
      BY <1>6, <1>10, <2>1, <3>1
    <3>3. RunSound(r, NextChannel(left))'
      BY <1>6, <1>10, <3>2, NextChannelSound
    <3> QED
      BY <1>6, <1>7, <2>1, <3>3
  <2>2. CASE unsent # {}
    <3>1. unsent \subseteq k.new
      BY <1>2, <1>4 DEF RunSound
    <3>2. RunSound(r, left)'
      BY <1>6, <1>10, <3>1 DEF RunSound
    <3> QED
      BY <1>6, <1>7, <2>2, <3>2
  <2> QED
    BY <2>1, <2>2
<1>12. RunsSound'
  BY <1>3, <1>8, <1>11, RunMoves DEF IInv, InsertsNothing
<1> QED
  BY <1>3, <1>12 DEF IInv

LEMMA ChannelFailsKeeps ==
    ASSUME IInv, NEW r \in Run, NEW batch, ChannelFails(r, batch)
    PROVE  IInv'
<1>1. PICK k : k = run[r]
  OBVIOUS
<1>2. RunSound(r, k) /\ k.at = "notify"
  BY <1>1 DEF IInv, RunsSound, ChannelFails, RunAt
<1>3. /\ TablesTyped' /\ AllKept' /\ OnlyTheInserterAlerts' /\ SuppressionJustified'
      /\ Grows /\ HandlersSound'
      /\ \A o \in Run, c \in CaseId : Inserted(o, c)' <=> Inserted(o, c)
  BY <1>1, MessagesKeep DEF ChannelFails
<1>4. PICK failed : failed = k.failed \cup {k.channel}
  OBVIOUS
<1>5. PICK left : left = [k EXCEPT !.failed = failed]
  OBVIOUS
<1>6. /\ left \in RunState /\ left.at = "notify" /\ left.channel = k.channel
      /\ left.new = k.new /\ left.failed = failed
  BY <1>2, <1>4, <1>5 DEF RunSound, RunState
<1>7. /\ k.channel \in 1..Len(Channels) /\ k.new \subseteq CaseId
      /\ \A c \in CaseId : Inserted(r, c)' <=> c \in k.new
      /\ \A c \in k.new, ch \in 1..(k.channel - 1) : ch \notin k.failed => Told(r, c, ch)'
  BY <1>2, <1>3 DEF RunSound, RunState, Grows, Told
<1>8. \A c \in left.new, ch \in 1..left.channel : ch \notin left.failed => Told(r, c, ch)'
  <2>1. \A ch \in 1..k.channel : ch = k.channel \/ ch \in 1..(k.channel - 1)
    BY <1>7, ChannelNumbers
  <2> QED
    BY <1>4, <1>6, <1>7, <2>1
<1>9. PICK s : s = NextChannel(left)
  OBVIOUS
<1>10. RunSound(r, s)'
  BY <1>6, <1>7, <1>8, <1>9, NextChannelSound
<1>11. run' = [run EXCEPT ![r] = s]
  BY <1>1, <1>4, <1>5, <1>9 DEF ChannelFails
<1>12. RunsSound'
  BY <1>3, <1>10, <1>11, RunMoves DEF IInv, InsertsNothing
<1> QED
  BY <1>3, <1>12 DEF IInv

----------------------------------------------------------------------------
(* The analysts' requests.                                                 *)

\* A handler at rest, or at its audit entry, vouches for nothing.
LEMMA QuietSound ==
    ASSUME NEW h \in Handler, h.at \in {"idle", "audit"}
    PROVE  HandlerSound(h)
BY DEF HandlerSound

LEMMA IdleSound == Idle \in Handler /\ HandlerSound(Idle)
BY DEF Idle, Handler, HandlerSound

LEMMA AskStatusKeeps ==
    ASSUME IInv, NEW t \in Thread, NEW c \in CaseId, NEW status \in {"open", "closed"},
           NEW d \in Disposition \cup {None}, AskStatus(t, c, status, d)
    PROVE  IInv'
<1>1. PICK h : h = [Idle EXCEPT !.at = "status", !.case = c, !.status = status,
                                !.disposition = d]
  OBVIOUS
<1>2. Go(t, h) /\ UNCHANGED Tables /\ UNCHANGED run
  BY <1>1 DEF AskStatus, Tables
<1>3. HandlerSound(h)
  BY <1>1 DEF Idle, Handler, HandlerSound
<1> QED
  BY <1>2, <1>3, HandlerReads

LEMMA AskFeedbackKeeps ==
    ASSUME IInv, NEW t \in Thread, NEW c \in CaseId, NEW d \in Disposition,
           NEW suppress \in BOOLEAN, AskFeedback(t, c, d, suppress)
    PROVE  IInv'
<1>1. PICK h : h = [Idle EXCEPT !.at = "read", !.case = c, !.disposition = d,
                                !.suppress = suppress]
  OBVIOUS
<1>2. Go(t, h) /\ UNCHANGED Tables /\ UNCHANGED run
  BY <1>1 DEF AskFeedback, Tables
<1>3. suppress => d = "false_positive"
  BY DEF AskFeedback
<1>4. HandlerSound(h)
  BY <1>1, <1>3 DEF Idle, Handler, HandlerSound
<1> QED
  BY <1>2, <1>4, HandlerReads

LEMMA ReadFindingsKeeps ==
    ASSUME IInv, NEW t \in Thread, ReadFindings(t)
    PROVE  IInv'
<1>1. UNCHANGED Tables /\ UNCHANGED run
  BY DEF ReadFindings, Tables
<1>2. PICK k : k = handler[t]
  OBVIOUS
<1>3. HandlerSound(k) /\ k.at = "read"
  BY <1>2 DEF IInv, HandlersSound, ReadFindings, At
<1>4. PICK names : names = cases[k.case].names
  OBVIOUS
<1>5. names \in SUBSET Name
  BY <1>3, <1>4 DEF HandlerSound, IInv, TablesTyped, Row
<1>6. PICK h : h = [k EXCEPT !.at = "insert", !.names = names]
  OBVIOUS
<1>7. /\ h \in Handler /\ h.at = "insert" /\ h.case = k.case
      /\ h.disposition = k.disposition /\ h.suppress = k.suppress
  BY <1>3, <1>5, <1>6 DEF HandlerSound, Handler
<1>8. HandlerSound(h)
  BY <1>3, <1>7 DEF HandlerSound
<1>9. Go(t, h) \/ Go(t, Idle)
  BY <1>2, <1>4, <1>6 DEF ReadFindings
<1> QED
  BY <1>1, <1>8, <1>9, IdleSound, HandlerReads

LEMMA QuietKeeps ==
    ASSUME IInv, NEW t \in Thread, Record(t) \/ RequestFails(t)
    PROVE  IInv'
<1>1. Go(t, Idle) /\ UNCHANGED Tables /\ UNCHANGED run
  BY DEF Record, RequestFails, Tables
<1> QED
  BY <1>1, IdleSound, HandlerReads

LEMMA SetStatusKeeps ==
    ASSUME IInv, NEW t \in Thread, SetStatus(t)
    PROVE  IInv'
<1>1. PICK k : k = handler[t]
  OBVIOUS
<1>2. HandlerSound(k) /\ k.at = "status"
  BY <1>1 DEF IInv, HandlersSound, SetStatus, At
<1>3. PICK h : h = [k EXCEPT !.at = "audit"]
  OBVIOUS
<1>4. h \in Handler /\ h.at = "audit"
  BY <1>2, <1>3 DEF HandlerSound, Handler
<1>5. HandlerSound(h) /\ Go(t, h)
  BY <1>1, <1>3, <1>4, QuietSound DEF SetStatus
<1>6. CASE ~Present(k.case)
  <2>1. UNCHANGED Tables /\ UNCHANGED run
    BY <1>1, <1>6 DEF SetStatus, Tables
  <2> QED
    BY <1>5, <2>1, HandlerReads
<1>7. CASE Present(k.case)
  <2>1. PICK c : c = k.case
    OBVIOUS
  <2>2. PICK old : old = cases[c]
    OBVIOUS
  <2>3. PICK d : d = IF k.disposition = None THEN old.disposition ELSE k.disposition
    OBVIOUS
  <2>4. PICK row : row = [old EXCEPT !.status = k.status, !.disposition = d, !.aged = FALSE]
    OBVIOUS
  <2>5. c \in CaseId /\ old \in Row /\ k.status \in {"open", "closed"}
    BY <1>2, <2>1, <2>2 DEF HandlerSound, IInv, TablesTyped
  <2>6. row \in Row /\ row.status = k.status /\ ~row.aged
    BY <1>2, <2>3, <2>4, <2>5 DEF HandlerSound, Handler, Row
  <2>7. cases' = [cases EXCEPT ![c] = row]
    BY <1>1, <1>7, <2>1, <2>2, <2>3, <2>4, <2>5 DEF SetStatus, IInv, TablesTyped, Row
  <2>8. /\ retained' = retained \cup {c}
        /\ UNCHANGED <<suppressions, feedback, run, messages, inserted>>
    BY <1>1, <1>7, <2>1 DEF SetStatus
  <2>9. /\ cases' \in [CaseId -> Row] /\ cases'[c] = row
        /\ \A o \in CaseId : o # c => cases'[o] = cases[o]
    BY <2>5, <2>6, <2>7 DEF IInv, TablesTyped
  <2>10. TablesTyped'
    BY <2>5, <2>8, <2>9 DEF IInv, TablesTyped
  <2>11. AllKept'
    <3>1. row.status # None
      BY <2>5, <2>6, CaseQueueAssumption
    <3> QED
      BY <2>6, <2>8, <2>9, <3>1 DEF IInv, TablesTyped, AllKept, Kept, Present
  <2>12. OnlyTheInserterAlerts' /\ SuppressionJustified' /\ Grows
    BY <2>8 DEF IInv, OnlyTheInserterAlerts, SuppressionJustified, Grows
  <2>13. RunsSound'
    BY <2>8, <2>12, RunsStand DEF IInv
  <2>14. HandlersSound'
    BY <1>5, <2>12, HandlerStable, HandlerMoves DEF IInv
  <2> QED
    BY <2>10, <2>11, <2>12, <2>13, <2>14 DEF IInv
<1> QED
  BY <1>6, <1>7

LEMMA InsertFeedbackKeeps ==
    ASSUME IInv, NEW t \in Thread, InsertFeedback(t)
    PROVE  IInv'
<1>1. PICK k : k = handler[t]
  OBVIOUS
<1>2. HandlerSound(k) /\ k.at = "insert"
  BY <1>1 DEF IInv, HandlersSound, InsertFeedback, At
<1>3. PICK n \in 1..MaxFeedback :
          feedback' = feedback \cup
              {[case |-> k.case, disposition |-> k.disposition, names |-> k.names, nth |-> n]}
  BY <1>1 DEF InsertFeedback
<1> DEFINE f == [case |-> k.case, disposition |-> k.disposition, names |-> k.names, nth |-> n]
<1>4. /\ f \in FeedbackRow
      /\ f.case = k.case /\ f.disposition = k.disposition /\ f.names = k.names
  BY <1>2, <1>3 DEF HandlerSound, Handler, FeedbackRow
<1>5. /\ feedback' = feedback \cup {f}
      /\ UNCHANGED <<cases, suppressions, run, messages, inserted, retained>>
  BY <1>1, <1>3 DEF InsertFeedback
<1>6. Grows
  BY <1>5 DEF Grows
<1>7. TablesTyped' /\ AllKept' /\ OnlyTheInserterAlerts'
  BY <1>4, <1>5 DEF IInv, TablesTyped, AllKept, Kept, Present, OnlyTheInserterAlerts
<1>8. SuppressionJustified'
  BY <1>5 DEF IInv, SuppressionJustified
<1>9. RunsSound'
  BY <1>5, <1>6, RunsStand DEF IInv
<1>10. HandlersSound'
  <2>1. PICK place : place = IF k.suppress THEN "suppress" ELSE "audit"
    OBVIOUS
  <2>2. PICK h : h = [k EXCEPT !.at = place]
    OBVIOUS
  <2>3. /\ h \in Handler /\ h.at = place /\ h.case = k.case /\ h.names = k.names
        /\ h.disposition = k.disposition /\ h.suppress = k.suppress
    BY <1>2, <2>1, <2>2 DEF HandlerSound, Handler
  <2>4. Go(t, h)
    BY <1>1, <2>1, <2>2 DEF InsertFeedback
  <2>5. k.suppress => Backed(k.case, k.names)'
    BY <1>2, <1>4, <1>5 DEF HandlerSound, Backed
  <2>6. HandlerSound(h)'
    BY <1>2, <2>1, <2>3, <2>5 DEF HandlerSound
  <2> QED
    BY <1>6, <2>4, <2>6, HandlerMoves DEF IInv
<1> QED
  BY <1>7, <1>8, <1>9, <1>10 DEF IInv

LEMMA AddSuppressionKeeps ==
    ASSUME IInv, NEW t \in Thread, NEW id \in SuppressionId, NEW name \in Name,
           AddSuppression(t, id, name)
    PROVE  IInv'
<1>1. PICK k : k = handler[t]
  OBVIOUS
<1>2. HandlerSound(k) /\ k.at = "suppress" /\ name \in k.names
  BY <1>1 DEF IInv, HandlersSound, AddSuppression, At
<1>3. PICK new : new = [id |-> id, actor |-> k.case.actor, name |-> name]
  OBVIOUS
<1>4. /\ new \in [id : SuppressionId, actor : Actor, name : Name]
      /\ new.actor = k.case.actor /\ new.name = name
  <2>1. k.case.actor \in Actor
    BY <1>2 DEF HandlerSound, CaseId
  <2> QED
    BY <1>3, <2>1
<1>5. /\ suppressions' = suppressions \cup {new}
      /\ UNCHANGED <<cases, feedback, run, messages, inserted, retained>>
  BY <1>1, <1>3 DEF AddSuppression
<1>6. Grows
  BY <1>5 DEF Grows
<1>7. TablesTyped' /\ AllKept' /\ OnlyTheInserterAlerts'
  BY <1>4, <1>5 DEF IInv, TablesTyped, AllKept, Kept, Present, OnlyTheInserterAlerts
<1>8. SuppressionJustified'
  <2>1. PICK f \in feedback : /\ f.disposition = "false_positive" /\ f.case = k.case
                              /\ k.names \subseteq f.names
    BY <1>2 DEF HandlerSound, Backed
  <2> QED
    BY <1>2, <1>4, <1>5, <2>1 DEF IInv, SuppressionJustified
<1>9. RunsSound'
  BY <1>5, <1>6, RunsStand DEF IInv
<1>10. HandlersSound'
  <2>1. PICK left : left = k.names \ {name}
    OBVIOUS
  <2>2. PICK place : place = IF left = {} THEN "audit" ELSE "suppress"
    OBVIOUS
  <2>3. PICK h : h = [k EXCEPT !.names = left, !.at = place]
    OBVIOUS
  <2>4. /\ h \in Handler /\ h.at = place /\ h.case = k.case /\ h.names = left
        /\ h.disposition = k.disposition /\ h.suppress = k.suppress
    BY <1>2, <2>1, <2>2, <2>3 DEF HandlerSound, Handler
  <2>5. Go(t, h)
    BY <1>1, <2>1, <2>2, <2>3 DEF AddSuppression
  <2>6. HandlerSound(h)
    BY <1>2, <2>1, <2>2, <2>4 DEF HandlerSound, Backed
  <2> QED
    BY <1>6, <2>5, <2>6, HandlerStable, HandlerMoves DEF IInv
<1> QED
  BY <1>7, <1>8, <1>9, <1>10 DEF IInv

\* One suppression less, or none: what RemoveSuppression and SuppressionExpires
\* do to the tables.
LEMMA FewerSuppressions ==
    ASSUME IInv, suppressions' \subseteq suppressions,
           UNCHANGED <<cases, feedback, run, messages, inserted, retained>>
    PROVE  /\ TablesTyped' /\ AllKept' /\ OnlyTheInserterAlerts' /\ SuppressionJustified'
           /\ Grows /\ RunsSound'
<1>1. Grows
  BY DEF Grows
<1>2. TablesTyped' /\ AllKept' /\ OnlyTheInserterAlerts' /\ SuppressionJustified'
  BY DEF IInv, TablesTyped, AllKept, Kept, Present, OnlyTheInserterAlerts,
         SuppressionJustified
<1> QED
  BY <1>1, <1>2, RunsStand DEF IInv

LEMMA RemoveSuppressionKeeps ==
    ASSUME IInv, NEW t \in Thread, NEW s, RemoveSuppression(t, s)
    PROVE  IInv'
<1>1. PICK h : h = [Idle EXCEPT !.at = "audit"]
  OBVIOUS
<1>2. HandlerSound(h)
  BY <1>1, QuietSound DEF Idle, Handler
<1>3. /\ TablesTyped' /\ AllKept' /\ OnlyTheInserterAlerts' /\ SuppressionJustified'
      /\ Grows /\ RunsSound'
  BY FewerSuppressions DEF RemoveSuppression
<1>4. Go(t, h)
  BY <1>1 DEF RemoveSuppression
<1>5. HandlersSound'
  BY <1>2, <1>3, <1>4, HandlerStable, HandlerMoves DEF IInv
<1> QED
  BY <1>3, <1>5 DEF IInv

LEMMA SuppressionExpiresKeeps ==
    ASSUME IInv, NEW s, SuppressionExpires(s)
    PROVE  IInv'
<1>1. /\ TablesTyped' /\ AllKept' /\ OnlyTheInserterAlerts' /\ SuppressionJustified'
      /\ Grows /\ RunsSound'
  BY FewerSuppressions DEF SuppressionExpires
<1> QED
  BY <1>1, HandlersStand DEF SuppressionExpires, IInv

----------------------------------------------------------------------------
(* Retention.                                                              *)

\* A step that changes nothing but rows of cases that need not be kept.
LEMMA RowsChange ==
    ASSUME IInv, cases' \in [CaseId -> Row], retained' \subseteq retained,
           \A c \in retained' : cases'[c] = cases[c],
           UNCHANGED <<suppressions, feedback, run, handler, messages, inserted>>
    PROVE  IInv'
<1>1. Grows
  BY DEF Grows
<1>2. TablesTyped' /\ AllKept' /\ OnlyTheInserterAlerts' /\ SuppressionJustified'
  BY DEF IInv, TablesTyped, AllKept, Kept, Present, OnlyTheInserterAlerts,
         SuppressionJustified
<1>3. RunsSound' /\ HandlersSound'
  BY <1>1, RunsStand, HandlersStand DEF IInv
<1> QED
  BY <1>2, <1>3 DEF IInv

LEMMA RetentionEndsKeeps ==
    ASSUME IInv, NEW c \in CaseId, RetentionEnds(c)
    PROVE  IInv'
<1>1. PICK row : row = [cases[c] EXCEPT !.aged = TRUE]
  OBVIOUS
<1>2. row \in Row
  BY <1>1 DEF IInv, TablesTyped, Row
<1>3. /\ cases' = [cases EXCEPT ![c] = row] /\ retained' = retained \ {c}
      /\ UNCHANGED <<suppressions, feedback, run, handler, messages, inserted>>
  BY <1>1 DEF RetentionEnds
<1>4. /\ cases' \in [CaseId -> Row]
      /\ \A o \in CaseId : o # c => cases'[o] = cases[o]
      /\ retained \subseteq CaseId
  BY <1>2, <1>3 DEF IInv, TablesTyped
<1> QED
  BY <1>3, <1>4, RowsChange

LEMMA PurgeKeeps ==
    ASSUME IInv, Purge
    PROVE  IInv'
<1>1. NoRow \in Row
  BY DEF NoRow, Row
<1>2. cases' \in [CaseId -> Row]
  BY <1>1 DEF Purge, IInv, TablesTyped
<1>3. \A c \in retained : cases'[c] = cases[c]
  BY DEF Purge, IInv, TablesTyped, AllKept, Kept
<1> QED
  BY <1>2, <1>3, RowsChange DEF Purge

----------------------------------------------------------------------------
(* The theorems.                                                           *)

LEMMA Starts == Init => IInv
<1> SUFFICES ASSUME Init PROVE IInv
  OBVIOUS
<1>1. NoRow \in Row /\ Fresh \in RunState /\ Fresh.at = "start"
  BY DeadSound, ChannelNumbers DEF NoRow, Row, Fresh, RunState
<1>2. TablesTyped
  BY <1>1 DEF Init, TablesTyped
<1>3. AllKept /\ OnlyTheInserterAlerts /\ SuppressionJustified
  BY DEF Init, AllKept, OnlyTheInserterAlerts, SuppressionJustified
<1>4. RunsSound
  BY <1>1 DEF Init, RunsSound, RunSound, Inserted
<1>5. HandlersSound
  BY IdleSound DEF Init, HandlersSound
<1> QED
  BY <1>2, <1>3, <1>4, <1>5 DEF IInv

LEMMA StepKeeps ==
    ASSUME IInv, [Next]_vars
    PROVE  IInv'
<1>1. ASSUME NEW r \in Run, RunStep(r) \/ RunDies(r)
      PROVE  IInv'
  BY <1>1, ReadSuppressionsKeeps, AssessKeeps, LookUpFirstKeeps, UpsertKeeps, SendKeeps,
     ChannelFailsKeeps, RunDiesKeeps
     DEF RunStep
<1>2. ASSUME NEW t \in Thread, StatusRequest(t)
      PROVE  IInv'
  BY <1>2, AskStatusKeeps, SetStatusKeeps DEF StatusRequest
<1>3. ASSUME NEW t \in Thread, FeedbackRequest(t)
      PROVE  IInv'
  BY <1>3, AskFeedbackKeeps, ReadFindingsKeeps, InsertFeedbackKeeps, AddSuppressionKeeps,
     RemoveSuppressionKeeps
     DEF FeedbackRequest
<1>4. CASE Deadline \/ Purge
  BY <1>4, SuppressionExpiresKeeps, RetentionEndsKeeps, PurgeKeeps DEF Deadline
<1>5. CASE UNCHANGED vars
  <2>1. UNCHANGED Tables /\ UNCHANGED <<run, handler, inserted>>
    BY <1>5 DEF vars, Tables
  <2> QED
    BY <2>1, TablesStand, RunsStand, HandlersStand DEF IInv
<1> QED
  BY <1>1, <1>2, <1>3, <1>4, <1>5, QuietKeeps DEF Next

LEMMA Inductive == Spec => []IInv
<1>1. Init => IInv
  BY Starts
<1>2. IInv /\ [Next]_vars => IInv'
  BY StepKeeps
<1> QED
  BY <1>1, <1>2, PTL DEF Spec

\* Tables, histories and locals keep their types; build_cases takes the first
\* day of findings that are there, and notify never runs past the last channel.
THEOREM TypeCorrect == Spec => []TypeOK
BY Inductive, InvariantTypes, PTL

\* alerts.py:3-4: no channel is told of a case by a run that did not insert it,
\* however many runs find the same case at once.
THEOREM InsertersAlert == Spec => []OnlyTheInserterAlerts
<1>1. IInv => OnlyTheInserterAlerts
  BY DEF IInv
<1> QED
  BY <1>1, Inductive, PTL

\* alerts.py:126-127: a run that ended normally told each of its channels of
\* each case it inserted, but for the channels that failed, any number of them
\* and wherever they stand in the order.
THEOREM WorkingChannelsTold == Spec => []EveryWorkingChannelTold
<1>1. IInv => EveryWorkingChannelTold
  <2> SUFFICES ASSUME IInv, NEW i \in inserted, NEW ch \in 1..Len(Channels),
                      RunAt(i.run, "done"), ch \notin run[i.run].failed
               PROVE  [run |-> i.run, case |-> i.case, channel |-> ch] \in messages
    BY DEF EveryWorkingChannelTold
  <2>1. i.run \in Run /\ i.case \in CaseId /\ i = [run |-> i.run, case |-> i.case]
    BY DEF IInv, TablesTyped
  <2>2. Inserted(i.run, i.case)
    BY <2>1 DEF Inserted
  <2> QED
    BY <2>1, <2>2 DEF IInv, RunsSound, RunSound, RunAt, Told
<1> QED
  BY <1>1, Inductive, PTL

\* No purge takes a case that is open, or closed for less than its retention,
\* whatever runs, reopens and closes it in between.
THEOREM RetentionKept == Spec => []RetentionHonoured
<1>1. IInv => RetentionHonoured
  BY DEF IInv, AllKept, Kept, RetentionHonoured
<1> QED
  BY <1>1, Inductive, PTL

\* feedback.py:6-8: every suppression has its false-positive verdict, because
\* the verdict is stored before the first suppression is, and is never deleted.
THEOREM SuppressionsJustified == Spec => []SuppressionJustified
<1>1. IInv => SuppressionJustified
  BY DEF IInv
<1> QED
  BY <1>1, Inductive, PTL

\* storage.py:368-369: no step of a run takes a case away or changes its status
\* or its disposition, however old what the run read is.
THEOREM DecisionsOutliveRuns == Spec => DecisionOutlivesRuns
<1>1. ASSUME IInv, [Next]_vars, run' # run, NEW c \in CaseId, Present(c)
      PROVE  cases'[c].status = cases[c].status /\ cases'[c].disposition = cases[c].disposition
  <2>1. PICK r \in Run : RunStep(r) \/ RunDies(r)
    BY <1>1
       DEF Next, vars, StatusRequest, AskStatus, SetStatus, FeedbackRequest, AskFeedback,
           ReadFindings, InsertFeedback, AddSuppression, RemoveSuppression, Record,
           RequestFails, Deadline, SuppressionExpires, RetentionEnds, Purge
  <2>2. CASE Upsert(r)
    <3>1. run[r].cases \in SUBSET Case /\ TablesTyped
      BY <1>1 DEF IInv, RunsSound, RunState
    <3>2. CASE UNCHANGED cases
      BY <3>2
    <3>3. CASE ~UNCHANGED cases
      <4>1. PICK ids : ids = Ids(run[r].cases)
        OBVIOUS
      <4>2. /\ ~\E o \in {n \in ids : ~Exists(r, n)} : Present(o)
            /\ cases' = [o \in CaseId |-> IF o \in ids THEN WrittenRow(r, o) ELSE cases[o]]
        BY <2>2, <3>3, <4>1 DEF Upsert
      <4>3. CASE c \in ids
        <5>1. Exists(r, c)
          BY <1>1, <4>2, <4>3
        <5> QED
          BY <1>1, <3>1, <4>1, <4>2, <4>3, <5>1, WrittenRows
      <4> QED
        BY <4>2, <4>3
    <3> QED
      BY <3>2, <3>3
  <2>3. CASE ~Upsert(r)
    <3>1. UNCHANGED cases
      BY <2>1, <2>3 DEF RunStep, ReadSuppressions, Assess, Enqueue, LookUpFirst, Send,
                        ChannelFails, RunDies
    <3> QED
      BY <3>1
  <2> QED
    BY <2>2, <2>3
<1>2. IInv /\ [Next]_vars =>
          [\A c \in CaseId : run' # run /\ Present(c) =>
                /\ cases'[c].status = cases[c].status
                /\ cases'[c].disposition = cases[c].disposition]_vars
  BY <1>1
<1> QED
  BY <1>2, Inductive, PTL DEF Spec, DecisionOutlivesRuns
====
