---- MODULE AuditChain ----
(***************************************************************************)
(* The hash-chained audit log (src/itds/audit.py): AuditLog.record as the  *)
(* SQLite transaction it runs, called by any number of threads and         *)
(* processes on one database, and AuditLog.verify / head as state          *)
(* functions.  Rows edited or deleted by hand, outside the program, are    *)
(* actions too: they are what the chain exists to expose.                  *)
(***************************************************************************)
EXTENDS Naturals, Sequences, SequencesExt

CONSTANTS
    Writer,       \* threads and processes that call record
    Body,         \* contents of an entry: (at, actor, action, target, details)
    NoOne,        \* the database's write lock is free
    OtherTx,      \* ... is held by a transaction that does not touch audit_log
    MaxEntries    \* bound: no call starts once this many entries were written

ASSUME AuditAssumption ==
    /\ NoOne \notin Writer
    /\ OtherTx \notin Writer
    /\ NoOne # OtherTx
    /\ Body # {}
    /\ MaxEntries \in Nat

VARIABLES
    log,        \* table audit_log ORDER BY seq: rows of [seq, body, prev, hash]
    lock,       \* the database's write lock
    pc,         \* pc[w]: where w is in record
    arg,        \* arg[w]: the entry w was asked to record
    head,       \* head[w]: the hash w selected as its parent
    written     \* history: written[s] is what was committed under seq s, and
                \* the seq of the row that was last at that moment

vars == <<log, lock, pc, arg, head, written>>

----------------------------------------------------------------------------
(* SHA-256 over (prev_hash, contents), taken to be free of collisions: a   *)
(* hash is the list of the contents it was computed from.                  *)
GENESIS == << >>

EntryHash(prev, body) == Append(prev, body)

Hash == Seq(Body)

LastHash == IF log = << >> THEN GENESIS ELSE Last(log).hash
LastSeq == IF log = << >> THEN 0 ELSE Last(log).seq

Row == [seq : Nat \ {0}, body : Body, prev : Hash, hash : Hash]

States == {"idle", "begin", "select", "insert"}

TypeOK ==
    /\ log \in Seq(Row)
    /\ lock \in Writer \cup {NoOne, OtherTx}
    /\ pc \in [Writer -> States]
    /\ arg \in [Writer -> Body]
    /\ head \in [Writer -> Hash]
    /\ written \in Seq([body : Body, parent : Nat])

Init ==
    /\ log = << >>
    /\ lock = NoOne
    /\ pc = [w \in Writer |-> "idle"]
    /\ arg = [w \in Writer |-> CHOOSE b \in Body : TRUE]
    /\ head = [w \in Writer |-> GENESIS]
    /\ written = << >>

----------------------------------------------------------------------------
(* record, one transaction.                                                *)

Call(w, b) ==
    /\ pc[w] = "idle"
    /\ Len(written) < MaxEntries
    /\ pc' = [pc EXCEPT ![w] = "begin"]
    /\ arg' = [arg EXCEPT ![w] = b]
    /\ UNCHANGED <<log, lock, head, written>>

\* A plain BEGIN takes no lock until the first write.
DeferredBegin(w) ==
    /\ pc[w] = "begin"
    /\ pc' = [pc EXCEPT ![w] = "select"]
    /\ UNCHANGED <<log, lock, arg, head, written>>

\* BEGIN IMMEDIATE takes the write lock before anything is read.
Begin(w) ==
    /\ pc[w] = "begin"
    /\ lock = NoOne
    /\ lock' = w
    /\ pc' = [pc EXCEPT ![w] = "select"]
    /\ UNCHANGED <<log, arg, head, written>>

WaitForever(w) == FALSE

\* The busy timeout passed while another transaction held the lock: record
\* raises OperationalError and the entry is not written.
LockTimeout(w) ==
    /\ pc[w] = "begin"
    /\ lock # NoOne
    /\ pc' = [pc EXCEPT ![w] = "idle"]
    /\ UNCHANGED <<log, lock, arg, head, written>>

SelectHead(w) ==
    /\ pc[w] = "select"
    /\ head' = [head EXCEPT ![w] = LastHash]
    /\ pc' = [pc EXCEPT ![w] = "insert"]
    /\ UNCHANGED <<log, lock, arg, written>>

\* INSERT and COMMIT.  AUTOINCREMENT never hands out a seq twice, so the next
\* one counts every row ever committed, not the rows still there.
RowNumberedByCount(w) ==
    [seq |-> Len(log), body |-> arg[w],
     prev |-> head[w], hash |-> EntryHash(head[w], arg[w])]

NewRow(w) == [seq |-> Len(written) + 1, body |-> arg[w],
              prev |-> head[w], hash |-> EntryHash(head[w], arg[w])]

InsertCommit(w) ==
    /\ pc[w] = "insert"
    /\ log' = Append(log, NewRow(w))
    /\ written' = Append(written, [body |-> arg[w], parent |-> LastSeq])
    /\ lock' = NoOne
    /\ pc' = [pc EXCEPT ![w] = "idle"]
    /\ UNCHANGED <<arg, head>>

\* The process dies, or a statement raises, before the commit: SQLite rolls
\* the transaction back and the lock is released.
Abort(w) ==
    /\ pc[w] \in {"select", "insert"}
    /\ lock' = NoOne
    /\ pc' = [pc EXCEPT ![w] = "idle"]
    /\ UNCHANGED <<log, arg, head, written>>

\* Every other `with store.connect()` block that writes takes the same lock.
OtherBegin ==
    /\ lock = NoOne
    /\ lock' = OtherTx
    /\ UNCHANGED <<log, pc, arg, head, written>>

OtherEnd ==
    /\ lock = OtherTx
    /\ lock' = NoOne
    /\ UNCHANGED <<log, pc, arg, head, written>>

Step(w) == Begin(w) \/ LockTimeout(w) \/ SelectHead(w) \/ InsertCommit(w)

Program ==
    \/ \E w \in Writer : Step(w) \/ Abort(w) \/ \E b \in Body : Call(w, b)
    \/ OtherBegin
    \/ OtherEnd

----------------------------------------------------------------------------
(* Changes made to the table by hand.                                      *)

EditRow(i, b) ==
    /\ lock = NoOne
    /\ b # log[i].body
    /\ log' = [log EXCEPT ![i].body = b]
    /\ UNCHANGED <<lock, pc, arg, head, written>>

DeleteRow(i) ==
    /\ lock = NoOne
    /\ log' = RemoveAt(log, i)
    /\ UNCHANGED <<lock, pc, arg, head, written>>

ByHand == \E i \in 1..Len(log) : DeleteRow(i) \/ \E b \in Body : EditRow(i, b)

Next == Program \/ ByHand

Fairness == WF_vars(OtherEnd) /\ \A w \in Writer : WF_vars(Step(w))

\* The program alone, and the program beside someone who edits the table.
ProgramSpec == Init /\ [][Program]_vars /\ Fairness
Spec == Init /\ [][Next]_vars /\ Fairness

----------------------------------------------------------------------------
(* verify: walk the rows in seq order, report the first that does not fit. *)

PrevHash(i) == IF i = 1 THEN GENESIS ELSE log[i - 1].hash

\* A verify that trusts the stored prev_hash checks each row on its own.
FitsAlone(i) == log[i].hash = EntryHash(log[i].prev, log[i].body)

Fits(i) ==
    /\ log[i].prev = PrevHash(i)
    /\ log[i].hash = EntryHash(PrevHash(i), log[i].body)

\* The row that verify names; the log verifies if there is none.
IsFirstBad(i) == ~Fits(i) /\ \A j \in 1..(i - 1) : Fits(j)

----------------------------------------------------------------------------
(* Properties.                                                             *)

\* audit.py:55, "BEGIN IMMEDIATE serialises writers so two entries never
\* share a parent": over the whole history, each entry was chained to the one
\* committed before it that was still in the table, and no two to the same.
NoSharedParent ==
    \A i, j \in 1..Len(log) :
        i # j => log[i].prev # log[j].prev

\* Row i is as it was committed, and still follows the row it was chained to.
Intact(i) ==
    /\ log[i].body = written[log[i].seq].body
    /\ written[log[i].seq].parent = (IF i = 1 THEN 0 ELSE log[i - 1].seq)

\* audit.py:8-10: verify raises no false alarm, misses no edited row and no
\* row deleted from before another, and the seq it reports is that of the
\* first row affected, whatever else was written, edited or deleted.
VerifyFindsFirstDamage ==
    \A i \in 1..Len(log) :
        IsFirstBad(i) <=> ~Intact(i) /\ \A j \in 1..(i - 1) : Intact(j)

\* Every call of record ends: the entry is committed, or the caller gets an
\* exception; nothing waits for the lock for ever.
RecordReturns == \A w \in Writer : pc[w] = "begin" ~> pc[w] = "idle"

----------------------------------------------------------------------------
(* The program implements the log its readers are promised.                *)
AsReadBack == [i \in 1..Len(log) |-> [seq |-> log[i].seq, body |-> log[i].body]]

Promise == INSTANCE AppendOnlyLog WITH entries <- AsReadBack

ImplementsLog == Promise!LogSpec
====
