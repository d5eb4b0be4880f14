---- MODULE AppendOnlyLog ----
(***************************************************************************)
(* What the audit log promises its readers, with no hashes, no database    *)
(* and no writers: entries are numbered from 1 without a gap, are only     *)
(* ever added at the end, and are never changed.                           *)
(***************************************************************************)
EXTENDS Naturals, Sequences

CONSTANT Body       \* what an entry says: (at, actor, action, target, details)

VARIABLE entries    \* the log as a reader sees it

LogInit == entries = << >>

Add(b) == entries' = Append(entries, [seq |-> Len(entries) + 1, body |-> b])

LogNext == \E b \in Body : Add(b)

LogSpec == LogInit /\ [][LogNext]_entries
====
