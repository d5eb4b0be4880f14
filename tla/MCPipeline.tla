---- MODULE MCPipeline ----
(***************************************************************************)
(* TLC instance of Pipeline and Evaluation.  A day has a night tick and  *)
(* a day tick.                                                             *)
(***************************************************************************)
EXTENDS Evaluation, TLC

Reads(a, tick, n, s) ==
    [actor |-> a, at |-> tick, object_count |-> n, sensitivity |-> s, bytes |-> n]

\* Two days of ordinary work of 1 and 2; 3 is new.
Ordinary == {Reads(1, 1, 1, "internal"), Reads(1, 3, 2, "internal"),
             Reads(2, 1, 1, "internal"), Reads(2, 3, 2, "internal")}

MCHistories == {Ordinary, {}}

MCNewEvents == {Reads(1, 7, 6, "restricted"), Reads(1, 9, 6, "restricted"),
                Reads(3, 8, 6, "internal")}

MCPeerGroup == <<"dept", "dept", "dept">>

MCRules ==
    {[id |-> "bulk", severity |-> "high", confidence |-> 80, match |-> {"restricted"},
      threshold |-> 1, conditions |-> {[feature |-> "file_read_count", min |-> 5]},
      require_context |-> {}, tags |-> {"restricted_data"}],
     [id |-> "leaver", severity |-> "critical", confidence |-> 80, match |-> {},
      threshold |-> 1, conditions |-> {[feature |-> "file_read_count", min |-> 5]},
      require_context |-> {"departing"}, tags |-> {}]}

\* A day with more reads than any of the training is unlike it.
MCAnomalyScore(training, f) ==
    IF \A g \in training : g.values["file_read_count"] < f.values["file_read_count"]
    THEN 68 ELSE 50

\* No feature accounts for the two reads of an ordinary day, new as they may be.
MCHasDrivers(training, f) == f.values["file_read_count"] > 2

\* The rules as they are loaded, then MONITORED, then the ceilings.
MCNameOrder ==
    "bulk" :> 1 @@ "leaver" :> 2 @@
    "anomalous_file_read_count" :> 3 @@ "anomalous_restricted_file_count" :> 4 @@
    "anomalous_total_bytes" :> 5 @@ "anomalous_night_event_count" :> 6 @@
    "absolute_file_read_count" :> 7 @@ "absolute_total_bytes" :> 8 @@
    "behavioural_anomaly" :> 9

MCPrivileged == {3}
MCDecay == 0 :> 100 @@ 1 :> 60 @@ 2 :> 40
MCNotice == 1 :> 5 @@ 2 :> None @@ 3 :> None
MCLastDay == 1 :> 8 @@ 2 :> None @@ 3 :> None
MCJoined == 1 :> None @@ 2 :> None @@ 3 :> 6
MCNight == {0}

MCInsiders == {[actor |-> 1, start |-> 6, end |-> 9]}

Symmetric == Permutations(Run)
====
