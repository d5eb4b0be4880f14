---- MODULE Baseline ----
(***************************************************************************)
(* What is normal for whom (baseline/profiler.py): a day of a person as a  *)
(* vector of features, the profiles fitted on the days before a cut-off,   *)
(* and the choice between a person's own profile, the peers' and the       *)
(* organization's.                                                         *)
(*                                                                         *)
(* Time is counted in ticks, TicksPerDay of them to a day.  There is one   *)
(* clock: the code takes the date in the offset an event came with, here   *)
(* all events come with the same.  Four of the 21                          *)
(* features stand for the ways a column is made: a sum over some events, a *)
(* sum over all, and a count of those in certain hours.                    *)
(***************************************************************************)
EXTENDS Integers, FiniteSets, FiniteSetsExt

CONSTANTS
    Actor,
    TicksPerDay,
    NightTicks,        \* the ticks of a day that are night
    PeerGroup,         \* of each actor; None without an identity
    WindowDays,        \* config.py, BaselineConfig
    MinDaysHistory,
    MinPeerGroupSize,
    None

ASSUME BaselineAssumption ==
    /\ TicksPerDay \in Nat \ {0}
    /\ NightTicks \subseteq 0..(TicksPerDay - 1)
    /\ WindowDays \in Nat \ {0}
    /\ MinDaysHistory \in Nat \ {0}
    /\ MinPeerGroupSize \in Nat \ {0}

Event == [actor : Actor, at : Nat, object_count : Nat,
          sensitivity : {"internal", "restricted"}, bytes : Nat]

FEATURE_NAMES ==
    {"file_read_count", "restricted_file_count", "total_bytes", "night_event_count"}

DayOf(tick) == tick \div TicksPerDay

Total(amount, events) == MapThenSumSet(LAMBDA e : amount[e], events)

\* One bucket of extract_daily_features.
DailyFeatures(a, day, events) ==
    LET objects == [e \in events |-> Max({1, e.object_count})]
        size == [e \in events |-> e.bytes]
        restricted == {e \in events : e.sensitivity = "restricted"}
        night == {e \in events : e.at % TicksPerDay \in NightTicks}
    IN  [actor |-> a, day |-> day,
         values |-> [file_read_count |-> Total(objects, events),
                     restricted_file_count |-> Total(objects, restricted),
                     total_bytes |-> Total(size, events),
                     night_event_count |-> Cardinality(night)]]

EventsOf(events, a, day) == {e \in events : e.actor = a /\ DayOf(e.at) = day}

extract_daily_features(events) ==
    {DailyFeatures(e.actor, DayOf(e.at), EventsOf(events, e.actor, DayOf(e.at))) :
        e \in events}

----------------------------------------------------------------------------
(* A profile is the set of days it is made of.                             *)

DaysObserved(profile) == Cardinality(profile)

Column(profile, name) ==
    LET value == [f \in profile |-> f.values[name]]
        square == [f \in profile |-> f.values[name] * f.values[name]]
    IN  [n |-> Cardinality(profile),
         sum |-> Total(value, profile),
         squares |-> Total(square, profile)]

\* z_score(name, value) >= k, for k > 0: value exceeds the mean by k standard
\* deviations (ddof=1) of at least two days that differ.  Multiplied out:
\* (n*value - sum)^2 * (n - 1) >= k^2 * n * (n*squares - sum^2).
ZScoreAtLeast(profile, name, value, k) ==
    LET c == Column(profile, name)
        above == c.n * value - c.sum
        spread == c.n * c.squares - c.sum * c.sum
    IN  /\ c.n >= 2
        /\ spread > 0
        /\ above > 0
        /\ above * above * (c.n - 1) >= k * k * c.n * spread

----------------------------------------------------------------------------
(* Profiler.                                                               *)

\* The events of the training period.
Before(events, as_of) == {e \in events : e.at < as_of}

\* The window ends with the person's own last day, however long ago it was.
Recent(days) ==
    {f \in days : f.day > Max({d.day : d \in days}) - WindowDays}

SelfProfile(features, a) == Recent({f \in features : f.actor = a})

FitToTheEnd(events, as_of) ==
    [a \in Actor |-> SelfProfile(extract_daily_features(events), a)]

\* fit: the days in each self profile, from which the others are put together.
Fit(events, as_of) ==
    LET features == extract_daily_features(Before(events, as_of))
    IN  [a \in Actor |-> SelfProfile(features, a)]

Members(fitted, group) == {a \in Actor : PeerGroup[a] = group /\ fitted[a] # {}}

baseline_kind(fitted, a) ==
    IF DaysObserved(fitted[a]) >= MinDaysHistory THEN "self"
    ELSE IF /\ PeerGroup[a] # None
            /\ Cardinality(Members(fitted, PeerGroup[a])) >= MinPeerGroupSize
         THEN "peer"
         ELSE "global"

profile_for(fitted, a) ==
    CASE baseline_kind(fitted, a) = "self" -> fitted[a]
      [] baseline_kind(fitted, a) = "peer" ->
             UNION {fitted[b] : b \in Members(fitted, PeerGroup[a])}
      [] OTHER -> UNION {fitted[b] : b \in Actor}
====
