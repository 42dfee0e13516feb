--------------------------------- MODULE Badges ---------------------------------
(***************************************************************************)
(* Executions of one of the five badge workflows for one user, beside the  *)
(* ingestion of the user's events.  Each loads the events, runs a fixed    *)
(* list of operations over them with the query processor, and judges the   *)
(* longest streak.  The five workflows differ in their operations and in   *)
(* the streak required; those of different badges share only the events.   *)
(***************************************************************************)
EXTENDS QueryOperations

CONSTANTS
  Workflows,        \* workflow executions
  Events,           \* for each badge, events that may be ingested
  Requests,         \* badge requests
  Day,              \* 24 hours
  RequiredDays,     \* what a badge requires: 14, 7, 3, 3 and 28 days in the code
  MaximumAttempts,  \* of an activity
  None,             \* no time range, no timestamp, no request
  MaxEvents,        \* bound: events ingested
  Horizon           \* bound: time at the end

Badges == {"streak_maintainer", "daily_engagement", "topic_dominator",
           "feature_pioneer", "weekend_warrior"}

ASSUME BadgesAssumption ==
  /\ Day \in Nat \ {0} /\ MaximumAttempts \in Nat \ {0}
  /\ RequiredDays \in [Badges -> Nat \ {0}]
  /\ None \notin Int
  /\ Events \in [Badges ->
                   SUBSET [Timestamp : Int \union {None}, Type : STRING, Value : STRING]]
  /\ \A r \in Requests : r.TimeRange # None => r.TimeRange.Start \in Int /\ r.TimeRange.End \in Int

VARIABLES
  log,         \* the user's events in storage, in the order they came
  now,         \* wall clock
  pc,          \* where each execution is
  badge,       \* which of the workflows the executions run
  request,     \* the BadgeRequest of each
  attempts,    \* failed attempts of its current activity
  events,      \* what it loaded
  result,      \* its BadgeResult: whether earned, and progress up to the required time
  loaded,      \* history: number of events in storage when it loaded them
  evaluatedAt  \* history: when it evaluated them

executions == <<pc, request, attempts, events, result, loaded, evaluatedAt>>
vars == <<log, now, badge, executions>>

NoResult == [Earned |-> FALSE, Progress |-> 0]

Init ==
  /\ log = <<>>
  /\ now = 1
  /\ pc = [w \in Workflows |-> "idle"]
  /\ badge \in Badges
  /\ request = [w \in Workflows |-> None]
  /\ attempts = [w \in Workflows |-> 0]
  /\ events = [w \in Workflows |-> <<>>]
  /\ result = [w \in Workflows |-> NoResult]
  /\ loaded = [w \in Workflows |-> 0]
  /\ evaluatedAt = [w \in Workflows |-> 0]

--------------------------------------------------------------------------------
(* The operations of each badge.                                           *)

\* time.ParseDuration knows hours and no weeks.
ParseWindow(text) == IF text = "24h" THEN [window |-> Day] ELSE [invalid |-> text]

Existed(id, source) ==
  [ID |-> id, Op |-> "HasExisted", Source |-> source, Equals |-> "true"]
Within(id, source, window) ==
  [ID |-> id, Op |-> "HasExistedWithin", Source |-> source, Equals |-> "true",
   Params |-> ParseWindow(window)]
LongestStreak(id, source) ==
  [ID |-> id, Op |-> "LongestConsecutiveTrueDuration", SourceOperation |-> source,
   MinDuration |-> 0]

StreakMaintainerOperations ==
  <<Existed("payment_successful_exists", "payment_successful"),
    [ID |-> "payment_due_not_exists", Op |-> "Not", Of |-> Existed("", "payment_due")],
    [ID |-> "on_time_bool_timeline", Op |-> "AND",
     ConditionAll |-> <<"payment_successful_exists", "payment_due_not_exists">>],
    LongestStreak("longest_streak", "on_time_bool_timeline")>>

DailyEngagementOperations ==
  <<Within("app_open_within_day", "app_open", "24h"),
    Within("user_interaction_within_day", "user_interaction", "24h"),
    Within("post_created_within_day", "post_created", "24h"),
    [ID |-> "daily_activity_bool_timeline", Op |-> "OR",
     ConditionAny |-> <<"app_open_within_day", "user_interaction_within_day",
                        "post_created_within_day">>],
    LongestStreak("longest_engagement_streak", "daily_activity_bool_timeline")>>

TopicDominatorOperations ==
  <<Within("comment_liked_daily", "comment_liked", "24h"),
    Within("comment_replied_daily", "comment_replied", "24h"),
    [ID |-> "high_engagement_daily", Op |-> "OR",
     ConditionAny |-> <<"comment_liked_daily", "comment_replied_daily">>],
    LongestStreak("dominator_streak", "high_engagement_daily")>>

FeaturePioneerOperations ==
  <<Within("early_feature_adoption", "new_feature_used", "24h"),
    Within("continued_feature_use", "new_feature_used", "24h"),
    [ID |-> "pioneer_behavior", Op |-> "AND",
     ConditionAll |-> <<"early_feature_adoption", "continued_feature_use">>],
    LongestStreak("pioneer_streak", "pioneer_behavior")>>

WeekendWarriorOperations ==
  <<Existed("weekend_interactions", "weekend_interaction"),
    Existed("weekday_interactions", "weekday_interaction"),
    Within("weekend_activity", "weekend_interaction", "4w"),
    LongestStreak("warrior_pattern", "weekend_activity")>>

Operations(b) ==
  CASE b = "streak_maintainer" -> StreakMaintainerOperations
    [] b = "daily_engagement" -> DailyEngagementOperations
    [] b = "topic_dominator" -> TopicDominatorOperations
    [] b = "feature_pioneer" -> FeaturePioneerOperations
    [] b = "weekend_warrior" -> WeekendWarriorOperations

--------------------------------------------------------------------------------
(* Ingestion, seen from here, and time.                                    *)

AppendEvents(e) ==
  /\ Len(log) < MaxEvents
  /\ log' = Append(log, e)
  /\ UNCHANGED <<now, badge, executions>>

Tick ==
  /\ now < Horizon
  /\ now' = now + 1
  /\ UNCHANGED <<log, badge, executions>>

--------------------------------------------------------------------------------
(* The workflows.                                                          *)

\* Go's zero time is 0.
ValidateBadgeRequest(r) ==
  /\ r.UserID # "" /\ r.BadgeType # ""
  /\ r.TimeRange # None => r.TimeRange.Start # 0 /\ r.TimeRange.Start <= r.TimeRange.End

Start(w, r) ==
  /\ pc[w] = "idle"
  /\ IF ValidateBadgeRequest(r)
     THEN /\ pc' = [pc EXCEPT ![w] = "loading"]
          /\ request' = [request EXCEPT ![w] = r]
     ELSE /\ pc' = [pc EXCEPT ![w] = "failed"]
          /\ UNCHANGED request
  /\ UNCHANGED <<log, now, badge, attempts, events, result, loaded, evaluatedAt>>

\* The execution's error, after which nothing is left of it.
Fail(w) ==
  /\ pc' = [pc EXCEPT ![w] = "failed"]
  /\ request' = [request EXCEPT ![w] = None]
  /\ attempts' = [attempts EXCEPT ![w] = 0]
  /\ events' = [events EXCEPT ![w] = <<>>]
  /\ loaded' = [loaded EXCEPT ![w] = 0]
  /\ UNCHANGED <<log, now, badge, result, evaluatedAt>>

\* Events without a timestamp are in no range.
InTimeRange(range) ==
  {e \in Events[badge] : e.Timestamp # None /\ e.Timestamp \in range.Start .. range.End}

\* Mutant of LoadEvents: one page, the latest two events.
LoadLatestEvents(all, range) ==
  LET page == SubSeq(all, Max({1, Len(all) - 1}), Len(all))
  IN  IF range = None THEN page ELSE Select(page, InTimeRange(range))

LoadEvents(all, range) == IF range = None THEN all ELSE Select(all, InTimeRange(range))

Load(w) ==
  /\ pc[w] = "loading"
  /\ events' = [events EXCEPT ![w] = LoadEvents(log, request[w].TimeRange)]
  /\ loaded' = [loaded EXCEPT ![w] = Len(log)]
  /\ attempts' = [attempts EXCEPT ![w] = 0]
  /\ pc' = [pc EXCEPT ![w] = "evaluating"]
  /\ UNCHANGED <<log, now, badge, request, result, evaluatedAt>>

\* The last attempt's error is the workflow's.
AttemptFailed(w) ==
  \/ attempts[w] + 1 = MaximumAttempts /\ Fail(w)
  \/ /\ attempts[w] + 1 < MaximumAttempts
     /\ attempts' = [attempts EXCEPT ![w] = @ + 1]
     /\ UNCHANGED <<log, now, badge, pc, request, events, result, loaded, evaluatedAt>>

LoadFails(w) == pc[w] = "loading" /\ AttemptFailed(w)

\* An event without a timestamp happens when it is classified.
ClassifyEvents(evs, time) ==
  [i \in DOMAIN evs |->
     IF evs[i].Timestamp = None THEN [evs[i] EXCEPT !.Timestamp = time] ELSE evs[i]]

RequiredDuration(b) == RequiredDays[b] * Day

\* The longest of the interval lengths of a NumericTimeline.
LongestInterval(t) == Max({0} \union {t[i].End - t[i].Start : i \in DOMAIN t})

\* Mutant of Judge: longer than required, not at least as long.
JudgeLonger(b, r) ==
  [Earned |-> r.type = "float64" /\ r.value > RequiredDuration(b),
   Progress |-> IF r.type = "float64" THEN Min({r.value, RequiredDuration(b)}) ELSE 0]

\* Progress is the part of the required time reached, at most all of it.
Judge(b, r) ==
  LET duration == CASE r.type = "float64" -> r.value
                    [] r.type = "NumericTimeline" -> LongestInterval(r.value)
                    [] OTHER -> 0
  IN  [Earned |-> duration >= RequiredDuration(b),
       Progress |-> Min({duration, RequiredDuration(b)})]

EvaluateBadge(w) ==
  /\ pc[w] = "evaluating"
  /\ LET answer == ProcessQuery(ClassifyEvents(events[w], now), Operations(badge))
     IN  IF answer.type = "error" THEN AttemptFailed(w)
         ELSE /\ result' = [result EXCEPT ![w] = Judge(badge, answer)]
              /\ pc' = [pc EXCEPT ![w] = "done"]
              /\ evaluatedAt' = [evaluatedAt EXCEPT ![w] = now]
              /\ events' = [events EXCEPT ![w] = <<>>]
              /\ attempts' = [attempts EXCEPT ![w] = 0]
              /\ UNCHANGED <<log, now, badge, request, loaded>>

\* ScheduleToClose, five minutes, with an attempt that fails or never answers.
ScheduleToCloseTimeout(w) == pc[w] \in {"loading", "evaluating"} /\ Fail(w)

Next ==
  \/ \E e \in Events[badge] : AppendEvents(e)
  \/ Tick
  \/ \E w \in Workflows :
       \/ \E r \in Requests : Start(w, r)
       \/ Load(w)
       \/ LoadFails(w)
       \/ EvaluateBadge(w)
       \/ ScheduleToCloseTimeout(w)

Spec == Init /\ [][Next]_vars

--------------------------------------------------------------------------------
(* Properties.                                                             *)

\* The types of events a badge counts, for those that count the days of events.
CountedTypes(b) ==
  CASE b = "daily_engagement" -> {"app_open", "user_interaction", "post_created"}
    [] b = "topic_dominator" -> {"comment_liked", "comment_replied"}
    [] b = "feature_pioneer" -> {"new_feature_used"}
    [] OTHER -> {}

\* The events stored when w loaded that lie in its time range.
InRange(w) ==
  LET range == request[w].TimeRange
  IN  {i \in 1 .. loaded[w] :
         range # None => log[i].Timestamp # None /\ log[i].Timestamp \in range.Start .. range.End}

CountedTimes(w) ==
  {IF log[i].Timestamp = None THEN evaluatedAt[w] ELSE log[i].Timestamp :
     i \in {j \in InRange(w) : /\ log[j].Type \in CountedTypes(badge)
                               /\ log[j].Value = "true"}}

\* The longest span of time of which every unit is within a day after an event.
LongestSpan(times) == Max({0} \union Runs(UNION {t .. t + Day - 1 : t \in times}))

Done(w) == pc[w] = "done"

\* An answered badge for daily activity says what the events in storage at the time of
\* the load show, whatever the order they came in, however their days overlap or touch
\* and whichever types they alternate between: it is earned exactly if they keep the
\* user active without a break for the required time, and its progress is the part of
\* that time.  The Feature Pioneer's is not earned by less.
BadgeIsWhatEventsShow ==
  \A w \in Workflows : Done(w) =>
    LET span == LongestSpan(CountedTimes(w))
    IN  /\ badge \in {"daily_engagement", "topic_dominator"} =>
             /\ result[w].Earned <=> span >= RequiredDuration(badge)
             /\ result[w].Progress = Min({span, RequiredDuration(badge)})
        /\ badge = "feature_pioneer" /\ result[w].Earned => span >= RequiredDuration(badge)

\* A range that covers another one.
Covers(wide, narrow) ==
  \/ wide = None
  \/ narrow # None /\ wide.Start <= narrow.Start /\ narrow.End <= wide.End

\* A badge once earned is not taken back, and progress is not lost: of two
\* executions for a badge, the one that loads later and looks at no less time
\* reports no less, however late events come.  It takes dated events: one without
\* a timestamp moves with the time of the evaluation.
NothingIsRevoked ==
  \A v, w \in Workflows :
    (/\ Done(v) /\ Done(w) /\ loaded[v] <= loaded[w]
     /\ Covers(request[w].TimeRange, request[v].TimeRange)
     /\ \A i \in InRange(v) : log[i].Timestamp # None)
    => /\ result[v].Progress <= result[w].Progress
       /\ result[v].Earned => result[w].Earned

--------------------------------------------------------------------------------
(* What a comment promises, and the code does not keep.                    *)

\* badging_workflows.go: "Awarded to users who make a payment on time for 2
\* consecutive weeks".  Who pays day by day for more than the required time, and never
\* has a payment due, is paying on time.
PaymentsOnTimeEarnTheBadge ==
  \A w \in Workflows : Done(w) /\ badge = "streak_maintainer" =>
    LET Of(type) == {i \in InRange(w) : log[i].Type = type /\ log[i].Timestamp # None}
        paid == {log[i].Timestamp : i \in Of("payment_successful")}
    IN  Of("payment_due") = {} /\ LongestSpan(paid) > RequiredDuration(badge) => result[w].Earned
================================================================================
