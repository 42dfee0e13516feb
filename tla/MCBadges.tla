-------------------------------- MODULE MCBadges --------------------------------
(***************************************************************************)
(* An instance of Badges for TLC: two executions, a few events that touch, *)
(* overlap or leave a gap of half a day, one without a timestamp.          *)
(***************************************************************************)
EXTENDS Badges

Event(type, t, v) == [Timestamp |-> t, Type |-> type, Value |-> v]

\* A day is two units.  Of the counted events those at 1, 3 and 5 touch one
\* another, the one at 2 overlaps two of them, and 1 and 5 leave a gap.
SomeEvents ==
  [streak_maintainer |->
     {Event("payment_successful", 1, "true"), Event("payment_successful", 3, "true"),
      Event("payment_successful", 5, "true"), Event("payment_due", 3, "true")},
   daily_engagement |->
     {Event("app_open", 1, "true"), Event("user_interaction", 2, "true"),
      Event("post_created", 3, "true"), Event("app_open", 5, "true"),
      Event("app_open", None, "true"), Event("app_open", 3, "false")},
   topic_dominator |->
     {Event("comment_liked", 1, "true"), Event("comment_replied", 2, "true"),
      Event("comment_liked", 4, "true"), Event("app_open", 3, "true")},
   feature_pioneer |->
     {Event("new_feature_used", 1, "true"), Event("new_feature_used", 3, "true"),
      Event("new_feature_used", None, "true"), Event("app_open", 3, "true")},
   weekend_warrior |->
     {Event("weekend_interaction", 1, "true"), Event("weekday_interaction", 3, "true")}]

Days == [b \in Badges |->
           CASE b = "daily_engagement" -> 3 [] b = "weekend_warrior" -> 4 [] OTHER -> 2]

Ask(user, type, range) == [UserID |-> user, BadgeType |-> type, TimeRange |-> range]
Between(a, b) == [Start |-> a, End |-> b]

SomeRequests ==
  {Ask("u", "any", None), Ask("u", "any", Between(1, 3)), Ask("u", "any", Between(4, 3))}

Symmetry == Permutations(Workflows)
================================================================================
