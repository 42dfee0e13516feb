---------------------------- MODULE MCQueryProcessor ----------------------------
(***************************************************************************)
(* Instances of QueryProcessor for TLC.  Every list of up to three events  *)
(* with a few timestamps, two types and two values, in any order, meets    *)
(* every choice of conditions, combination and measure.                    *)
(***************************************************************************)
EXTENDS QueryProcessor

Player(t, v) == [Timestamp |-> t, Type |-> "player", Value |-> v]
User(t) == [Timestamp |-> t, Type |-> "user", Value |-> "seek"]

SomeEvents == {Player(t, v) : t \in {1, 2, 4}, v \in {"play", "buffer"}}
              \union {User(1), User(3)}
UpToThree == UNION {[1 .. n -> SomeEvents] : n \in 0 .. 3}

NoParams == [none |-> 0]
Window(w) == [window |-> w]

State(id, v) ==
  [ID |-> id, Op |-> "LatestEventToState", Source |-> "player", Equals |-> v]
Existed(id, v) ==
  [ID |-> id, Op |-> "HasExisted", Source |-> "player", Equals |-> v]
Within(id, source, v, params) ==
  [ID |-> id, Op |-> "HasExistedWithin", Source |-> source, Equals |-> v,
   Params |-> params]
Not(id, op) == [ID |-> id, Op |-> "Not", Of |-> op]
InState(id, op) == [ID |-> id, Op |-> "DurationInCurState", Of |-> op]
And(id, ids) == [ID |-> id, Op |-> "AND", ConditionAll |-> ids]
Or(id, ids) == [ID |-> id, Op |-> "OR", ConditionAny |-> ids]
Duration(id, all, any) ==
  [ID |-> id, Op |-> "DurationWhere", ConditionAll |-> all, ConditionAny |-> any]
Longest(id, source, m) ==
  [ID |-> id, Op |-> "LongestConsecutiveTrueDuration", SourceOperation |-> source,
   MinDuration |-> m]

\* Two conditions, a combination of them, and what is measured of it.
First == {State("a", "buffer"), Within("a", "player", "play", Window(2))}
Second ==
  {Existed("b", "play"), Within("b", "user", "seek", Window(1)),
   Not("b", Within("", "player", "play", Window(1)))}
Both == {And("c", <<"a", "b">>), Or("c", <<"a", "b">>)}
Measures ==
  {Duration("result", <<"a", "b">>, <<>>), Duration("result", <<>>, <<"a", "c">>),
   Longest("d", "a", 0), Longest("d", "c", 2)}

\* No operation, IDs that are missing, that come too late or that are used twice,
\* and a nested operation of either kind.
Odd ==
  {<<>>,
   <<Duration("c", <<"a", "b">>, <<>>), State("a", "play")>>,
   <<State("a", "play"), And("a", <<"a", "b">>), Longest("d", "a", 0)>>,
   <<InState("a", State("", "buffer")), Or("b", <<"a">>)>>,
   <<InState("a", Existed("", "buffer"))>>, <<Not("a", State("", "play"))>>}

\* A negated timeline among alternatives: its false interval comes between true
\* ones that overlap.
Negated ==
  {<<Not("a", Within("", "player", "play", Window(1))),
     Within("b", "player", "play", Window(3)), State("c", "buffer"),
     Duration("result", <<>>, <<"a", "b", "c">>)>>,
   <<Not("a", Within("", "player", "play", Window(1))),
     Within("b", "player", "play", Window(2)),
     Within("c", "player", "buffer", Window(3)),
     Or("d", <<"a", "b", "c">>), Longest("result", "d", 0)>>}

\* A negative window, alone and with others.
Backwards ==
  {<<Within("a", "player", "play", Window(-1)), Within("b", "player", "buffer", Window(3)),
     Or("c", <<"a", "b">>), Duration("result", <<>>, <<"a">>), Longest("d", "c", 1)>>}

\* README.md, "Connection-Induced Rebuffering": the window is next to "source",
\* not among the operation's parameters.
Rebuffering ==
  {<<State("bufferPeriods", "buffer"), Existed("afterPlay", "play"),
     Not("noRecentSeek", Within("", "user", "seek", NoParams)),
     Duration("result", <<"bufferPeriods", "afterPlay", "noRecentSeek">>, <<>>)>>}

ManyRequests ==
  Odd \union Negated \union Backwards \union Rebuffering
    \union {<<a, b, c, d>> : a \in First, b \in Second, c \in Both, d \in Measures}
================================================================================
