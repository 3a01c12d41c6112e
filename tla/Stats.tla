--------------------------------- MODULE Stats ---------------------------------
(***************************************************************************)
(* Aggregation of statistics (core0/stats): the state of one metric is kept*)
(* in redis, and every value fed to it is a read of that state, a feed and *)
(* a write, from the goroutine of whichever job printed the value. A period*)
(* that ends is pushed as a point to the queue of its length, and kept in  *)
(* the history.                                                            *)
(*                                                                         *)
(* One metric: metrics share nothing. Sums are multiplied by Scale, so that*)
(* the quotients of a differential metric are whole; the average is the    *)
(* quotient of total and count and has no field.                           *)
(***************************************************************************)
EXTENDS Integers, Sequences, SequencesExt, FiniteSets, FiniteSetsExt

CONSTANTS
  Feeder,        \* goroutines that feed the metric
  Value,         \* values printed
  Duration,      \* Periods: lengths of the aggregation periods
  HistoryLength, \* points kept in a state
  FirstTime, LastTime, \* bound: the seconds of the clock
  Scale,         \* a multiple of the differences of times
  MaxFeeds,      \* bound: values fed
  MaxErrors      \* bound: redis calls that fail

ASSUME StatsAssumption ==
  /\ Value \subseteq Int /\ Duration \subseteq Nat \ {0} /\ HistoryLength \in Nat \ {0}
  /\ FirstTime \in Nat /\ LastTime \in Nat /\ MaxFeeds \in Nat /\ MaxErrors \in Nat
  /\ \A d \in Duration : d <= FirstTime
  /\ \A t \in 1 .. LastTime - FirstTime : Scale % t = 0

VARIABLES
  operation, \* "A" or "D", that of the metric
  clock,     \* time.Now().Unix()
  stored,    \* the state under the metric's key: <<>> or <<state>>
  tracked,   \* the key is in the cache
  evicting,  \* OnEvicted is about to delete the key
  feeding,   \* calls of Stats: [pc, value, state]
  points,    \* per duration, the queue statistics:<duration>
  feeds, redisErrors, \* history: calls made, calls of redis that failed
  disturbed  \* history: calls overlapped, redis failed or the state was evicted

statsVars == <<operation, clock, stored, tracked, evicting, feeding, points, feeds, redisErrors,
               disturbed>>

\* The state of a metric; `fed' is history: the values fed, with their times.
Undefined == [total |-> 0, max |-> 0, count |-> 0, start |-> 0]
NewState == [last |-> 0, lastTime |-> -1, current |-> [d \in Duration |-> Undefined],
             history |-> [d \in Duration |-> <<>>], fed |-> <<>>]

Idle == [pc |-> "idle", value |-> 0, state |-> <<>>]

StatsInit ==
  /\ operation \in {"A", "D"}
  /\ clock = FirstTime
  /\ stored = <<>> /\ tracked = FALSE /\ evicting = FALSE
  /\ feeding = [f \in Feeder |-> Idle]
  /\ points = [d \in Duration |-> <<>>]
  /\ feeds = 0 /\ redisErrors = 0 /\ disturbed = FALSE

-----------------------------------------------------------------------------
(* Mutants: bugs this code could have, each caught by a property below.    *)

\* A new period keeps the maximum of the one before.
NewPeriodKeepsMax(m, value, period) ==
  [total |-> value, max |-> IF value > m.max THEN value ELSE m.max, count |-> 1, start |-> period]

\* The state is written back only when a period has ended.
SavesPeriods(s, t) == s.history # t.history

-----------------------------------------------------------------------------
(* Sample.Feed and State.FeedOn.                                           *)

PeriodOf(t, d) == (t \div d) * d

PeriodOver(m, period) == period # 0 /\ m.start < period
NewPeriod(m, value, period) == [total |-> value, max |-> value, count |-> 1, start |-> period]
SamePeriod(m, value, period) ==
  [total |-> m.total + value, count |-> m.count + 1,
   max |-> IF value > m.max THEN value ELSE m.max,
   start |-> IF m.start = 0 THEN period ELSE m.start]

FeedSample(m, value, now, d) ==
  LET period == PeriodOf(now, d) IN
  IF PeriodOver(m, period) THEN NewPeriod(m, value, period) ELSE SamePeriod(m, value, period)

\* Feed returned an update that is not the undefined sample.
IsUpdate(m, now, d) == PeriodOver(m, PeriodOf(now, d)) /\ m.start # 0

\* log: the newest HistoryLength points.
Logged(his, sample) ==
  LET all == Append(his, sample) IN
  SubSeq(all, IF Len(all) > HistoryLength THEN Len(all) - HistoryLength + 1 ELSE 1, Len(all))

\* What is fed of a value: itself, or its rate since the last one.
Scaled(s, value, now) ==
  IF operation = "A" THEN value * Scale ELSE (value - s.last) * (Scale \div (now - s.lastTime))

Repeated(s, now) == s.lastTime # -1 /\ s.lastTime >= now

\* init feeds an average only; after it, every value is fed unless its second
\* has had one.
IsFed(s, now) == ~Repeated(s, now) /\ (s.lastTime = -1 => operation = "A")

\* The durations whose period ended; the first value returns none.
Updates(s, now) ==
  {d \in Duration : IsFed(s, now) /\ s.lastTime # -1 /\ IsUpdate(s.current[d], now, d)}

FeedOn(s, value, now) ==
  [last |-> value, lastTime |-> now,
   current |-> IF ~IsFed(s, now) THEN s.current
               ELSE [d \in Duration |-> FeedSample(s.current[d], Scaled(s, value, now), now, d)],
   history |-> [d \in Duration |-> IF d \in Updates(s, now)
                                   THEN Logged(s.history[d], s.current[d]) ELSE s.history[d]],
   fed |-> Append(s.fed, [value |-> value, time |-> now])]

-----------------------------------------------------------------------------
(* Stats: touch the cache, get, feed and push, set.                        *)

Busy(f) == feeding[f].pc # "idle"
Fails == redisErrors < MaxErrors /\ redisErrors' = redisErrors + 1 /\ disturbed' = TRUE

StatsGet(f, v) ==
  /\ ~Busy(f) /\ feeds < MaxFeeds
  /\ feeds' = feeds + 1
  /\ tracked' = TRUE
  /\ \/ /\ feeding' = [feeding EXCEPT ![f] =
                         [pc |-> "feed", value |-> v,
                          state |-> IF stored = <<>> THEN <<NewState>> ELSE stored]]
        /\ disturbed' = (disturbed \/ evicting \/ \E g \in Feeder : Busy(g))
        /\ UNCHANGED redisErrors
     \/ Fails /\ UNCHANGED feeding
  /\ UNCHANGED <<operation, clock, stored, evicting, points>>

\* A push that fails is ignored; the point is lost.
StatsFeed(f) ==
  /\ feeding[f].pc = "feed"
  /\ LET s == feeding[f].state[1]
         pushed == [d \in Duration |-> IF d \in Updates(s, clock)
                                       THEN Append(points[d], s.current[d]) ELSE points[d]]
     IN  /\ feeding' = [feeding EXCEPT ![f] =
                         [pc |-> "set", value |-> feeding[f].value,
                          state |-> <<s, FeedOn(s, feeding[f].value, clock)>>]]
         /\ \/ points' = pushed /\ UNCHANGED <<redisErrors, disturbed>>
            \/ Updates(s, clock) # {} /\ Fails /\ UNCHANGED points
  /\ UNCHANGED <<operation, clock, stored, tracked, evicting, feeds>>

\* The write is made whether or not a period ended.
Saves(s, t) == TRUE

StatsSet(f) ==
  /\ feeding[f].pc = "set"
  /\ feeding' = [feeding EXCEPT ![f] = Idle]
  /\ \/ /\ stored' = (IF Saves(feeding[f].state[1], feeding[f].state[2])
                      THEN <<feeding[f].state[2]>> ELSE stored)
        /\ UNCHANGED <<redisErrors, disturbed>>
     \/ Fails /\ UNCHANGED stored
  /\ UNCHANGED <<operation, clock, tracked, evicting, points, feeds>>

\* The cache drops a key an hour after it was touched, longer than a call of
\* Stats takes, and calls OnEvicted after it has released its lock.
Expire ==
  /\ tracked /\ ~evicting /\ \A f \in Feeder : ~Busy(f)
  /\ tracked' = FALSE /\ evicting' = TRUE /\ disturbed' = TRUE
  /\ UNCHANGED <<operation, clock, stored, feeding, points, feeds, redisErrors>>

Evicted == <<>>

OnEvicted ==
  /\ evicting
  /\ evicting' = FALSE
  /\ \/ stored' = Evicted /\ UNCHANGED <<redisErrors, disturbed>>
     \/ Fails /\ UNCHANGED stored
  /\ UNCHANGED <<operation, clock, tracked, feeding, points, feeds>>

Tick ==
  /\ clock < LastTime
  /\ clock' = clock + 1
  /\ UNCHANGED <<operation, stored, tracked, evicting, feeding, points, feeds, redisErrors, disturbed>>

StatsNext ==
  \/ \E f \in Feeder : (\E v \in Value : StatsGet(f, v)) \/ StatsFeed(f) \/ StatsSet(f)
  \/ Expire \/ OnEvicted \/ Tick

StatsSpec == StatsInit /\ [][StatsNext]_statsVars

-----------------------------------------------------------------------------
(* The reference: the aggregate of a list of values, period by period.     *)

\* The values that count: the first of each second, and for a rate not the
\* first of all.
Counted(fed) == {i \in DOMAIN fed : IF i = 1 THEN operation = "A" ELSE fed[i].time > fed[i - 1].time}
Rate(fed, i) ==
  IF operation = "A" THEN fed[i].value * Scale
  ELSE ((fed[i].value - fed[i - 1].value) * Scale) \div (fed[i].time - fed[i - 1].time)
InPeriod(fed, d, start) == {i \in Counted(fed) : PeriodOf(fed[i].time, d) = start}
Aggregate(fed, d, start) ==
  LET in == InPeriod(fed, d, start) IN
  IF in = {} THEN Undefined
  ELSE [total |-> MapThenSumSet(LAMBDA i : Rate(fed, i), in), count |-> Cardinality(in),
        max |-> Max({Rate(fed, i) : i \in in}), start |-> start]
PeriodsOf(fed, d) == {PeriodOf(fed[i].time, d) : i \in Counted(fed)}

-----------------------------------------------------------------------------
(* Properties.                                                             *)

States == {stored[i] : i \in DOMAIN stored}
          \cup UNION {{feeding[f].state[i] : i \in DOMAIN feeding[f].state} : f \in Feeder}

\* Whatever was read, written and lost in between, a state is the aggregate of
\* the values fed to it: its current samples those of the period of the last
\* value that counted, its history the newest periods before that one.
StateIsAggregate ==
  \A s \in States : \A d \in Duration :
    LET periods == PeriodsOf(s.fed, d) IN
    /\ Len(s.history[d]) <= HistoryLength
    /\ s.current[d] = (IF periods = {} THEN Undefined ELSE Aggregate(s.fed, d, Max(periods)))
    /\ \A i \in DOMAIN s.history[d] :
         LET start == s.history[d][i].start IN
         /\ s.history[d][i] = Aggregate(s.fed, d, start)
         /\ Cardinality({p \in periods : p > start}) = Len(s.history[d]) - i + 1

\* Unless calls overlapped or redis failed, every period is pushed once, in
\* order, as the aggregate of all the values of the metric.
PointsAreExact ==
  ~disturbed /\ stored # <<>> =>
    \A d \in Duration : \A i \in DOMAIN points[d] :
      /\ i > 1 => points[d][i - 1].start < points[d][i].start
      /\ (\A f \in Feeder : ~Busy(f)) => points[d][i] = Aggregate(stored[1].fed, d, points[d][i].start)

\* Unless calls overlapped or redis failed, no value is lost.
NothingLost ==
  ~disturbed /\ (\A f \in Feeder : ~Busy(f)) => feeds = (IF stored = <<>> THEN 0 ELSE Len(stored[1].fed))

\* A state in redis is one the cache still tracks, so that it is deleted in the
\* end, unless a delete failed.
StoredIsTracked == stored # <<>> /\ redisErrors = 0 => tracked \/ evicting

\* What is kept in redis for a metric and what is pushed for it are the
\* aggregates of the values fed.
StatsAreExact == StateIsAggregate /\ PointsAreExact

\* Every value counts while calls of Stats do not overlap and redis answers, and
\* nothing is left in redis for good: get, feed and set are three steps, and the
\* eviction comes between them at any time.
ValuesAreKept == NothingLost /\ StoredIsTracked
=============================================================================
