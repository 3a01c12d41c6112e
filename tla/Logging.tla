-------------------------------- MODULE Logging --------------------------------
(***************************************************************************)
(* Redistribution of logs (apps/core0/logger): jobs put records on the     *)
(* channel of the redis logger, whose pusher appends them to a backlog and *)
(* to the redis lists of the subscribers; and on the channel of the stream *)
(* logger, whose pusher keeps one list that expires.                       *)
(*                                                                         *)
(* Subscribe holds l.m for writing while it copies the backlog, and        *)
(* pushQueues for reading while it pushes one record: each is one action.  *)
(* redis (transport.Sink) is external and may fail any call.               *)
(***************************************************************************)
EXTENDS Naturals, Sequences, SequencesExt, FiniteSets

CONSTANTS
  Queue,      \* names of queues, as logger.subscribe answers them
  ChannelCap, \* MaxRedisQueueSize, the capacity of l.ch
  BacklogCap, \* MaxStreamRedisQueueSize, of l.buffer
  QueueCap,   \* l.size, to which lists are trimmed
  MaxRecords, \* bound: records logged
  MaxFailures \* bound: calls redis fails

LogLevel == {"out", "err", "exit"}

ASSUME LoggingAssumption ==
  /\ ChannelCap \in Nat \ {0} /\ BacklogCap \in Nat \ {0} /\ QueueCap \in Nat \ {0}
  /\ MaxRecords \in Nat /\ MaxFailures \in Nat

VARIABLES
  logged,    \* history: every record that got on the channel, in order
  logChan,   \* l.ch of the redis logger
  backlog,   \* l.buffer
  subs,      \* l.queues: queue -> the levels it wants, {} for all
  lists,     \* the redis lists
  joining,   \* subscriptions whose goroutine has not run: <<queue, levels>>
  left,      \* history: queues a client unsubscribed since it last subscribed
  overtaken, \* history: queues unsubscribed before their Subscribe had run
  gaps,      \* history: queues that redis failed, or that left and may come again
  streamList,\* the list stream:<command>
  failures

logVars == <<logged, logChan, backlog, subs, lists, joining, left, overtaken, gaps,
             streamList, failures>>

LogInit ==
  /\ logged = <<>> /\ logChan = <<>> /\ backlog = <<>> /\ streamList = <<>>
  /\ subs = <<>> /\ lists = [q \in Queue |-> <<>>]
  /\ joining = {} /\ left = {} /\ overtaken = {} /\ gaps = {} /\ failures = 0

-----------------------------------------------------------------------------
(* Mutants: bugs this code could have, each caught by a property below.    *)

\* Subscribe copies the backlog whatever levels the queue asks for.
BacklogUnfiltered(lvls) == backlog

-----------------------------------------------------------------------------
(* Records and lists.                                                      *)

\* stream.Buffer and LTrim(-size, -1): the last n elements.
LastOf(s, n) == IF Len(s) > n THEN SubSeq(s, Len(s) - n + 1, Len(s)) ELSE s

\* A queue gets the levels it asked for, and every exit message.
Wanted(lvls, r) == lvls = {} \/ r.level \in lvls \/ r.level = "exit"

\* The loop over the buffer in Subscribe: what the first i records leave.
Select(s, lvls) ==
  LET sel[i \in 0 .. Len(s)] == IF i = 0 THEN <<>>
                                ELSE IF Wanted(lvls, s[i]) THEN Append(sel[i - 1], s[i])
                                ELSE sel[i - 1]
  IN  sel[Len(s)]

\* LogRecord: the sender waits while the channel is full.  A record of a level that
\* is not logged by default changes nothing.
LogRecord(l) ==
  /\ Len(logged) < MaxRecords /\ Len(logChan) < ChannelCap
  /\ LET r == [n |-> Len(logged) + 1, level |-> l] IN
     /\ logged' = Append(logged, r)
     /\ logChan' = Append(logChan, r)
  /\ UNCHANGED <<backlog, subs, lists, joining, left, overtaken, gaps, streamList, failures>>

\* pushQueues: the backlog first, and then queue after queue, in the order of a
\* map; the first call redis fails ends it, a push or the trim that follows it, and
\* the rest get nothing.
Appended(ok, r) == <<r>>

PushQueues ==
  /\ logChan # <<>>
  /\ LET r == Head(logChan)
         wants == {q \in DOMAIN subs : Wanted(subs[q], r)}
     IN \E served \in SUBSET wants : \E untrimmed \in SUBSET served :
        LET ok == served = wants /\ untrimmed = {} IN
        /\ Cardinality(untrimmed) <= 1
        /\ ok \/ failures < MaxFailures
        /\ failures' = IF ok THEN failures ELSE failures + 1
        /\ backlog' = LastOf(backlog \o Appended(ok, r), BacklogCap)
        /\ lists' = [q \in Queue |-> IF q \notin served THEN lists[q]
                                     ELSE IF q \in untrimmed THEN Append(lists[q], r)
                                     ELSE LastOf(Append(lists[q], r), QueueCap)]
        /\ gaps' = gaps \cup (wants \ served)
  /\ logChan' = Tail(logChan)
  /\ UNCHANGED <<logged, subs, joining, left, overtaken, streamList>>

\* logger.subscribe answers at once, and leaves Subscribe to a goroutine.
SubscribeCommand(q, lvls) ==
  /\ joining' = joining \cup {<<q, lvls>>}
  /\ left' = left \ {q}
  /\ UNCHANGED <<logged, logChan, backlog, subs, lists, overtaken, gaps, streamList, failures>>

\* Subscribe: a queue that is known is left as it is; a new one gets the
\* backlog, up to the first failure, and is trimmed.
Backlog(lvls) == Select(backlog, lvls)

Subscribe(q, lvls) ==
  /\ <<q, lvls>> \in joining
  /\ joining' = joining \ {<<q, lvls>>}
  /\ IF q \in DOMAIN subs THEN UNCHANGED <<subs, lists, gaps, failures>>
     ELSE /\ subs' = [p \in DOMAIN subs \cup {q} |-> IF p = q THEN lvls ELSE subs[p]]
          /\ LET all == Len(Backlog(lvls)) IN
             \/ /\ lists' = [lists EXCEPT ![q] = LastOf(@ \o Backlog(lvls), QueueCap)]
                /\ UNCHANGED <<gaps, failures>>
             \/ \E n \in 0 .. all :
                  /\ failures < MaxFailures /\ failures' = failures + 1
                  /\ lists' = [lists EXCEPT ![q] = @ \o SubSeq(Backlog(lvls), 1, n)]
                  /\ gaps' = IF n < all THEN gaps \cup {q} ELSE gaps
  /\ UNCHANGED <<logged, logChan, backlog, left, overtaken, streamList>>

\* logger.unsubscribe: the list itself stays, and is read to its end.
Unsubscribed(q) == [p \in DOMAIN subs \ {q} |-> subs[p]]

Unsubscribe(q) ==
  /\ subs' = Unsubscribed(q)
  /\ left' = left \cup {q}
  /\ overtaken' = IF \E j \in joining : j[1] = q THEN overtaken \cup {q} ELSE overtaken
  /\ gaps' = gaps \cup {q}
  /\ UNCHANGED <<logged, logChan, backlog, lists, joining, streamList, failures>>

\* A client pops the oldest record of its list.
PopRecord(q) ==
  /\ lists[q] # <<>>
  /\ lists' = [lists EXCEPT ![q] = Tail(@)]
  /\ UNCHANGED <<logged, logChan, backlog, subs, joining, left, overtaken, gaps, streamList,
                 failures>>

\* The stream logger: push, trim and renew the expiry; redis drops an idle list.
StreamPush ==
  /\ streamList' = LastOf(Append(streamList, "record"), QueueCap)
  /\ UNCHANGED <<logged, logChan, backlog, subs, lists, joining, left, overtaken, gaps, failures>>

StreamExpire ==
  /\ streamList # <<>> /\ streamList' = <<>>
  /\ UNCHANGED <<logged, logChan, backlog, subs, lists, joining, left, overtaken, gaps, failures>>

LogNext ==
  \/ \E l \in LogLevel : LogRecord(l)
  \/ PushQueues \/ StreamPush \/ StreamExpire
  \/ \E q \in Queue : \/ \E lvls \in {{}, {"err"}} : SubscribeCommand(q, lvls) \/ Subscribe(q, lvls)
                      \/ Unsubscribe(q) \/ PopRecord(q)

LogSpec == LogInit /\ [][LogNext]_logVars

-----------------------------------------------------------------------------
(* Properties.                                                             *)

PushedRecords == SubSeq(logged, 1, Len(logged) - Len(logChan))
Numbers(s) == {s[i].n : i \in DOMAIN s}

\* The list of a subscriber has no hole: whatever the order of records and of
\* Subscribe, which copies the backlog, it holds the last of the records that
\* its levels let through, each once and in order (pushQueues, Subscribe).
NoHoles ==
  \A q \in DOMAIN subs : q \notin gaps =>
    LET through == {r \in ToSet(PushedRecords) : Wanted(subs[q], r)} IN
    /\ \A i \in 1 .. Len(lists[q]) - 1 : lists[q][i].n < lists[q][i + 1].n
    /\ lists[q] # <<>> =>
         Numbers(lists[q]) = {n \in {r.n : r \in through} : n >= lists[q][1].n}

\* What a new subscriber gets to see does not depend on the failures of others:
\* the backlog has every record that was taken from the channel.
BacklogIsComplete == backlog = LastOf(PushedRecords, BacklogCap)

\* A queue that was unsubscribed stays so, unless the goroutine of an earlier
\* subscription was still to come (logger.subscribe answers before it has run).
UnsubscribedStays == \A q \in left : q \in DOMAIN subs => q \in overtaken

\* Subscribers get all they asked for and no more, whenever they come and go and
\* whatever redis does to others.
SubscribersMissNothing == NoHoles /\ BacklogIsComplete /\ UnsubscribedStays
=============================================================================
