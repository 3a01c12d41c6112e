----------------------------- MODULE Reports_proofs -----------------------------
(***************************************************************************)
(* Proofs about what core0 takes in and gives out over redis.              *)
(*                                                                         *)
(* Sink, for any number of clients, ids and commands: a command that       *)
(* executes is reported running, and a duplicate of one is never run. The  *)
(* invariant relates three things that change at different times: the      *)
(* place of process, the flag in redis and the entry of the job table.     *)
(*                                                                         *)
(* Logging, for any number of queues and any capacity: the list of a       *)
(* subscriber has no hole. The invariant says what a list is, given how    *)
(* much of the log was pushed (Whole), and that the backlog gives a new    *)
(* queue such a list.                                                      *)
(*                                                                         *)
(* Stats, for any number of goroutines: a value is lost only to an overlap,*)
(* a failure or an eviction. The invariant follows the state a goroutine   *)
(* has read through the three steps of its call.                           *)
(***************************************************************************)
EXTENDS Sink, Logging, Stats, SequenceTheorems, WellFoundedInduction, TLAPS

\* The command process works on, at each of its places.
CurIsTaken ==
  /\ pc = "next" => cur = Nil
  /\ pc # "next" => cur \in Local
  /\ pc \in {"flagged", "run"} => exec[cur] = "taken"
  /\ pc = "forward" => exec[cur] \in {"unflag", "respond"}
  /\ \A c \in Cmd : exec[c] = "taken" => pc \in {"flagged", "run"} /\ cur = c

\* The flag of an id that no service uses tells how far the command is that set
\* it: it gets its expiry in Forward and lives until the job has left the table.
FlagOfExecuting ==
  \A c \in Local : LocalOnly(CmdID[c]) =>
    /\ exec[c] \in {"running", "unflag"} => flag[CmdID[c]] = "kept"
    /\ exec[c] \in {"respond", "cleanup"} => flag[CmdID[c]] = "expiring"
    /\ pc = "run" /\ cur = c => flag[CmdID[c]] = "kept"

\* A command that process is about to run is alone with its id, and so is one
\* that executes.
AloneWithId ==
  \A c, d \in Local : c # d /\ CmdID[c] = CmdID[d] /\ LocalOnly(CmdID[c]) =>
    ~((Executing(c) \/ (pc = "run" /\ cur = c)) /\ Executing(d))

\* The job table holds commands that execute, and for ids of clients only those.
TableExecutes ==
  \A i \in ID : jobs[i] # Nil =>
    /\ CmdID[jobs[i]] = i
    /\ LocalOnly(i) => Executing(jobs[i])

\* No command of a client was refused by the job table.
NoDuplicate == \A c \in Local : LocalOnly(CmdID[c]) => exec[c] # "duplicate"

\* The inductive invariant.
IInv ==
  /\ TypeOK /\ CurIsTaken /\ FlagOfExecuting /\ AloneWithId /\ TableExecutes /\ NoDuplicate

\* Nothing was pushed, flagged or run yet.
LEMMA InitIInv == Init => IInv
<1> SUFFICES ASSUME Init PROVE IInv
  OBVIOUS
<1> USE SinkAssumption DEF Init
<1>1. jobs \in [ID -> Local \cup Own \cup {Nil}]
  OBVIOUS
<1>2. results \in [ID -> Seq(Cmd)] /\ queue \in Seq(Local)
  OBVIOUS
<1>3. exec \in [Cmd -> Progress]
  BY DEF Progress
<1>4. TypeOK
  BY <1>1, <1>2, <1>3 DEF TypeOK, Cmd
<1>5. TableExecutes
  BY DEF TableExecutes, Executing, Cmd
<1> QED
  BY <1>4, <1>5
  DEF IInv, CurIsTaken, FlagOfExecuting, AloneWithId, NoDuplicate, Executing, Cmd

\* Every step keeps it.  RunDuplicate happens only to ids that services use: the
\* holder of the entry executes, and process would have dropped the command.
LEMMA NextIInv == ASSUME IInv, [Next]_vars PROVE IInv'
<1> USE SinkAssumption
    DEF IInv, TypeOK, CurIsTaken, FlagOfExecuting, AloneWithId, TableExecutes, NoDuplicate,
        LocalOnly, Executing, Cmd, Progress, Step
<1>1. CASE GetNext
  BY <1>1 DEF GetNext
<1>2. CASE DropFlagged
  BY <1>2 DEF DropFlagged, Flagged
<1>3. CASE FlagCommand
  BY <1>3 DEF FlagCommand, Flagged, Flag
<1>4. CASE RunCommand
  BY <1>4 DEF RunCommand
<1>5. CASE RunDuplicate
  <2>1. ~LocalOnly(CmdID[cur])
    <3> SUFFICES ASSUME LocalOnly(CmdID[cur]) PROVE FALSE
      OBVIOUS
    <3> DEFINE d == jobs[CmdID[cur]]
    <3>1. d # Nil /\ d \in Cmd /\ CmdID[d] = CmdID[cur] /\ cur \in Local /\ pc = "run"
      BY <1>5 DEF RunDuplicate
    <3>2. d \in Local /\ Executing(d) /\ d # cur
      BY <3>1
    <3> QED
      BY <3>1, <3>2
  <2> QED
    BY <1>5, <2>1 DEF RunDuplicate
<1>6. CASE RunUnknown
  BY <1>6 DEF RunUnknown
<1>7. ASSUME NEW c \in Cmd, UnFlag(c) PROVE IInv'
  BY <1>7 DEF UnFlag
<1>8. ASSUME NEW c \in Cmd, Respond(c) PROVE IInv'
  BY <1>8 DEF Respond
<1>9. ASSUME NEW c \in Cmd, CleanUp(c) PROVE IInv'
  BY <1>9 DEF CleanUp
<1>10. ASSUME NEW c \in Local, ClientPush(c) PROVE IInv'
  BY <1>10 DEF ClientPush
<1>11. ASSUME NEW c \in Local, ClientGet(c) PROVE IInv'
  BY <1>11 DEF ClientGet
<1>12. ASSUME NEW c \in Local \cup Own, JobEnds(c) PROVE IInv'
  BY <1>12 DEF JobEnds
<1>13. ASSUME NEW i \in ID, ExpireFlag(i) PROVE IInv'
  BY <1>13 DEF ExpireFlag
<1>14. ASSUME NEW i \in ID, ExpireResults(i) PROVE IInv'
  BY <1>14 DEF ExpireResults
<1>15. CASE UNCHANGED vars
  BY <1>15 DEF vars
<1> QED
  BY <1>1, <1>2, <1>3, <1>4, <1>5, <1>6, <1>7, <1>8, <1>9, <1>10, <1>11, <1>12, <1>13, <1>14, <1>15
  DEF Next, SinkProcess, Forward

\* process, Flag, Forward and UnFlag of the sink: as long as a command of a client
\* executes its flag is there, and a second command with its id is dropped.
THEOREM FlagsAreTrue == Spec => []FlagsFollowJobs
<1>1. IInv => FlagsFollowJobs
  BY DEF IInv, FlagsFollowJobs, RunningIsReported, DuplicatesAreDropped, ReportedRunning,
     FlagOfExecuting, AloneWithId, NoDuplicate
<1> QED
  BY <1>1, InitIInv, NextIInv, PTL DEF Spec

-----------------------------------------------------------------------------
(* What Logging's lists hold.                                              *)

\* Min of FiniteSetsExt, by the well-foundedness of <.
LEMMA LeastIsMember ==
  ASSUME NEW S \in SUBSET Nat, S # {} PROVE Min(S) \in S /\ \A k \in S : Min(S) <= k
<1> DEFINE R == {ss \in Nat \X Nat : ss[1] < ss[2]}
<1>1. IsWellFoundedOn(R, Nat)
  BY NatLessThanWellFounded, Zenon DEF OpToRel
<1>2. \A x, y \in Nat : <<y, x>> \in R <=> y < x
  OBVIOUS
<1> HIDE DEF R
<1>3. PICK x \in S : \A y \in S : ~ (<<y, x>> \in R)
  BY <1>1, WFMin
<1>4. \A y \in S : x =< y
  <2> TAKE y \in S
  <2>1. x \in Nat /\ y \in Nat /\ ~ (y < x)
    BY <1>2, <1>3
  <2> QED
    BY <2>1
<1> QED
  BY <1>4 DEF Min

Record == [n : Nat, level : LogLevel]

\* l is what a queue that wants lvls holds once the first m records of log were
\* pushed: records that it wants, in the order they were logged, and from the
\* oldest it still has on every one.
Whole(l, lvls, log, m) ==
  /\ l \in Seq(Record)
  /\ \A i \in 1 .. Len(l) : /\ l[i].n \in 1 .. m
                            /\ l[i] = log[l[i].n]
                            /\ Wanted(lvls, l[i])
  /\ \A i, j \in 1 .. Len(l) : i < j => l[i].n < l[j].n
  /\ l # <<>> => \A n \in 1 .. m : n >= l[1].n /\ Wanted(lvls, log[n]) =>
                                     \E i \in 1 .. Len(l) : l[i].n = n

LEMMA EmptyIsWhole == ASSUME NEW lvls, NEW log, NEW m PROVE Whole(<<>>, lvls, log, m)
BY DEF Whole

\* A list may lose its oldest records, to a client or to a trim.
LEMMA WholeSuffix ==
  ASSUME NEW l, NEW lvls, NEW log, NEW m \in Nat, Whole(l, lvls, log, m),
         NEW k \in 0 .. Len(l), NEW s \in Seq(Record), Len(s) = Len(l) - k,
         \A i \in 1 .. Len(s) : s[i] = l[k + i]
  PROVE  Whole(s, lvls, log, m)
<1>1. l \in Seq(Record) /\ Len(l) \in Nat /\ Len(s) \in Nat /\ k \in Nat
  BY DEF Whole
<1>2. \A i \in 1 .. Len(s) : k + i \in 1 .. Len(l)
  BY <1>1
<1>3. ASSUME NEW i \in 1 .. Len(s) PROVE s[i].n \in 1 .. m /\ s[i] = log[s[i].n] /\ Wanted(lvls, s[i])
  <2>1. s[i] = l[k + i] /\ k + i \in 1 .. Len(l)
    BY <1>2
  <2>2. \A j \in 1 .. Len(l) : l[j].n \in 1 .. m /\ l[j] = log[l[j].n] /\ Wanted(lvls, l[j])
    BY DEF Whole
  <2> QED
    BY <2>1, <2>2
<1>4. ASSUME NEW i \in 1 .. Len(s), NEW j \in 1 .. Len(s), i < j PROVE s[i].n < s[j].n
  <2>1. k + i < k + j
    BY <1>1, <1>4
  <2> QED
    BY <1>2, <2>1 DEF Whole
<1>5. ASSUME s # <<>>, NEW n \in 1 .. m, n >= s[1].n, Wanted(lvls, log[n])
      PROVE  \E i \in 1 .. Len(s) : s[i].n = n
  <2>1. Len(s) >= 1 /\ 1 \in 1 .. Len(s) /\ 1 \in 1 .. Len(l) /\ k + 1 \in 1 .. Len(l)
    BY <1>1, <1>5, EmptySeq
  <2>2. s[1] = l[k + 1] /\ l # <<>>
    BY <1>1, <2>1
  <2>3. \A i \in 1 .. Len(l) : l[i].n \in 1 .. m
    BY DEF Whole
  <2>4. l[1].n <= l[k + 1].n
    <3>1. CASE k = 0
      BY <2>1, <2>3, <3>1
    <3>2. CASE k # 0
      <4>1. 1 < k + 1
        BY <1>1, <3>2
      <4>2. l[1].n < l[k + 1].n
        BY <2>1, <4>1 DEF Whole
      <4> QED
        BY <2>1, <2>3, <4>2
    <3> QED
      BY <3>1, <3>2
  <2>5. n >= l[1].n
    BY <1>5, <2>1, <2>2, <2>3, <2>4
  <2>6. PICK i \in 1 .. Len(l) : l[i].n = n
    BY <1>5, <2>2, <2>5 DEF Whole
  <2>7. i >= k + 1
    <3> SUFFICES ASSUME i < k + 1 PROVE FALSE
      BY <1>1
    <3>1. l[i].n < l[k + 1].n
      BY <2>1 DEF Whole
    <3> QED
      BY <1>5, <2>1, <2>2, <2>3, <2>6, <3>1
  <2>8. i - k \in 1 .. Len(s) /\ k + (i - k) = i
    BY <1>1, <2>7
  <2>9. s[i - k].n = n
    BY <2>6, <2>8
  <2> QED
    BY <2>8, <2>9
<1> QED
  BY <1>3, <1>4, <1>5 DEF Whole

\* The last n of a sequence: a suffix.
LEMMA LastOfIsSuffix ==
  ASSUME NEW S, NEW s \in Seq(S), NEW n \in Nat \ {0}
  PROVE  /\ LastOf(s, n) \in Seq(S)
         /\ \E k \in 0 .. Len(s) : /\ Len(LastOf(s, n)) = Len(s) - k
                                   /\ \A i \in 1 .. Len(s) - k : LastOf(s, n)[i] = s[k + i]
         /\ Len(LastOf(s, n)) = IF Len(s) > n THEN n ELSE Len(s)
<1>1. Len(s) \in Nat
  OBVIOUS
<1>2. CASE Len(s) > n
  <2> DEFINE k == Len(s) - n
  <2>1. k \in 0 .. Len(s) /\ k + 1 \in 1 .. Len(s) /\ Len(s) \in k + 1 - 1 .. Len(s) /\ Len(s) - (k + 1) + 1 = Len(s) - k
    BY <1>1, <1>2
  <2>2. LastOf(s, n) = SubSeq(s, k + 1, Len(s))
    BY <1>2 DEF LastOf
  <2>3. \A i \in 1 .. Len(s) - k : k + 1 + i - 1 = k + i
    BY <1>1, <1>2
  <2>4. /\ SubSeq(s, k + 1, Len(s)) \in Seq(S)
        /\ Len(SubSeq(s, k + 1, Len(s))) = Len(s) - k
        /\ \A i \in 1 .. Len(s) - k : SubSeq(s, k + 1, Len(s))[i] = s[k + i]
    BY <1>1, <1>2, <2>1, <2>3, SubSeqProperties
  <2>5. Len(s) - k = n
    BY <1>1
  <2> QED
    BY <1>2, <2>1, <2>2, <2>4, <2>5
<1>3. CASE ~(Len(s) > n)
  <2>1. LastOf(s, n) = s
    BY <1>3 DEF LastOf
  <2>2. 0 \in 0 .. Len(s) /\ Len(s) = Len(s) - 0 /\ \A i \in 1 .. Len(s) - 0 : s[i] = s[0 + i]
    BY <1>1
  <2> QED
    BY <1>3, <2>1, <2>2
<1> QED
  BY <1>2, <1>3

LEMMA WholeLastOf ==
  ASSUME NEW l, NEW lvls, NEW log, NEW m \in Nat, Whole(l, lvls, log, m), NEW n \in Nat \ {0}
  PROVE  Whole(LastOf(l, n), lvls, log, m)
<1>1. l \in Seq(Record)
  BY DEF Whole
<1>2. LastOf(l, n) \in Seq(Record)
  BY <1>1, LastOfIsSuffix
<1>3. PICK k \in 0 .. Len(l) : /\ Len(LastOf(l, n)) = Len(l) - k
                               /\ \A i \in 1 .. Len(l) - k : LastOf(l, n)[i] = l[k + i]
  BY <1>1, LastOfIsSuffix
<1> HIDE DEF LastOf
<1> QED
  BY <1>2, <1>3, WholeSuffix

LEMMA WholeTail ==
  ASSUME NEW l, NEW lvls, NEW log, NEW m \in Nat, Whole(l, lvls, log, m), l # <<>>
  PROVE  Whole(Tail(l), lvls, log, m)
<1>1. l \in Seq(Record)
  BY DEF Whole
<1>2. Tail(l) \in Seq(Record) /\ Len(Tail(l)) = Len(l) - 1
  BY <1>1
<1>3. \A i \in 1 .. Len(Tail(l)) : Tail(l)[i] = l[1 + i]
  BY <1>1, HeadTailProperties
<1>4. 1 \in 0 .. Len(l)
  BY <1>1
<1> QED
  BY <1>2, <1>3, <1>4, WholeSuffix

\* The next record is pushed.
LEMMA WholeAppend ==
  ASSUME NEW l, NEW lvls, NEW log, NEW m \in Nat, Whole(l, lvls, log, m),
         log[m + 1] \in Record, log[m + 1].n = m + 1, Wanted(lvls, log[m + 1])
  PROVE  Whole(Append(l, log[m + 1]), lvls, log, m + 1)
<1> DEFINE r == log[m + 1]
           s == Append(l, r)
<1>1. l \in Seq(Record) /\ Len(l) \in Nat
  BY DEF Whole
<1>2. s \in Seq(Record) /\ Len(s) = Len(l) + 1 /\ s[Len(l) + 1] = r
  BY <1>1, AppendProperties
<1>3. \A i \in 1 .. Len(l) : s[i] = l[i]
  BY <1>1, AppendProperties
<1>4. r \in Record /\ r.n = m + 1 /\ Wanted(lvls, r) /\ r = log[r.n]
  OBVIOUS
<1> HIDE DEF r, s
<1>5. \A i \in 1 .. Len(s) : i \in 1 .. Len(l) \/ i = Len(l) + 1
  BY <1>1, <1>2
<1>6. \A i \in 1 .. Len(l) : l[i].n \in 1 .. m /\ l[i] = log[l[i].n] /\ Wanted(lvls, l[i])
  BY DEF Whole
<1>7. ASSUME NEW i \in 1 .. Len(s)
      PROVE  s[i].n \in 1 .. m + 1 /\ s[i] = log[s[i].n] /\ Wanted(lvls, s[i])
  <2>1. CASE i \in 1 .. Len(l)
    <3>1. l[i].n \in 1 .. m + 1
      BY <1>6, <2>1
    <3> QED
      BY <1>3, <1>6, <2>1, <3>1
  <2>2. CASE i = Len(l) + 1
    BY <1>2, <1>4, <2>2
  <2> QED
    BY <1>5, <2>1, <2>2
<1>8. ASSUME NEW i \in 1 .. Len(s), NEW j \in 1 .. Len(s), i < j PROVE s[i].n < s[j].n
  <2>1. i \in 1 .. Len(l)
    BY <1>1, <1>2, <1>8
  <2>2. CASE j \in 1 .. Len(l)
    <3>1. l[i].n < l[j].n
      BY <1>8, <2>1, <2>2 DEF Whole
    <3> QED
      BY <1>3, <2>1, <2>2, <3>1
  <2>3. CASE j = Len(l) + 1
    <3>1. s[j].n = m + 1 /\ s[i] = l[i] /\ l[i].n \in 1 .. m
      BY <1>2, <1>3, <1>4, <1>6, <2>1, <2>3
    <3> QED
      BY <3>1
  <2> QED
    BY <1>5, <2>2, <2>3
<1>9. ASSUME NEW n \in 1 .. m + 1, n >= s[1].n, Wanted(lvls, log[n])
      PROVE  \E i \in 1 .. Len(s) : s[i].n = n
  <2>1. CASE n = m + 1
    <3>1. Len(l) + 1 \in 1 .. Len(s) /\ s[Len(l) + 1].n = n
      BY <1>1, <1>2, <1>4, <2>1
    <3> QED
      BY <3>1
  <2>2. CASE n # m + 1 /\ l = <<>>
    <3>1. s[1].n = m + 1
      BY <1>2, <1>4, <2>2
    <3> QED
      BY <1>9, <2>2, <3>1
  <2>3. CASE n # m + 1 /\ l # <<>>
    <3>1. 1 \in 1 .. Len(l) /\ n \in 1 .. m
      BY <1>1, <1>9, <2>3, EmptySeq
    <3>2. n >= l[1].n
      BY <1>3, <1>9, <3>1
    <3>3. PICK i \in 1 .. Len(l) : l[i].n = n
      BY <1>9, <2>3, <3>1, <3>2 DEF Whole
    <3>4. i \in 1 .. Len(s)
      BY <1>1, <1>2
    <3> QED
      BY <1>3, <3>3, <3>4
  <2> QED
    BY <2>1, <2>2, <2>3
<1>10. s \in Seq(Record)
  BY <1>2
<1>11. Whole(s, lvls, log, m + 1)
  BY <1>7, <1>8, <1>9, <1>10 DEF Whole
<1> QED
  BY <1>11 DEF s, r

\* The next record is not wanted.
LEMMA WholeSkip ==
  ASSUME NEW l, NEW lvls, NEW log, NEW m \in Nat, Whole(l, lvls, log, m), ~Wanted(lvls, log[m + 1])
  PROVE  Whole(l, lvls, log, m + 1)
<1>1. \A i \in 1 .. Len(l) : l[i].n \in 1 .. m + 1 /\ l[i] = log[l[i].n] /\ Wanted(lvls, l[i])
  <2> TAKE i \in 1 .. Len(l)
  <2>1. l[i].n \in 1 .. m /\ l[i] = log[l[i].n] /\ Wanted(lvls, l[i])
    BY DEF Whole
  <2> QED
    BY <2>1
<1>2. ASSUME l # <<>>, NEW n \in 1 .. m + 1, n >= l[1].n, Wanted(lvls, log[n])
      PROVE  \E i \in 1 .. Len(l) : l[i].n = n
  <2>1. n # m + 1
    BY <1>2
  <2>2. n \in 1 .. m
    BY <2>1
  <2> QED
    BY <1>2, <2>2 DEF Whole
<1> QED
  BY <1>1, <1>2 DEF Whole

\* A record is logged, and waits on the channel.
LEMMA WholeGrow ==
  ASSUME NEW l, NEW lvls, NEW log, NEW log2, NEW m \in Nat, Whole(l, lvls, log, m),
         \A n \in 1 .. m : log2[n] = log[n]
  PROVE  Whole(l, lvls, log2, m)
BY DEF Whole

-----------------------------------------------------------------------------
(* The loop of Subscribe over the backlog.                                 *)

\* The recursive function of Select.
SelectSoFar(s, lvls) ==
  CHOOSE f : f = [i \in 0 .. Len(s) |-> IF i = 0 THEN <<>>
                                        ELSE IF Wanted(lvls, s[i]) THEN Append(f[i - 1], s[i])
                                        ELSE f[i - 1]]

\* It exists, so that it has the values its definition says.
LEMMA SelectSteps ==
  ASSUME NEW S, NEW s \in Seq(S), NEW lvls
  PROVE  /\ SelectSoFar(s, lvls)[0] = <<>>
         /\ \A i \in 1 .. Len(s) :
              SelectSoFar(s, lvls)[i] = IF Wanted(lvls, s[i]) THEN Append(SelectSoFar(s, lvls)[i - 1], s[i])
                                        ELSE SelectSoFar(s, lvls)[i - 1]
<1> DEFINE n == Len(s)
           got == SelectSoFar(s, lvls)
           Turn(i, t) == IF Wanted(lvls, s[i]) THEN Append(t, s[i]) ELSE t
           Sat(m, f) == f = [i \in 0 .. m |-> IF i = 0 THEN <<>> ELSE Turn(i, f[i - 1])]
           Bad == {m \in 0 .. n : ~ \E f : Sat(m, f)}
<1>0. n \in Nat
  OBVIOUS
<1>1. Sat(0, [i \in 0 .. 0 |-> <<>>])
  OBVIOUS
<1>2. ASSUME NEW m \in 0 .. n, m # 0, NEW f, Sat(m - 1, f) PROVE \E g : Sat(m, g)
  <2> DEFINE g == [i \in 0 .. m |-> IF i = m THEN Turn(m, f[m - 1]) ELSE f[i]]
  <2> HIDE DEF Turn, n
  <2>1. ASSUME NEW i \in 0 .. m PROVE g[i] = IF i = 0 THEN <<>> ELSE Turn(i, g[i - 1])
    <3>1. \A j \in 0 .. m - 1 : f[j] = IF j = 0 THEN <<>> ELSE Turn(j, f[j - 1])
      BY <1>2, Zenon
    <3>2. CASE i = m
      <4>1. m - 1 \in 0 .. m /\ m - 1 # m
        BY <1>0, <1>2
      <4>2. g[m - 1] = f[m - 1] /\ g[m] = Turn(m, f[m - 1])
        BY <4>1
      <4> QED
        BY <1>2, <3>2, <4>2
    <3>3. CASE i # m
      <4>1. i \in 0 .. m - 1 /\ (i # 0 => i - 1 \in 0 .. m /\ i - 1 # m)
        BY <1>0, <2>1, <3>3
      <4>2. g[i] = f[i] /\ (i # 0 => g[i - 1] = f[i - 1])
        BY <3>3, <4>1
      <4>3. f[i] = IF i = 0 THEN <<>> ELSE Turn(i, f[i - 1])
        BY <3>1, <4>1
      <4> QED
        BY <4>2, <4>3, Zenon
    <3> QED
      BY <3>2, <3>3
  <2>2. g = [i \in 0 .. m |-> IF i = 0 THEN <<>> ELSE Turn(i, g[i - 1])]
    BY <2>1
  <2> QED
    BY <2>2
<1>3. Bad = {}
  <2> SUFFICES ASSUME Bad # {} PROVE FALSE
    OBVIOUS
  <2> HIDE DEF Sat, n
  <2> DEFINE m == Min(Bad)
  <2>1. Bad \in SUBSET Nat
    BY <1>0
  <2> HIDE DEF Bad
  <2>2. m \in Bad /\ \A k \in Bad : m <= k
    BY <2>1, LeastIsMember
  <2>3. m \in 0 .. n /\ ~ \E f : Sat(m, f)
    BY <2>2 DEF Bad
  <2> HIDE DEF m
  <2>4. m # 0
    BY <1>1, <2>3
  <2>5. m - 1 \in 0 .. n /\ m - 1 \notin Bad
    BY <1>0, <2>2, <2>3, <2>4
  <2>6. PICK f : Sat(m - 1, f)
    BY <2>5 DEF Bad
  <2> QED
    BY <1>2, <2>3, <2>4, <2>6
<1>4. \E f : Sat(n, f)
  <2>1. n \in 0 .. n
    BY <1>0
  <2> HIDE DEF Sat, n
  <2> QED
    BY <1>3, <2>1, Zenon
<1>5. Sat(n, got)
  <2>1. got = CHOOSE f : Sat(n, f)
    BY DEF SelectSoFar
  <2> HIDE DEF Sat
  <2> QED
    BY <1>4, <2>1
<1>6. got[0] = <<>> /\ \A i \in 1 .. n : got[i] = Turn(i, got[i - 1])
  <2> HIDE DEF Turn, n
  <2>1. \A i \in 0 .. n : got[i] = IF i = 0 THEN <<>> ELSE Turn(i, got[i - 1])
    BY <1>5, Zenon
  <2>2. 0 \in 0 .. n /\ \A i \in 1 .. n : i \in 0 .. n /\ i # 0
    BY <1>0
  <2> QED
    BY <2>1, <2>2
<1> QED
  BY <1>6

\* What is selected of the last records pushed is whole.
LEMMA SelectIsWhole ==
  ASSUME NEW s \in Seq(Record), NEW lvls, NEW log, NEW d \in Nat,
         \A i \in 1 .. Len(s) : s[i] = log[d + i] /\ s[i].n = d + i
  PROVE  Whole(Select(s, lvls), lvls, log, d + Len(s))
<1> DEFINE n == Len(s)
           got == SelectSoFar(s, lvls)
           Bad == {i \in 0 .. n : ~ Whole(got[i], lvls, log, d + i)}
<1>1. n \in Nat
  OBVIOUS
<1>2. got[0] = <<>>
  BY SelectSteps
<1>3. \A i \in 1 .. n : got[i] = IF Wanted(lvls, s[i]) THEN Append(got[i - 1], s[i]) ELSE got[i - 1]
  BY SelectSteps
<1>4. Select(s, lvls) = got[n]
  BY DEF Select, SelectSoFar
<1> HIDE DEF got
<1>5. Bad = {}
  <2> SUFFICES ASSUME Bad # {} PROVE FALSE
    OBVIOUS
  <2> DEFINE m == Min(Bad)
  <2>1. Bad \in SUBSET Nat
    OBVIOUS
  <2> HIDE DEF Bad
  <2>2. m \in Bad /\ \A k \in Bad : m <= k
    BY <2>1, LeastIsMember
  <2>3. m \in 0 .. n /\ ~ Whole(got[m], lvls, log, d + m)
    BY <2>2 DEF Bad
  <2> HIDE DEF m
  <2>4. m # 0
    BY <1>2, <2>3, EmptyIsWhole
  <2>5. m - 1 \in 0 .. n /\ m - 1 \notin Bad /\ m \in 1 .. n
    BY <2>2, <2>3, <2>4
  <2>6. Whole(got[m - 1], lvls, log, d + (m - 1))
    BY <2>5 DEF Bad
  <2> DEFINE e == d + (m - 1)
  <2>7. e \in Nat /\ e + 1 = d + m
    BY <2>5
  <2>8. s[m] = log[e + 1] /\ s[m].n = e + 1 /\ s[m] \in Record
    BY <2>5, <2>7
  <2> HIDE DEF e
  <2>9. Whole(got[m - 1], lvls, log, e)
    BY <2>6 DEF e
  <2>10. CASE Wanted(lvls, s[m])
    <3>1. got[m] = Append(got[m - 1], log[e + 1])
      BY <1>3, <2>5, <2>8, <2>10
    <3>2. Whole(got[m], lvls, log, e + 1)
      BY <2>7, <2>8, <2>9, <2>10, <3>1, WholeAppend
    <3> QED
      BY <2>3, <2>7, <3>2
  <2>11. CASE ~Wanted(lvls, s[m])
    <3>1. got[m] = got[m - 1]
      BY <1>3, <2>5, <2>11
    <3>2. Whole(got[m], lvls, log, e + 1)
      BY <2>7, <2>8, <2>9, <2>11, <3>1, WholeSkip
    <3> QED
      BY <2>3, <2>7, <3>2
  <2> QED
    BY <2>10, <2>11
<1>6. n \in 0 .. n
  BY <1>1
<1> QED
  BY <1>4, <1>5, <1>6

\* The buffer keeps the last records when it takes one more.
LEMMA LastOfAppend ==
  ASSUME NEW S, NEW s \in Seq(S), NEW r \in S, NEW n \in Nat \ {0}
  PROVE  LastOf(LastOf(s, n) \o <<r>>, n) = LastOf(Append(s, r), n)
<1>1. Len(s) \in Nat
  OBVIOUS
<1>2. CASE Len(s) <= n
  <2>1. LastOf(s, n) = s
    BY <1>1, <1>2 DEF LastOf
  <2>2. s \o <<r>> = Append(s, r)
    BY AppendIsConcat
  <2> QED
    BY <2>1, <2>2
<1>3. CASE Len(s) > n
  <2> DEFINE k == Len(s) - n
             t == SubSeq(s, k + 1, Len(s))
             u == t \o <<r>>
             v == Append(s, r)
  <2>1. k \in Nat /\ k >= 1 /\ Len(s) = n + k /\ k + 1 \in 1 .. Len(s) /\ n + 1 > n
    BY <1>1, <1>3
  <2>2. t \in Seq(S) /\ Len(t) = n /\ \A i \in 1 .. n : t[i] = s[k + i]
    <3>1. \A i \in 1 .. n : k + 1 + i - 1 = k + i
      BY <2>1
    <3>2. Len(s) - (k + 1) + 1 = n /\ Len(s) \in k + 1 - 1 .. Len(s)
      BY <2>1
    <3> HIDE DEF k
    <3> QED
      BY <2>1, <3>1, <3>2, SubSeqProperties
  <2>3. LastOf(s, n) = t
    BY <1>3 DEF LastOf
  <2> HIDE DEF k, t
  <2>4. u \in Seq(S) /\ Len(u) = n + 1 /\ (\A i \in 1 .. n : u[i] = t[i]) /\ u[n + 1] = r
    BY <2>2, ConcatProperties
  <2>5. v \in Seq(S) /\ Len(v) = n + k + 1 /\ (\A i \in 1 .. n + k : v[i] = s[i]) /\ v[n + k + 1] = r
    BY <2>1, AppendProperties
  <2> HIDE DEF u, v
  <2>6. LastOf(u, n) = SubSeq(u, 2, n + 1)
    <3>1. n + 1 - n + 1 = 2
      OBVIOUS
    <3> QED
      BY <2>1, <2>4, <3>1 DEF LastOf
  <2>7. LastOf(v, n) = SubSeq(v, k + 2, n + k + 1)
    <3>1. n + k + 1 - n + 1 = k + 2 /\ n + k + 1 > n
      BY <2>1
    <3>2. Len(v) > n /\ Len(v) - n + 1 = k + 2
      BY <2>1, <2>5, <3>1
    <3>3. LastOf(v, n) = SubSeq(v, Len(v) - n + 1, Len(v))
      BY <3>2 DEF LastOf
    <3> QED
      BY <2>5, <3>2, <3>3
  <2>8. /\ SubSeq(u, 2, n + 1) \in Seq(S) /\ Len(SubSeq(u, 2, n + 1)) = n
        /\ \A i \in 1 .. n : SubSeq(u, 2, n + 1)[i] = u[i + 1]
    <3>1. 2 \in 1 .. Len(u) /\ n + 1 \in 2 - 1 .. Len(u) /\ n + 1 - 2 + 1 = n /\ \A i \in 1 .. n : 2 + i - 1 = i + 1
      BY <2>4
    <3> QED
      BY <2>4, <3>1, SubSeqProperties
  <2>9. /\ SubSeq(v, k + 2, n + k + 1) \in Seq(S) /\ Len(SubSeq(v, k + 2, n + k + 1)) = n
        /\ \A i \in 1 .. n : SubSeq(v, k + 2, n + k + 1)[i] = v[k + i + 1]
    <3>1. /\ k + 2 \in 1 .. Len(v) /\ n + k + 1 \in k + 2 - 1 .. Len(v) /\ n + k + 1 - (k + 2) + 1 = n
          /\ \A i \in 1 .. n : k + 2 + i - 1 = k + i + 1
      BY <2>1, <2>5
    <3> QED
      BY <2>1, <2>5, <3>1, SubSeqProperties
  <2>10. ASSUME NEW i \in 1 .. n PROVE u[i + 1] = v[k + i + 1]
    <3>1. CASE i = n
      <4>1. u[i + 1] = r /\ k + i + 1 = n + k + 1
        BY <2>1, <2>4, <3>1
      <4> QED
        BY <2>5, <4>1
    <3>2. CASE i # n
      <4>1. i + 1 \in 1 .. n /\ k + i + 1 \in 1 .. n + k /\ k + (i + 1) = k + i + 1
        BY <2>1, <3>2
      <4>2. u[i + 1] = s[k + i + 1]
        BY <2>2, <2>4, <4>1
      <4>3. v[k + i + 1] = s[k + i + 1]
        BY <2>5, <4>1
      <4> QED
        BY <4>2, <4>3
    <3> QED
      BY <3>1, <3>2
  <2>11. SubSeq(u, 2, n + 1) = SubSeq(v, k + 2, n + k + 1)
    BY <2>8, <2>9, <2>10, SeqEqual
  <2> QED
    BY <2>3, <2>6, <2>7, <2>11 DEF u, v
<1> QED
  BY <1>1, <1>2, <1>3

-----------------------------------------------------------------------------
(* The inductive invariant of Logging.                                     *)

\* How many of the records logged were pushed.
PushedCount == Len(logged) - Len(logChan)

\* Records are numbered as they are logged, and the channel holds the last ones.
RecordsOK ==
  /\ logged \in Seq(Record) /\ logChan \in Seq(Record) /\ Len(logChan) <= Len(logged)
  /\ \A i \in 1 .. Len(logged) : logged[i].n = i
  /\ \A i \in 1 .. Len(logChan) : logChan[i] = logged[PushedCount + i]

\* The list of a queue without gaps is whole; a queue that never was subscribed
\* has none.
QueueOK(q) ==
  q \notin gaps =>
    /\ q \in DOMAIN subs => Whole(lists[q], subs[q], logged, PushedCount)
    /\ q \notin DOMAIN subs => lists[q] = <<>>

\* A queue that was unsubscribed comes back only from a goroutine that is late.
LeftOK(q) ==
  q \in left /\ (q \in DOMAIN subs \/ \E j \in joining : j[1] = q) => q \in overtaken

LogIInv ==
  /\ RecordsOK /\ BacklogIsComplete
  /\ DOMAIN subs \subseteq Queue /\ lists \in [Queue -> Seq(Record)]
  /\ \A q \in Queue : QueueOK(q) /\ LeftOK(q)

LEMMA LogInitIInv == LogInit => LogIInv
<1> SUFFICES ASSUME LogInit PROVE LogIInv
  OBVIOUS
<1>1. /\ logged = <<>> /\ logChan = <<>> /\ backlog = <<>> /\ subs = <<>> /\ left = {}
      /\ lists = [q \in Queue |-> <<>>] /\ <<>> \in Seq(Record) /\ Len(<<>>) = 0
  BY DEF LogInit
<1>2. RecordsOK
  BY <1>1 DEF RecordsOK
<1>3. BacklogIsComplete
  BY <1>1, LoggingAssumption DEF BacklogIsComplete, PushedRecords, LastOf
<1>4. DOMAIN subs = {} /\ lists \in [Queue -> Seq(Record)]
  BY <1>1
<1>5. ASSUME NEW q \in Queue PROVE QueueOK(q) /\ LeftOK(q)
  BY <1>1, <1>4 DEF QueueOK, LeftOK
<1> QED
  BY <1>2, <1>3, <1>4, <1>5 DEF LogIInv

LEMMA PrefixFacts ==
  ASSUME NEW S, NEW s \in Seq(S), NEW m \in Nat, m <= Len(s)
  PROVE  /\ SubSeq(s, 1, m) \in Seq(S) /\ Len(SubSeq(s, 1, m)) = m
         /\ \A i \in 1 .. m : SubSeq(s, 1, m)[i] = s[i]
OBVIOUS

\* The records pushed.
LEMMA PushedFacts ==
  ASSUME RecordsOK
  PROVE  /\ PushedCount \in Nat /\ PushedCount <= Len(logged)
         /\ PushedRecords \in Seq(Record) /\ Len(PushedRecords) = PushedCount
         /\ \A i \in 1 .. PushedCount : PushedRecords[i] = logged[i]
<1>1. Len(logged) \in Nat /\ Len(logChan) \in Nat /\ PushedCount \in Nat /\ PushedCount <= Len(logged)
  BY DEF RecordsOK, PushedCount
<1>2. PushedRecords = SubSeq(logged, 1, PushedCount)
  BY DEF PushedRecords, PushedCount
<1> HIDE DEF PushedCount
<1>3. /\ SubSeq(logged, 1, PushedCount) \in Seq(Record) /\ Len(SubSeq(logged, 1, PushedCount)) = PushedCount
      /\ \A i \in 1 .. PushedCount : SubSeq(logged, 1, PushedCount)[i] = logged[i]
  <2>1. logged \in Seq(Record)
    BY DEF RecordsOK
  <2> QED
    BY <1>1, <2>1
<1> QED
  BY <1>1, <1>2, <1>3

\* Every record of the channel is next in turn.
LEMMA NextRecord ==
  ASSUME RecordsOK, logChan # <<>>
  PROVE  /\ PushedCount + 1 \in 1 .. Len(logged)
         /\ Head(logChan) = logged[PushedCount + 1] /\ Head(logChan) \in Record
         /\ Head(logChan).n = PushedCount + 1
         /\ Tail(logChan) \in Seq(Record) /\ Len(Tail(logChan)) = Len(logChan) - 1
         /\ \A i \in 1 .. Len(Tail(logChan)) : Tail(logChan)[i] = logChan[i + 1]
<1>1. logChan \in Seq(Record) /\ logged \in Seq(Record) /\ Len(logChan) \in Nat /\ Len(logged) \in Nat
  BY DEF RecordsOK
<1>2. Len(logChan) >= 1 /\ 1 \in 1 .. Len(logChan)
  BY <1>1, EmptySeq
<1>3. PushedCount + 1 \in 1 .. Len(logged)
  BY <1>1, <1>2 DEF RecordsOK, PushedCount
<1>4. Head(logChan) = logChan[1]
  BY <1>1, <1>2
<1>5. Head(logChan) = logged[PushedCount + 1]
  BY <1>2, <1>4 DEF RecordsOK
<1>6. Head(logChan) \in Record /\ Head(logChan).n = PushedCount + 1
  BY <1>1, <1>3, <1>5 DEF RecordsOK
<1>7. /\ Tail(logChan) \in Seq(Record) /\ Len(Tail(logChan)) = Len(logChan) - 1
      /\ \A i \in 1 .. Len(Tail(logChan)) : Tail(logChan)[i] = logChan[i + 1]
  BY <1>1, <1>2, HeadTailProperties
<1> QED
  BY <1>3, <1>5, <1>6, <1>7

\* The buffer: the last of the records that were pushed.
LEMMA BacklogFacts ==
  ASSUME RecordsOK, BacklogIsComplete
  PROVE  /\ backlog \in Seq(Record)
         /\ \E d \in Nat : /\ d + Len(backlog) = PushedCount
                           /\ \A i \in 1 .. Len(backlog) : backlog[i] = logged[d + i] /\ backlog[i].n = d + i
<1> USE LoggingAssumption
<1>1. /\ PushedCount \in Nat /\ PushedCount <= Len(logged) /\ PushedRecords \in Seq(Record)
      /\ Len(PushedRecords) = PushedCount /\ \A i \in 1 .. PushedCount : PushedRecords[i] = logged[i]
  BY PushedFacts
<1>2. backlog = LastOf(PushedRecords, BacklogCap)
  BY DEF BacklogIsComplete
<1>3. backlog \in Seq(Record)
  BY <1>1, <1>2, LastOfIsSuffix
<1>4. PICK k \in 0 .. PushedCount : /\ Len(backlog) = PushedCount - k
                                    /\ \A i \in 1 .. PushedCount - k : backlog[i] = PushedRecords[k + i]
  <2> DEFINE P == PushedRecords
  <2>1. P \in Seq(Record) /\ BacklogCap \in Nat \ {0}
    BY <1>1
  <2>2. Len(P) = PushedCount /\ backlog = LastOf(P, BacklogCap)
    BY <1>1, <1>2
  <2> HIDE DEF P
  <2>3. \E k \in 0 .. Len(P) : /\ Len(LastOf(P, BacklogCap)) = Len(P) - k
                               /\ \A i \in 1 .. Len(P) - k : LastOf(P, BacklogCap)[i] = P[k + i]
    BY <2>1, LastOfIsSuffix
  <2>4. \E k \in 0 .. PushedCount : /\ Len(backlog) = PushedCount - k
                                    /\ \A i \in 1 .. PushedCount - k : backlog[i] = P[k + i]
    BY <2>2, <2>3, Zenon
  <2> QED
    BY <2>4 DEF P
<1>5. k \in Nat /\ k + Len(backlog) = PushedCount
  BY <1>1, <1>4
<1>6. ASSUME NEW i \in 1 .. Len(backlog) PROVE backlog[i] = logged[k + i] /\ backlog[i].n = k + i
  <2>1. k + i \in 1 .. PushedCount /\ k + i \in 1 .. Len(logged) /\ i \in 1 .. PushedCount - k
    <3>1. Len(logged) \in Nat
      BY DEF RecordsOK
    <3> QED
      BY <1>1, <1>4, <1>6, <3>1
  <2>2. backlog[i] = logged[k + i]
    BY <1>1, <1>4, <2>1
  <2> QED
    BY <2>1, <2>2 DEF RecordsOK
<1> QED
  BY <1>3, <1>5, <1>6

\* LogRecord: the record is the last of both.
LEMMA LogRecordIInv == ASSUME LogIInv, NEW l \in LogLevel, LogRecord(l) PROVE LogIInv'
<1> DEFINE r == [n |-> Len(logged) + 1, level |-> l]
<1>1. RecordsOK /\ BacklogIsComplete /\ DOMAIN subs \subseteq Queue /\ lists \in [Queue -> Seq(Record)]
  BY DEF LogIInv
<1>2. /\ logged \in Seq(Record) /\ logChan \in Seq(Record) /\ Len(logged) \in Nat /\ Len(logChan) \in Nat
      /\ r \in Record /\ r.n = Len(logged) + 1
  BY <1>1 DEF RecordsOK, Record
<1>3. logged' = Append(logged, r) /\ logChan' = Append(logChan, r)
  BY DEF LogRecord
<1> HIDE DEF r
<1>4. /\ logged' \in Seq(Record) /\ Len(logged') = Len(logged) + 1 /\ logged'[Len(logged) + 1] = r
      /\ \A i \in 1 .. Len(logged) : logged'[i] = logged[i]
  BY <1>2, <1>3, AppendProperties
<1>5. /\ logChan' \in Seq(Record) /\ Len(logChan') = Len(logChan) + 1 /\ logChan'[Len(logChan) + 1] = r
      /\ \A i \in 1 .. Len(logChan) : logChan'[i] = logChan[i]
  BY <1>2, <1>3, AppendProperties
<1>6. PushedCount' = PushedCount /\ PushedCount \in Nat /\ PushedCount <= Len(logged)
      /\ PushedCount + Len(logChan) = Len(logged)
  BY <1>1, <1>2, <1>4, <1>5, PushedFacts DEF PushedCount
<1>7. RecordsOK'
  <2>1. \A i \in 1 .. Len(logged') : logged'[i].n = i
    <3> TAKE i \in 1 .. Len(logged')
    <3>1. CASE i = Len(logged) + 1
      BY <1>2, <1>4, <3>1
    <3>2. CASE i # Len(logged) + 1
      <4>1. i \in 1 .. Len(logged)
        BY <1>2, <1>4, <3>2
      <4> QED
        BY <1>1, <1>4, <4>1 DEF RecordsOK
    <3> QED
      BY <3>1, <3>2
  <2>2. \A i \in 1 .. Len(logChan') : logChan'[i] = logged'[PushedCount' + i]
    <3> TAKE i \in 1 .. Len(logChan')
    <3>1. CASE i = Len(logChan) + 1
      <4>1. PushedCount + i = Len(logged) + 1
        BY <1>2, <1>6, <3>1
      <4> QED
        BY <1>4, <1>5, <1>6, <3>1, <4>1
    <3>2. CASE i # Len(logChan) + 1
      <4>1. i \in 1 .. Len(logChan) /\ PushedCount + i \in 1 .. Len(logged)
        BY <1>2, <1>5, <1>6, <3>2
      <4>2. logChan[i] = logged[PushedCount + i]
        BY <1>1, <4>1 DEF RecordsOK
      <4> QED
        BY <1>4, <1>5, <1>6, <4>1, <4>2
    <3> QED
      BY <3>1, <3>2
  <2>3. Len(logChan') <= Len(logged')
    BY <1>1, <1>2, <1>4, <1>5 DEF RecordsOK
  <2> QED
    BY <1>4, <1>5, <2>1, <2>2, <2>3 DEF RecordsOK
<1>8. PushedRecords' = PushedRecords
  <2> DEFINE m == PushedCount
  <2>1. PushedRecords = SubSeq(logged, 1, m) /\ PushedRecords' = SubSeq(logged', 1, m)
    BY <1>6 DEF PushedRecords, PushedCount
  <2>2. m \in Nat /\ m <= Len(logged) /\ m <= Len(logged') /\ \A i \in 1 .. m : i \in 1 .. Len(logged)
    BY <1>2, <1>4, <1>6
  <2> HIDE DEF m
  <2>3. /\ SubSeq(logged, 1, m) \in Seq(Record) /\ Len(SubSeq(logged, 1, m)) = m
        /\ \A i \in 1 .. m : SubSeq(logged, 1, m)[i] = logged[i]
    BY <1>2, <2>2, PrefixFacts
  <2>4. /\ SubSeq(logged', 1, m) \in Seq(Record) /\ Len(SubSeq(logged', 1, m)) = m
        /\ \A i \in 1 .. m : SubSeq(logged', 1, m)[i] = logged'[i]
    BY <1>4, <2>2, PrefixFacts
  <2>5. SubSeq(logged', 1, m) = SubSeq(logged, 1, m)
    BY <1>4, <2>2, <2>3, <2>4, SeqEqual
  <2> QED
    BY <2>1, <2>5
<1>9. BacklogIsComplete'
  BY <1>1, <1>8 DEF BacklogIsComplete, LogRecord
<1>10. UNCHANGED <<subs, lists, gaps, left, joining, overtaken>>
  BY DEF LogRecord
<1>11. ASSUME NEW q \in Queue PROVE QueueOK(q)' /\ LeftOK(q)'
  <2>1. QueueOK(q) /\ LeftOK(q)
    BY DEF LogIInv
  <2>2. ASSUME q \notin gaps, q \in DOMAIN subs PROVE Whole(lists[q], subs[q], logged', PushedCount)
    <3>1. Whole(lists[q], subs[q], logged, PushedCount)
      BY <2>1, <2>2 DEF QueueOK
    <3>2. \A n \in 1 .. PushedCount : logged'[n] = logged[n]
      BY <1>2, <1>4, <1>6
    <3> QED
      BY <1>6, <3>1, <3>2, WholeGrow
  <2>3. QueueOK(q)'
    BY <1>6, <1>10, <2>1, <2>2 DEF QueueOK
  <2>4. LeftOK(q)'
    BY <1>10, <2>1 DEF LeftOK
  <2> QED
    BY <2>3, <2>4
<1> QED
  BY <1>1, <1>7, <1>9, <1>10, <1>11 DEF LogIInv

\* A step that moves neither records nor the buffer.
LEMMA SameRecords ==
  ASSUME RecordsOK, BacklogIsComplete, UNCHANGED <<logged, logChan, backlog>>
  PROVE  RecordsOK' /\ BacklogIsComplete' /\ PushedCount' = PushedCount
<1>1. PushedCount' = PushedCount
  BY DEF PushedCount
<1>2. PushedRecords' = PushedRecords
  BY DEF PushedRecords
<1> HIDE DEF PushedCount
<1> QED
  BY <1>1, <1>2 DEF RecordsOK, BacklogIsComplete

\* pushQueues: the buffer takes the record in any case.
LEMMA PushQueuesIInv == ASSUME LogIInv, PushQueues PROVE LogIInv'
<1> USE LoggingAssumption
<1> DEFINE r == Head(logChan)
           m == PushedCount
           wants == {q \in DOMAIN subs : Wanted(subs[q], r)}
<1>1. RecordsOK /\ BacklogIsComplete /\ DOMAIN subs \subseteq Queue /\ lists \in [Queue -> Seq(Record)]
  BY DEF LogIInv
<1>2. logChan # <<>> /\ logChan' = Tail(logChan) /\ UNCHANGED <<logged, subs, joining, left, overtaken>>
  BY DEF PushQueues
<1>3. PICK served \in SUBSET wants : \E untrimmed \in SUBSET served :
           /\ backlog' = LastOf(backlog \o <<r>>, BacklogCap)
           /\ lists' = [q \in Queue |-> IF q \notin served THEN lists[q]
                                        ELSE IF q \in untrimmed THEN Append(lists[q], r)
                                        ELSE LastOf(Append(lists[q], r), QueueCap)]
           /\ gaps' = gaps \cup (wants \ served)
  BY Zenon DEF PushQueues, Appended
<1>4. PICK untrimmed \in SUBSET served :
           /\ backlog' = LastOf(backlog \o <<r>>, BacklogCap)
           /\ lists' = [q \in Queue |-> IF q \notin served THEN lists[q]
                                        ELSE IF q \in untrimmed THEN Append(lists[q], r)
                                        ELSE LastOf(Append(lists[q], r), QueueCap)]
           /\ gaps' = gaps \cup (wants \ served)
  BY <1>3
<1>5. /\ m \in Nat /\ m <= Len(logged) /\ PushedRecords \in Seq(Record) /\ Len(PushedRecords) = m
      /\ \A i \in 1 .. m : PushedRecords[i] = logged[i]
  BY <1>1, PushedFacts
<1>6. /\ m + 1 \in 1 .. Len(logged) /\ r = logged[m + 1] /\ r \in Record /\ r.n = m + 1
      /\ logChan' \in Seq(Record) /\ Len(logChan') = Len(logChan) - 1
      /\ \A i \in 1 .. Len(logChan') : logChan'[i] = logChan[i + 1]
  BY <1>1, <1>2, NextRecord
<1>7. PushedCount' = m + 1
  <2>1. Len(logged) \in Nat /\ Len(logChan) \in Nat
    BY <1>1 DEF RecordsOK
  <2> QED
    BY <1>2, <1>6, <2>1 DEF PushedCount
<1>8. m = Len(logged) - Len(logChan) /\ Len(logged) \in Nat /\ Len(logChan) \in Nat /\ logged \in Seq(Record)
  BY <1>1 DEF RecordsOK, PushedCount
<1>9. PushedRecords' = SubSeq(logged, 1, m + 1) /\ PushedRecords = SubSeq(logged, 1, m)
  BY <1>2, <1>7 DEF PushedRecords, PushedCount
<1> HIDE DEF r, m
<1>10. RecordsOK'
  <2>1. ASSUME NEW i \in 1 .. Len(logChan') PROVE logChan'[i] = logged'[PushedCount' + i]
    <3>0. Len(logChan') = Len(logChan) - 1 /\ Len(logChan) \in Nat /\ m \in Nat
      BY <1>5, <1>6, <1>8
    <3>1. i + 1 \in 1 .. Len(logChan) /\ m + (i + 1) = m + 1 + i
      BY <3>0
    <3>2. logChan[i + 1] = logged[m + (i + 1)]
      BY <1>1, <3>1 DEF RecordsOK, m
    <3> QED
      BY <1>2, <1>6, <1>7, <3>1, <3>2
  <2>2. Len(logChan') <= Len(logged')
    BY <1>2, <1>5, <1>6, <1>8
  <2>3. \A i \in 1 .. Len(logged') : logged'[i].n = i
    BY <1>1, <1>2 DEF RecordsOK
  <2> QED
    BY <1>2, <1>6, <1>8, <2>1, <2>2, <2>3 DEF RecordsOK
<1>11. PushedRecords' = Append(PushedRecords, r)
  <2>1. /\ SubSeq(logged, 1, m + 1) \in Seq(Record) /\ Len(SubSeq(logged, 1, m + 1)) = m + 1
        /\ \A i \in 1 .. m + 1 : SubSeq(logged, 1, m + 1)[i] = logged[i]
    <3>1. m + 1 \in Nat /\ m + 1 <= Len(logged)
      BY <1>5, <1>6, <1>8
    <3> QED
      BY <1>8, <3>1, PrefixFacts
  <2>2. /\ Append(PushedRecords, r) \in Seq(Record) /\ Len(Append(PushedRecords, r)) = m + 1
        /\ Append(PushedRecords, r)[m + 1] = r
        /\ \A i \in 1 .. m : Append(PushedRecords, r)[i] = PushedRecords[i]
    BY <1>5, <1>6, AppendProperties
  <2>3. ASSUME NEW i \in 1 .. m + 1 PROVE SubSeq(logged, 1, m + 1)[i] = Append(PushedRecords, r)[i]
    <3>1. CASE i = m + 1
      BY <1>6, <2>1, <2>2, <3>1
    <3>2. CASE i # m + 1
      <4>1. i \in 1 .. m
        BY <1>5, <3>2
      <4> QED
        BY <1>5, <2>1, <2>2, <4>1
    <3> QED
      BY <3>1, <3>2
  <2> QED
    BY <1>9, <2>1, <2>2, <2>3, SeqEqual
<1>12. BacklogIsComplete'
  <2>1. backlog = LastOf(PushedRecords, BacklogCap)
    BY <1>1 DEF BacklogIsComplete
  <2>2. LastOf(backlog \o <<r>>, BacklogCap) = LastOf(Append(PushedRecords, r), BacklogCap)
    BY <1>5, <1>6, <2>1, LastOfAppend
  <2> QED
    BY <1>4, <1>11, <2>2 DEF BacklogIsComplete
<1>13. lists' \in [Queue -> Seq(Record)]
  <2> SUFFICES ASSUME NEW q \in Queue PROVE lists'[q] \in Seq(Record)
    BY <1>4
  <2>1. lists[q] \in Seq(Record) /\ Append(lists[q], r) \in Seq(Record)
    BY <1>1, <1>6, AppendProperties
  <2>2. LastOf(Append(lists[q], r), QueueCap) \in Seq(Record)
    BY <2>1, LastOfIsSuffix
  <2> QED
    BY <1>4, <2>1, <2>2
<1>14. ASSUME NEW q \in Queue PROVE QueueOK(q)'
  <2> SUFFICES ASSUME q \notin gaps'
               PROVE  /\ q \in DOMAIN subs => Whole(lists'[q], subs[q], logged, m + 1)
                      /\ q \notin DOMAIN subs => lists'[q] = <<>>
    BY <1>2, <1>7 DEF QueueOK
  <2>1. q \notin gaps /\ (q \in wants => q \in served)
    BY <1>4
  <2>2. QueueOK(q)
    BY DEF LogIInv
  <2>3. ASSUME q \notin DOMAIN subs PROVE lists'[q] = <<>>
    <3>1. q \notin served
      BY <2>3
    <3> QED
      BY <1>4, <2>1, <2>2, <2>3, <3>1 DEF QueueOK
  <2>4. ASSUME q \in DOMAIN subs PROVE Whole(lists'[q], subs[q], logged, m + 1)
    <3>1. Whole(lists[q], subs[q], logged, m)
      BY <2>1, <2>2, <2>4 DEF QueueOK, m
    <3>2. CASE ~Wanted(subs[q], r)
      <4>1. q \notin served /\ lists'[q] = lists[q]
        BY <1>4, <3>2
      <4> QED
        BY <1>5, <1>6, <3>1, <3>2, <4>1, WholeSkip
    <3>3. CASE Wanted(subs[q], r)
      <4>1. q \in served
        BY <2>1, <2>4, <3>3
      <4>2. lists'[q] = Append(lists[q], r) \/ lists'[q] = LastOf(Append(lists[q], r), QueueCap)
        BY <1>4, <4>1
      <4>3. Whole(Append(lists[q], r), subs[q], logged, m + 1)
        BY <1>5, <1>6, <3>1, <3>3, WholeAppend
      <4>4. m + 1 \in Nat
        BY <1>5
      <4>5. Whole(LastOf(Append(lists[q], r), QueueCap), subs[q], logged, m + 1)
        BY <4>3, <4>4, WholeLastOf
      <4> QED
        BY <4>2, <4>3, <4>5
    <3> QED
      BY <3>2, <3>3
  <2> QED
    BY <2>3, <2>4
<1>15. ASSUME NEW q \in Queue PROVE LeftOK(q)'
  BY <1>2 DEF LogIInv, LeftOK
<1>16. DOMAIN subs' \subseteq Queue
  BY <1>1, <1>2
<1> QED
  BY <1>10, <1>12, <1>13, <1>14, <1>15, <1>16 DEF LogIInv

\* logger.subscribe: the goroutine is to come, and its queue has not left.
LEMMA SubscribeCommandIInv ==
  ASSUME LogIInv, NEW q \in Queue, NEW lvls, SubscribeCommand(q, lvls)
  PROVE  LogIInv'
<1>1. RecordsOK /\ BacklogIsComplete /\ DOMAIN subs \subseteq Queue /\ lists \in [Queue -> Seq(Record)]
  BY DEF LogIInv
<1>2. UNCHANGED <<logged, logChan, backlog, subs, lists, overtaken, gaps>>
  BY DEF SubscribeCommand
<1>3. RecordsOK' /\ BacklogIsComplete' /\ PushedCount' = PushedCount
  BY <1>1, <1>2, SameRecords
<1>4. ASSUME NEW p \in Queue PROVE QueueOK(p)'
  <2>1. QueueOK(p)
    BY DEF LogIInv
  <2> QED
    BY <1>2, <1>3, <2>1 DEF QueueOK
<1>5. ASSUME NEW p \in Queue PROVE LeftOK(p)'
  <2>1. LeftOK(p)
    BY DEF LogIInv
  <2>2. joining' = joining \cup {<<q, lvls>>} /\ left' = left \ {q}
    BY DEF SubscribeCommand
  <2> QED
    BY <1>2, <2>1, <2>2 DEF LeftOK
<1> QED
  BY <1>1, <1>2, <1>3, <1>4, <1>5 DEF LogIInv

\* Subscribe: a queue that is new holds what the buffer has for it.
LEMMA SubscribeIInv ==
  ASSUME LogIInv, NEW q \in Queue, NEW lvls, Subscribe(q, lvls)
  PROVE  LogIInv'
<1> USE LoggingAssumption
<1>1. RecordsOK /\ BacklogIsComplete /\ DOMAIN subs \subseteq Queue /\ lists \in [Queue -> Seq(Record)]
  BY DEF LogIInv
<1>2. /\ UNCHANGED <<logged, logChan, backlog, left, overtaken>>
      /\ <<q, lvls>> \in joining /\ joining' = joining \ {<<q, lvls>>}
  BY DEF Subscribe
<1>3. RecordsOK' /\ BacklogIsComplete' /\ PushedCount' = PushedCount
  BY <1>1, <1>2, SameRecords
<1>4. CASE q \in DOMAIN subs
  <2>1. UNCHANGED <<subs, lists, gaps>>
    BY <1>4 DEF Subscribe
  <2>2. ASSUME NEW p \in Queue PROVE QueueOK(p)'
    <3>1. QueueOK(p)
      BY DEF LogIInv
    <3> QED
      BY <1>2, <1>3, <2>1, <3>1 DEF QueueOK
  <2>3. ASSUME NEW p \in Queue PROVE LeftOK(p)'
    <3>1. LeftOK(p)
      BY DEF LogIInv
    <3> QED
      BY <1>2, <2>1, <3>1 DEF LeftOK
  <2> QED
    BY <1>1, <1>3, <2>1, <2>2, <2>3 DEF LogIInv
<1>5. CASE q \notin DOMAIN subs
  <2> DEFINE b == Backlog(lvls)
             m == PushedCount
  <2>1. m \in Nat /\ b = Select(backlog, lvls)
    BY <1>1, PushedFacts DEF Backlog
  <2>2. Whole(b, lvls, logged, m)
    <3>1. backlog \in Seq(Record)
      BY <1>1, BacklogFacts
    <3>2. PICK d \in Nat : /\ d + Len(backlog) = m
                           /\ \A i \in 1 .. Len(backlog) : backlog[i] = logged[d + i] /\ backlog[i].n = d + i
      BY <1>1, BacklogFacts
    <3> HIDE DEF m, b
    <3>3. Whole(Select(backlog, lvls), lvls, logged, d + Len(backlog))
      BY <3>1, <3>2, SelectIsWhole
    <3> QED
      BY <2>1, <3>2, <3>3
  <2>3. b \in Seq(Record) /\ Len(b) \in Nat
    BY <2>2 DEF Whole
  <2>4. subs' = [p \in DOMAIN subs \cup {q} |-> IF p = q THEN lvls ELSE subs[p]]
    BY <1>5 DEF Subscribe
  <2>5. \/ lists' = [lists EXCEPT ![q] = LastOf(@ \o b, QueueCap)] /\ UNCHANGED gaps
        \/ \E n \in 0 .. Len(b) : /\ lists' = [lists EXCEPT ![q] = @ \o SubSeq(b, 1, n)]
                                  /\ gaps' = IF n < Len(b) THEN gaps \cup {q} ELSE gaps
    BY <1>5 DEF Subscribe
  <2> HIDE DEF b, m
  <2>6. lists' \in [Queue -> Seq(Record)] /\ (\A p \in Queue : p # q => lists'[p] = lists[p])
        /\ gaps \subseteq gaps' /\ gaps' \subseteq gaps \cup {q}
    <3>1. lists[q] \in Seq(Record)
      BY <1>1
    <3>2. CASE lists' = [lists EXCEPT ![q] = LastOf(@ \o b, QueueCap)] /\ UNCHANGED gaps
      <4>1. lists[q] \o b \in Seq(Record)
        BY <2>3, <3>1, ConcatProperties
      <4>2. LastOf(lists[q] \o b, QueueCap) \in Seq(Record)
        BY <4>1, LastOfIsSuffix
      <4> QED
        BY <1>1, <3>2, <4>2
    <3>3. CASE \E n \in 0 .. Len(b) : /\ lists' = [lists EXCEPT ![q] = @ \o SubSeq(b, 1, n)]
                                       /\ gaps' = IF n < Len(b) THEN gaps \cup {q} ELSE gaps
      <4>1. PICK n \in 0 .. Len(b) : /\ lists' = [lists EXCEPT ![q] = @ \o SubSeq(b, 1, n)]
                                     /\ gaps' = IF n < Len(b) THEN gaps \cup {q} ELSE gaps
        BY <3>3
      <4>2. n \in Nat /\ n <= Len(b)
        BY <2>3
      <4>3. SubSeq(b, 1, n) \in Seq(Record)
        BY <2>3, <4>2, PrefixFacts
      <4>4. lists[q] \o SubSeq(b, 1, n) \in Seq(Record)
        BY <3>1, <4>3, ConcatProperties
      <4> QED
        BY <1>1, <4>1, <4>4
    <3> QED
      BY <2>5, <3>2, <3>3
  <2>7. ASSUME q \notin gaps' PROVE Whole(lists'[q], lvls, logged, m)
    <3>1. QueueOK(q) /\ q \notin gaps
      BY <2>6, <2>7 DEF LogIInv
    <3>2. lists[q] = <<>>
      BY <1>5, <3>1 DEF QueueOK
    <3>3. CASE lists' = [lists EXCEPT ![q] = LastOf(@ \o b, QueueCap)] /\ UNCHANGED gaps
      <4>1. lists'[q] = LastOf(lists[q] \o b, QueueCap)
        BY <1>1, <3>3
      <4>2. lists[q] \o b = b
        BY <2>3, <3>2, ConcatEmptySeq
      <4> QED
        BY <2>1, <2>2, <4>1, <4>2, WholeLastOf
    <3>4. CASE \E n \in 0 .. Len(b) : /\ lists' = [lists EXCEPT ![q] = @ \o SubSeq(b, 1, n)]
                                       /\ gaps' = IF n < Len(b) THEN gaps \cup {q} ELSE gaps
      <4>1. PICK n \in 0 .. Len(b) : /\ lists' = [lists EXCEPT ![q] = @ \o SubSeq(b, 1, n)]
                                     /\ gaps' = IF n < Len(b) THEN gaps \cup {q} ELSE gaps
        BY <3>4
      <4>2. n = Len(b)
        BY <2>3, <2>7, <4>1
      <4>3. SubSeq(b, 1, n) = b
        BY <2>3, <4>2, SubSeqFull
      <4>4. lists[q] \o SubSeq(b, 1, n) = b
        BY <2>3, <3>2, <4>3, ConcatEmptySeq
      <4>5. lists'[q] = b
        BY <1>1, <4>1, <4>4
      <4> QED
        BY <2>2, <4>5
    <3> QED
      BY <2>5, <3>3, <3>4
  <2>8. ASSUME NEW p \in Queue PROVE QueueOK(p)'
    <3>1. CASE p = q
      <4>1. q \in DOMAIN subs' /\ subs'[q] = lvls
        BY <2>4
      <4> QED
        BY <1>2, <1>3, <2>7, <3>1, <4>1 DEF QueueOK, m
    <3>2. CASE p # q
      <4>1. QueueOK(p) /\ lists'[p] = lists[p] /\ (p \in gaps' <=> p \in gaps)
        BY <2>6, <3>2 DEF LogIInv
      <4>2. (p \in DOMAIN subs' <=> p \in DOMAIN subs) /\ (p \in DOMAIN subs => subs'[p] = subs[p])
        BY <2>4, <3>2
      <4> QED
        BY <1>2, <1>3, <4>1, <4>2 DEF QueueOK
    <3> QED
      BY <3>1, <3>2
  <2>9. ASSUME NEW p \in Queue PROVE LeftOK(p)'
    <3>1. LeftOK(p)
      BY DEF LogIInv
    <3>2. p \in DOMAIN subs' => p \in DOMAIN subs \/ \E j \in joining : j[1] = p
      BY <1>2, <2>4
    <3>3. (\E j \in joining' : j[1] = p) => \E j \in joining : j[1] = p
      BY <1>2
    <3> QED
      BY <1>2, <3>1, <3>2, <3>3 DEF LeftOK
  <2>10. DOMAIN subs' \subseteq Queue
    BY <1>1, <2>4
  <2> QED
    BY <1>3, <2>6, <2>8, <2>9, <2>10 DEF LogIInv
<1> QED
  BY <1>4, <1>5

\* logger.unsubscribe: from here on the queue may have gaps.
LEMMA UnsubscribeIInv == ASSUME LogIInv, NEW q \in Queue, Unsubscribe(q) PROVE LogIInv'
<1>1. RecordsOK /\ BacklogIsComplete /\ DOMAIN subs \subseteq Queue /\ lists \in [Queue -> Seq(Record)]
  BY DEF LogIInv
<1>2. /\ UNCHANGED <<logged, logChan, backlog, lists, joining>>
      /\ subs' = [p \in DOMAIN subs \ {q} |-> subs[p]]
      /\ left' = left \cup {q} /\ gaps' = gaps \cup {q}
      /\ overtaken' = IF \E j \in joining : j[1] = q THEN overtaken \cup {q} ELSE overtaken
  BY DEF Unsubscribe, Unsubscribed
<1>3. RecordsOK' /\ BacklogIsComplete' /\ PushedCount' = PushedCount
  BY <1>1, <1>2, SameRecords
<1>4. ASSUME NEW p \in Queue PROVE QueueOK(p)'
  <2>1. CASE p = q
    BY <1>2, <2>1 DEF QueueOK
  <2>2. CASE p # q
    <3>1. /\ QueueOK(p) /\ (p \in gaps' <=> p \in gaps) /\ (p \in DOMAIN subs' <=> p \in DOMAIN subs)
          /\ (p \in DOMAIN subs => subs'[p] = subs[p])
      BY <1>2, <2>2 DEF LogIInv
    <3> QED
      BY <1>2, <1>3, <3>1 DEF QueueOK
  <2> QED
    BY <2>1, <2>2
<1>5. ASSUME NEW p \in Queue PROVE LeftOK(p)'
  <2>1. LeftOK(p)
    BY DEF LogIInv
  <2> QED
    BY <1>2, <2>1 DEF LeftOK
<1> QED
  BY <1>1, <1>2, <1>3, <1>4, <1>5 DEF LogIInv

\* A client reads its list.
LEMMA PopRecordIInv == ASSUME LogIInv, NEW q \in Queue, PopRecord(q) PROVE LogIInv'
<1>1. RecordsOK /\ BacklogIsComplete /\ DOMAIN subs \subseteq Queue /\ lists \in [Queue -> Seq(Record)]
  BY DEF LogIInv
<1>2. /\ UNCHANGED <<logged, logChan, backlog, subs, joining, left, overtaken, gaps>>
      /\ lists[q] # <<>> /\ lists' = [lists EXCEPT ![q] = Tail(@)]
  BY DEF PopRecord
<1>3. RecordsOK' /\ BacklogIsComplete' /\ PushedCount' = PushedCount /\ PushedCount \in Nat
  BY <1>1, <1>2, SameRecords, PushedFacts
<1>4. Tail(lists[q]) \in Seq(Record)
  BY <1>1, <1>2
<1>5. lists' \in [Queue -> Seq(Record)] /\ lists'[q] = Tail(lists[q]) /\ \A p \in Queue : p # q => lists'[p] = lists[p]
  BY <1>1, <1>2, <1>4
<1>6. ASSUME NEW p \in Queue PROVE QueueOK(p)'
  <2>1. QueueOK(p)
    BY DEF LogIInv
  <2>2. CASE p = q
    <3>1. ASSUME q \notin gaps PROVE q \in DOMAIN subs /\ Whole(Tail(lists[q]), subs[q], logged, PushedCount)
      <4>1. q \in DOMAIN subs /\ Whole(lists[q], subs[q], logged, PushedCount)
        BY <1>2, <2>1, <2>2, <3>1 DEF QueueOK
      <4> QED
        BY <1>2, <1>3, <4>1, WholeTail
    <3> QED
      BY <1>2, <1>3, <1>5, <2>2, <3>1 DEF QueueOK
  <2>3. CASE p # q
    BY <1>2, <1>3, <1>5, <2>1, <2>3 DEF QueueOK
  <2> QED
    BY <2>2, <2>3
<1>7. ASSUME NEW p \in Queue PROVE LeftOK(p)'
  <2>1. LeftOK(p)
    BY DEF LogIInv
  <2> QED
    BY <1>2, <2>1 DEF LeftOK
<1> QED
  BY <1>1, <1>2, <1>3, <1>5, <1>6, <1>7 DEF LogIInv

\* The stream logger has a list of its own.
LEMMA StreamLoggerIInv ==
  ASSUME LogIInv, UNCHANGED <<logged, logChan, backlog, subs, lists, joining, left, overtaken, gaps>>
  PROVE  LogIInv'
<1>1. RecordsOK /\ BacklogIsComplete
  BY DEF LogIInv
<1>2. RecordsOK' /\ BacklogIsComplete' /\ PushedCount' = PushedCount
  BY <1>1, SameRecords
<1>3. ASSUME NEW p \in Queue PROVE QueueOK(p)' /\ LeftOK(p)'
  <2>1. QueueOK(p) /\ LeftOK(p)
    BY DEF LogIInv
  <2>2. QueueOK(p)'
    BY <1>2, <2>1 DEF QueueOK
  <2>3. LeftOK(p)'
    BY <2>1 DEF LeftOK
  <2> QED
    BY <2>2, <2>3
<1> QED
  BY <1>2, <1>3 DEF LogIInv

LEMMA LogNextIInv == ASSUME LogIInv, [LogNext]_logVars PROVE LogIInv'
<1>1. CASE \E l \in LogLevel : LogRecord(l)
  BY <1>1, LogRecordIInv
<1>2. CASE PushQueues
  BY <1>2, PushQueuesIInv
<1>3. CASE StreamPush
  BY <1>3, StreamLoggerIInv DEF StreamPush
<1>4. CASE StreamExpire
  BY <1>4, StreamLoggerIInv DEF StreamExpire
<1>5. CASE \E q \in Queue, lvls \in {{}, {"err"}} : SubscribeCommand(q, lvls)
  BY <1>5, SubscribeCommandIInv
<1>6. CASE \E q \in Queue, lvls \in {{}, {"err"}} : Subscribe(q, lvls)
  BY <1>6, SubscribeIInv
<1>7. CASE \E q \in Queue : Unsubscribe(q)
  BY <1>7, UnsubscribeIInv
<1>8. CASE \E q \in Queue : PopRecord(q)
  BY <1>8, PopRecordIInv
<1>9. CASE UNCHANGED logVars
  BY <1>9, StreamLoggerIInv DEF logVars
<1> QED
  BY <1>1, <1>2, <1>3, <1>4, <1>5, <1>6, <1>7, <1>8, <1>9 DEF LogNext

\* What is whole has no holes.
LEMMA LogIInvImplies == LogIInv => SubscribersMissNothing
<1> SUFFICES ASSUME LogIInv PROVE SubscribersMissNothing
  OBVIOUS
<1>1. RecordsOK /\ BacklogIsComplete /\ DOMAIN subs \subseteq Queue
  BY DEF LogIInv
<1>2. UnsubscribedStays
  BY <1>1 DEF UnsubscribedStays, LogIInv, LeftOK
<1>3. ASSUME NEW q \in DOMAIN subs, q \notin gaps
      PROVE  /\ \A i \in 1 .. Len(lists[q]) - 1 : lists[q][i].n < lists[q][i + 1].n
             /\ lists[q] # <<>> =>
                  Numbers(lists[q]) = {n \in {r.n : r \in {x \in ToSet(PushedRecords) : Wanted(subs[q], x)}}
                                         : n >= lists[q][1].n}
  <2> DEFINE l == lists[q]
             m == PushedCount
             P == PushedRecords
             through == {x \in ToSet(P) : Wanted(subs[q], x)}
  <2>1. Whole(l, subs[q], logged, m)
    BY <1>1, <1>3 DEF LogIInv, QueueOK
  <2>2. /\ m \in Nat /\ m <= Len(logged) /\ Len(logged) \in Nat /\ P \in Seq(Record) /\ Len(P) = m
        /\ \A i \in 1 .. m : P[i] = logged[i]
    BY <1>1, PushedFacts DEF RecordsOK
  <2>3. \A i \in 1 .. m : P[i] = logged[i] /\ logged[i].n = i
    <3>1. \A i \in 1 .. m : i \in 1 .. Len(logged)
      BY <2>2
    <3> QED
      BY <1>1, <2>2, <3>1 DEF RecordsOK
  <2> HIDE DEF l, m, P
  <2>4. l \in Seq(Record) /\ Len(l) \in Nat /\ DOMAIN l = 1 .. Len(l) /\ DOMAIN P = 1 .. m
    BY <2>1, <2>2 DEF Whole
  <2>5. ASSUME NEW i \in 1 .. Len(l) - 1 PROVE l[i].n < l[i + 1].n
    <3>1. i \in 1 .. Len(l) /\ i + 1 \in 1 .. Len(l) /\ i < i + 1
      BY <2>4
    <3> QED
      BY <2>1, <3>1 DEF Whole
  <2>6. ToSet(P) = {logged[i] : i \in 1 .. m}
    BY <2>3, <2>4 DEF ToSet
  <2>7. ASSUME l # <<>> PROVE Numbers(l) = {n \in {r.n : r \in through} : n >= l[1].n}
    <3>1. ASSUME NEW i \in 1 .. Len(l) PROVE l[i] \in through /\ l[i].n >= l[1].n
      <4>1. l[i].n \in 1 .. m /\ l[i] = logged[l[i].n] /\ Wanted(subs[q], l[i]) /\ 1 \in 1 .. Len(l) /\ l[1].n \in 1 .. m
        <5>1. 1 \in 1 .. Len(l)
          BY <2>4, <3>1
        <5> QED
          BY <2>1, <3>1, <5>1 DEF Whole
      <4>2. l[i] \in through
        BY <2>6, <4>1
      <4>3. 1 < i => l[1].n < l[i].n
        BY <2>1, <3>1, <4>1 DEF Whole
      <4> QED
        BY <3>1, <4>1, <4>2, <4>3
    <3>2. ASSUME NEW x \in through, x.n >= l[1].n PROVE \E i \in 1 .. Len(l) : l[i].n = x.n
      <4>1. PICK n \in 1 .. m : x = logged[n]
        BY <2>6, <3>2
      <4>2. x.n = n /\ Wanted(subs[q], logged[n])
        BY <2>3, <3>2, <4>1
      <4> QED
        BY <2>1, <2>7, <3>2, <4>2 DEF Whole
    <3> HIDE DEF through
    <3>3. Numbers(l) = {l[i].n : i \in 1 .. Len(l)}
      BY <2>4 DEF Numbers
    <3>4. Numbers(l) \subseteq {n \in {r.n : r \in through} : n >= l[1].n}
      BY <3>1, <3>3
    <3>5. {n \in {r.n : r \in through} : n >= l[1].n} \subseteq Numbers(l)
      BY <3>2, <3>3
    <3> QED
      BY <3>4, <3>5
  <2> QED
    BY <2>5, <2>7 DEF l, P
<1>4. NoHoles
  BY <1>3 DEF NoHoles
<1> QED
  BY <1>1, <1>2, <1>4 DEF SubscribersMissNothing

\* However records, subscriptions and failures of redis come, and for any number of
\* queues and any capacity, a subscriber's list has no hole, the backlog is
\* complete and a queue that left stays away (pushQueues, Subscribe, unSubscribe).
THEOREM SubscribersGetAll == LogSpec => []SubscribersMissNothing
<1>1. LogSpec => []LogIInv
  BY LogInitIInv, LogNextIInv, PTL DEF LogSpec
<1> QED
  BY <1>1, LogIInvImplies, PTL

-----------------------------------------------------------------------------
(* What Stats counts.                                                      *)

\* The values that the state in redis was fed.
Kept == IF stored = <<>> THEN 0 ELSE Len(stored[1].fed)

StoredOK == stored = <<>> \/ \E s : stored = <<s>> /\ Len(s.fed) \in Nat /\ \E S : s.fed \in Seq(S)

\* A call of Stats, at each of its places.
CallOK(f) ==
  \/ feeding[f] = Idle
  \/ \E v, s : /\ feeding[f] = [pc |-> "feed", value |-> v, state |-> <<s>>]
               /\ \E S : s.fed \in Seq(S)
               /\ ~disturbed => Len(s.fed) = Kept
  \/ \E v, s, t : /\ feeding[f] = [pc |-> "set", value |-> v, state |-> <<s, t>>]
                  /\ \E S : t.fed \in Seq(S)
                  /\ ~disturbed => Len(t.fed) = Kept + 1

\* Undisturbed, there is one call at a time, and its value is the one to come.
CallsCount ==
  ~disturbed =>
    /\ ~evicting
    /\ \A f, g \in Feeder : Busy(f) /\ Busy(g) => f = g
    /\ feeds = IF \E f \in Feeder : Busy(f) THEN Kept + 1 ELSE Kept

\* A call in progress has touched the cache.
CallsAreTracked == \A f \in Feeder : Busy(f) => tracked

StatsIInv ==
  /\ StoredOK /\ feeds \in Nat /\ redisErrors \in Nat /\ disturbed \in BOOLEAN
  /\ DOMAIN feeding = Feeder /\ feeding = [f \in Feeder |-> feeding[f]]
  /\ \A f \in Feeder : CallOK(f)
  /\ CallsCount /\ CallsAreTracked /\ StoredIsTracked

LEMMA StatsInitIInv == StatsInit => StatsIInv
<1> SUFFICES ASSUME StatsInit PROVE StatsIInv
  OBVIOUS
<1>1. \A f \in Feeder : feeding[f] = Idle /\ ~Busy(f)
  BY DEF StatsInit, Busy, Idle
<1>2. \A f \in Feeder : CallOK(f)
  BY <1>1 DEF CallOK
<1>3. CallsCount
  BY <1>1 DEF StatsInit, CallsCount, Kept
<1> QED
  BY <1>1, <1>2, <1>3 DEF StatsInit, StatsIInv, StoredOK, CallsAreTracked, StoredIsTracked

\* A call that is in progress is busy.
LEMMA BusyCalls ==
  ASSUME NEW f, CallOK(f)
  PROVE  Busy(f) <=> feeding[f] # Idle
<1>1. CASE feeding[f] = Idle
  BY <1>1 DEF Busy, Idle
<1>2. CASE feeding[f] # Idle
  <2>1. \/ \E v, s : feeding[f] = [pc |-> "feed", value |-> v, state |-> <<s>>]
        \/ \E v, s, t : feeding[f] = [pc |-> "set", value |-> v, state |-> <<s, t>>]
    BY <1>2, Zenon DEF CallOK
  <2>2. CASE \E v, s : feeding[f] = [pc |-> "feed", value |-> v, state |-> <<s>>]
    <3>1. PICK v, s : feeding[f] = [pc |-> "feed", value |-> v, state |-> <<s>>]
      BY <2>2
    <3>2. feeding[f].pc = "feed"
      BY <3>1
    <3> QED
      BY <1>2, <3>2 DEF Busy
  <2>3. CASE \E v, s, t : feeding[f] = [pc |-> "set", value |-> v, state |-> <<s, t>>]
    <3>1. PICK v, s, t : feeding[f] = [pc |-> "set", value |-> v, state |-> <<s, t>>]
      BY <2>3
    <3>2. feeding[f].pc = "set"
      BY <3>1
    <3> QED
      BY <1>2, <3>2 DEF Busy
  <2> QED
    BY <2>1, <2>2, <2>3
<1> QED
  BY <1>1, <1>2

LEMMA KeptIsNat == ASSUME StoredOK PROVE Kept \in Nat
BY DEF StoredOK, Kept

\* Nothing that a call knows has changed.
LEMMA SameCall ==
  ASSUME NEW f, CallOK(f), feeding'[f] = feeding[f], stored' = stored, disturbed' \/ disturbed' = disturbed
  PROVE  CallOK(f)'
<1>1. Kept' = Kept /\ (~disturbed' => ~disturbed)
  BY DEF Kept
<1>2. CASE feeding[f] = Idle
  BY <1>2 DEF CallOK, Idle
<1>3. CASE \E v, s : /\ feeding[f] = [pc |-> "feed", value |-> v, state |-> <<s>>]
                     /\ \E S : s.fed \in Seq(S)
                     /\ ~disturbed => Len(s.fed) = Kept
  <2>1. \E v, s : /\ feeding'[f] = [pc |-> "feed", value |-> v, state |-> <<s>>]
                  /\ \E S : s.fed \in Seq(S)
                  /\ ~disturbed' => Len(s.fed) = Kept'
    BY <1>1, <1>3
  <2> QED
    BY <2>1 DEF CallOK
<1>4. CASE \E v, s, t : /\ feeding[f] = [pc |-> "set", value |-> v, state |-> <<s, t>>]
                        /\ \E S : t.fed \in Seq(S)
                        /\ ~disturbed => Len(t.fed) = Kept + 1
  <2>1. \E v, s, t : /\ feeding'[f] = [pc |-> "set", value |-> v, state |-> <<s, t>>]
                     /\ \E S : t.fed \in Seq(S)
                     /\ ~disturbed' => Len(t.fed) = Kept' + 1
    BY <1>1, <1>4
  <2> QED
    BY <2>1 DEF CallOK
<1> QED
  BY <1>2, <1>3, <1>4 DEF CallOK

\* Once disturbed, a call has only its form.
LEMMA DisturbedCall ==
  ASSUME NEW f, CallOK(f), feeding'[f] = feeding[f], disturbed'
  PROVE  CallOK(f)'
<1>1. CASE feeding[f] = Idle
  BY <1>1 DEF CallOK, Idle
<1>2. CASE \E v, s : feeding[f] = [pc |-> "feed", value |-> v, state |-> <<s>>] /\ \E S : s.fed \in Seq(S)
  <2>1. \E v, s : /\ feeding'[f] = [pc |-> "feed", value |-> v, state |-> <<s>>]
                  /\ \E S : s.fed \in Seq(S)
                  /\ ~disturbed' => Len(s.fed) = Kept'
    BY <1>2
  <2> QED
    BY <2>1 DEF CallOK
<1>3. CASE \E v, s, t : feeding[f] = [pc |-> "set", value |-> v, state |-> <<s, t>>] /\ \E S : t.fed \in Seq(S)
  <2>1. \E v, s, t : /\ feeding'[f] = [pc |-> "set", value |-> v, state |-> <<s, t>>]
                     /\ \E S : t.fed \in Seq(S)
                     /\ ~disturbed' => Len(t.fed) = Kept' + 1
    BY <1>3
  <2> QED
    BY <2>1 DEF CallOK
<1> QED
  BY <1>1, <1>2, <1>3 DEF CallOK

\* get: the call begins with what is in redis.
LEMMA StatsGetIInv == ASSUME StatsIInv, NEW f \in Feeder, NEW v \in Value, StatsGet(f, v) PROVE StatsIInv'
<1> USE DEF StatsIInv
<1>1. /\ ~Busy(f) /\ feeds' = feeds + 1 /\ tracked' /\ UNCHANGED <<stored, evicting>>
  BY DEF StatsGet
<1>2. StoredOK' /\ Kept' = Kept /\ Kept \in Nat /\ feeds' \in Nat
  BY <1>1, KeptIsNat DEF StoredOK, Kept
<1>3. StoredIsTracked' /\ CallsAreTracked'
  BY <1>1 DEF StoredIsTracked, CallsAreTracked
<1>4. CASE redisErrors' = redisErrors + 1 /\ disturbed' = TRUE /\ UNCHANGED feeding
  <2>1. \A g \in Feeder : CallOK(g)'
    BY <1>4, DisturbedCall
  <2>2. CallsCount'
    BY <1>4 DEF CallsCount
  <2> QED
    BY <1>2, <1>3, <1>4, <2>1, <2>2
<1>5. CASE /\ feeding' = [feeding EXCEPT ![f] = [pc |-> "feed", value |-> v,
                                                 state |-> IF stored = <<>> THEN <<NewState>> ELSE stored]]
           /\ disturbed' = (disturbed \/ evicting \/ \E g \in Feeder : Busy(g))
           /\ UNCHANGED redisErrors
  <2>1. \E s : /\ (IF stored = <<>> THEN <<NewState>> ELSE stored) = <<s>>
               /\ (\E S : s.fed \in Seq(S)) /\ Len(s.fed) = Kept
    <3>1. CASE stored = <<>>
      <4>1. NewState.fed = <<>> /\ <<>> \in Seq({}) /\ Len(<<>>) = 0
        BY DEF NewState
      <4>2. (IF stored = <<>> THEN <<NewState>> ELSE stored) = <<NewState>> /\ Kept = 0
        BY <3>1 DEF Kept
      <4>3. (\E S : NewState.fed \in Seq(S)) /\ Len(NewState.fed) = Kept
        BY <4>1, <4>2
      <4> HIDE DEF NewState
      <4> QED
        BY <4>2, <4>3
    <3>2. CASE stored # <<>>
      BY <3>2 DEF Kept, StoredOK
    <3> QED
      BY <3>1, <3>2
  <2>2. PICK s : /\ (IF stored = <<>> THEN <<NewState>> ELSE stored) = <<s>>
                 /\ (\E S : s.fed \in Seq(S)) /\ Len(s.fed) = Kept
    BY <2>1
  <2>3. /\ feeding'[f] = [pc |-> "feed", value |-> v, state |-> <<s>>] /\ DOMAIN feeding' = Feeder
        /\ feeding' = [g \in Feeder |-> feeding'[g]] /\ \A g \in Feeder : g # f => feeding'[g] = feeding[g]
    BY <1>5, <2>2
  <2>4. disturbed' \in BOOLEAN /\ (~disturbed' => ~disturbed /\ ~evicting /\ \A g \in Feeder : ~Busy(g))
    BY <1>5
  <2>5. ASSUME NEW g \in Feeder PROVE CallOK(g)'
    <3>1. CASE g = f
      <4>1. \E w, t : /\ feeding'[f] = [pc |-> "feed", value |-> w, state |-> <<t>>]
                      /\ \E S : t.fed \in Seq(S)
                      /\ ~disturbed' => Len(t.fed) = Kept'
        BY <1>2, <2>2, <2>3
      <4> QED
        BY <3>1, <4>1 DEF CallOK
    <3>2. CASE g # f
      BY <1>1, <1>5, <2>3, <3>2, SameCall
    <3> QED
      BY <3>1, <3>2
  <2>6. CallsCount'
    <3> SUFFICES ASSUME ~disturbed'
                 PROVE  /\ ~evicting'
                        /\ \A g, h \in Feeder : Busy(g)' /\ Busy(h)' => g = h
                        /\ feeds' = IF \E g \in Feeder : Busy(g)' THEN Kept' + 1 ELSE Kept'
      BY DEF CallsCount
    <3>1. Busy(f)' /\ \A g \in Feeder : g # f => ~Busy(g)'
      BY <2>3, <2>4 DEF Busy
    <3>2. feeds = Kept
      BY <2>4 DEF CallsCount
    <3> QED
      BY <1>1, <1>2, <2>4, <3>1, <3>2
  <2> QED
    BY <1>2, <1>3, <1>5, <2>3, <2>4, <2>5, <2>6
<1> QED
  BY <1>4, <1>5 DEF StatsGet, Fails

\* feed: the value is in the state that the call will write.
LEMMA StatsFeedIInv == ASSUME StatsIInv, NEW f \in Feeder, StatsFeed(f) PROVE StatsIInv'
<1> USE DEF StatsIInv
<1>1. feeding[f].pc = "feed" /\ UNCHANGED <<stored, evicting, tracked, feeds>>
  BY DEF StatsFeed
<1>2. PICK v, s : /\ feeding[f] = [pc |-> "feed", value |-> v, state |-> <<s>>]
                  /\ \E S : s.fed \in Seq(S)
                  /\ ~disturbed => Len(s.fed) = Kept
  <2>1. feeding[f] # Idle /\ ~ \E v, s, t : feeding[f] = [pc |-> "set", value |-> v, state |-> <<s, t>>]
    BY <1>1 DEF Idle
  <2> QED
    BY <2>1 DEF CallOK
<1> DEFINE t == FeedOn(s, v, clock)
<1>3. feeding' = [feeding EXCEPT ![f] = [pc |-> "set", value |-> v, state |-> <<s, t>>]]
  <2>1. feeding[f].state[1] = s /\ feeding[f].value = v
    BY <1>2
  <2> QED
    BY <2>1, Zenon DEF StatsFeed
<1>4. t.fed = Append(s.fed, [value |-> v, time |-> clock])
  BY DEF FeedOn
<1> HIDE DEF t
<1>5. /\ feeding'[f] = [pc |-> "set", value |-> v, state |-> <<s, t>>] /\ DOMAIN feeding' = Feeder
      /\ feeding' = [g \in Feeder |-> feeding'[g]] /\ \A g \in Feeder : g # f => feeding'[g] = feeding[g]
  BY <1>2, <1>3
<1>6. (\E S : t.fed \in Seq(S)) /\ Len(t.fed) = Len(s.fed) + 1
  <2>1. PICK S : s.fed \in Seq(S)
    BY <1>2
  <2> DEFINE r == [value |-> v, time |-> clock]
  <2> HIDE DEF r
  <2>2. s.fed \in Seq(S \cup {r}) /\ r \in S \cup {r}
    BY <2>1, SeqMonotonic
  <2>3. Append(s.fed, r) \in Seq(S \cup {r}) /\ Len(Append(s.fed, r)) = Len(s.fed) + 1
    BY <2>2, AppendProperties
  <2> QED
    BY <1>4, <2>3 DEF r
<1>7. StoredOK' /\ Kept' = Kept /\ Kept \in Nat
  BY <1>1, KeptIsNat DEF StoredOK, Kept
<1>8. redisErrors' \in Nat /\ disturbed' \in BOOLEAN /\ (~disturbed' => ~disturbed) /\ (disturbed' \/ disturbed' = disturbed)
      /\ (redisErrors' = 0 => redisErrors = 0)
  <2>1. UNCHANGED <<redisErrors, disturbed>> \/ (redisErrors' = redisErrors + 1 /\ disturbed' = TRUE)
    BY Zenon DEF StatsFeed, Fails
  <2>2. CASE UNCHANGED <<redisErrors, disturbed>>
    BY <2>2
  <2>3. CASE redisErrors' = redisErrors + 1 /\ disturbed' = TRUE
    <3>1. redisErrors \in Nat
      OBVIOUS
    <3> HIDE DEF StatsIInv
    <3> QED
      BY <2>3, <3>1
  <2> QED
    BY <2>1, <2>2, <2>3
<1>9. ASSUME NEW g \in Feeder PROVE CallOK(g)'
  <2>1. CASE g = f
    <3>1. \E w, x, y : /\ feeding'[f] = [pc |-> "set", value |-> w, state |-> <<x, y>>]
                       /\ \E S : y.fed \in Seq(S)
                       /\ ~disturbed' => Len(y.fed) = Kept' + 1
      BY <1>2, <1>5, <1>6, <1>7, <1>8
    <3>2. CallOK(f)'
      BY <3>1 DEF CallOK
    <3> QED
      BY <2>1, <3>2
  <2>2. CASE g # f
    BY <1>1, <1>5, <1>8, <2>2, SameCall
  <2> QED
    BY <2>1, <2>2
<1>10. \A g \in Feeder : Busy(g)' <=> Busy(g)
  BY <1>1, <1>5 DEF Busy
<1>11. CallsCount'
  BY <1>1, <1>7, <1>8, <1>10 DEF CallsCount
<1>12. CallsAreTracked' /\ StoredIsTracked'
  BY <1>1, <1>8, <1>10 DEF CallsAreTracked, StoredIsTracked
<1> QED
  BY <1>1, <1>5, <1>7, <1>8, <1>9, <1>11, <1>12

\* set: what was fed is in redis, or the call failed.
LEMMA StatsSetIInv == ASSUME StatsIInv, NEW f \in Feeder, StatsSet(f) PROVE StatsIInv'
<1> USE DEF StatsIInv
<1>1. feeding[f].pc = "set" /\ UNCHANGED <<evicting, tracked, feeds>> /\ feeding' = [feeding EXCEPT ![f] = Idle]
  BY DEF StatsSet
<1>2. PICK v, s, t : /\ feeding[f] = [pc |-> "set", value |-> v, state |-> <<s, t>>]
                     /\ \E S : t.fed \in Seq(S)
                     /\ ~disturbed => Len(t.fed) = Kept + 1
  <2>1. feeding[f] # Idle /\ ~ \E v, s : feeding[f] = [pc |-> "feed", value |-> v, state |-> <<s>>]
    BY <1>1 DEF Idle
  <2> QED
    BY <2>1 DEF CallOK
<1>3. /\ feeding'[f] = Idle /\ DOMAIN feeding' = Feeder
      /\ feeding' = [g \in Feeder |-> feeding'[g]] /\ \A g \in Feeder : g # f => feeding'[g] = feeding[g]
  BY <1>1
<1>4. Busy(f) /\ ~Busy(f)' /\ \A g \in Feeder : g # f => (Busy(g)' <=> Busy(g))
  BY <1>1, <1>3 DEF Busy, Idle
<1>5. tracked /\ CallsAreTracked'
  BY <1>1, <1>4 DEF CallsAreTracked
<1>6. StoredIsTracked'
  BY <1>1, <1>5 DEF StoredIsTracked
<1>7. CallOK(f)'
  BY <1>3 DEF CallOK, Idle
<1>8. CASE stored' = <<t>> /\ UNCHANGED <<redisErrors, disturbed>>
  <2>1. Len(t.fed) \in Nat /\ StoredOK' /\ Kept' = Len(t.fed)
    BY <1>2, <1>8 DEF StoredOK, Kept
  <2>2. ASSUME ~disturbed
        PROVE  /\ ~evicting /\ feeds = Kept' /\ \A g \in Feeder : ~Busy(g)'
    <3>1. \A g \in Feeder : g # f => ~Busy(g)
      BY <1>4, <2>2 DEF CallsCount
    <3>2. feeds = Kept + 1 /\ ~evicting
      BY <1>4, <2>2 DEF CallsCount
    <3> QED
      BY <1>2, <1>4, <2>1, <2>2, <3>1, <3>2
  <2>3. CallsCount'
    BY <1>1, <1>8, <2>2 DEF CallsCount
  <2>4. ASSUME NEW g \in Feeder, g # f PROVE CallOK(g)'
    <3>1. CASE disturbed
      BY <1>3, <1>8, <2>4, <3>1, DisturbedCall
    <3>2. CASE ~disturbed
      <4>1. feeding'[g] = Idle
        <5>1. ~Busy(g)
          BY <1>4, <2>4, <3>2 DEF CallsCount
        <5> QED
          BY <1>3, <2>4, <5>1, BusyCalls
      <4> QED
        BY <4>1 DEF CallOK, Idle
    <3> QED
      BY <3>1, <3>2
  <2> QED
    BY <1>1, <1>3, <1>5, <1>6, <1>7, <1>8, <2>1, <2>3, <2>4
<1>9. CASE redisErrors' = redisErrors + 1 /\ disturbed' = TRUE /\ UNCHANGED stored
  <2>1. \A g \in Feeder : CallOK(g)'
    BY <1>3, <1>7, <1>9, DisturbedCall
  <2>2. CallsCount' /\ StoredOK'
    BY <1>9 DEF CallsCount, StoredOK
  <2> QED
    BY <1>1, <1>3, <1>5, <1>6, <1>9, <2>1, <2>2
<1>10. <<feeding[f].state[2]>> = <<t>>
  BY <1>2
<1> QED
  BY <1>8, <1>9, <1>10 DEF StatsSet, Saves, Fails

LEMMA StatsNextIInv == ASSUME StatsIInv, [StatsNext]_statsVars PROVE StatsIInv'
<1>1. CASE \E f \in Feeder : \E v \in Value : StatsGet(f, v)
  BY <1>1, StatsGetIInv
<1>2. CASE \E f \in Feeder : StatsFeed(f)
  BY <1>2, StatsFeedIInv
<1>3. CASE \E f \in Feeder : StatsSet(f)
  BY <1>3, StatsSetIInv
<1>4. CASE Expire
  <2> USE DEF StatsIInv
  <2>1. evicting' /\ disturbed' = TRUE /\ UNCHANGED <<stored, feeding, feeds, redisErrors>> /\ \A f \in Feeder : ~Busy(f)
    BY <1>4 DEF Expire
  <2>2. \A f \in Feeder : CallOK(f)'
    BY <2>1, DisturbedCall
  <2>3. CallsCount' /\ CallsAreTracked' /\ StoredIsTracked' /\ StoredOK'
    BY <2>1 DEF CallsCount, CallsAreTracked, StoredIsTracked, StoredOK, Busy
  <2> QED
    BY <2>1, <2>2, <2>3
<1>5. CASE OnEvicted
  <2> USE DEF StatsIInv
  <2>1. evicting /\ disturbed /\ disturbed' = TRUE /\ UNCHANGED <<feeding, feeds, tracked>> /\ redisErrors' \in Nat
    BY <1>5 DEF OnEvicted, CallsCount, Fails
  <2>2. \A f \in Feeder : CallOK(f)'
    BY <2>1, DisturbedCall
  <2>3. stored' = <<>> \/ (stored' = stored /\ redisErrors' # 0)
    BY <1>5 DEF OnEvicted, Evicted, Fails
  <2>4. CallsCount' /\ CallsAreTracked' /\ StoredIsTracked' /\ StoredOK'
    BY <2>1, <2>3 DEF CallsCount, CallsAreTracked, StoredIsTracked, StoredOK, Busy
  <2> QED
    BY <2>1, <2>2, <2>4
<1>6. CASE UNCHANGED <<stored, tracked, evicting, feeding, feeds, redisErrors, disturbed>>
  <2> USE DEF StatsIInv
  <2>1. \A f \in Feeder : CallOK(f)'
    BY <1>6, SameCall
  <2>2. CallsCount' /\ CallsAreTracked' /\ StoredIsTracked' /\ StoredOK'
    BY <1>6 DEF CallsCount, CallsAreTracked, StoredIsTracked, StoredOK, Busy, Kept
  <2> QED
    BY <1>6, <2>1, <2>2
<1> QED
  BY <1>1, <1>2, <1>3, <1>4, <1>5, <1>6 DEF StatsNext, statsVars, Tick

\* Whatever goroutines feed a metric, a value is lost only if calls overlap, redis
\* fails or the state was evicted, and a state in redis is one the cache will
\* delete (Stats, OnEvicted).
THEOREM StatsKeepValues == StatsSpec => []ValuesAreKept
<1>1. StatsSpec => []StatsIInv
  BY StatsInitIInv, StatsNextIInv, PTL DEF StatsSpec
<1>2. StatsIInv => ValuesAreKept
  BY DEF StatsIInv, ValuesAreKept, NothingLost, CallsCount, Kept
<1> QED
  BY <1>1, <1>2, PTL
=============================================================================
