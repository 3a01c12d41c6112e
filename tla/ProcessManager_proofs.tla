------------------------- MODULE ProcessManager_proofs -------------------------
(***************************************************************************)
(* Proofs about ProcessManager, for every set of jobs, ids and queues and  *)
(* every value of MaxJobs: the job table is exact and the queues are       *)
(* serial.                                                                 *)
(*                                                                         *)
(* The properties are not inductive: that Notify removes the job it was    *)
(* called for rests on what the queues hold and on who may be between the  *)
(* lock and the unlock of a queue. IInv states all of it.                  *)
(***************************************************************************)
EXTENDS ProcessManager, FiniteSetTheorems, TLAPS

\* jobsM is held exactly from RunFactory's registration to its return.
JobsMHolder == \A j \in Job : submit[j] \in {"push", "send", "return"} <=> jobsM = j

\* The queue's lock is held by whoever is sending on the channel, or has sent
\* and not returned.
QLockHolder ==
  \A j \in Job :
    (submit[j] \in {"send", "return"} \/ runner[j] \in {"handover", "unlock"}) <=> qlock = j

\* A job that is not yet received by the dispatcher has not started, and one that
\* is cannot be cleaned up before RunFactory returns.
SubmittedWaits ==
  \A j \in Job :
    /\ submit[j] \in {"push", "send"} => runner[j] = "queued"
    /\ submit[j] = "return" => runner[j] \in {"running", "delete"}

\* A queue holds jobs of its own, which wait or, the first of them, are started.
QueueMembers ==
  \A q \in QueueName : \A i \in 1 .. Len(queues[q]) :
    /\ CmdQueue[queues[q][i]] = q
    /\ runner[queues[q][i]] = "queued" \/ (i = 1 /\ Occupies(queues[q][i]))

\* No job is twice in a queue.
QueueDistinct ==
  \A q \in QueueName : \A i, k \in 1 .. Len(queues[q]) :
    queues[q][i] = queues[q][k] => i = k

\* A job that is about to be pushed is not in its queue.
PushedIsNew ==
  \A j \in Job : (submit[j] = "push" /\ Queued(j)) =>
    \A i \in 1 .. Len(queues[CmdQueue[j]]) : queues[CmdQueue[j]][i] # j

IsFront(j) == queues[CmdQueue[j]] # <<>> /\ queues[CmdQueue[j]][1] = j

\* A started job is the first of its queue until Notify removes it, and so is a
\* job that Push is sending.
FrontIsStarted ==
  \A j \in Job : (Queued(j) /\ (Occupies(j) \/ submit[j] = "send")) => IsFront(j)

\* A job that Notify is sending is the first of its queue and has not started.
HandoverIsFront ==
  \A j \in Job : runner[j] = "handover" =>
    /\ Queued(j)
    /\ queues[CmdQueue[j]] # <<>>
    /\ runner[queues[CmdQueue[j]][1]] = "queued"

QueueInv ==
  /\ QueueMembers /\ QueueDistinct /\ PushedIsNew /\ FrontIsStarted /\ HandoverIsFront

IInv ==
  /\ TypeOK /\ TableIsExact /\ JobsMHolder /\ QLockHolder /\ SubmittedWaits /\ QueueInv

-----------------------------------------------------------------------------
(* What Push and Notify make of a queue.                                   *)

\* The queue of a job that has one is a queue.
LEMMA QueueOfJob ==
  ASSUME NEW j \in Job, Queued(j)
  PROVE  CmdQueue[j] \in QueueName
  BY JobAssumption DEF Queued

\* A sequence is empty exactly when its length is 0.
LEMMA EmptyLen ==
  ASSUME NEW s \in Seq(Job)
  PROVE  /\ Len(s) \in Nat
         /\ s = <<>> <=> Len(s) = 0
  OBVIOUS

\* Queue.Push: the job is behind all the others of its queue, and the other
\* queues are as before.
LEMMA PushBackFacts ==
  ASSUME TypeOK, NEW j \in Job, Queued(j), queues' = PushBack(j)
  PROVE  LET b == CmdQueue[j] IN
         /\ b \in QueueName
         /\ queues' \in [QueueName -> Seq(Job)]
         /\ \A q \in QueueName : q # b => queues'[q] = queues[q]
         /\ Len(queues[b]) \in Nat
         /\ Len(queues'[b]) = Len(queues[b]) + 1
         /\ \A i \in 1 .. Len(queues[b]) : queues'[b][i] = queues[b][i]
         /\ queues'[b][Len(queues[b]) + 1] = j
<1> DEFINE b == CmdQueue[j]
<1>1. b \in QueueName
  BY QueueOfJob
<1>2. queues[b] \in Seq(Job)
  BY <1>1 DEF TypeOK
<1>3. queues' = [queues EXCEPT ![b] = Append(queues[b], j)]
  BY DEF PushBack
<1>4. queues'[b] = Append(queues[b], j)
  BY <1>1, <1>3 DEF TypeOK
<1>5. Append(queues[b], j) \in Seq(Job)
  BY <1>2
<1>6. /\ queues' \in [QueueName -> Seq(Job)]
      /\ \A q \in QueueName : q # b => queues'[q] = queues[q]
  BY <1>1, <1>3, <1>5 DEF TypeOK
<1> QED
  BY <1>1, <1>2, <1>4, <1>6

\* Queue.Notify: everybody behind the front moves up by one, and the other
\* queues are as before.
LEMMA RemoveFrontFacts ==
  ASSUME TypeOK, NEW j \in Job, Queued(j), queues' = RemoveFront(j),
         queues[CmdQueue[j]] # <<>>
  PROVE  LET b == CmdQueue[j] IN
         /\ b \in QueueName
         /\ queues' \in [QueueName -> Seq(Job)]
         /\ \A q \in QueueName : q # b => queues'[q] = queues[q]
         /\ Len(queues'[b]) \in Nat
         /\ Len(queues[b]) = Len(queues'[b]) + 1
         /\ \A i \in 1 .. Len(queues'[b]) : queues'[b][i] = queues[b][i + 1]
<1> DEFINE b == CmdQueue[j]
<1>1. b \in QueueName
  BY QueueOfJob
<1>2. queues[b] \in Seq(Job) /\ queues[b] # <<>>
  BY <1>1 DEF TypeOK
<1>3. queues' = [queues EXCEPT ![b] = Tail(queues[b])]
  BY DEF RemoveFront
<1>4. queues'[b] = Tail(queues[b])
  BY <1>1, <1>3 DEF TypeOK
<1>5. Tail(queues[b]) \in Seq(Job)
  BY <1>2
<1>6. /\ queues' \in [QueueName -> Seq(Job)]
      /\ \A q \in QueueName : q # b => queues'[q] = queues[q]
  BY <1>1, <1>3, <1>5 DEF TypeOK
<1>7. /\ Len(Tail(queues[b])) \in Nat
      /\ Len(queues[b]) = Len(Tail(queues[b])) + 1
      /\ \A i \in 1 .. Len(Tail(queues[b])) : Tail(queues[b])[i] = queues[b][i + 1]
  BY <1>2
<1> QED
  BY <1>1, <1>4, <1>6, <1>7
-----------------------------------------------------------------------------
(* The inductive step, action by action.                                   *)

\* The invariant holds of the empty table.
LEMMA InitIInv == Init => IInv
  BY JobAssumption
  DEF Init, IInv, TypeOK, TableIsExact, Registered, JobsMHolder, QLockHolder,
      SubmittedWaits, QueueInv, QueueMembers, QueueDistinct, PushedIsNew,
      FrontIsStarted, HandoverIsFront, Occupies, SubmitPC, RunnerPC, LoopPC

\* RunFactory registers a job: its id was free, and a job that has no goroutine
\* is in no queue.
LEMMA RunFactoryStep ==
  ASSUME IInv, NEW j \in Job, RunFactory(j) PROVE IInv'
<1> USE DEF IInv, RunFactory
<1>1. TypeOK'
  BY JobAssumption DEF TypeOK, SubmitPC, RunnerPC
<1>2. TableIsExact'
  <2> SUFFICES ASSUME NEW k \in Job
               PROVE  Registered(k)' <=> jobs'[CmdID[k]] = k
    BY DEF TableIsExact
  <2>1. CmdID[j] \in ID /\ CmdID[k] \in ID /\ k # NoJob
    BY JobAssumption
  <2>2. Registered(k) <=> jobs[CmdID[k]] = k
    BY DEF TableIsExact
  <2>3. CASE k = j
    BY <2>1, <2>3 DEF TypeOK, Registered
  <2>4. CASE k # j
    BY <2>1, <2>2, <2>4 DEF TypeOK, Registered
  <2> QED
    BY <2>3, <2>4
<1>3. JobsMHolder' /\ QLockHolder' /\ SubmittedWaits'
  BY JobAssumption DEF TypeOK, JobsMHolder, QLockHolder, SubmittedWaits
<1>4. \A q \in QueueName : \A i \in 1 .. Len(queues[q]) : queues[q][i] # j
  BY DEF QueueInv, QueueMembers, Occupies
<1>5. \A q \in QueueName : queues[q] # <<>> => queues[q][1] # j
  BY <1>4, EmptyLen DEF TypeOK
<1>6. QueueMembers' /\ QueueDistinct'
  BY <1>4 DEF TypeOK, QueueInv, QueueMembers, QueueDistinct, Occupies
<1>7. PushedIsNew'
  BY <1>4, QueueOfJob DEF TypeOK, QueueInv, PushedIsNew, Queued
<1>8. FrontIsStarted' /\ HandoverIsFront'
  BY <1>5, QueueOfJob
  DEF TypeOK, QueueInv, FrontIsStarted, HandoverIsFront, IsFront, Occupies, Queued
<1> QED
  BY <1>1, <1>2, <1>3, <1>6, <1>7, <1>8 DEF QueueInv

\* RunFactory refuses a duplicate: nothing but its own answer changes.
LEMMA RunFactoryDuplicateStep ==
  ASSUME IInv, NEW j \in Job, RunFactoryDuplicate(j) PROVE IInv'
<1> USE DEF IInv, RunFactoryDuplicate
<1>1. TypeOK'
  BY DEF TypeOK, SubmitPC
<1>2. TableIsExact'
  BY DEF TableIsExact, Registered
<1>3. JobsMHolder' /\ QLockHolder' /\ SubmittedWaits'
  BY DEF TypeOK, JobsMHolder, QLockHolder, SubmittedWaits
<1>4. QueueInv'
  BY DEF TypeOK, QueueInv, QueueMembers, QueueDistinct, PushedIsNew, FrontIsStarted,
         HandoverIsFront, IsFront, Occupies, Queued
<1> QED
  BY <1>1, <1>2, <1>3, <1>4

\* Push puts a job behind others; the front of no queue changes.
LEMMA PushBehindStep ==
  ASSUME IInv, NEW j \in Job, PushBehind(j) PROVE IInv'
<1> DEFINE b == CmdQueue[j]
<1> USE DEF IInv, PushBehind
<1>1. /\ b \in QueueName
      /\ queues' \in [QueueName -> Seq(Job)]
      /\ \A q \in QueueName : q # b => queues'[q] = queues[q]
      /\ Len(queues[b]) \in Nat
      /\ Len(queues'[b]) = Len(queues[b]) + 1
      /\ \A i \in 1 .. Len(queues[b]) : queues'[b][i] = queues[b][i]
      /\ queues'[b][Len(queues[b]) + 1] = j
  BY PushBackFacts
<1>2. Len(queues[b]) > 0
  BY <1>1, EmptyLen DEF TypeOK
<1>3. \A q \in QueueName : queues[q] # <<>> => (queues'[q] # <<>> /\ queues'[q][1] = queues[q][1])
  <2> SUFFICES ASSUME NEW q \in QueueName, queues[q] # <<>>
               PROVE  queues'[q] # <<>> /\ queues'[q][1] = queues[q][1]
    OBVIOUS
  <2>1. CASE q # b
    BY <2>1, <1>1
  <2>2. CASE q = b
    <3>1. queues'[b] \in Seq(Job) /\ 1 \in 1 .. Len(queues[b])
      BY <1>1, <1>2
    <3>2. Len(queues'[b]) # 0
      BY <1>1, <1>2
    <3> QED
      BY <2>2, <3>1, <3>2, <1>1, EmptyLen
  <2> QED
    BY <2>1, <2>2
<1>4. runner[j] = "queued" /\ \A i \in 1 .. Len(queues[b]) : queues[b][i] # j
  BY DEF SubmittedWaits, QueueInv, PushedIsNew
<1>5. \A k \in Job : submit'[k] = "push" => FALSE
  BY DEF JobsMHolder, TypeOK
<1>6. TypeOK'
  BY <1>1 DEF TypeOK, SubmitPC
<1>7. TableIsExact'
  BY DEF TableIsExact, Registered
<1>8. JobsMHolder' /\ QLockHolder' /\ SubmittedWaits'
  BY JobAssumption DEF TypeOK, JobsMHolder, QLockHolder, SubmittedWaits
<1>9. QueueMembers'
  <2> SUFFICES ASSUME NEW q \in QueueName, NEW i \in 1 .. Len(queues'[q])
               PROVE  /\ CmdQueue[queues'[q][i]] = q
                      /\ runner[queues'[q][i]] = "queued" \/ (i = 1 /\ Occupies(queues'[q][i]))
    BY DEF QueueMembers, Occupies
  <2>1. CASE q # b
    <3>1. queues'[q] = queues[q]
      BY <2>1, <1>1
    <3> QED
      BY <3>1 DEF QueueInv, QueueMembers
  <2>2. CASE q = b /\ i # Len(queues[b]) + 1
    <3>1. i \in 1 .. Len(queues[b]) /\ queues'[b][i] = queues[b][i]
      BY <2>2, <1>1
    <3> QED
      BY <2>2, <3>1 DEF QueueInv, QueueMembers
  <2>3. CASE q = b /\ i = Len(queues[b]) + 1
    BY <2>3, <1>1, <1>4
  <2> QED
    BY <2>1, <2>2, <2>3
<1>10. QueueDistinct'
  <2> SUFFICES ASSUME NEW q \in QueueName, NEW i \in 1 .. Len(queues'[q]),
                      NEW k \in 1 .. Len(queues'[q]), queues'[q][i] = queues'[q][k]
               PROVE  i = k
    BY DEF QueueDistinct
  <2>1. CASE q # b
    BY <2>1, <1>1 DEF QueueInv, QueueDistinct
  <2>2. CASE q = b
    <3>1. \A n \in 1 .. Len(queues'[b]) :
            n \in 1 .. Len(queues[b]) \/ n = Len(queues[b]) + 1
      BY <1>1
    <3>2. \A n, m \in 1 .. Len(queues[b]) : queues[b][n] = queues[b][m] => n = m
      BY <1>1 DEF QueueInv, QueueDistinct
    <3> HIDE DEF IInv, PushBehind, b
    <3> QED
      BY <2>2, <1>1, <1>4, <3>1, <3>2
  <2> QED
    BY <2>1, <2>2
<1>11. PushedIsNew'
  BY <1>5 DEF PushedIsNew
<1>12. FrontIsStarted' /\ HandoverIsFront'
  BY <1>3, QueueOfJob
  DEF TypeOK, QueueInv, FrontIsStarted, HandoverIsFront, IsFront, Occupies, Queued
<1> QED
  BY <1>6, <1>7, <1>8, <1>9, <1>10, <1>11, <1>12 DEF QueueInv

\* Push puts a job in its empty queue, or in none, and keeps both locks.
LEMMA PushFrontStep ==
  ASSUME IInv, NEW j \in Job, PushFront(j) PROVE IInv'
<1> DEFINE b == CmdQueue[j]
<1> USE DEF IInv, PushFront
<1>1. /\ queues' \in [QueueName -> Seq(Job)]
      /\ \A q \in QueueName : (~Queued(j) \/ q # b) => queues'[q] = queues[q]
      /\ Queued(j) => /\ b \in QueueName
                      /\ Len(queues[b]) = 0
                      /\ Len(queues'[b]) = 1
                      /\ queues'[b][1] = j
  <2>1. CASE Queued(j)
    <3>1. Len(queues[b]) = 0
      BY <2>1
    <3>2. /\ b \in QueueName
          /\ queues' \in [QueueName -> Seq(Job)]
          /\ \A q \in QueueName : q # b => queues'[q] = queues[q]
          /\ Len(queues'[b]) = Len(queues[b]) + 1
          /\ queues'[b][Len(queues[b]) + 1] = j
      BY <2>1, PushBackFacts
    <3> QED
      BY <2>1, <3>1, <3>2
  <2>2. CASE ~Queued(j)
    BY <2>2 DEF PushBack, TypeOK
  <2> QED
    BY <2>1, <2>2
<1>2. Queued(j) => queues'[b] # <<>>
  BY <1>1, EmptyLen
<1>3. runner[j] = "queued"
  BY DEF SubmittedWaits
<1>4. \A k \in Job : submit'[k] # "push"
  BY DEF JobsMHolder, TypeOK
<1>5. TypeOK'
  BY <1>1 DEF TypeOK, SubmitPC
<1>6. TableIsExact'
  BY DEF TableIsExact, Registered
<1>7. JobsMHolder' /\ QLockHolder' /\ SubmittedWaits'
  BY <1>3, JobAssumption DEF TypeOK, JobsMHolder, QLockHolder, SubmittedWaits
<1>8. QueueMembers' /\ QueueDistinct'
  <2> SUFFICES ASSUME NEW q \in QueueName, NEW i \in 1 .. Len(queues'[q]),
                      NEW k \in 1 .. Len(queues'[q])
               PROVE  /\ CmdQueue[queues'[q][i]] = q
                      /\ runner[queues'[q][i]] = "queued" \/ (i = 1 /\ Occupies(queues'[q][i]))
                      /\ queues'[q][i] = queues'[q][k] => i = k
    BY DEF QueueMembers, QueueDistinct, Occupies
  <2>1. CASE ~Queued(j) \/ q # b
    <3>1. queues'[q] = queues[q]
      BY <2>1, <1>1
    <3> QED
      BY <3>1 DEF QueueInv, QueueMembers, QueueDistinct
  <2>2. CASE Queued(j) /\ q = b
    BY <2>2, <1>1, <1>3
  <2> QED
    BY <2>1, <2>2
<1>9. PushedIsNew'
  BY <1>4 DEF PushedIsNew
<1>10. FrontIsStarted' /\ HandoverIsFront'
  <2>1. ASSUME NEW k \in Job, k # j, Queued(k), Occupies(k) \/ submit[k] = "send"
        PROVE  IsFront(k) /\ (Queued(j) => CmdQueue[k] # b)
    BY <2>1, <1>1 DEF QueueInv, FrontIsStarted, IsFront
  <2>2. ASSUME NEW k \in Job, Queued(k), ~Queued(j) \/ CmdQueue[k] # b
        PROVE  queues'[CmdQueue[k]] = queues[CmdQueue[k]]
    BY <2>2, <1>1, QueueOfJob
  <2>3. \A k \in Job : runner[k] # "handover"
    BY JobAssumption DEF QLockHolder
  <2>4. FrontIsStarted'
    <3> SUFFICES ASSUME NEW k \in Job, Queued(k), Occupies(k) \/ submit'[k] = "send"
                 PROVE  queues'[CmdQueue[k]] # <<>> /\ queues'[CmdQueue[k]][1] = k
      BY DEF FrontIsStarted, IsFront, Occupies, Queued
    <3>1. CASE k = j
      BY <3>1, <1>1, <1>2
    <3>2. CASE k # j
      BY <3>2, <2>1, <2>2 DEF IsFront, TypeOK
    <3> QED
      BY <3>1, <3>2
  <2> QED
    BY <2>3, <2>4 DEF HandoverIsFront
<1> QED
  BY <1>5, <1>6, <1>7, <1>8, <1>9, <1>10 DEF QueueInv

\* RunFactory returns and releases both locks, which it held.
LEMMA RunFactoryReturnStep ==
  ASSUME IInv, NEW j \in Job, RunFactoryReturn(j) PROVE IInv'
<1> USE DEF IInv, RunFactoryReturn
<1>1. TypeOK'
  BY DEF TypeOK, SubmitPC
<1>2. TableIsExact'
  BY DEF TableIsExact, Registered
<1>3. jobsM = j /\ qlock = j
  BY DEF JobsMHolder, QLockHolder
<1>4. JobsMHolder' /\ QLockHolder' /\ SubmittedWaits'
  BY <1>3, JobAssumption DEF TypeOK, JobsMHolder, QLockHolder, SubmittedWaits
<1>5. QueueInv'
  BY DEF TypeOK, QueueInv, QueueMembers, QueueDistinct, PushedIsNew, FrontIsStarted,
         HandoverIsFront, IsFront, Occupies, Queued
<1> QED
  BY <1>1, <1>2, <1>4, <1>5

\* The dispatcher checks, sleeps or is woken: only `loop' changes.
LEMMA LoopStep ==
  ASSUME IInv, LoopCheck \/ LoopWait PROVE IInv'
<1> USE DEF IInv, LoopCheck, LoopWait
<1>1. TypeOK'
  BY DEF TypeOK, LoopPC
<1>2. TableIsExact' /\ JobsMHolder' /\ QLockHolder' /\ SubmittedWaits'
  BY DEF TableIsExact, Registered, JobsMHolder, QLockHolder, SubmittedWaits
<1>3. QueueInv'
  BY DEF QueueInv, QueueMembers, QueueDistinct, PushedIsNew, FrontIsStarted,
         HandoverIsFront, IsFront, Occupies, Queued
<1> QED
  BY <1>1, <1>2, <1>3

\* The dispatcher receives from Push: that job is the front of its queue, and
\* nobody else has the lock to be sending.
LEMMA ReceivePushedStep ==
  ASSUME IInv, NEW j \in Job, ReceivePushed(j) PROVE IInv'
<1> USE DEF IInv, ReceivePushed
<1>1. TypeOK'
  BY DEF TypeOK, SubmitPC, RunnerPC, LoopPC
<1>2. runner[j] = "queued" /\ jobsM = j /\ qlock = j
  BY DEF SubmittedWaits, JobsMHolder, QLockHolder
<1>3. TableIsExact'
  BY <1>2 DEF TypeOK, TableIsExact, Registered
<1>4. JobsMHolder' /\ QLockHolder' /\ SubmittedWaits'
  BY <1>2 DEF TypeOK, JobsMHolder, QLockHolder, SubmittedWaits
<1>5. \A q \in QueueName : \A i \in 1 .. Len(queues[q]) : queues[q][i] = j => i = 1
  <2> SUFFICES ASSUME NEW q \in QueueName, NEW i \in 1 .. Len(queues[q]), queues[q][i] = j
               PROVE  i = 1
    OBVIOUS
  <2>1. CmdQueue[j] = q /\ Queued(j)
    BY JobAssumption DEF QueueInv, QueueMembers, Queued
  <2>2. queues[q][1] = j
    BY <2>1 DEF QueueInv, FrontIsStarted, IsFront
  <2>3. 1 \in 1 .. Len(queues[q])
    BY EmptyLen DEF TypeOK
  <2> QED
    BY <2>2, <2>3 DEF QueueInv, QueueDistinct
<1>6. QueueMembers' /\ QueueDistinct'
  BY <1>5 DEF TypeOK, QueueInv, QueueMembers, QueueDistinct, Occupies
<1>7. PushedIsNew' /\ FrontIsStarted'
  BY DEF TypeOK, QueueInv, PushedIsNew, FrontIsStarted, IsFront, Occupies, Queued
<1>8. \A k \in Job : runner'[k] # "handover"
  BY <1>2 DEF TypeOK, QLockHolder
<1> QED
  BY <1>1, <1>3, <1>4, <1>6, <1>7, <1>8 DEF QueueInv, HandoverIsFront

\* The dispatcher receives from Notify: the job at the front of the queue is not
\* in RunFactory any more.
LEMMA ReceiveNextStep ==
  ASSUME IInv, NEW j \in Job, ReceiveNext(j) PROVE IInv'
<1> DEFINE b == CmdQueue[j]
           n == queues[b][1]
<1> USE DEF IInv, ReceiveNext
<1>1. /\ Queued(j) /\ b \in QueueName /\ queues[b] # <<>> /\ 1 \in 1 .. Len(queues[b])
      /\ runner[n] = "queued" /\ qlock = j
  <2>1. Queued(j) /\ queues[b] # <<>> /\ runner[n] = "queued" /\ qlock = j
    BY DEF QueueInv, HandoverIsFront, QLockHolder
  <2>2. b \in QueueName
    BY <2>1, QueueOfJob
  <2> QED
    BY <2>1, <2>2, EmptyLen DEF TypeOK
<1>2. n \in Job /\ n # j /\ CmdQueue[n] = b /\ Head(queues[b]) = n
  <2>1. n \in Job /\ Head(queues[b]) = n
    BY <1>1 DEF TypeOK
  <2> QED
    BY <1>1, <2>1 DEF QueueInv, QueueMembers
<1>3. runner' = [runner EXCEPT ![j] = "unlock", ![n] = "running"]
  BY <1>2
<1>4. submit[n] \notin {"push", "send", "return"}
  BY <1>1, <1>2 DEF QueueInv, PushedIsNew, QLockHolder, SubmittedWaits, Queued
<1>5. TypeOK'
  BY <1>3 DEF TypeOK, RunnerPC, LoopPC
<1>6. TableIsExact'
  BY <1>1, <1>2, <1>3 DEF TypeOK, TableIsExact, Registered
<1>7. JobsMHolder' /\ QLockHolder' /\ SubmittedWaits'
  BY <1>1, <1>2, <1>3, <1>4 DEF TypeOK, JobsMHolder, QLockHolder, SubmittedWaits
<1>8. \A q \in QueueName : \A i \in 1 .. Len(queues[q]) :
        queues[q][i] # j /\ (queues[q][i] = n => i = 1)
  <2> SUFFICES ASSUME NEW q \in QueueName, NEW i \in 1 .. Len(queues[q])
               PROVE  queues[q][i] # j /\ (queues[q][i] = n => i = 1)
    OBVIOUS
  <2>1. CmdQueue[queues[q][i]] = q /\ queues[q][i] # j
    BY DEF QueueInv, QueueMembers, Occupies
  <2>2. ASSUME queues[q][i] = n PROVE i = 1
    BY <1>1, <1>2, <2>1, <2>2 DEF QueueInv, QueueDistinct
  <2> QED
    BY <2>1, <2>2
<1>9. QueueMembers'
  BY <1>3, <1>8, <1>2 DEF TypeOK, QueueInv, QueueMembers, Occupies
<1>10. QueueDistinct' /\ PushedIsNew'
  BY DEF QueueInv, QueueDistinct, PushedIsNew, Queued
<1>11. FrontIsStarted'
  BY <1>1, <1>2, <1>3 DEF TypeOK, QueueInv, FrontIsStarted, IsFront, Occupies, Queued
<1>12. \A k \in Job : runner'[k] # "handover"
  BY <1>1, <1>2, <1>3 DEF TypeOK, QLockHolder
<1> QED
  BY <1>5, <1>6, <1>7, <1>9, <1>10, <1>11, <1>12 DEF QueueInv, HandoverIsFront

\* A job ends: it keeps its entry and its place.
LEMMA FinishStep ==
  ASSUME IInv, NEW j \in Job, Finish(j) PROVE IInv'
<1> USE DEF IInv, Finish
<1>1. TypeOK'
  BY DEF TypeOK, RunnerPC
<1>2. TableIsExact'
  BY DEF TypeOK, TableIsExact, Registered
<1>3. JobsMHolder' /\ QLockHolder' /\ SubmittedWaits'
  BY DEF TypeOK, JobsMHolder, QLockHolder, SubmittedWaits
<1>4. QueueMembers' /\ QueueDistinct' /\ PushedIsNew' /\ FrontIsStarted'
  BY DEF TypeOK, QueueInv, QueueMembers, QueueDistinct, PushedIsNew, FrontIsStarted,
         IsFront, Occupies, Queued
<1>5. HandoverIsFront'
  BY DEF TypeOK, QueueInv, HandoverIsFront, Queued
<1> QED
  BY <1>1, <1>2, <1>3, <1>4, <1>5 DEF QueueInv

\* cleanUp deletes by id: what is registered there is the job itself.
LEMMA CleanUpStep ==
  ASSUME IInv, NEW j \in Job, CleanUp(j) PROVE IInv'
<1> USE DEF IInv, CleanUp
<1>1. TypeOK'
  BY JobAssumption DEF TypeOK, RunnerPC
<1>2. jobs[CmdID[j]] = j
  BY DEF TableIsExact, Registered
<1>3. TableIsExact'
  <2> SUFFICES ASSUME NEW k \in Job
               PROVE  Registered(k)' <=> jobs'[CmdID[k]] = k
    BY DEF TableIsExact
  <2>1. CmdID[j] \in ID /\ CmdID[k] \in ID /\ k # NoJob
    BY JobAssumption
  <2>2. Registered(k) <=> jobs[CmdID[k]] = k
    BY DEF TableIsExact
  <2>3. CASE k = j
    BY <2>1, <2>3 DEF TypeOK, Registered
  <2>4. CASE k # j
    BY <1>2, <2>1, <2>2, <2>4 DEF TypeOK, Registered
  <2> QED
    BY <2>3, <2>4
<1>4. JobsMHolder' /\ QLockHolder' /\ SubmittedWaits'
  BY JobAssumption DEF TypeOK, JobsMHolder, QLockHolder, SubmittedWaits
<1>5. QueueMembers' /\ QueueDistinct' /\ PushedIsNew' /\ FrontIsStarted'
  BY DEF TypeOK, QueueInv, QueueMembers, QueueDistinct, PushedIsNew, FrontIsStarted,
         IsFront, Occupies, Queued
<1>6. HandoverIsFront'
  BY DEF TypeOK, QueueInv, HandoverIsFront, Queued
<1> QED
  BY <1>1, <1>3, <1>4, <1>5, <1>6 DEF QueueInv

\* What Notify leaves behind when it removes the front of the queue, whoever is
\* next: the front was the job that ended, so that everybody left is waiting.
LEMMA RemovedFront ==
  ASSUME IInv, NEW j \in Job, runner[j] = "notify", qlock = NoJob, Queued(j),
         queues' = RemoveFront(j),
         UNCHANGED submit,
         NEW pc \in {"broadcast", "handover"}, runner' = [runner EXCEPT ![j] = pc]
  PROVE  /\ queues' \in [QueueName -> Seq(Job)]
         /\ Len(queues[CmdQueue[j]]) = Len(queues'[CmdQueue[j]]) + 1
         /\ \A i \in 1 .. Len(queues'[CmdQueue[j]]) :
              runner'[queues'[CmdQueue[j]][i]] = "queued"
         /\ QueueMembers' /\ QueueDistinct' /\ PushedIsNew' /\ FrontIsStarted'
<1> DEFINE b == CmdQueue[j]
<1> USE DEF IInv
<1>1. queues[b] # <<>> /\ queues[b][1] = j
  BY DEF QueueInv, FrontIsStarted, IsFront, Occupies
<1>2. /\ b \in QueueName
      /\ queues' \in [QueueName -> Seq(Job)]
      /\ \A q \in QueueName : q # b => queues'[q] = queues[q]
      /\ Len(queues'[b]) \in Nat
      /\ Len(queues[b]) = Len(queues'[b]) + 1
      /\ \A i \in 1 .. Len(queues'[b]) : queues'[b][i] = queues[b][i + 1]
  BY <1>1, RemoveFrontFacts
<1>3. \A i \in 1 .. Len(queues'[b]) :
        /\ i + 1 \in 1 .. Len(queues[b]) /\ i + 1 # 1
        /\ queues'[b][i] = queues[b][i + 1] /\ queues'[b][i] \in Job
  BY <1>2
<1>4. \A i \in 1 .. Len(queues'[b]) :
        /\ CmdQueue[queues'[b][i]] = b
        /\ runner[queues'[b][i]] = "queued" /\ runner'[queues'[b][i]] = "queued"
  <2> SUFFICES ASSUME NEW i \in 1 .. Len(queues'[b])
               PROVE  /\ CmdQueue[queues'[b][i]] = b
                      /\ runner[queues'[b][i]] = "queued" /\ runner'[queues'[b][i]] = "queued"
    OBVIOUS
  <2>1. CmdQueue[queues'[b][i]] = b /\ runner[queues'[b][i]] = "queued"
    BY <1>2, <1>3, SMTT(30) DEF QueueInv, QueueMembers
  <2> QED
    BY <2>1, <1>3 DEF TypeOK
<1>5. \A q \in QueueName : q # b =>
        \A i \in 1 .. Len(queues[q]) : queues[q][i] \in Job /\ queues[q][i] # j
  BY <1>2 DEF TypeOK, QueueInv, QueueMembers
<1>6. QueueMembers'
  <2> SUFFICES ASSUME NEW q \in QueueName, NEW i \in 1 .. Len(queues'[q])
               PROVE  /\ CmdQueue[queues'[q][i]] = q
                      /\ \/ runner'[queues'[q][i]] = "queued"
                         \/ i = 1 /\ runner'[queues'[q][i]] \in {"running", "delete", "notify"}
    BY DEF QueueMembers, Occupies
  <2>1. CASE q = b
    BY <2>1, <1>4
  <2>2. CASE q # b
    <3>1. queues'[q] = queues[q] /\ queues[q][i] \in Job /\ queues[q][i] # j
      BY <2>2, <1>2, <1>5
    <3>2. runner'[queues[q][i]] = runner[queues[q][i]]
      BY <3>1 DEF TypeOK
    <3> QED
      BY <3>1, <3>2 DEF QueueInv, QueueMembers, Occupies
  <2> QED
    BY <2>1, <2>2
<1>7. QueueDistinct'
  <2> SUFFICES ASSUME NEW q \in QueueName, NEW i \in 1 .. Len(queues'[q]),
                      NEW k \in 1 .. Len(queues'[q]), queues'[q][i] = queues'[q][k]
               PROVE  i = k
    BY DEF QueueDistinct
  <2>1. CASE q = b
    <3>1. i + 1 = k + 1
      BY <2>1, <1>2, <1>3, SMTT(30) DEF QueueInv, QueueDistinct
    <3> QED
      BY <3>1, <2>1, <1>2
  <2>2. CASE q # b
    BY <2>2, <1>2 DEF QueueInv, QueueDistinct
  <2> QED
    BY <2>1, <2>2
<1>8. PushedIsNew'
  <2> SUFFICES ASSUME NEW k \in Job, submit[k] = "push", Queued(k),
                      NEW i \in 1 .. Len(queues'[CmdQueue[k]])
               PROVE  queues'[CmdQueue[k]][i] # k
    BY DEF PushedIsNew, Queued
  <2>1. CASE CmdQueue[k] = b
    BY <2>1, <1>3 DEF QueueInv, PushedIsNew
  <2>2. CASE CmdQueue[k] # b
    BY <2>2, <1>2, QueueOfJob DEF QueueInv, PushedIsNew
  <2> QED
    BY <2>1, <2>2
<1>9. FrontIsStarted'
  <2> SUFFICES ASSUME NEW k \in Job, Queued(k),
                      runner'[k] \in {"running", "delete", "notify"} \/ submit[k] = "send"
               PROVE  queues'[CmdQueue[k]] # <<>> /\ queues'[CmdQueue[k]][1] = k
    BY DEF FrontIsStarted, IsFront, Occupies, Queued
  <2>1. k # j
    BY JobAssumption DEF TypeOK, SubmittedWaits
  <2>2. IsFront(k)
    BY <2>1 DEF TypeOK, QueueInv, FrontIsStarted, Occupies
  <2>3. CmdQueue[k] # b /\ CmdQueue[k] \in QueueName
    BY <2>1, <2>2, <1>1, QueueOfJob DEF IsFront
  <2> QED
    BY <2>2, <2>3, <1>2 DEF IsFront
<1> QED
  BY <1>2, <1>4, <1>6, <1>7, <1>8, <1>9

\* Notify when nobody waits behind the job.
LEMMA NotifyLastStep ==
  ASSUME IInv, NEW j \in Job, NotifyLast(j) PROVE IInv'
<1> USE DEF IInv, NotifyLast
<1>1. queues' \in [QueueName -> Seq(Job)] /\ QueueMembers' /\ QueueDistinct'
      /\ PushedIsNew' /\ FrontIsStarted'
  <2>1. CASE Queued(j)
    BY <2>1, RemovedFront
  <2>2. CASE ~Queued(j)
    <3>1. queues' = queues
      BY <2>2 DEF RemoveFront
    <3>2. \A q \in QueueName : \A i \in 1 .. Len(queues[q]) : queues[q][i] # j
      BY <2>2, JobAssumption DEF QueueInv, QueueMembers, Queued
    <3>3. QueueMembers'
      BY <3>1, <3>2 DEF TypeOK, QueueInv, QueueMembers, Occupies
    <3> QED
      BY <2>2, <3>1, <3>3
      DEF TypeOK, QueueInv, QueueDistinct, PushedIsNew, FrontIsStarted, IsFront,
          Occupies, Queued
  <2> QED
    BY <2>1, <2>2
<1>2. TypeOK'
  BY <1>1 DEF TypeOK, RunnerPC
<1>3. TableIsExact'
  BY DEF TypeOK, TableIsExact, Registered
<1>4. JobsMHolder' /\ QLockHolder' /\ SubmittedWaits'
  BY JobAssumption DEF TypeOK, JobsMHolder, QLockHolder, SubmittedWaits
<1>5. \A k \in Job : runner'[k] # "handover"
  BY JobAssumption DEF TypeOK, QLockHolder
<1> QED
  BY <1>1, <1>2, <1>3, <1>4, <1>5 DEF QueueInv, HandoverIsFront

\* Notify when there is a next job, which then is the front and waits.
LEMMA NotifyNextStep ==
  ASSUME IInv, NEW j \in Job, NotifyNext(j) PROVE IInv'
<1> DEFINE b == CmdQueue[j]
<1> USE DEF IInv, NotifyNext
<1>1. /\ queues' \in [QueueName -> Seq(Job)]
      /\ Len(queues[b]) = Len(queues'[b]) + 1
      /\ \A i \in 1 .. Len(queues'[b]) : runner'[queues'[b][i]] = "queued"
      /\ QueueMembers' /\ QueueDistinct' /\ PushedIsNew' /\ FrontIsStarted'
  BY RemovedFront
<1>2. TypeOK'
  BY <1>1 DEF TypeOK, RunnerPC
<1>3. TableIsExact'
  BY DEF TypeOK, TableIsExact, Registered
<1>4. JobsMHolder' /\ QLockHolder' /\ SubmittedWaits'
  BY JobAssumption DEF TypeOK, JobsMHolder, QLockHolder, SubmittedWaits
<1>5. b \in QueueName /\ 1 \in 1 .. Len(queues'[b]) /\ queues'[b] # <<>>
  BY <1>1, QueueOfJob, EmptyLen
<1>6. \A k \in Job : runner'[k] = "handover" => k = j
  BY JobAssumption DEF TypeOK, QLockHolder
<1>7. HandoverIsFront'
  BY <1>1, <1>5, <1>6 DEF HandoverIsFront, Queued
<1> QED
  BY <1>1, <1>2, <1>3, <1>4, <1>7 DEF QueueInv

\* Notify returns and releases the lock, which it held.
LEMMA NotifyReturnStep ==
  ASSUME IInv, NEW j \in Job, NotifyReturn(j) PROVE IInv'
<1> USE DEF IInv, NotifyReturn
<1>1. TypeOK'
  BY DEF TypeOK, RunnerPC
<1>2. TableIsExact'
  BY DEF TypeOK, TableIsExact, Registered
<1>3. qlock = j
  BY DEF QLockHolder
<1>4. JobsMHolder' /\ QLockHolder' /\ SubmittedWaits'
  BY <1>3, JobAssumption DEF TypeOK, JobsMHolder, QLockHolder, SubmittedWaits
<1>5. QueueMembers' /\ QueueDistinct' /\ PushedIsNew' /\ FrontIsStarted'
  BY DEF TypeOK, QueueInv, QueueMembers, QueueDistinct, PushedIsNew, FrontIsStarted,
         IsFront, Occupies, Queued
<1>6. \A k \in Job : runner'[k] # "handover"
  BY <1>3 DEF TypeOK, QLockHolder
<1> QED
  BY <1>1, <1>2, <1>4, <1>5, <1>6 DEF QueueInv, HandoverIsFront

\* Broadcast, the end of the goroutine.
LEMMA BroadcastStep ==
  ASSUME IInv, NEW j \in Job, Broadcast(j) PROVE IInv'
<1> USE DEF IInv, Broadcast
<1>1. TypeOK'
  BY DEF TypeOK, RunnerPC, LoopPC
<1>2. TableIsExact'
  BY DEF TypeOK, TableIsExact, Registered
<1>3. JobsMHolder' /\ QLockHolder' /\ SubmittedWaits'
  BY DEF TypeOK, JobsMHolder, QLockHolder, SubmittedWaits
<1>4. QueueMembers' /\ QueueDistinct' /\ PushedIsNew' /\ FrontIsStarted'
  BY DEF TypeOK, QueueInv, QueueMembers, QueueDistinct, PushedIsNew, FrontIsStarted,
         IsFront, Occupies, Queued
<1>5. HandoverIsFront'
  BY DEF TypeOK, QueueInv, HandoverIsFront, Queued
<1> QED
  BY <1>1, <1>2, <1>3, <1>4, <1>5 DEF QueueInv

\* A step that changes nothing.
LEMMA StutterStep ==
  ASSUME IInv, UNCHANGED vars PROVE IInv'
  BY DEF vars, IInv, TypeOK, TableIsExact, Registered, JobsMHolder, QLockHolder,
         SubmittedWaits, QueueInv, QueueMembers, QueueDistinct, PushedIsNew,
         FrontIsStarted, HandoverIsFront, IsFront, Occupies, Queued

\* Every step keeps the invariant.
LEMMA NextIInv == IInv /\ [Next]_vars => IInv'
<1> SUFFICES ASSUME IInv, [Next]_vars PROVE IInv'
  OBVIOUS
<1>1. CASE LoopCheck \/ LoopWait
  BY <1>1, LoopStep
<1>2. ASSUME NEW j \in Job, ReceivePushed(j) PROVE IInv'
  BY <1>2, ReceivePushedStep
<1>3. ASSUME NEW j \in Job, ReceiveNext(j) PROVE IInv'
  BY <1>3, ReceiveNextStep
<1>4. ASSUME NEW j \in Job, Submitter(j) PROVE IInv'
  BY <1>4, RunFactoryStep, RunFactoryDuplicateStep, PushBehindStep, PushFrontStep,
     RunFactoryReturnStep DEF Submitter
<1>5. ASSUME NEW j \in Job, Runner(j) PROVE IInv'
  BY <1>5, FinishStep, CleanUpStep, NotifyLastStep, NotifyNextStep, NotifyReturnStep,
     BroadcastStep DEF Runner
<1>6. CASE UNCHANGED vars
  BY <1>6, StutterStep
<1> QED
  BY <1>1, <1>2, <1>3, <1>4, <1>5, <1>6 DEF Next, Dispatcher

\* The invariant holds in every reachable state.
LEMMA SpecIInv == Spec => []IInv
  BY InitIInv, NextIInv, PTL DEF Spec

-----------------------------------------------------------------------------
(* The theorems.                                                           *)

\* The types of the variables of pm.go and queue.go are kept, for any number of
\* jobs, ids and queues.
THEOREM TypeCorrect == Spec => []TypeOK
<1>1. IInv => TypeOK
  BY DEF IInv
<1> QED
  BY <1>1, SpecIInv, PTL

\* The job table holds a job exactly from RunFactory to cleanUp.
THEOREM TableExact == Spec => []TableIsExact
<1>1. IInv => TableIsExact
  BY DEF IInv
<1> QED
  BY <1>1, SpecIInv, PTL

\* Notify removes the job it was called for from the front of its queue.
THEOREM NotifyOwn == Spec => []NotifyRemovesItself
<1>1. IInv => NotifyRemovesItself
  <2> SUFFICES ASSUME IInv, NEW j \in Job, runner[j] = "notify", Queued(j)
               PROVE  queues[CmdQueue[j]] # <<>> /\ Head(queues[CmdQueue[j]]) = j
    BY DEF NotifyRemovesItself
  <2>1. IsFront(j)
    BY DEF IInv, QueueInv, FrontIsStarted, Occupies
  <2>2. queues[CmdQueue[j]] \in Seq(Job)
    BY QueueOfJob DEF IInv, TypeOK
  <2> QED
    BY <2>1, <2>2 DEF IsFront
<1> QED
  BY <1>1, SpecIInv, PTL

\* Two jobs of one queue are never both started and not yet over: both would be
\* the front of the queue.
THEOREM Serial == Spec => []QueueIsSerial
<1>1. IInv => QueueIsSerial
  <2> SUFFICES ASSUME IInv, NEW j \in Job, NEW k \in Job, j # k, Queued(j),
                      CmdQueue[j] = CmdQueue[k], Occupies(j), Occupies(k)
               PROVE  FALSE
    BY DEF QueueIsSerial
  <2>1. Queued(k)
    BY DEF Queued
  <2> QED
    BY <2>1 DEF IInv, QueueInv, FrontIsStarted, IsFront
<1> QED
  BY <1>1, SpecIInv, PTL

-----------------------------------------------------------------------------
(* The limit of parallel jobs.                                             *)

UsedIDs     == {i \in ID : jobs[i] # NoJob}
RunningJobs == {j \in Job : runner[j] = "running"}

\* The dispatcher that has passed its test and not yet received is the only one
\* who can start a job, so that the room it saw is still there.
BoundInv ==
  /\ IsFiniteSet(UsedIDs) /\ IsFiniteSet(RunningJobs)
  /\ Cardinality(RunningJobs) <= MaxJobs
  /\ loop = "receive" => Cardinality(RunningJobs) < MaxJobs

\* The bound holds of the empty table.
LEMMA InitBoundInv == Init => BoundInv
<1> SUFFICES ASSUME Init PROVE BoundInv
  OBVIOUS
<1>1. UsedIDs = {} /\ RunningJobs = {} /\ loop = "check"
  BY DEF Init, UsedIDs, RunningJobs
<1> QED
  BY <1>1, FS_EmptySet, MaxJobsAssumption DEF BoundInv

\* Every running job has an id of its own in the table, so that there are at
\* most as many running jobs as the dispatcher counts.
LEMMA RunningAreRegistered ==
  ASSUME IInv, BoundInv
  PROVE  Cardinality(RunningJobs) <= NumJobs
<1> DEFINE f == [j \in RunningJobs |-> CmdID[j]]
<1>1. \A j \in RunningJobs : CmdID[j] \in UsedIDs /\ jobs[CmdID[j]] = j
  BY JobAssumption DEF IInv, TableIsExact, Registered, RunningJobs, UsedIDs
<1>2. f \in Injection(RunningJobs, UsedIDs)
  BY <1>1 DEF Injection, IsInjective
<1>3. Cardinality(RunningJobs) <= Cardinality(UsedIDs)
  BY <1>2, FS_Injection DEF BoundInv
<1> QED
  BY <1>3 DEF NumJobs, UsedIDs

\* Every step keeps the bound.
LEMMA NextBoundInv == IInv /\ BoundInv /\ [Next]_vars => BoundInv'
<1> SUFFICES ASSUME IInv, BoundInv, [Next]_vars PROVE BoundInv'
  OBVIOUS
<1> USE DEF IInv
<1>1. Cardinality(RunningJobs) \in Nat
  BY FS_CardinalityType DEF BoundInv
<1>2. ASSUME NEW j \in Job, RunFactory(j) PROVE BoundInv'
  <2>1. UsedIDs' = UsedIDs \cup {CmdID[j]}
    <3>1. CmdID[j] \in ID /\ j # NoJob
      BY JobAssumption
    <3>2. \A i \in ID : jobs'[i] = IF i = CmdID[j] THEN j ELSE jobs[i]
      BY <1>2, <3>1 DEF RunFactory, TypeOK
    <3> QED
      BY <3>1, <3>2 DEF UsedIDs
  <2>2. RunningJobs' = RunningJobs /\ loop' = loop
    BY <1>2 DEF RunFactory, RunningJobs, TypeOK
  <2> QED
    BY <2>1, <2>2, FS_AddElement DEF BoundInv
<1>3. ASSUME NEW j \in Job, CleanUp(j) PROVE BoundInv'
  <2>1. UsedIDs' = UsedIDs \ {CmdID[j]}
    BY <1>3, JobAssumption DEF CleanUp, UsedIDs, TypeOK
  <2>2. RunningJobs' = RunningJobs /\ loop' = loop
    BY <1>3 DEF CleanUp, RunningJobs, TypeOK
  <2> QED
    BY <2>1, <2>2, FS_RemoveElement DEF BoundInv
<1>4. ASSUME NEW j \in Job, Finish(j) PROVE BoundInv'
  <2>1. UsedIDs' = UsedIDs /\ loop' = loop
    BY <1>4 DEF Finish, UsedIDs
  <2>2. RunningJobs' = RunningJobs \ {j}
    BY <1>4 DEF Finish, RunningJobs, TypeOK
  <2>3. IsFiniteSet(RunningJobs') /\ Cardinality(RunningJobs') <= Cardinality(RunningJobs)
    BY <1>1, <2>2, FS_RemoveElement DEF BoundInv
  <2>4. Cardinality(RunningJobs') \in Nat
    BY <2>3, FS_CardinalityType
  <2> QED
    BY <1>1, <2>1, <2>3, <2>4, MaxJobsAssumption DEF BoundInv
<1>5. ASSUME NEW n \in Job, UsedIDs' = UsedIDs, RunningJobs' = RunningJobs \cup {n},
             loop = "receive", loop' = "check"
      PROVE  BoundInv'
  <2>1. /\ IsFiniteSet(RunningJobs')
        /\ Cardinality(RunningJobs') <= Cardinality(RunningJobs) + 1
    <3>1. IsFiniteSet(RunningJobs)
      BY DEF BoundInv
    <3>2. /\ IsFiniteSet(RunningJobs \cup {n})
          /\ \/ Cardinality(RunningJobs \cup {n}) = Cardinality(RunningJobs)
             \/ Cardinality(RunningJobs \cup {n}) = Cardinality(RunningJobs) + 1
      BY <3>1, FS_AddElement
    <3> QED
      BY <1>1, <1>5, <3>2
  <2>2. Cardinality(RunningJobs') \in Nat
    BY <2>1, FS_CardinalityType
  <2> QED
    BY <1>1, <1>5, <2>1, <2>2, MaxJobsAssumption DEF BoundInv
<1>6. ASSUME NEW j \in Job, ReceivePushed(j) PROVE BoundInv'
  <2>1. UsedIDs' = UsedIDs /\ RunningJobs' = RunningJobs \cup {j}
    BY <1>6 DEF ReceivePushed, UsedIDs, RunningJobs, TypeOK
  <2> QED
    BY <1>5, <1>6, <2>1 DEF ReceivePushed
<1>7. ASSUME NEW j \in Job, ReceiveNext(j) PROVE BoundInv'
  <2> DEFINE n == Head(queues[CmdQueue[j]])
  <2>1. queues[CmdQueue[j]] \in Seq(Job) /\ queues[CmdQueue[j]] # <<>>
    BY <1>7, QueueOfJob DEF ReceiveNext, TypeOK, QueueInv, HandoverIsFront
  <2>2. n \in Job
    BY <2>1
  <2>3. runner' = [runner EXCEPT ![j] = "unlock", ![n] = "running"] /\ runner[j] = "handover"
    BY <1>7 DEF ReceiveNext
  <2>4. UsedIDs' = UsedIDs /\ loop = "receive" /\ loop' = "check"
    BY <1>7 DEF ReceiveNext, UsedIDs
  <2> HIDE DEF n
  <2>5. RunningJobs' = RunningJobs \cup {n}
    BY <2>2, <2>3 DEF RunningJobs, TypeOK
  <2> QED
    BY <1>5, <2>2, <2>4, <2>5
<1>8. ASSUME LoopCheck PROVE BoundInv'
  <2>1. UsedIDs' = UsedIDs /\ RunningJobs' = RunningJobs
    BY <1>8 DEF LoopCheck, UsedIDs, RunningJobs
  <2>2. loop' = "receive" => ~(NumJobs >= MaxJobs)
    BY <1>8 DEF LoopCheck
  <2>3. NumJobs \in Nat /\ Cardinality(RunningJobs) <= NumJobs
    BY RunningAreRegistered, FS_CardinalityType DEF BoundInv, NumJobs, UsedIDs
  <2>4. loop' = "receive" => Cardinality(RunningJobs) < MaxJobs
    BY <1>1, <2>2, <2>3, MaxJobsAssumption
  <2> QED
    BY <2>1, <2>4 DEF BoundInv
<1>9. ASSUME UsedIDs' = UsedIDs, RunningJobs' = RunningJobs,
             loop' = "receive" => loop = "receive"
      PROVE  BoundInv'
  BY <1>9 DEF BoundInv
<1>10. CASE LoopWait \/ UNCHANGED vars
  BY <1>9, <1>10 DEF LoopWait, vars, UsedIDs, RunningJobs
<1>11. ASSUME NEW j \in Job,
              RunFactoryDuplicate(j) \/ PushBehind(j) \/ PushFront(j) \/ RunFactoryReturn(j)
       PROVE  BoundInv'
  BY <1>9, <1>11
  DEF RunFactoryDuplicate, PushBehind, PushFront, RunFactoryReturn, UsedIDs, RunningJobs
<1>12. ASSUME NEW j \in Job,
              NotifyLast(j) \/ NotifyNext(j) \/ NotifyReturn(j) \/ Broadcast(j)
       PROVE  BoundInv'
  <2>1. UsedIDs' = UsedIDs /\ (loop' = "receive" => loop = "receive")
    BY <1>12 DEF NotifyLast, NotifyNext, NotifyReturn, Broadcast, UsedIDs
  <2>2. RunningJobs' = RunningJobs
    BY <1>12 DEF NotifyLast, NotifyNext, NotifyReturn, Broadcast, RunningJobs, TypeOK
  <2> QED
    BY <1>9, <2>1, <2>2
<1> QED
  BY <1>2, <1>3, <1>4, <1>6, <1>7, <1>8, <1>10, <1>11, <1>12
  DEF Next, Dispatcher, Submitter, Runner

\* The unlocked test of the dispatcher in loop() is enough: at most MaxJobs jobs
\* run at a time, whatever the number of submitters.
THEOREM Bounded == Spec => []AtMostMaxJobs
<1>1. BoundInv => AtMostMaxJobs
  BY DEF BoundInv, AtMostMaxJobs, RunningJobs
<1> QED
  BY <1>1, SpecIInv, InitBoundInv, NextBoundInv, PTL DEF Spec

-----------------------------------------------------------------------------
(* Stalls.                                                                 *)

\* With jobsM held by a submitter that waits for the dispatcher, directly or
\* behind a Notify, and a full table, nobody gets a lock and the dispatcher goes
\* back to sleep.
LEMMA FullStays ==
  ASSUME IInv, [Next]_vars, StalledFull PROVE StalledFull'
<1> USE DEF IInv
<1>1. PICK h \in Job : /\ jobsM = h
                       /\ \/ submit[h] = "send"
                          \/ submit[h] = "push" /\ \E k \in Job : runner[k] = "handover"
  BY DEF StalledFull
<1>2. jobsM # NoJob /\ qlock # NoJob /\ submit[h] # "return"
  BY <1>1, JobAssumption DEF QLockHolder
<1>3. ASSUME jobs' = jobs, jobsM' = jobsM, submit'[h] = submit[h], loop' # "receive",
             \A k \in Job : runner[k] = "handover" => runner'[k] = "handover"
      PROVE  StalledFull'
  <2>1. NumJobs' = NumJobs
    BY <1>3 DEF NumJobs
  <2> QED
    BY <1>1, <1>3, <2>1 DEF StalledFull
<1>4. CASE UNCHANGED vars
  BY <1>3, <1>4 DEF vars, StalledFull
<1>5. CASE Dispatcher
  <2>1. loop # "receive" /\ NumJobs >= MaxJobs
    BY DEF StalledFull
  <2> QED
    BY <1>3, <1>5, <2>1 DEF Dispatcher, LoopCheck, LoopWait, ReceivePushed, ReceiveNext
<1>6. ASSUME NEW j \in Job PROVE ~Submitter(j)
  <2>1. submit[j] \in {"push", "return"} => j = h
    BY <1>1 DEF JobsMHolder
  <2> QED
    BY <1>2, <2>1
    DEF Submitter, RunFactory, RunFactoryDuplicate, PushBehind, PushFront, RunFactoryReturn
<1>7. ASSUME NEW j \in Job, Runner(j) PROVE StalledFull'
  <2>1. ~(runner[j] = "unlock")
    BY <1>1 DEF QLockHolder, SubmittedWaits
  <2>2. Finish(j) \/ Broadcast(j)
    BY <1>2, <1>7, <2>1 DEF Runner, CleanUp, NotifyLast, NotifyNext, NotifyReturn
  <2>3. /\ UNCHANGED <<jobs, jobsM, submit>> /\ loop' # "receive"
        /\ \A k \in Job : runner[k] = "handover" => runner'[k] = "handover"
    BY <2>2 DEF Finish, Broadcast, TypeOK, StalledFull
  <2> QED
    BY <1>3, <2>3
<1> QED
  BY <1>4, <1>5, <1>6, <1>7 DEF Next

\* With the dispatcher asleep and a goroutine that waits for it in possession of
\* the queue's lock, no Notify ends and nobody comes to a Broadcast.
LEMMA AsleepStays ==
  ASSUME IInv, [Next]_vars, StalledAsleep PROVE StalledAsleep'
<1> USE DEF IInv
<1>1. PICK h \in Job : submit[h] = "send" \/ runner[h] = "handover"
  BY DEF StalledAsleep
<1>2. qlock = h /\ h # NoJob
  BY <1>1, JobAssumption DEF QLockHolder
<1>3. ASSUME submit'[h] = submit[h], runner[h] = "handover" => runner'[h] = "handover",
             loop' \in {"wait", "waiting"}, \A k \in Job : runner'[k] # "broadcast"
      PROVE  StalledAsleep'
  BY <1>1, <1>3 DEF StalledAsleep
<1>4. CASE UNCHANGED vars
  BY <1>3, <1>4 DEF vars, StalledAsleep
<1>5. CASE Dispatcher
  BY <1>3, <1>5
  DEF Dispatcher, LoopCheck, LoopWait, ReceivePushed, ReceiveNext, StalledAsleep
<1>6. ASSUME NEW j \in Job, Submitter(j) PROVE StalledAsleep'
  <2>1. ~(submit[j] = "return")
    BY <1>1, <1>2 DEF QLockHolder, SubmittedWaits
  <2>2. RunFactory(j) \/ RunFactoryDuplicate(j)
    BY <1>2, <1>6, <2>1 DEF Submitter, PushBehind, PushFront, RunFactoryReturn
  <2>3. h # j
    BY <1>1, <2>2 DEF RunFactory, RunFactoryDuplicate
  <2>4. /\ submit'[h] = submit[h] /\ runner'[h] = runner[h] /\ loop' = loop
        /\ \A k \in Job : runner'[k] # "broadcast"
    BY <2>2, <2>3 DEF RunFactory, RunFactoryDuplicate, TypeOK, StalledAsleep
  <2> QED
    BY <1>3, <2>4 DEF StalledAsleep
<1>7. ASSUME NEW j \in Job, Runner(j) PROVE StalledAsleep'
  <2>1. ~(runner[j] = "unlock") /\ ~(runner[j] = "broadcast")
    BY <1>1, <1>2 DEF QLockHolder, SubmittedWaits, StalledAsleep
  <2>2. Finish(j) \/ CleanUp(j)
    BY <1>2, <1>7, <2>1 DEF Runner, NotifyLast, NotifyNext, NotifyReturn, Broadcast
  <2>3. /\ UNCHANGED <<submit, loop>>
        /\ runner[h] = "handover" => runner'[h] = "handover"
        /\ \A k \in Job : runner'[k] # "broadcast"
    BY <2>2 DEF Finish, CleanUp, TypeOK, StalledAsleep
  <2> QED
    BY <1>3, <2>3 DEF StalledAsleep
<1> QED
  BY <1>4, <1>5, <1>6, <1>7 DEF Next

\* Once RunFactory, loop and cleanUp (or Notify) wait for each other nothing gets
\* them apart: every step from a stalled state leads to a stalled state.
THEOREM StallForGood == Spec => StallIsFinal
<1>1. IInv /\ [Next]_vars => (Stalled => Stalled')
  BY FullStays, AsleepStays DEF Stalled
<1>2. IInv /\ [Next]_vars => [Stalled => Stalled']_vars
  BY <1>1
<1> QED
  BY <1>2, SpecIInv, PTL DEF Spec, StallIsFinal

-----------------------------------------------------------------------------
(* ProcessManager implements SerialQueues.  Push is Accept, a receive of   *)
(* the dispatcher is Start, the end of a run is End; every other step of   *)
(* the goroutines stutters.  The invariants above say why each of these    *)
(* may happen in the contract.                                             *)

Line == [q \in QueueName |-> LineOf(q)]

Pool == {j \in Job : ~Queued(j) /\ (submit[j] = "send" \/ runner[j] = "running")}

InLine(k) == \E q \in QueueName : \E i \in 1 .. Len(Line[q]) : Line[q][i] = k

\* The front of a queue has run.
Ended(q) == queues[q] # <<>> /\ runner[queues[q][1]] \in {"delete", "notify"}

\* LineOf, for sequences whose first element is named by its index.
LEMMA LineOfCases ==
  ASSUME TypeOK, NEW q \in QueueName
  PROVE  LineOf(q) = IF Ended(q) THEN Tail(queues[q]) ELSE queues[q]
<1>1. queues[q] \in Seq(Job)
  BY DEF TypeOK
<1>2. queues[q] # <<>> => Head(queues[q]) = queues[q][1]
  BY <1>1
<1> QED
  BY <1>2 DEF LineOf, Ended

\* The lines are sequences of jobs.
LEMMA LineType ==
  ASSUME TypeOK
  PROVE  \A q \in QueueName : Line[q] = LineOf(q) /\ Line[q] \in Seq(Job)
<1> SUFFICES ASSUME NEW q \in QueueName PROVE Line[q] = LineOf(q) /\ Line[q] \in Seq(Job)
  OBVIOUS
<1>1. queues[q] \in Seq(Job)
  BY DEF TypeOK
<1>2. queues[q] # <<>> => Tail(queues[q]) \in Seq(Job)
  BY <1>1
<1> QED
  BY <1>1, <1>2, LineOfCases DEF Line, Ended

\* A job in a line or in the pool is registered.
LEMMA PresentIsRegistered ==
  ASSUME IInv, NEW k \in Job, k \in Pool \/ InLine(k)
  PROVE  /\ Registered(k)
         /\ submit[k] # "push"
<1> USE DEF IInv
<1>1. CASE k \in Pool
  BY <1>1 DEF Pool, SubmittedWaits, Registered
<1>2. CASE InLine(k)
  <2>0. PICK q \in QueueName : \E i \in 1 .. Len(Line[q]) : Line[q][i] = k
    BY <1>2 DEF InLine
  <2>1. PICK i \in 1 .. Len(Line[q]) : Line[q][i] = k
    BY <2>0
  <2>2. queues[q] \in Seq(Job)
    BY DEF TypeOK
  <2>3. Line[q] = IF Ended(q) THEN Tail(queues[q]) ELSE queues[q]
    BY LineOfCases DEF Line
  <2>4. PICK n \in 1 .. Len(queues[q]) : queues[q][n] = k /\ (Ended(q) => n # 1)
    <3>1. CASE Ended(q)
      <4>1. queues[q] # <<>> /\ Line[q] = Tail(queues[q])
        BY <3>1, <2>3 DEF Ended
      <4>2. Line[q][i] = queues[q][i + 1] /\ i + 1 \in 1 .. Len(queues[q]) /\ i + 1 # 1
        BY <4>1, <2>2
      <4> QED
        BY <4>2, <2>1
    <3>2. CASE ~Ended(q)
      BY <3>2, <2>1, <2>3
    <3> QED
      BY <3>1, <3>2
  <2>5. CmdQueue[k] = q /\ (runner[k] = "queued" \/ (n = 1 /\ Occupies(k)))
    BY <2>4 DEF QueueInv, QueueMembers
  <2>6. Registered(k)
    <3>1. CASE runner[k] = "queued"
      BY <3>1 DEF Registered
    <3>2. CASE n = 1 /\ Occupies(k)
      <4>1. queues[q] # <<>> /\ ~Ended(q)
        BY <3>2, <2>2, <2>4
      <4> QED
        BY <3>2, <4>1, <2>4 DEF Ended, Occupies, Registered
    <3> QED
      BY <2>5, <3>1, <3>2
  <2>7. Queued(k)
    BY <2>5, JobAssumption DEF Queued
  <2> QED
    BY <2>4, <2>5, <2>6, <2>7 DEF QueueInv, PushedIsNew
<1> QED
  BY <1>1, <1>2

-----------------------------------------------------------------------------
(* Steps of the contract.                                                  *)

\* A push is an Accept: whoever is in the system has an id of its own.
LEMMA PushAccepts ==
  ASSUME IInv, NEW j \in Job, submit[j] = "push", RunningJobs' = RunningJobs,
         \/ ~Queued(j) /\ Pool' = Pool \cup {j} /\ Line' = Line
         \/ /\ Queued(j) /\ Pool' = Pool
            /\ Line' = [Line EXCEPT ![CmdQueue[j]] = Append(Line[CmdQueue[j]], j)]
  PROVE  SQ!Next
<1>1. \A k \in Job : (k \in Pool \/ InLine(k)) => CmdID[k] # CmdID[j]
  <2> SUFFICES ASSUME NEW k \in Job, k \in Pool \/ InLine(k), CmdID[k] = CmdID[j]
               PROVE  FALSE
    OBVIOUS
  <2>1. Registered(k) /\ k # j
    BY PresentIsRegistered
  <2>2. Registered(j)
    BY DEF IInv, SubmittedWaits, Registered
  <2> QED
    BY <2>1, <2>2 DEF IInv, TableIsExact
<1>2. SQ!Accept(j)
  BY <1>1 DEF SQ!Accept, SQ!Present, SQ!InLine, InLine, Line, Pool, RunningJobs, Queued
<1> QED
  BY <1>2 DEF SQ!Next

\* A receive is a Start: it is the turn of the job, and there is room.
LEMMA ReceiveStarts ==
  ASSUME BoundInv, loop = "receive", NEW n \in Job, n \notin RunningJobs,
         RunningJobs' = RunningJobs \cup {n}, Line' = Line, Pool' = Pool,
         \/ ~Queued(n) /\ n \in Pool
         \/ Queued(n) /\ Line[CmdQueue[n]] # <<>> /\ Head(Line[CmdQueue[n]]) = n
  PROVE  SQ!Next
<1>1. Cardinality(RunningJobs) < MaxJobs
  BY DEF BoundInv
<1>2. \/ CmdQueue[n] = NoQueue /\ n \in Pool
      \/ CmdQueue[n] # NoQueue /\ Line[CmdQueue[n]] # <<>> /\ Head(Line[CmdQueue[n]]) = n
  BY DEF Queued
<1>3. SQ!Cardinality(RunningJobs) = Cardinality(RunningJobs)
  BY DEF SQ!Cardinality, Cardinality
<1>4. SQ!Start(n)
  BY <1>1, <1>2, <1>3 DEF SQ!Start, Line, Pool, RunningJobs
<1> QED
  BY <1>4 DEF SQ!Next

\* The end of a run is an End.
LEMMA FinishEnds ==
  ASSUME NEW j \in Job, j \in RunningJobs, RunningJobs' = RunningJobs \ {j},
         \/ ~Queued(j) /\ Pool' = Pool \ {j} /\ Line' = Line
         \/ /\ Queued(j) /\ Pool' = Pool
            /\ Line' = [Line EXCEPT ![CmdQueue[j]] = Tail(Line[CmdQueue[j]])]
  PROVE  SQ!Next
<1>1. SQ!End(j)
  BY DEF SQ!End, Line, Pool, RunningJobs, Queued
<1> QED
  BY <1>1 DEF SQ!Next

Stutter == Line' = Line /\ Pool' = Pool /\ RunningJobs' = RunningJobs

\* LineOf in the next state.
LEMMA NextLineOf ==
  ASSUME TypeOK', NEW q \in QueueName
  PROVE  LineOf(q)' = IF Ended(q)' THEN Tail(queues'[q]) ELSE queues'[q]
<1>1. queues'[q] \in Seq(Job)
  BY DEF TypeOK
<1>2. queues'[q] # <<>> => Head(queues'[q]) = queues'[q][1]
  BY <1>1
<1> QED
  BY <1>2 DEF LineOf, Ended

SameAt(q) == queues'[q] = queues[q] /\ (Ended(q)' <=> Ended(q))

\* A line only changes with its queue or with the front of it.
LEMMA SameLines ==
  ASSUME TypeOK, TypeOK', \A q \in QueueName : SameAt(q)
  PROVE  Line' = Line
<1>1. \A q \in QueueName : LineOf(q)' = LineOf(q)
  BY LineOfCases, NextLineOf DEF SameAt
<1> QED
  BY <1>1 DEF Line

\* The lines after a step that concerns one queue only.
LEMMA OneLine ==
  ASSUME TypeOK, TypeOK', NEW b \in QueueName,
         \A q \in QueueName : q # b => SameAt(q),
         NEW v, v = IF Ended(b)' THEN Tail(queues'[b]) ELSE queues'[b]
  PROVE  Line' = [Line EXCEPT ![b] = v]
<1>1. \A q \in QueueName : q # b => LineOf(q)' = LineOf(q)
  BY LineOfCases, NextLineOf DEF SameAt
<1>2. LineOf(b)' = v
  BY NextLineOf
<1> QED
  BY <1>1, <1>2 DEF Line

-----------------------------------------------------------------------------
(* The steps of the goroutines, action by action.                          *)

\* A job that is in no queue may go from one place to another without effect.
LEMMA RunFactoryStutters ==
  ASSUME IInv, IInv', NEW j \in Job, RunFactory(j) PROVE Stutter
<1> USE DEF IInv, RunFactory
<1>1. \A q \in QueueName : \A i \in 1 .. Len(queues[q]) : queues[q][i] # j /\ queues[q][i] \in Job
  BY DEF QueueInv, QueueMembers, Occupies, TypeOK
<1>2. \A q \in QueueName : SameAt(q)
  BY <1>1, EmptyLen DEF SameAt, Ended, TypeOK
<1>3. Pool' = Pool /\ RunningJobs' = RunningJobs
  BY DEF Pool, RunningJobs, Queued, TypeOK
<1> QED
  BY <1>2, <1>3, SameLines DEF Stutter

\* Push behind others: the line grows, whether its front has run or not.
LEMMA PushBehindAccepts ==
  ASSUME IInv, IInv', NEW j \in Job, PushBehind(j) PROVE SQ!Next
<1> DEFINE b == CmdQueue[j]
           s == queues[b]
<1> USE DEF IInv, PushBehind
<1>1. /\ b \in QueueName /\ s \in Seq(Job) /\ s # <<>>
      /\ queues'[b] = Append(s, j)
      /\ \A q \in QueueName : q # b => queues'[q] = queues[q]
  BY QueueOfJob DEF TypeOK, PushBack
<1>2. queues'[b] # <<>> /\ queues'[b][1] = s[1] /\ Tail(queues'[b]) = Append(Tail(s), j)
  BY <1>1
<1>3. \A q \in QueueName : q # b => SameAt(q)
  BY <1>1 DEF SameAt, Ended
<1>4. Ended(b)' <=> Ended(b)
  BY <1>1, <1>2 DEF Ended
<1>5. Line[b] = IF Ended(b) THEN Tail(s) ELSE s
  BY <1>1, LineOfCases DEF Line
<1>6. Append(Line[b], j) = IF Ended(b)' THEN Tail(queues'[b]) ELSE queues'[b]
  BY <1>1, <1>2, <1>4, <1>5
<1>7. Line' = [Line EXCEPT ![b] = Append(Line[b], j)]
  BY <1>1, <1>3, <1>6, OneLine
<1>8. Pool' = Pool /\ RunningJobs' = RunningJobs
  BY DEF Pool, RunningJobs, Queued, TypeOK
<1> QED
  BY <1>7, <1>8, PushAccepts

\* Push of the first of a queue, or of a job without one.
LEMMA PushFrontAccepts ==
  ASSUME IInv, IInv', NEW j \in Job, PushFront(j) PROVE SQ!Next
<1> DEFINE b == CmdQueue[j]
<1> USE DEF IInv, PushFront
<1>1. RunningJobs' = RunningJobs
  BY DEF RunningJobs
<1>2. CASE Queued(j)
  <2>1. /\ b \in QueueName /\ queues[b] = <<>> /\ queues'[b] = Append(queues[b], j)
        /\ \A q \in QueueName : q # b => queues'[q] = queues[q]
    BY <1>2, QueueOfJob DEF TypeOK, PushBack
  <2>2. \A q \in QueueName : q # b => SameAt(q)
    BY <2>1 DEF SameAt, Ended
  <2>3. queues'[b] = <<j>> /\ runner'[j] = "queued"
    BY <2>1 DEF SubmittedWaits
  <2>4. ~Ended(b) /\ ~Ended(b)'
    BY <2>1, <2>3 DEF Ended
  <2>5. Line[b] = queues[b]
    BY <2>1, <2>4, LineOfCases DEF Line
  <2>6. Line' = [Line EXCEPT ![b] = Append(Line[b], j)]
    BY <2>1, <2>2, <2>4, <2>5, OneLine
  <2>7. Pool' = Pool
    BY <1>2 DEF Pool, Queued, TypeOK
  <2> QED
    BY <1>1, <1>2, <2>6, <2>7, PushAccepts
<1>3. CASE ~Queued(j)
  <2>1. queues' = queues /\ runner' = runner
    BY <1>3 DEF PushBack
  <2>2. \A q \in QueueName : SameAt(q)
    BY <2>1 DEF SameAt, Ended
  <2>3. Line' = Line
    BY <2>2, SameLines
  <2>4. Pool' = Pool \cup {j}
    BY <1>3, <2>1 DEF Pool, Queued, TypeOK
  <2> QED
    BY <1>1, <1>3, <2>3, <2>4, PushAccepts
<1> QED
  BY <1>2, <1>3

\* RunFactory refuses or returns.
LEMMA RunFactoryReturnStutters ==
  ASSUME IInv, IInv', NEW j \in Job, RunFactoryReturn(j) \/ RunFactoryDuplicate(j)
  PROVE  Stutter
<1> USE DEF IInv, RunFactoryReturn, RunFactoryDuplicate
<1>1. \A q \in QueueName : SameAt(q)
  BY DEF SameAt, Ended
<1>2. Pool' = Pool /\ RunningJobs' = RunningJobs
  BY DEF Pool, RunningJobs, Queued, TypeOK
<1> QED
  BY <1>1, <1>2, SameLines DEF Stutter

\* The dispatcher checks or sleeps.
LEMMA LoopStutters ==
  ASSUME IInv, IInv', LoopCheck \/ LoopWait \/ UNCHANGED vars PROVE Stutter
<1> USE DEF IInv, LoopCheck, LoopWait, vars
<1>1. \A q \in QueueName : SameAt(q)
  BY DEF SameAt, Ended
<1>2. Pool' = Pool /\ RunningJobs' = RunningJobs
  BY DEF Pool, RunningJobs, Queued
<1> QED
  BY <1>1, <1>2, SameLines DEF Stutter

\* The dispatcher receives from Push.
LEMMA ReceivePushedStarts ==
  ASSUME IInv, IInv', BoundInv, NEW j \in Job, ReceivePushed(j) PROVE SQ!Next
<1> DEFINE b == CmdQueue[j]
<1> USE DEF IInv, ReceivePushed
<1>1. runner[j] = "queued"
  BY DEF SubmittedWaits
<1>2. \A q \in QueueName : SameAt(q)
  <2> SUFFICES ASSUME NEW q \in QueueName PROVE SameAt(q)
    OBVIOUS
  <2>1. queues[q] # <<>> => queues[q][1] \in Job
    BY EmptyLen DEF TypeOK
  <2> QED
    BY <1>1, <2>1 DEF SameAt, Ended, TypeOK
<1>3. Line' = Line
  BY <1>2, SameLines
<1>4. Pool' = Pool /\ j \notin RunningJobs /\ RunningJobs' = RunningJobs \cup {j}
  BY <1>1 DEF Pool, RunningJobs, Queued, TypeOK
<1>5. CASE ~Queued(j)
  <2>1. j \in Pool
    BY <1>5 DEF Pool
  <2> QED
    BY <1>3, <1>4, <1>5, <2>1, ReceiveStarts
<1>6. CASE Queued(j)
  <2>1. b \in QueueName /\ queues[b] \in Seq(Job) /\ queues[b] # <<>> /\ queues[b][1] = j
    BY <1>6, QueueOfJob DEF TypeOK, QueueInv, FrontIsStarted, IsFront
  <2>2. ~Ended(b)
    BY <1>1, <2>1 DEF Ended
  <2>3. Line[b] = queues[b] /\ Head(queues[b]) = j
    BY <2>1, <2>2, LineOfCases DEF Line
  <2> QED
    BY <1>3, <1>4, <1>6, <2>1, <2>3, ReceiveStarts
<1> QED
  BY <1>5, <1>6

\* The dispatcher receives from Notify.
LEMMA ReceiveNextStarts ==
  ASSUME IInv, IInv', BoundInv, NEW j \in Job, ReceiveNext(j) PROVE SQ!Next
<1> DEFINE b == CmdQueue[j]
           n == Head(queues[b])
<1> USE DEF IInv, ReceiveNext
<1>1. /\ Queued(j) /\ b \in QueueName
      /\ queues[b] \in Seq(Job) /\ queues[b] # <<>> /\ runner[queues[b][1]] = "queued"
  BY QueueOfJob DEF TypeOK, QueueInv, HandoverIsFront
<1>2. n \in Job /\ n = queues[b][1] /\ runner[n] = "queued" /\ 1 \in 1 .. Len(queues[b])
  BY <1>1, EmptyLen
<1>3. CmdQueue[n] = b /\ Queued(n)
  BY <1>1, <1>2 DEF QueueInv, QueueMembers, Queued
<1>4. /\ runner' = [runner EXCEPT ![j] = "unlock", ![n] = "running"]
      /\ runner[j] = "handover" /\ queues' = queues /\ submit' = submit
  OBVIOUS
<1>5. \A q \in QueueName : queues[q] # <<>> => queues[q][1] \in Job
  BY EmptyLen DEF TypeOK
<1> HIDE DEF n
<1>6. \A q \in QueueName : SameAt(q)
  BY <1>2, <1>4, <1>5 DEF SameAt, Ended, TypeOK
<1>7. Line' = Line
  BY <1>6, SameLines
<1>8. Pool' = Pool /\ n \notin RunningJobs /\ RunningJobs' = RunningJobs \cup {n}
  BY <1>1, <1>2, <1>3, <1>4 DEF Pool, RunningJobs, Queued, TypeOK
<1>9. ~Ended(b)
  BY <1>1 DEF Ended
<1>10. Line[b] = queues[b] /\ Head(Line[b]) = n
  BY <1>1, <1>9, LineOfCases DEF Line, n
<1> QED
  BY <1>1, <1>2, <1>3, <1>7, <1>8, <1>10, ReceiveStarts

\* A job without a queue is the front of none.
LEMMA NotInQueue ==
  ASSUME IInv, NEW j \in Job, ~Queued(j), NEW q \in QueueName, queues[q] # <<>>
  PROVE  queues[q][1] \in Job /\ queues[q][1] # j
<1>1. queues[q][1] \in Job /\ 1 \in 1 .. Len(queues[q])
  BY EmptyLen DEF IInv, TypeOK
<1> QED
  BY <1>1, JobAssumption DEF IInv, QueueInv, QueueMembers, Queued

\* The front of another queue is another job.
LEMMA NotInOtherQueue ==
  ASSUME IInv, NEW j \in Job, NEW q \in QueueName, q # CmdQueue[j], queues[q] # <<>>
  PROVE  queues[q][1] \in Job /\ queues[q][1] # j
<1>1. queues[q][1] \in Job /\ 1 \in 1 .. Len(queues[q])
  BY EmptyLen DEF IInv, TypeOK
<1> QED
  BY <1>1 DEF IInv, QueueInv, QueueMembers

\* A run ends: the front of the line leaves it.
LEMMA FinishStepEnds ==
  ASSUME IInv, IInv', NEW j \in Job, Finish(j) PROVE SQ!Next
<1> DEFINE b == CmdQueue[j]
<1> USE DEF IInv, Finish
<1>1. j \in RunningJobs /\ RunningJobs' = RunningJobs \ {j}
  BY DEF RunningJobs, TypeOK
<1>2. CASE Queued(j)
  <2>1. b \in QueueName /\ queues[b] \in Seq(Job) /\ queues[b] # <<>> /\ queues[b][1] = j
    BY <1>2, QueueOfJob DEF TypeOK, QueueInv, FrontIsStarted, IsFront, Occupies
  <2>2. \A q \in QueueName : q # b => SameAt(q)
    BY NotInOtherQueue DEF SameAt, Ended, TypeOK
  <2>3. ~Ended(b) /\ Ended(b)'
    BY <2>1 DEF Ended, TypeOK
  <2>4. Line[b] = queues[b] /\ queues'[b] = queues[b]
    BY <2>1, <2>3, LineOfCases DEF Line
  <2>5. Line' = [Line EXCEPT ![b] = Tail(Line[b])]
    BY <2>1, <2>2, <2>3, <2>4, OneLine
  <2>6. Pool' = Pool
    BY <1>2 DEF Pool, Queued, TypeOK
  <2> QED
    BY <1>1, <1>2, <2>5, <2>6, FinishEnds
<1>3. CASE ~Queued(j)
  <2>1. \A q \in QueueName : SameAt(q)
    BY <1>3, NotInQueue DEF SameAt, Ended, TypeOK
  <2>2. Line' = Line
    BY <2>1, SameLines
  <2>3. Pool' = Pool \ {j}
    BY DEF Pool, Queued, TypeOK, SubmittedWaits
  <2> QED
    BY <1>1, <1>3, <2>2, <2>3, FinishEnds
<1> QED
  BY <1>2, <1>3

\* cleanUp, and the goroutine's end, happen behind the back of the clients.
LEMMA CleanUpStutters ==
  ASSUME IInv, IInv', NEW j \in Job, CleanUp(j) \/ NotifyReturn(j) \/ Broadcast(j)
  PROVE  Stutter
<1> USE DEF IInv, CleanUp, NotifyReturn, Broadcast
<1>1. \A q \in QueueName : queues[q] # <<>> =>
        /\ queues[q][1] \in Job
        /\ runner[queues[q][1]] \in {"queued", "running", "delete", "notify"}
  <2> SUFFICES ASSUME NEW q \in QueueName, queues[q] # <<>>
               PROVE  /\ queues[q][1] \in Job
                      /\ runner[queues[q][1]] \in {"queued", "running", "delete", "notify"}
    OBVIOUS
  <2>1. queues[q][1] \in Job /\ 1 \in 1 .. Len(queues[q])
    BY EmptyLen DEF TypeOK
  <2> QED
    BY <2>1 DEF QueueInv, QueueMembers, Occupies
<1>2. \A q \in QueueName : SameAt(q)
  BY <1>1 DEF SameAt, Ended, TypeOK
<1>3. Pool' = Pool /\ RunningJobs' = RunningJobs
  BY DEF Pool, RunningJobs, Queued, TypeOK, SubmittedWaits
<1> QED
  BY <1>2, <1>3, SameLines DEF Stutter

\* Notify removes a job that left its line when its run ended.
LEMMA NotifyStutters ==
  ASSUME IInv, IInv', NEW j \in Job, NotifyLast(j) \/ NotifyNext(j) PROVE Stutter
<1> DEFINE b == CmdQueue[j]
<1> USE DEF IInv, NotifyLast, NotifyNext
<1>1. Pool' = Pool /\ RunningJobs' = RunningJobs
  BY DEF Pool, RunningJobs, Queued, TypeOK
<1>2. CASE Queued(j)
  <2>1. b \in QueueName /\ queues[b] \in Seq(Job) /\ queues[b] # <<>> /\ queues[b][1] = j
    BY <1>2, QueueOfJob DEF TypeOK, QueueInv, FrontIsStarted, IsFront, Occupies
  <2>2. /\ queues'[b] = Tail(queues[b])
        /\ \A q \in QueueName : q # b => queues'[q] = queues[q]
    BY <1>2, <2>1 DEF RemoveFront, TypeOK
  <2>3. \A q \in QueueName : q # b => SameAt(q)
    BY <2>2, NotInOtherQueue DEF SameAt, Ended, TypeOK
  <2>4. Line[b] = Tail(queues[b])
    BY <2>1, LineOfCases DEF Line, Ended
  <2>5. ~Ended(b)'
    <3> SUFFICES ASSUME queues'[b] # <<>>
                 PROVE  runner'[queues'[b][1]] \notin {"delete", "notify"}
      BY DEF Ended
    <3>1. \A i \in 1 .. Len(queues'[b]) : runner'[queues'[b][i]] = "queued"
      BY <1>2, RemovedFront
    <3>2. 1 \in 1 .. Len(queues'[b])
      BY <2>1, <2>2, EmptyLen DEF TypeOK
    <3> QED
      BY <3>1, <3>2
  <2>6. Line' = [Line EXCEPT ![b] = Line[b]]
    BY <2>1, <2>2, <2>3, <2>4, <2>5, OneLine
  <2>7. Line' = Line
    BY <2>1, <2>6 DEF Line
  <2> QED
    BY <1>1, <2>7 DEF Stutter
<1>3. CASE ~Queued(j)
  <2>1. queues' = queues
    BY <1>3 DEF RemoveFront
  <2>2. \A q \in QueueName : SameAt(q)
    BY <1>3, <2>1, NotInQueue DEF SameAt, Ended, TypeOK
  <2> QED
    BY <1>1, <2>2, SameLines DEF Stutter
<1> QED
  BY <1>2, <1>3

\* Every step of the goroutines is a step of the contract or none.
LEMMA NextRefines ==
  IInv /\ IInv' /\ BoundInv /\ [Next]_vars => [SQ!Next]_(SQ!contract)
<1> SUFFICES ASSUME IInv, IInv', BoundInv, [Next]_vars PROVE SQ!Next \/ Stutter
  BY DEF Stutter, SQ!contract, Line, Pool, RunningJobs
<1>1. CASE LoopCheck \/ LoopWait \/ UNCHANGED vars
  BY <1>1, LoopStutters
<1>2. ASSUME NEW j \in Job, ReceivePushed(j) \/ ReceiveNext(j) PROVE SQ!Next
  BY <1>2, ReceivePushedStarts, ReceiveNextStarts
<1>3. ASSUME NEW j \in Job, Submitter(j) PROVE SQ!Next \/ Stutter
  BY <1>3, RunFactoryStutters, PushBehindAccepts, PushFrontAccepts,
     RunFactoryReturnStutters DEF Submitter
<1>4. ASSUME NEW j \in Job, Runner(j) PROVE SQ!Next \/ Stutter
  BY <1>4, FinishStepEnds, CleanUpStutters, NotifyStutters DEF Runner
<1> QED
  BY <1>1, <1>2, <1>3, <1>4 DEF Next, Dispatcher

\* The empty table is the initial state of the contract.
LEMMA InitRefines == Init => SQ!Init
  BY DEF Init, SQ!Init, LineOf

\* pm.go and queue.go implement the contract SerialQueues: unique ids, queues
\* served in order by one job at a time, at most MaxJobs jobs running.
THEOREM Implements == Spec => Promise
<1>1. Spec => []BoundInv
  BY SpecIInv, InitBoundInv, NextBoundInv, PTL DEF Spec
<1> QED
  BY <1>1, SpecIInv, InitRefines, NextRefines, PTL DEF Spec, Promise, SQ!Spec
=============================================================================
