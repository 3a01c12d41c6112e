---------------------------- MODULE ProcessManager ----------------------------
(***************************************************************************)
(* The job table and the dispatcher of the process manager                 *)
(* (base/pm/pm.go, base/pm/queue.go).                                      *)
(*                                                                         *)
(* Three kinds of goroutines meet here:                                    *)
(*   - a submitter per command, in RunFactory and Queue.Push;              *)
(*   - the dispatcher, in loop();                                          *)
(*   - a runner per started job, in jobImb.start, cleanUp, Queue.Notify.   *)
(* They share the job table (guarded by jobsM), the named queues (guarded  *)
(* by the queue's lock), the unbuffered channel of the queue and the       *)
(* condition variable jobsCond the dispatcher sleeps on.                   *)
(*                                                                         *)
(* Every step that can block in the code is an action of its own, and a    *)
(* lock is held from the action that takes it to the action that releases  *)
(* it, so that all the interleavings of the code are behaviours here.      *)
(***************************************************************************)
EXTENDS Naturals, Sequences, FiniteSets

CONSTANTS
  Job,        \* the commands clients submit; one may be submitted again once it is over
  ID,         \* command ids
  QueueName,  \* names of the serial queues
  NoQueue,    \* Command.Queue = "": the job is not queued behind any other
  CmdID,      \* Command.ID of each job
  CmdQueue,   \* Command.Queue of each job
  MaxJobs,    \* pm.MaxJobs
  NoJob       \* nil

ASSUME JobAssumption ==
  /\ CmdID \in [Job -> ID]
  /\ CmdQueue \in [Job -> QueueName \cup {NoQueue}]
  /\ NoQueue \notin QueueName
  /\ NoJob \notin Job
ASSUME MaxJobsAssumption == MaxJobs \in Nat

VARIABLES
  jobs,     \* the job table: the job registered under each id, or NoJob
  jobsM,    \* the submitter that holds the write lock of the table, or NoJob
  queues,   \* the named queues; an absent queue and an empty one are the same
  qlock,    \* the job whose goroutine holds the queue's lock, or NoJob
  submit,   \* where the RunFactory call of each job is
  runner,   \* where the goroutine of each job is
  loop      \* where the dispatcher is

vars == <<jobs, jobsM, queues, qlock, submit, runner, loop>>

-----------------------------------------------------------------------------
SubmitPC == {"idle", "push", "send", "return", "rejected"}
RunnerPC == {"none", "queued", "running", "delete", "notify", "handover",
             "unlock", "broadcast"}
LoopPC   == {"check", "wait", "waiting", "receive"}

Queued(j) == CmdQueue[j] # NoQueue

\* len(jobs): the dispatcher counts every registered job, started or not.
NumJobs == Cardinality({i \in ID : jobs[i] # NoJob})

\* The queues after `j' is pushed at the back of its queue.
PushBack(j) ==
  IF Queued(j) THEN [queues EXCEPT ![CmdQueue[j]] = Append(@, j)] ELSE queues

\* The queues after the front of j's queue is removed (nothing to remove for a
\* job without a queue, or when the queue is not known).
RemoveFront(j) ==
  IF Queued(j) /\ queues[CmdQueue[j]] # <<>>
  THEN [queues EXCEPT ![CmdQueue[j]] = Tail(@)]
  ELSE queues

Init ==
  /\ jobs   = [i \in ID |-> NoJob]
  /\ jobsM  = NoJob
  /\ queues = [q \in QueueName |-> <<>>]
  /\ qlock  = NoJob
  /\ submit = [j \in Job |-> "idle"]
  /\ runner = [j \in Job |-> "none"]
  /\ loop   = "check"

-----------------------------------------------------------------------------
(* Mutants: bugs this code could have, each caught by a property below.    *)

\* RunFactory enters the id and not the job in the table.
RunFactoryStoresID(j) ==
  /\ submit[j] \in {"idle", "rejected"}
  /\ runner[j] = "none"
  /\ jobsM = NoJob
  /\ jobs[CmdID[j]] = NoJob
  /\ jobs'   = [jobs EXCEPT ![CmdID[j]] = CmdID[j]]
  /\ jobsM'  = j
  /\ submit' = [submit EXCEPT ![j] = "push"]
  /\ runner' = [runner EXCEPT ![j] = "queued"]
  /\ UNCHANGED <<queues, qlock, loop>>

\* RunFactory does not look for the id in the table.
RunFactoryUnchecked(j) ==
  /\ submit[j] \in {"idle", "rejected"}
  /\ runner[j] = "none"
  /\ jobsM = NoJob
  /\ jobs'   = [jobs EXCEPT ![CmdID[j]] = j]
  /\ jobsM'  = j
  /\ submit' = [submit EXCEPT ![j] = "push"]
  /\ runner' = [runner EXCEPT ![j] = "queued"]
  /\ UNCHANGED <<queues, qlock, loop>>

\* Push always sends the job, also when others of its queue are before it.
PushAlwaysSends(j) ==
  /\ submit[j] = "push"
  /\ qlock = NoJob
  /\ queues' = PushBack(j)
  /\ qlock'  = j
  /\ submit' = [submit EXCEPT ![j] = "send"]
  /\ UNCHANGED <<jobs, jobsM, runner, loop>>

\* Push puts a job that has to wait before the job that runs.
PushBeforeFront(j) ==
  /\ submit[j] = "push"
  /\ qlock = NoJob
  /\ Queued(j)
  /\ queues[CmdQueue[j]] # <<>>
  /\ queues' = [queues EXCEPT ![CmdQueue[j]] = <<j>> \o @]
  /\ submit' = [submit EXCEPT ![j] = "idle"]
  /\ jobsM'  = NoJob
  /\ UNCHANGED <<jobs, qlock, runner, loop>>

\* loop() compares with > in place of >=.
LoopCheckOffByOne ==
  /\ loop = "check"
  /\ loop' = IF NumJobs > MaxJobs THEN "wait" ELSE "receive"
  /\ UNCHANGED <<jobs, jobsM, queues, qlock, submit, runner>>

\* Notify removes the front and forgets to send the next job.
NotifyDropsNext(j) ==
  /\ runner[j] = "notify"
  /\ qlock = NoJob
  /\ Queued(j)
  /\ Len(queues[CmdQueue[j]]) > 1
  /\ queues' = RemoveFront(j)
  /\ runner' = [runner EXCEPT ![j] = "broadcast"]
  /\ UNCHANGED <<jobs, jobsM, qlock, submit, loop>>

-----------------------------------------------------------------------------
(* Submitters: RunFactory and Queue.Push.                                  *)

\* RunFactory takes jobsM, finds the id free and registers the job. The lock
\* is held (deferred unlock) until the job is pushed.
RunFactory(j) ==
  /\ submit[j] \in {"idle", "rejected"}
  /\ runner[j] = "none"
  /\ jobsM = NoJob
  /\ jobs[CmdID[j]] = NoJob
  /\ jobs'   = [jobs EXCEPT ![CmdID[j]] = j]
  /\ jobsM'  = j
  /\ submit' = [submit EXCEPT ![j] = "push"]
  /\ runner' = [runner EXCEPT ![j] = "queued"]
  /\ UNCHANGED <<queues, qlock, loop>>

\* RunFactory finds the id in the table: DuplicateIDErr.
RunFactoryDuplicate(j) ==
  /\ submit[j] = "idle"
  /\ runner[j] = "none"
  /\ jobsM = NoJob
  /\ jobs[CmdID[j]] # NoJob
  /\ submit' = [submit EXCEPT ![j] = "rejected"]
  /\ UNCHANGED <<jobs, jobsM, queues, qlock, runner, loop>>

\* Push of a job that has to wait behind others: it returns at once, and
\* RunFactory after it.
PushBehind(j) ==
  /\ submit[j] = "push"
  /\ qlock = NoJob
  /\ Queued(j)
  /\ queues[CmdQueue[j]] # <<>>
  /\ queues' = PushBack(j)
  /\ submit' = [submit EXCEPT ![j] = "idle"]
  /\ jobsM'  = NoJob
  /\ UNCHANGED <<jobs, qlock, runner, loop>>

\* Push of a job without a queue, or of the first job of its queue: the job is
\* sent on the unbuffered channel with both locks held.
PushFront(j) ==
  /\ submit[j] = "push"
  /\ qlock = NoJob
  /\ Queued(j) => queues[CmdQueue[j]] = <<>>
  /\ queues' = PushBack(j)
  /\ qlock'  = j
  /\ submit' = [submit EXCEPT ![j] = "send"]
  /\ UNCHANGED <<jobs, jobsM, runner, loop>>

\* The deferred unlocks of Push and of RunFactory.
RunFactoryReturn(j) ==
  /\ submit[j] = "return"
  /\ qlock'  = NoJob
  /\ jobsM'  = NoJob
  /\ submit' = [submit EXCEPT ![j] = "idle"]
  /\ UNCHANGED <<jobs, queues, runner, loop>>

-----------------------------------------------------------------------------
(* The dispatcher: loop().                                                 *)

\* The test of `for len(jobs) >= MaxJobs'. It holds jobsCond.L, which nobody
\* else ever takes, and not jobsM.
LoopCheck ==
  /\ loop = "check"
  /\ loop' = IF NumJobs >= MaxJobs THEN "wait" ELSE "receive"
  /\ UNCHANGED <<jobs, jobsM, queues, qlock, submit, runner>>

\* jobsCond.Wait(): from here on a Broadcast is noticed, and not before.
LoopWait ==
  /\ loop = "wait"
  /\ loop' = "waiting"
  /\ UNCHANGED <<jobs, jobsM, queues, qlock, submit, runner>>

\* `job := <-ch' meets the send of Push; `go job.start()'.
ReceivePushed(j) ==
  /\ loop = "receive"
  /\ submit[j] = "send"
  /\ submit' = [submit EXCEPT ![j] = "return"]
  /\ runner' = [runner EXCEPT ![j] = "running"]
  /\ loop'   = "check"
  /\ UNCHANGED <<jobs, jobsM, queues, qlock>>

\* `job := <-ch' meets the send of Notify(j): the job now at the front of the
\* queue of `j' is started.
ReceiveNext(j) ==
  /\ loop = "receive"
  /\ runner[j] = "handover"
  /\ LET next == Head(queues[CmdQueue[j]])
     IN  runner' = [runner EXCEPT ![j] = "unlock", ![next] = "running"]
  /\ loop' = "check"
  /\ UNCHANGED <<jobs, jobsM, queues, qlock, submit>>

-----------------------------------------------------------------------------
(* Runners: the end of jobImb.start, cleanUp and Queue.Notify.             *)

\* The job is over (its runs are the subject of module Job).
Finish(j) ==
  /\ runner[j] = "running"
  /\ runner' = [runner EXCEPT ![j] = "delete"]
  /\ UNCHANGED <<jobs, jobsM, queues, qlock, submit, loop>>

\* cleanUp takes jobsM and removes whatever is registered under the job's id.
CleanUp(j) ==
  /\ runner[j] = "delete"
  /\ jobsM = NoJob
  /\ jobs'   = [jobs EXCEPT ![CmdID[j]] = NoJob]
  /\ runner' = [runner EXCEPT ![j] = "notify"]
  /\ UNCHANGED <<jobsM, queues, qlock, submit, loop>>

\* Notify when nobody waits behind the job.
NotifyLast(j) ==
  /\ runner[j] = "notify"
  /\ qlock = NoJob
  /\ Queued(j) => Len(queues[CmdQueue[j]]) <= 1
  /\ queues' = RemoveFront(j)
  /\ runner' = [runner EXCEPT ![j] = "broadcast"]
  /\ UNCHANGED <<jobs, jobsM, qlock, submit, loop>>

\* Notify when there is a next job: it is sent with the queue's lock held.
NotifyNext(j) ==
  /\ runner[j] = "notify"
  /\ qlock = NoJob
  /\ Queued(j)
  /\ Len(queues[CmdQueue[j]]) > 1
  /\ queues' = RemoveFront(j)
  /\ qlock'  = j
  /\ runner' = [runner EXCEPT ![j] = "handover"]
  /\ UNCHANGED <<jobs, jobsM, submit, loop>>

\* The deferred unlock of Notify.
NotifyReturn(j) ==
  /\ runner[j] = "unlock"
  /\ qlock'  = NoJob
  /\ runner' = [runner EXCEPT ![j] = "broadcast"]
  /\ UNCHANGED <<jobs, jobsM, queues, submit, loop>>

\* jobsCond.Broadcast(), the last thing the goroutine does.
Broadcast(j) ==
  /\ runner[j] = "broadcast"
  /\ runner' = [runner EXCEPT ![j] = "none"]
  /\ loop'   = IF loop = "waiting" THEN "check" ELSE loop
  /\ UNCHANGED <<jobs, jobsM, queues, qlock, submit>>

-----------------------------------------------------------------------------
Submitter(j) ==
  \/ RunFactory(j) \/ RunFactoryDuplicate(j)
  \/ PushBehind(j) \/ PushFront(j) \/ RunFactoryReturn(j)

Dispatcher ==
  \/ LoopCheck \/ LoopWait
  \/ \E j \in Job : ReceivePushed(j) \/ ReceiveNext(j)

Runner(j) ==
  \/ Finish(j) \/ CleanUp(j)
  \/ NotifyLast(j) \/ NotifyNext(j) \/ NotifyReturn(j) \/ Broadcast(j)

Next == Dispatcher \/ \E j \in Job : Submitter(j) \/ Runner(j)

Spec == Init /\ [][Next]_vars

\* Goroutines that can run do run; a goroutine that keeps finding a mutex free
\* gets it (a sync.Mutex hands over to a waiter that starves); a job that runs
\* ends. No client has to submit anything.
Fairness ==
  /\ WF_vars(Dispatcher)
  /\ \A j \in Job : SF_vars(PushBehind(j) \/ PushFront(j) \/ RunFactoryReturn(j))
  /\ \A j \in Job : SF_vars(Runner(j))

FairSpec == Spec /\ Fairness

-----------------------------------------------------------------------------
(* Properties.                                                             *)

\* The types of the variables.
TypeOK ==
  /\ jobs   \in [ID -> Job \cup {NoJob}]
  /\ jobsM  \in Job \cup {NoJob}
  /\ queues \in [QueueName -> Seq(Job)]
  /\ qlock  \in Job \cup {NoJob}
  /\ submit \in [Job -> SubmitPC]
  /\ runner \in [Job -> RunnerPC]
  /\ loop   \in LoopPC

\* Between its registration and its cleanup a job is in the table.
Registered(j) == runner[j] \in {"queued", "running", "delete"}

\* Between its start and the removal of the front of its queue by Notify a job
\* occupies its queue.
Occupies(j) == runner[j] \in {"running", "delete", "notify"}

\* cleanUp deletes by id, Push and Notify are told nothing of the table, yet a
\* job is registered under its id exactly from RunFactory to cleanUp: no job
\* loses its entry to the cleanup of another and none is left behind.
TableIsExact == \A j \in Job : Registered(j) <=> jobs[CmdID[j]] = j

\* "Commands on queues are process sequentially": two jobs of one queue are
\* never both started and not yet over, although Notify removes whatever is at
\* the front without looking at the job it was called for.
QueueIsSerial ==
  \A j, k \in Job :
    (j # k /\ Queued(j) /\ CmdQueue[j] = CmdQueue[k]) => ~(Occupies(j) /\ Occupies(k))

\* The job Notify removes from the front of the queue is the one that ended.
NotifyRemovesItself ==
  \A j \in Job :
    (runner[j] = "notify" /\ Queued(j)) =>
      /\ queues[CmdQueue[j]] # <<>>
      /\ Head(queues[CmdQueue[j]]) = j

\* "Max parallel jobs the core can execute concurrently": the unlocked test of
\* the dispatcher is enough to never run more than MaxJobs jobs at a time.
AtMostMaxJobs == Cardinality({j \in Job : runner[j] = "running"}) <= MaxJobs

\* A job that was accepted is eventually started: neither the hand-over in the
\* queues nor the sleep of the dispatcher loses it.
AcceptedJobStarts == \A j \in Job : runner[j] = "queued" ~> runner[j] = "running"

\* Everyone waits for everyone: the table is full and the dispatcher waits for a
\* Broadcast, cleanUp waits for jobsM, and the submitter that holds jobsM waits for
\* the dispatcher, or for a Notify that does.
StalledFull ==
  /\ loop # "receive" /\ NumJobs >= MaxJobs
  /\ \E j \in Job :
       /\ jobsM = j
       /\ \/ submit[j] = "send"
          \/ submit[j] = "push" /\ \E k \in Job : runner[k] = "handover"

\* Or the dispatcher sleeps, woken too early or not yet, while a submitter or a
\* Notify that waits for it holds the queue's lock, and every Broadcast comes
\* after a Notify.
StalledAsleep ==
  /\ loop \in {"wait", "waiting"}
  /\ \E j \in Job : submit[j] = "send" \/ runner[j] = "handover"
  /\ \A j \in Job : runner[j] # "broadcast"

Stalled == StalledFull \/ StalledAsleep

\* This is the only way to lose an accepted job: it is started, or the process
\* manager stalls.
StartsOrStalls == \A j \in Job : runner[j] = "queued" ~> (runner[j] = "running" \/ Stalled)

\* And the only way for a call of RunFactory not to return.
ReturnsOrStalls == \A j \in Job : submit[j] = "push" ~> (submit[j] = "idle" \/ Stalled)

\* Every call of RunFactory returns and every job it accepts is started, unless
\* the process manager stalls.
ServesOrStalls == StartsOrStalls /\ ReturnsOrStalls

\* A stall is for good: no step of any goroutine, a submission of a client
\* included, ends it.
StallIsFinal == [][Stalled => Stalled']_vars

-----------------------------------------------------------------------------
(* The promise.                                                            *)

\* What a client sees of a queue: a job leaves it when its run is over, before
\* cleanUp and Notify get to it.
LineOf(q) ==
  IF queues[q] # <<>> /\ runner[Head(queues[q])] \in {"delete", "notify"}
  THEN Tail(queues[q])
  ELSE queues[q]

SQ == INSTANCE SerialQueues WITH
        line    <- [q \in QueueName |-> LineOf(q)],
        pool    <- {j \in Job : ~Queued(j) /\ (submit[j] = "send" \/ runner[j] = "running")},
        running <- {j \in Job : runner[j] = "running"}

\* The goroutines together implement SerialQueues: unique ids, queues served in
\* the order of acceptance by one job at a time, at most MaxJobs jobs running.
Promise == SQ!Spec
=============================================================================
