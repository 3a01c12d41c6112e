------------------------------ MODULE Job_proofs ------------------------------
(***************************************************************************)
(* Proofs about Job, for every command and any number of clients: the      *)
(* bound on the trials, the result that is reported, that no process is    *)
(* left behind and that Unschedule is final; about PIDTable, that every    *)
(* job is told the status of its own process; and about Shutdown, that its *)
(* stages are kept and that what got its signal does not come back.        *)
(*                                                                         *)
(* Those about Job rest on what the goroutine knows at each of its steps   *)
(* (IInv), whatever the clients do in between: how many runs it has begun  *)
(* compared with the failures it has counted, what the state of the run    *)
(* says of its exit, and that it waits for a restart only as long as the   *)
(* job is scheduled.  The other two have an invariant of their own.        *)
(***************************************************************************)
EXTENDS Job, PIDTable, Shutdown, TLAPS

\* Protected is only ever cleared, and only protected jobs back off.
ProtectedByCommand ==
  /\ protected => cmd.protected
  /\ pc = "backoff" => cmd.protected

\* A goroutine that waits for a restart has not been unscheduled.
DelayIsScheduled == pc = "delay" => ~unscheduled

\* The trials a command has.
Trials == IF cmd.maxRestart = 0 THEN 1 ELSE cmd.maxRestart

\* The runs begun and the failures counted, at each place of the goroutine.
RunsAreCounted ==
  (~cmd.protected /\ ~cmd.recurring) =>
    /\ pc = "queued" => (spawned = 0 /\ runs = 0)
    /\ pc \in {"spawn", "delay"} => (spawned = runs /\ spawned < Trials)
    /\ pc \in {"select", "exited"} => (spawned = runs + 1 /\ spawned <= Trials)
    /\ spawned <= Trials

\* During a run its state is no success yet, and a timeout comes from a timer.
StateOfRun ==
  /\ timer => cmd.maxTime
  /\ pc = "select" => (state \in {"error", "timeout"} /\ (state = "timeout" => cmd.maxTime))

\* After a run its state tells how it ended.
StateAfterRun ==
  pc \in {"exited", "backoff", "delay", "stop", "closing", "report", "done"} =>
    /\ state = "success" <=> lastExit = "ok"
    /\ state = "timeout" => (cmd.maxTime /\ lastExit = "failed")

\* The result is reported once, with the state of the last run.
ReportedOnce ==
  /\ reported = IF pc = "done" THEN 1 ELSE 0
  /\ pc = "done" => result = state

IInv ==
  /\ TypeOK /\ NoOrphan /\ ProtectedByCommand /\ DelayIsScheduled
  /\ RunsAreCounted /\ StateOfRun /\ StateAfterRun /\ ReportedOnce

\* The fields of a command have their types.
LEMMA CommandFields ==
  ASSUME TypeOK
  PROVE  /\ cmd.maxRestart \in Nat /\ cmd.maxRestart + 1 < RunBound
         /\ cmd.recurring \in BOOLEAN /\ cmd.protected \in BOOLEAN
         /\ cmd.maxTime \in BOOLEAN /\ cmd.killable \in BOOLEAN
         /\ Trials \in Nat /\ Trials < RunBound
<1>1. cmd \in Command /\ cmd.maxRestart + 1 < RunBound /\ RunBound \in Nat
  BY JobAssumption DEF TypeOK
<1> QED
  BY <1>1 DEF Command, Trials

-----------------------------------------------------------------------------
\* The invariant holds of a new job.
LEMMA InitIInv == Init => IInv
<1> SUFFICES ASSUME Init PROVE IInv
  OBVIOUS
<1>1. cmd \in Command
  BY JobAssumption DEF Init
<1>2. TypeOK
  <2>1. cmd.maxRestart \in Nat /\ cmd.protected \in BOOLEAN
    BY <1>1 DEF Command
  <2>2. signal \in Seq(Signals) /\ Len(signal) <= SigCap
    BY JobAssumption DEF Init
  <2>3. client \in [Client -> ClientPC]
    BY DEF Init, ClientPC
  <2>4. /\ running \in BOOLEAN /\ closed \in BOOLEAN /\ unscheduled \in BOOLEAN
        /\ handle \in BOOLEAN /\ timer \in BOOLEAN
    BY Zenon DEF Init
  <2> QED
    BY <2>1, <2>2, <2>3, <2>4, JobAssumption DEF Init, TypeOK, JobPC, JobState
<1>3. NoOrphan /\ ProtectedByCommand /\ DelayIsScheduled /\ StateOfRun /\ StateAfterRun
  BY DEF Init, NoOrphan, ProtectedByCommand, DelayIsScheduled, StateOfRun, StateAfterRun
<1>4. RunsAreCounted /\ ReportedOnce
  BY <1>2, CommandFields DEF Init, RunsAreCounted, ReportedOnce, Trials
<1> QED
  BY <1>2, <1>3, <1>4 DEF IInv
-----------------------------------------------------------------------------
(* Every step keeps it: first the types, then the rest.                    *)

\* The goroutine, the process and the clients keep the types.
LEMMA NextType ==
  ASSUME IInv, [Next]_vars PROVE TypeOK'
<1> USE CommandFields, JobAssumption DEF IInv, TypeOK, JobPC, JobState
<1>1. CASE Start
  BY <1>1 DEF Start
<1>2. CASE RunFails
  <2>1. handle' \in BOOLEAN
    BY <1>2, Zenon DEF RunFails
  <2> QED
    BY <1>2, <2>1 DEF RunFails, CountRun
<1>3. CASE RunSpawns
  BY <1>3 DEF RunSpawns, CountRun, StartProcess
<1>4. CASE ProcExits
  BY <1>4 DEF ProcExits
<1>5. CASE TakeSignal
  BY <1>5 DEF TakeSignal, Signaled
<1>6. CASE Timeout
  <2>1. timer' \in BOOLEAN
    BY <1>6, Zenon DEF Timeout
  <2> QED
    BY <1>6, <2>1 DEF Timeout, Signaled
<1>7. CASE ExitMessage
  BY <1>7 DEF ExitMessage
<1>8. CASE AfterRun
  BY <1>8 DEF AfterRun, Restarting, Failed, CountFailure
<1>9. CASE Respawn
  BY <1>9 DEF Respawn
<1>10. CASE Stop
  <2>1. running' \in BOOLEAN
    BY <1>10, Zenon DEF Stop
  <2> QED
    BY <1>10, <2>1 DEF Stop
<1>11. CASE CloseSignal
  BY <1>11 DEF CloseSignal
<1>12. CASE Report
  BY <1>12 DEF Report, ReportedOnce
<1>13. ASSUME NEW c \in Client, Unschedule(c) PROVE TypeOK'
  BY <1>13 DEF Unschedule, DoUnschedule, ClientPC
<1>14. ASSUME NEW c \in Client, SignalCheck(c) PROVE TypeOK'
  BY <1>14 DEF SignalCheck, jobVars, ClientPC
<1>15. ASSUME NEW c \in Client, NEW sig \in Signals, SignalSend(c, sig) PROVE TypeOK'
  BY <1>15 DEF SignalSend, ClientPC
<1>16. ASSUME NEW c \in Client, TerminateUnschedule(c) PROVE TypeOK'
  BY <1>16 DEF TerminateUnschedule, DoUnschedule, ClientPC
<1>17. ASSUME NEW c \in Client, TerminateUnprotect(c) PROVE TypeOK'
  <2>1. protected' \in BOOLEAN
    BY <1>17, Zenon DEF TerminateUnprotect
  <2> QED
    BY <1>17, <2>1 DEF TerminateUnprotect, ClientPC
<1>18. CASE UNCHANGED vars
  BY <1>18 DEF vars, jobVars
<1> QED
  BY <1>1, <1>2, <1>3, <1>4, <1>5, <1>6, <1>7, <1>8, <1>9, <1>10, <1>11, <1>12, <1>13, <1>14, <1>15, <1>16, <1>17, <1>18 DEF Next, Goroutine, ClientStep

\* The rest of the invariant.
LEMMA NextRest ==
  ASSUME IInv, TypeOK', [Next]_vars
  PROVE  /\ NoOrphan' /\ ProtectedByCommand' /\ DelayIsScheduled'
         /\ RunsAreCounted' /\ StateOfRun' /\ StateAfterRun' /\ ReportedOnce'
<1> DEFINE Rest == /\ NoOrphan /\ ProtectedByCommand /\ DelayIsScheduled
                   /\ RunsAreCounted /\ StateOfRun /\ StateAfterRun /\ ReportedOnce
<1> USE CommandFields, JobAssumption
    DEF IInv, NoOrphan, ProtectedByCommand, DelayIsScheduled, RunsAreCounted, Trials,
        StateOfRun, StateAfterRun, ReportedOnce
<1>1. CASE Start
  BY <1>1 DEF Start, TypeOK
<1>2. CASE RunFails
  BY <1>2 DEF RunFails, CountRun, TypeOK
<1>3. CASE RunSpawns
  BY <1>3 DEF RunSpawns, CountRun, StartProcess, TypeOK
<1>4. CASE ProcExits
  BY <1>4 DEF ProcExits, TypeOK
<1>5. CASE TakeSignal
  BY <1>5 DEF TakeSignal, Signaled, TypeOK
<1>6. CASE Timeout
  BY <1>6 DEF Timeout, Signaled, TypeOK
<1>7. CASE ExitMessage
  <2>1. NoOrphan' /\ ProtectedByCommand' /\ DelayIsScheduled' /\ ReportedOnce'
    BY <1>7 DEF ExitMessage, TypeOK
  <2>2. RunsAreCounted'
    BY <1>7 DEF ExitMessage
  <2>3. StateOfRun'
    BY <1>7, Zenon DEF ExitMessage
  <2>4. StateAfterRun'
    BY <1>7 DEF ExitMessage, TypeOK
  <2> QED
    BY <2>1, <2>2, <2>3, <2>4
<1>8. CASE AfterRun
  <2>1. NoOrphan' /\ ProtectedByCommand' /\ DelayIsScheduled' /\ ReportedOnce'
    BY <1>8 DEF AfterRun
  <2>2. RunsAreCounted'
    <3> SUFFICES ASSUME ~cmd.protected, ~cmd.recurring
                 PROVE  /\ pc' \in {"delay", "stop"}
                        /\ pc' = "delay" => (spawned = runs' /\ spawned < Trials)
                        /\ spawned <= Trials
      BY <1>8 DEF AfterRun
    <3>1. /\ spawned = runs + 1 /\ spawned <= Trials /\ runs \in Nat
          /\ ~protected
      BY <1>8 DEF AfterRun, TypeOK
    <3>2. CASE Failed /\ runs + 1 < cmd.maxRestart
      BY <1>8, <3>1, <3>2 DEF AfterRun, CountFailure
    <3>3. CASE ~(Failed /\ runs + 1 < cmd.maxRestart)
      BY <1>8, <3>1, <3>3 DEF AfterRun, Restarting
    <3> QED
      BY <3>2, <3>3
  <2>3. StateOfRun' /\ StateAfterRun'
    BY <1>8 DEF AfterRun
  <2> QED
    BY <2>1, <2>2, <2>3
<1>9. CASE Respawn
  BY <1>9 DEF Respawn, TypeOK
<1>10. CASE Stop
  BY <1>10 DEF Stop, TypeOK
<1>11. CASE CloseSignal
  BY <1>11 DEF CloseSignal, TypeOK
<1>12. CASE Report
  BY <1>12 DEF Report, TypeOK
<1>13. ASSUME NEW c \in Client, Unschedule(c) PROVE Rest'
  BY <1>13 DEF Unschedule, DoUnschedule
<1>14. ASSUME NEW c \in Client, SignalCheck(c) PROVE Rest'
  BY <1>14 DEF SignalCheck, jobVars
<1>15. ASSUME NEW c \in Client, NEW sig \in Signals, SignalSend(c, sig) PROVE Rest'
  BY <1>15 DEF SignalSend
<1>16. ASSUME NEW c \in Client, TerminateUnschedule(c) PROVE Rest'
  BY <1>16 DEF TerminateUnschedule, DoUnschedule
<1>17. ASSUME NEW c \in Client, TerminateUnprotect(c) PROVE Rest'
  BY <1>17 DEF TerminateUnprotect
<1>18. CASE UNCHANGED vars
  BY <1>18 DEF vars, jobVars
<1> QED
  BY <1>1, <1>2, <1>3, <1>4, <1>5, <1>6, <1>7, <1>8, <1>9, <1>10, <1>11, <1>12, <1>13, <1>14, <1>15, <1>16, <1>17, <1>18 DEF Next, Goroutine, ClientStep

-----------------------------------------------------------------------------
\* The invariant holds of every reachable state.
THEOREM Invariance == Spec => []IInv
<1>1. IInv /\ [Next]_vars => IInv'
  BY NextType, NextRest DEF IInv
<1> QED
  BY InitIInv, <1>1, PTL DEF Spec

\* The variables of a job keep their types: the signal channel never holds more
\* than its capacity, and a result is reported at most once.
THEOREM TypeCorrect == Spec => []TypeOK
<1>1. IInv => TypeOK
  BY DEF IInv
<1> QED
  BY Invariance, <1>1, PTL

\* A job that is neither protected nor recurring runs at most MaxRestart times
\* (once if MaxRestart is 0): start counts failures, not runs.
THEOREM Trying == Spec => []TrialsAreBounded
<1>1. IInv => TrialsAreBounded
  BY DEF IInv, RunsAreCounted, Trials, TrialsAreBounded
<1> QED
  BY Invariance, <1>1, PTL

\* The result that start reports is that of the last run, although run, the
\* timer and the signals all write to the state of the run.
THEOREM LastRunCounts == Spec => []ResultMatchesLastRun
<1>1. IInv => ResultMatchesLastRun
  BY DEF IInv, StateAfterRun, ReportedOnce, ResultMatchesLastRun
<1> QED
  BY Invariance, <1>1, PTL

\* start reports, sleeps and restarts only when the process of the last run has
\* ended.
THEOREM NoneLeft == Spec => []NoOrphan
<1>1. IInv => NoOrphan
  BY DEF IInv
<1> QED
  BY Invariance, <1>1, PTL

\* Once a job that was started is unscheduled, start begins no further run of it
\* (unless the command is protected).
THEOREM UnscheduledForGood == Spec => UnscheduleIsFinal
<1> DEFINE NoRestart == (unscheduled /\ pc # "queued" /\ ~cmd.protected) =>
                           ~(pc # "spawn" /\ pc' = "spawn")
<1>1. IInv /\ [Next]_vars => [NoRestart]_vars
  <2> SUFFICES ASSUME IInv, Next, unscheduled, pc # "queued", ~cmd.protected, pc # "spawn"
               PROVE  pc' # "spawn"
    OBVIOUS
  <2> USE DEF IInv, ProtectedByCommand, DelayIsScheduled
  <2>1. ASSUME Goroutine PROVE pc' # "spawn"
    BY <2>1
    DEF Goroutine, Start, RunFails, RunSpawns, TakeSignal, Timeout, ExitMessage, AfterRun,
        Respawn, Stop, CloseSignal, Report
  <2>2. ASSUME NEW c \in Client, ClientStep(c) PROVE pc' # "spawn"
    BY <2>2
    DEF ClientStep, Unschedule, SignalCheck, SignalSend, TerminateUnschedule,
        TerminateUnprotect, DoUnschedule, jobVars
  <2> QED
    BY <2>1, <2>2 DEF Next, ProcExits
<1> QED
  BY Invariance, <1>1, PTL DEF Spec, UnscheduleIsFinal

-----------------------------------------------------------------------------
(* PIDTable.                                                               *)

\* A process has a pid from its fork on, and its job is past its fork.
BornHasPid ==
  /\ \A p \in Child : kern[p] = "unborn" <=> pid[p] = Nil
  /\ \A p \in Proc : kern[p] = "unborn" <=> waiter[p] = "none"

\* pidsMux is held over the fork and the entry, by one job.
MuxHolder == \A p \in Proc : waiter[p] = "register" <=> pidsMux = p

\* Processes that have the same pid: all but one are settled.
PidIsUnique ==
  \A p, q \in Child : p # q /\ pid[p] # Nil /\ pid[p] = pid[q] => Settled(p) \/ Settled(q)

\* A job that waits, or is about to, has its own entry ...
WaiterHasEntry == \A p \in Proc : waiter[p] \in {"call", "blocked"} => pids[pid[p]] = p

\* ... and an entry is that of a process whose status is still to be carried, or
\* whose carrier is about to delete it.
EntryHasWaiter ==
  \A n \in Pid : pids[n] # Nil =>
    /\ pid[pids[n]] = n
    /\ waiter[pids[n]] \in {"call", "blocked", "done"}
    /\ carrier[pids[n]] # "done"
    /\ waiter[pids[n]] = "done" => carrier[pids[n]] = "delete"

\* A carrier carries the status of a dead process to its own channel.
CarriesOwn ==
  \A p \in Child :
    /\ carrier[p] # "none" => kern[p] = "gone" /\ p \in Proc
    /\ carrier[p] \in {"send", "delete"} => toChan[p] = p
    /\ carrier[p] = "send" => waiter[p] \in {"call", "blocked"}

\* A job that returned from waitPID was told by the carrier of its process.
ToldByCarrier ==
  \A p \in Proc :
    /\ waiter[p] = "blocked" => onChan[p] = p
    /\ waiter[p] = "done" <=> carrier[p] \in {"delete", "done"}
    /\ waiter[p] = "done" => status[p] = p

\* What processWait is about to look up was reaped and has no carrier yet.
LookupIsNew == reaper = "lookup" => reaped \in Child /\ kern[reaped] = "gone" /\ carrier[reaped] = "none"

\* The inductive invariant of the table of pids.
ReapIInv ==
  /\ ReapTypeOK /\ BornHasPid /\ MuxHolder /\ PidIsUnique /\ WaiterHasEntry
  /\ EntryHasWaiter /\ CarriesOwn /\ ToldByCarrier /\ LookupIsNew

\* No process was forked yet.
LEMMA ReapInitIInv == ReapInit => ReapIInv
BY PIDAssumption
DEF ReapInit, ReapIInv, ReapTypeOK, BornHasPid, MuxHolder, PidIsUnique, WaiterHasEntry,
    EntryHasWaiter, CarriesOwn, ToldByCarrier, LookupIsNew, Child, SigchldCap

\* Every step of a job, of processWait, of a carrier and of the kernel keeps it.
LEMMA ReapNextIInv == ASSUME ReapIInv, [ReapNext]_reapVars PROVE ReapIInv'
<1> USE PIDAssumption
    DEF ReapIInv, ReapTypeOK, BornHasPid, MuxHolder, PidIsUnique, WaiterHasEntry,
        EntryHasWaiter, CarriesOwn, ToldByCarrier, LookupIsNew, Child, SigchldCap, Settled
<1>1. CASE Notified
  BY <1>1 DEF Notified
<1>2. CASE Wait4Error
  BY <1>2 DEF Wait4Error
<1>3. CASE Lookup
  \* An entry for the pid of a process that was just reaped is its own: another
  \* process with that pid would have to be settled, and have no entry.
  <2>1. reaped \in Child /\ pid[reaped] \in Pid
        /\ (pids[pid[reaped]] # Nil => pids[pid[reaped]] = reaped /\ reaped \in Proc)
    BY <1>3 DEF Lookup
  <2> QED
    BY <1>3, <2>1 DEF Lookup
<1>4. ASSUME NEW p \in Child, Wait4(p) PROVE ReapIInv'
  BY <1>4 DEF Wait4
<1>5. ASSUME NEW p \in Proc, RegisterStore(p) PROVE ReapIInv'
  BY <1>5 DEF RegisterStore
<1>6. ASSUME NEW p \in Proc, WaitPID(p) PROVE ReapIInv'
  BY <1>6 DEF WaitPID
<1>7. ASSUME NEW p \in Proc, NEW n \in Pid, RegisterFork(p, n) PROVE ReapIInv'
  BY <1>7 DEF RegisterFork, Fork, FreePid
<1>8. ASSUME NEW p \in Child, Die(p) PROVE ReapIInv'
  BY <1>8 DEF Die
<1>9. ASSUME NEW p \in Child, CarrierDelete(p) PROVE ReapIInv'
  BY <1>9 DEF CarrierDelete
<1>10. ASSUME NEW p \in Child, NEW w \in Proc, Deliver(p, w) PROVE ReapIInv'
  \* The channel the carrier sends on is received from by the job of its process.
  <2>1. w = p
    BY <1>10 DEF Deliver
  <2> QED
    BY <1>10, <2>1 DEF Deliver
<1>11. ASSUME NEW o \in Orphan, NEW n \in Pid, Adopt(o, n) PROVE ReapIInv'
  BY <1>11 DEF Adopt, Fork, FreePid
<1>12. CASE UNCHANGED reapVars
  BY <1>12 DEF reapVars
<1> QED
  BY <1>1, <1>2, <1>3, <1>4, <1>5, <1>6, <1>7, <1>8, <1>9, <1>10, <1>11, <1>12
  DEF ReapNext, Reaper, Registration, Carrier

\* registerPID, waitPID, processWait: whatever status waitPID returns is that of
\* the process the job forked, although pids are used again, a process may die
\* before its job waits for it, and orphans are reaped by the same loop.
THEOREM StatusOwn == ReapSpec => []StatusIsOwn
<1>1. ReapIInv => StatusIsOwn
  BY DEF ReapIInv, StatusIsOwn, ToldByCarrier
<1> QED
  BY <1>1, ReapInitIInv, ReapNextIInv, PTL DEF ReapSpec

-----------------------------------------------------------------------------
(* Shutdown.                                                               *)

\* The stages of restart and poweroff: each has exceptions, and all of them were
\* exceptions of the stages before.
PowerStages ==
  /\ \A s \in 1 .. Len(Stages) : Stages[s] # {}
  /\ \A s, t \in 1 .. Len(Stages) : s <= t => Stages[t] \subseteq Stages[s]

\* The types of the variables.
ShutdownTypeOK ==
  /\ st \in [Ids -> {"absent", "queued", "up", "backoff", "delay", "ended"}]
  /\ protects \subseteq Ids /\ closing \subseteq Ids /\ dies \subseteq Ids
  /\ stage \in 0 .. Len(Stages)
  /\ phase \in {"off", "term", "wait", "kill", "over"}
  /\ stage = 0 <=> phase = "off"
  /\ terminated \in [Ids -> 0 .. Len(Stages)]

\* A job that was told to terminate is unscheduled, is not protected, and waits
\* for no further run.
TerminatedIsFinal ==
  \A j \in Ids : terminated[j] # 0 =>
    /\ j \in closing /\ j \notin protects
    /\ st[j] \in {"up", "delay", "ended"} /\ j \notin Internal

\* The stage that told it to is not a later one, and did not except it.
TerminatedInStage ==
  \A j \in Ids : terminated[j] # 0 =>
    terminated[j] <= stage /\ ~MatchID(j, Stages[terminated[j]])

\* A process that was signalled in the current stage is killed at its end; those
\* of earlier stages have been.
KilledInStage ==
  \A j \in Ids : terminated[j] # 0 /\ st[j] = "up" /\ j \notin dies =>
    /\ terminated[j] = stage
    /\ phase \in {"term", "wait"} \/ (phase = "kill" /\ j \in visits)

\* Once the last visit of a stage has begun, a job that is not excepted, not part
\* of core0, not late, and was not found without a process, is yet to be visited,
\* over, or was told to terminate and dies.
OthersDie ==
  phase \in {"kill", "over"} =>
    \A j \in Ids \ (Internal \cup skipped \cup late) : ~MatchID(j, Stages[stage]) =>
      \/ phase = "kill" /\ j \in visits
      \/ st[j] \in {"absent", "ended"}
      \/ terminated[j] # 0 /\ (st[j] = "up" => j \in dies)

\* The inductive invariant of a shutdown.
ShutdownIInv ==
  /\ ShutdownTypeOK /\ TerminatedIsFinal /\ TerminatedInStage /\ KilledInStage /\ OthersDie

\* Nothing was told to terminate yet.
LEMMA ShutdownInitIInv == ShutdownInit => ShutdownIInv
BY ShutdownAssumption
DEF ShutdownInit, ShutdownIInv, ShutdownTypeOK, TerminatedIsFinal, TerminatedInStage,
    KilledInStage, OthersDie

\* Every step of Shutdown and of the jobs keeps it.
LEMMA ShutdownNextIInv == ASSUME ShutdownIInv, [ShutdownNext]_shutdownVars PROVE ShutdownIInv'
<1> USE ShutdownAssumption DEF ShutdownIInv, ShutdownTypeOK, TerminatedIsFinal, TerminatedInStage,
    KilledInStage, OthersDie, jobSide, shutSide
<1>1. CASE NextStage
  BY <1>1 DEF NextStage
<1>2. CASE VisitsEnd
  BY <1>2 DEF VisitsEnd
<1>3. CASE WaitEnds
  BY <1>3 DEF WaitEnds, AfterWait
<1>4. ASSUME NEW j \in Ids, Visit(j) PROVE ShutdownIInv'
  <2>1. phase \in {"term", "kill"} /\ j \in visits /\ visits' = visits \ {j}
        /\ UNCHANGED <<stage, phase>> /\ stage \in 1 .. Len(Stages)
    BY <1>4 DEF Visit
  <2>2. CASE MatchID(j, Stages[stage])
    BY <1>4, <2>1, <2>2 DEF Visit
  <2>3. CASE ~MatchID(j, Stages[stage]) /\ (st[j] # "up" \/ j \in Internal)
    <3>1. skipped' = skipped \cup {j} /\ UNCHANGED <<jobSide, awaited, terminated>>
      BY <1>4, <2>3 DEF Visit
    <3> QED
      BY <2>1, <2>3, <3>1
  <2>4. CASE ~MatchID(j, Stages[stage]) /\ st[j] = "up" /\ j \notin Internal
    <3>1. /\ closing' = closing \cup {j} /\ protects' = protects \ {j}
          /\ dies' = IF phase = "kill" THEN dies \cup {j} ELSE dies
          /\ terminated' = [terminated EXCEPT ![j] = IF @ = 0 THEN stage ELSE @]
          /\ skipped' = skipped \ {j} /\ UNCHANGED <<st, late>>
      BY <1>4, <2>4 DEF Visit, Unprotected
    <3>2. (ShutdownTypeOK /\ TerminatedIsFinal /\ TerminatedInStage)'
      BY <2>1, <2>4, <3>1
    <3>3. KilledInStage'
      BY <2>1, <2>4, <3>1
    <3>4. OthersDie'
      BY <2>1, <2>4, <3>1
    <3> QED
      BY <3>2, <3>3, <3>4
  <2> QED
    BY <2>2, <2>3, <2>4
<1>5. ASSUME NEW j \in Ids, Arrive(j) PROVE ShutdownIInv'
  BY <1>5 DEF Arrive
<1>6. ASSUME NEW j \in Ids, Spawn(j) PROVE ShutdownIInv'
  BY <1>6 DEF Spawn
<1>7. ASSUME NEW j \in Ids, ProcessExits(j) PROVE ShutdownIInv'
  BY <1>7 DEF ProcessExits
<1>8. ASSUME NEW j \in Ids, Unscheduled(j) PROVE ShutdownIInv'
  BY <1>8 DEF Unscheduled
<1>9. CASE UNCHANGED shutdownVars
  BY <1>9 DEF shutdownVars
<1> QED
  BY <1>1, <1>2, <1>3, <1>4, <1>5, <1>6, <1>7, <1>8, <1>9 DEF ShutdownNext, ShutdownStep

\* Every behaviour satisfies it.
LEMMA ShutdownInvariance == ShutdownSpec => []ShutdownIInv
BY ShutdownInitIInv, ShutdownNextIInv, PTL DEF ShutdownSpec

\* Shutdown as restart and poweroff call it, with any number of stages: a job that
\* a stage excepts (the file systems) is told to terminate after that stage, when
\* all that the stage signalled are over or killed; and after the last stage only
\* those run that it could not see, that were excepted, or that are dying.
THEOREM ShutdownOrderly == ASSUME PowerStages PROVE ShutdownSpec => []ShutdownIsOrderly
<1>1. ShutdownIInv => SparedIsLast
  <2> SUFFICES ASSUME ShutdownIInv, NEW j \in Ids, NEW s \in 1 .. Len(Stages),
                      Named(j, Stages[s]), terminated[j] # 0
               PROVE  /\ terminated[j] > s
                      /\ \A k \in Ids : terminated[k] = s /\ st[k] = "up" => k \in dies
    BY DEF SparedIsLast
  <2> USE ShutdownAssumption DEF ShutdownIInv, ShutdownTypeOK
  <2>1. terminated[j] \in 1 .. Len(Stages) /\ terminated[j] <= stage
        /\ ~Named(j, Stages[terminated[j]])
    BY DEF TerminatedInStage, MatchID, Matches, Named
  <2>2. terminated[j] > s
    BY <2>1 DEF PowerStages, Named
  <2> QED
    BY <2>1, <2>2 DEF KilledInStage
<1>2. ShutdownIInv => OnlySkippedSurvive
  <2> SUFFICES ASSUME ShutdownIInv, phase = "over", stage = Len(Stages), NEW j \in Ids,
                      st[j] = "up", j \notin Internal \cup skipped \cup late,
                      ~Named(j, Stages[stage])
               PROVE  j \in dies
    BY DEF OnlySkippedSurvive
  <2>1. ~MatchID(j, Stages[stage])
    BY ShutdownAssumption DEF PowerStages, MatchID, Matches, Named, ShutdownIInv, ShutdownTypeOK
  <2> QED
    BY <2>1 DEF ShutdownIInv, OthersDie
<1> QED
  BY <1>1, <1>2, ShutdownInvariance, PTL DEF ShutdownIsOrderly

\* terminateAll unschedules and unprotects what it signals: when such a process
\* has ended, start does not run the job again.  This needs nothing of the stages.
THEOREM TerminatedForGood == ShutdownSpec => TerminatedStaysDown
<1> DEFINE StaysDown == \A j \in Ids : terminated[j] # 0 /\ st[j] # "up" => st'[j] # "up"
<1>1. ShutdownIInv /\ [ShutdownNext]_shutdownVars => [StaysDown]_shutdownVars
  <2> SUFFICES ASSUME ShutdownIInv, ShutdownNext PROVE StaysDown
    OBVIOUS
  <2> USE DEF ShutdownIInv, ShutdownTypeOK, TerminatedIsFinal
  <2>1. CASE ShutdownStep
    BY <2>1 DEF ShutdownStep, NextStage, VisitsEnd, WaitEnds, Visit, jobSide
  <2>2. ASSUME NEW k \in Ids, Arrive(k) \/ Spawn(k) \/ ProcessExits(k) \/ Unscheduled(k)
        PROVE  StaysDown
    BY <2>2 DEF Arrive, Spawn, ProcessExits, Unscheduled
  <2> QED
    BY <2>1, <2>2 DEF ShutdownNext
<1> QED
  BY <1>1, ShutdownInvariance, PTL DEF ShutdownSpec, TerminatedStaysDown
=============================================================================
