---------------------------------- MODULE Job ----------------------------------
(***************************************************************************)
(* The life of one job (base/pm/job.go): the goroutine of jobImb.start and *)
(* jobImb.run, the process it runs, and the clients that signal,           *)
(* unschedule and terminate the job from other goroutines.                 *)
(*                                                                         *)
(* A process is reduced to whether it is alive and, once it is not, to     *)
(* whether its exit message says success. Output, hooks and durations are  *)
(* left out; a timer that is armed may fire at any time.                   *)
(***************************************************************************)
EXTENDS Naturals, Sequences

CONSTANTS
  Client,    \* goroutines that hold the Job and call its methods
  Commands,  \* the commands the job may have been made for
  SigCap,    \* capacity of the signal channel (5 in newJob)
  RunBound   \* bound: the history counts runs up to here

\* Of a Command: MaxRestart, RecurringPeriod > 0, Flags.Protected, MaxTime > 0,
\* and whether its process takes signals (builtins do not).
Command == [maxRestart : Nat, recurring : BOOLEAN, protected : BOOLEAN,
            maxTime : BOOLEAN, killable : BOOLEAN]

ASSUME JobAssumption ==
  /\ Commands \subseteq Command
  /\ SigCap \in Nat \ {0}
  /\ RunBound \in Nat
  /\ \A c \in Commands : c.maxRestart + 1 < RunBound

VARIABLES
  cmd,          \* jobImb.command
  pc,           \* where the goroutine of the job is
  running,      \* jobImb.running
  signal,       \* jobImb.signal: the buffered signals
  closed,       \* whether the signal channel is closed
  unscheduled,  \* whether jobImb.unschedule is closed
  protected,    \* Command.Flags.Protected, cleared by Terminate
  handle,       \* jobImb.process # nil
  proc,         \* the process: none, alive, or the exit message it left
  timer,        \* the MaxTime timer of the current run is armed
  state,        \* jobresult.State of the current run
  runs,         \* the counter of failed runs in start
  result,       \* jobImb.result
  reported,     \* number of times the result handlers were called
  client,       \* where each client is
  spawned,      \* history: number of runs, up to RunBound
  lastExit      \* history: how the last run ended

jobVars == <<cmd, pc, running, signal, closed, unscheduled, protected, handle, proc,
             timer, state, runs, result, reported, spawned, lastExit>>
vars == <<jobVars, client>>

Signals  == {"TERM", "KILL"}
JobState == {"none", "success", "error", "timeout"}
JobPC    == {"queued", "spawn", "select", "exited", "backoff", "delay", "stop",
             "closing", "report", "done"}
ClientPC == {"idle", "unprotect", "signal", "send", "panic"}

Init ==
  /\ cmd \in Commands
  /\ pc = "queued" /\ running = FALSE
  /\ signal = <<>> /\ closed = FALSE
  /\ unscheduled = FALSE /\ protected = cmd.protected
  /\ handle = FALSE /\ proc = "none" /\ timer = FALSE
  /\ state = "none" /\ runs = 0
  /\ result = "none" /\ reported = 0
  /\ client = [c \in Client |-> "idle"]
  /\ spawned = 0 /\ lastExit = "none"

-----------------------------------------------------------------------------
(* Mutants: bugs this code could have, each caught by a property below.    *)

\* ps.Signal sends TERM whatever it is asked for.
SignaledTerm(sig) ==
  IF proc # "alive" \/ ~cmd.killable THEN {proc} ELSE {"alive", "ok", "failed"}

\* The select loop ends with the timeout, without waiting for the exit message.
TimeoutLeaves ==
  /\ pc = "select"
  /\ timer
  /\ pc' = "exited"
  /\ timer' = FALSE
  /\ state' = "timeout"
  /\ UNCHANGED <<cmd, running, signal, closed, unscheduled, protected, handle, proc,
                 runs, result, reported, client, spawned, lastExit>>

\* A success that arrives after the timeout is not recorded.
ExitMessageKeepsTimeout ==
  /\ pc = "select"
  /\ proc \in {"ok", "failed"}
  /\ pc' = "exited"
  /\ state' = IF proc = "ok" /\ state # "timeout" THEN "success" ELSE state
  /\ lastExit' = proc
  /\ proc' = "none"
  /\ handle' = FALSE
  /\ timer' = FALSE
  /\ UNCHANGED <<cmd, running, signal, closed, unscheduled, protected, runs, result,
                 reported, client, spawned>>

\* start compares the trials with <= in place of <.
RestartingOffByOne ==
  (state # "success" /\ cmd.maxRestart > 0 /\ runs + 1 <= cmd.maxRestart) \/ cmd.recurring

\* start sleeps before a restart without looking at unschedule.
AfterRunIgnoresUnschedule ==
  /\ pc = "exited"
  /\ pc' = IF cmd.recurring \/ (state # "success" /\ runs + 1 < cmd.maxRestart)
           THEN "delay" ELSE "stop"
  /\ runs' = IF runs < cmd.maxRestart THEN runs + 1 ELSE runs
  /\ UNCHANGED <<cmd, running, signal, closed, unscheduled, protected, handle, proc,
                 timer, state, result, reported, client, spawned, lastExit>>

-----------------------------------------------------------------------------
(* The goroutine of the job: start and run.                                *)

\* `go job.start()' by the dispatcher.
Start ==
  /\ pc = "queued"
  /\ pc' = "spawn"
  /\ running' = TRUE
  /\ UNCHANGED <<cmd, signal, closed, unscheduled, protected, handle, proc, timer,
                 state, runs, result, reported, client, spawned, lastExit>>

CountRun == spawned' = IF spawned < RunBound THEN spawned + 1 ELSE spawned

\* ps.Run() fails and r.process stays set, or the factory panics before it is
\* set: the run is over.
RunFails ==
  /\ pc = "spawn"
  /\ pc' = "exited"
  /\ handle' \in {handle, TRUE}
  /\ state' = "error"
  /\ CountRun
  /\ lastExit' = "unspawned"
  /\ UNCHANGED <<cmd, running, signal, closed, unscheduled, protected, proc, timer,
                 runs, result, reported, client>>

\* systemProcessImpl.Run, when it succeeds: the process is forked and
\* registered, and a goroutine waits for it.
StartProcess == proc' = "alive"

\* ps.Run() succeeds; the timer of MaxTime starts with the select loop.
RunSpawns ==
  /\ pc = "spawn"
  /\ pc' = "select"
  /\ handle' = TRUE
  /\ StartProcess
  /\ timer' = cmd.maxTime
  /\ state' = "error"
  /\ CountRun
  /\ lastExit' = "none"
  /\ UNCHANGED <<cmd, running, signal, closed, unscheduled, protected, runs, result,
                 reported, client>>

\* The process ends by itself, at a time of its own choosing; the goroutine of
\* Run learns its status from WaitPID and makes it the exit message.
ProcExits ==
  /\ proc = "alive"
  /\ proc' \in {"ok", "failed"}
  /\ UNCHANGED <<cmd, pc, running, signal, closed, unscheduled, protected, handle,
                 timer, state, runs, result, reported, client, spawned, lastExit>>

\* What a signal makes of the process: KILL ends it, TERM may, and a builtin
\* ignores both; a process that has ended left its exit message already.
Signaled(sig) ==
  IF proc # "alive" \/ ~cmd.killable THEN {proc}
  ELSE IF sig = "KILL" THEN {"failed"} ELSE {"alive", "ok", "failed"}

\* `case sig := <-r.signal'.
TakeSignal ==
  /\ pc = "select"
  /\ signal # <<>>
  /\ proc' \in Signaled(Head(signal))
  /\ signal' = Tail(signal)
  /\ UNCHANGED <<cmd, pc, running, closed, unscheduled, protected, handle, timer,
                 state, runs, result, reported, client, spawned, lastExit>>

\* `case <-timeout': a process that takes no signals goes on, and its result
\* stays what it was.
Timeout ==
  /\ pc = "select"
  /\ timer
  /\ timer' = FALSE
  /\ proc' \in Signaled("KILL")
  /\ state' = IF cmd.killable THEN "timeout" ELSE state
  /\ UNCHANGED <<cmd, pc, running, signal, closed, unscheduled, protected, handle,
                 runs, result, reported, client, spawned, lastExit>>

\* The exit message arrives: a success overrides whatever the state was, a
\* failure leaves it. r.process is cleared and the channel drained.
ExitMessage ==
  /\ pc = "select"
  /\ proc \in {"ok", "failed"}
  /\ pc' = "exited"
  /\ state' = IF proc = "ok" THEN "success" ELSE state
  /\ lastExit' = proc
  /\ proc' = "none"
  /\ handle' = FALSE
  /\ timer' = FALSE
  /\ UNCHANGED <<cmd, running, signal, closed, unscheduled, protected, runs, result,
                 reported, client, spawned>>

\* start, after a run: a protected job is respawned whatever happened; another
\* one after a failure while its trials last, or always if it recurs; and the
\* wait for the restart ends at once if the job is unscheduled.
Failed == state # "success" /\ cmd.maxRestart > 0
Restarting == (Failed /\ runs + 1 < cmd.maxRestart) \/ cmd.recurring

\* runs is only compared with MaxRestart, so it need not count beyond it.
CountFailure ==
  runs' = IF Failed /\ runs < cmd.maxRestart THEN runs + 1 ELSE runs

AfterRun ==
  /\ pc = "exited"
  /\ \/ /\ protected
        /\ pc' = "backoff"
        /\ UNCHANGED runs
     \/ /\ ~protected
        /\ pc' = IF Restarting /\ ~unscheduled THEN "delay" ELSE "stop"
        /\ CountFailure
  /\ UNCHANGED <<cmd, running, signal, closed, unscheduled, protected, handle, proc,
                 timer, state, result, reported, client, spawned, lastExit>>

\* The backoff of a protected job, which nothing cuts short, or the wait before
\* a restart, is over.
Respawn ==
  /\ pc \in {"backoff", "delay"}
  /\ pc' = "spawn"
  /\ UNCHANGED <<cmd, running, signal, closed, unscheduled, protected, handle, proc,
                 timer, state, runs, result, reported, client, spawned, lastExit>>

\* The deferred function of start, in its order: running, then the signal
\* channel, then unschedule, then the result and its handlers and wg.Done.
Stop ==
  /\ pc = "stop"
  /\ pc' = "closing"
  /\ running' = FALSE
  /\ UNCHANGED <<cmd, signal, closed, unscheduled, protected, handle, proc, timer,
                 state, runs, result, reported, client, spawned, lastExit>>

CloseSignal ==
  /\ pc = "closing"
  /\ pc' = "report"
  /\ closed' = TRUE
  /\ unscheduled' = TRUE
  /\ UNCHANGED <<cmd, running, signal, protected, handle, proc, timer, state, runs,
                 result, reported, client, spawned, lastExit>>

Report ==
  /\ pc = "report"
  /\ pc' = "done"
  /\ result' = state
  /\ reported' = reported + 1
  /\ UNCHANGED <<cmd, running, signal, closed, unscheduled, protected, handle, proc,
                 timer, state, runs, client, spawned, lastExit>>

-----------------------------------------------------------------------------
(* Clients: Unschedule, Signal and Terminate.                              *)

\* close(r.unschedule), once. A goroutine asleep in the select of the restart
\* is woken by it.
DoUnschedule ==
  /\ unscheduled' = TRUE
  /\ pc' = IF pc = "delay" THEN "stop" ELSE pc

Unschedule(c) ==
  /\ client[c] = "idle"
  /\ DoUnschedule
  /\ UNCHANGED <<cmd, running, signal, closed, protected, handle, proc, timer, state,
                 runs, result, reported, client, spawned, lastExit>>

\* Signal first loads running ...
SignalCheck(c) ==
  /\ client[c] \in {"idle", "signal"}
  /\ client' = [client EXCEPT ![c] = IF running THEN "send" ELSE "idle"]
  /\ UNCHANGED jobVars

\* ... and then sends without blocking. By then the channel may be closed, and
\* a send on a closed channel panics.
SignalSend(c, sig) ==
  /\ client[c] = "send"
  /\ client' = [client EXCEPT ![c] = IF closed THEN "panic" ELSE "idle"]
  /\ signal' = IF closed \/ Len(signal) >= SigCap THEN signal ELSE Append(signal, sig)
  /\ UNCHANGED <<cmd, pc, running, closed, unscheduled, protected, handle, proc,
                 timer, state, runs, result, reported, spawned, lastExit>>

\* Terminate: Unschedule, then Protected = false, then Signal. terminateAll
\* calls it only for a job with a process.
TerminateUnschedule(c) ==
  /\ client[c] = "idle"
  /\ handle
  /\ DoUnschedule
  /\ client' = [client EXCEPT ![c] = "unprotect"]
  /\ UNCHANGED <<cmd, running, signal, closed, protected, handle, proc, timer, state,
                 runs, result, reported, spawned, lastExit>>

TerminateUnprotect(c) ==
  /\ client[c] = "unprotect"
  /\ protected' = FALSE
  /\ client' = [client EXCEPT ![c] = "signal"]
  /\ UNCHANGED <<cmd, pc, running, signal, closed, unscheduled, handle, proc, timer,
                 state, runs, result, reported, spawned, lastExit>>

-----------------------------------------------------------------------------
\* What the goroutine of the job does by itself.
Goroutine ==
  \/ Start \/ RunFails \/ RunSpawns \/ TakeSignal \/ Timeout \/ ExitMessage
  \/ AfterRun \/ Respawn \/ Stop \/ CloseSignal \/ Report

ClientStep(c) ==
  \/ Unschedule(c) \/ SignalCheck(c) \/ \E sig \in Signals : SignalSend(c, sig)
  \/ TerminateUnschedule(c) \/ TerminateUnprotect(c)

Next == Goroutine \/ ProcExits \/ \E c \in Client : ClientStep(c)

Spec == Init /\ [][Next]_vars

-----------------------------------------------------------------------------
(* Properties.                                                             *)

\* The types of the variables.
TypeOK ==
  /\ cmd \in Commands
  /\ pc \in JobPC
  /\ running \in BOOLEAN /\ closed \in BOOLEAN /\ unscheduled \in BOOLEAN
  /\ protected \in BOOLEAN /\ handle \in BOOLEAN /\ timer \in BOOLEAN
  /\ signal \in Seq(Signals) /\ Len(signal) <= SigCap
  /\ proc \in {"none", "alive", "ok", "failed"}
  /\ state \in JobState /\ result \in JobState
  /\ runs \in 0..cmd.maxRestart
  /\ reported \in 0..1
  /\ client \in [Client -> ClientPC]
  /\ spawned \in 0..RunBound
  /\ lastExit \in {"none", "unspawned", "ok", "failed"}

\* A job that is neither protected nor recurring runs at most MaxRestart times
\* (once if MaxRestart is 0), however its runs, timeouts and signals interleave.
TrialsAreBounded ==
  (~cmd.protected /\ ~cmd.recurring) =>
    spawned <= IF cmd.maxRestart = 0 THEN 1 ELSE cmd.maxRestart

\* The result clients get is that of the last run: success exactly when that
\* run's process exited successfully, even if its timer fired in between, and a
\* timeout only when the process then failed.
ResultMatchesLastRun ==
  pc = "done" =>
    /\ reported = 1
    /\ result = "success" <=> lastExit = "ok"
    /\ result = "timeout" => (cmd.maxTime /\ lastExit = "failed")

\* No process is left behind: when the job reports its result or sleeps between
\* two runs, the process it started has ended.
NoOrphan == pc # "select" => proc = "none"

\* "unschedule will prevent it from restarting once it dies": once it is
\* unscheduled a job that was started begins no further run (a protected one
\* does).
UnscheduleIsFinal ==
  [][(unscheduled /\ pc # "queued" /\ ~cmd.protected) =>
        ~(pc # "spawn" /\ pc' = "spawn")]_vars

\* "Usually u will follow a call to unschedule to a call to kill to stop the
\* process completely": an unscheduled job with a KILL in its channel ends, if its
\* process takes signals and it is not protected any more.
UnscheduleAndKillStops ==
  (/\ unscheduled /\ ~protected /\ cmd.killable
   /\ \E i \in DOMAIN signal : signal[i] = "KILL") ~> pc = "done"

\* "If command execution takes more that this given time in seconds the process
\* is forced to stop": a run with a timer does not last for ever, if its process
\* takes signals.
MaxTimeStops == (pc = "select" /\ cmd.maxTime /\ cmd.killable) ~> pc # "select"

\* A job comes to its end if it is told to: by Unschedule and a kill, or by its
\* max_time, whatever restarts, timers and other clients do meanwhile.
JobsAreStopped == UnscheduleAndKillStops /\ MaxTimeStops
=============================================================================
