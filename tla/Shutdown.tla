------------------------------- MODULE Shutdown --------------------------------
(***************************************************************************)
(* Shutting down (base/pm/pm.go: matchID, terminateAll, Shutdown;          *)
(* apps/core0/builtin/power.go): the jobs are told to terminate in stages, *)
(* the file systems after everything that may use them, while jobs exit,   *)
(* wait to be started again and arrive.                                    *)
(*                                                                         *)
(* A job is reduced to whether it has a process, is waiting for its next   *)
(* run, or is over; module Job has the rest.  An id is a sequence of its   *)
(* parts, and so is a pattern, which may end in a star.                    *)
(***************************************************************************)
EXTENDS Naturals, Sequences, SequencesExt, FiniteSets

CONSTANTS
  Ids,      \* the ids of the jobs
  Internal, \* those whose process is a function of core0: it has no pid
  Protected,\* those that are protected
  Stages    \* the exceptions of each call of Shutdown

ASSUME ShutdownAssumption ==
  /\ Internal \cup Protected \subseteq Ids
  /\ Len(Stages) \in Nat

VARIABLES
  st,         \* each job: absent, queued, up, backoff (protected), delay, ended
  protects,   \* Command.Flags.Protected
  closing,    \* unschedule is closed
  dies,       \* processes that were sent KILL
  stage,      \* the call of Shutdown; 0 before the first
  phase,      \* where it is: term, wait, kill, off
  visits,     \* the jobs terminateAll has yet to look at
  awaited,    \* the jobs it has signalled and waits for
  terminated, \* history: the stage in which Terminate was first called for a job, or 0
  skipped,    \* history: jobs terminateAll found without a process
  late        \* history: jobs that arrived after the last visits had begun

jobSide == <<st, protects, closing, dies, late>>
shutSide == <<stage, phase, visits, awaited, terminated, skipped>>
shutdownVars == <<jobSide, shutSide>>

ShutdownInit ==
  /\ st \in [Ids -> {"absent", "queued", "up"}]
  /\ protects = Protected /\ closing = {} /\ dies = {}
  /\ stage = 0 /\ phase = "off" /\ visits = {} /\ awaited = {}
  /\ terminated = [j \in Ids |-> 0] /\ skipped = {} /\ late = {}

-----------------------------------------------------------------------------
(* Mutants: bugs this code could have, each caught by a property below.    *)

\* Shutdown waits without a limit.
GivesUpNever == FALSE

\* The star of a pattern has no meaning.
MatchesExact(id, m) == id = m

-----------------------------------------------------------------------------
(* Jobs.                                                                   *)

\* A job arrives, starts its process, ...
Arrive(j) ==
  /\ st[j] = "absent" /\ st' = [st EXCEPT ![j] = "queued"]
  /\ late' = IF stage = 0 THEN late ELSE late \cup {j}
  /\ UNCHANGED <<protects, closing, dies, shutSide>>

Spawn(j) ==
  /\ st[j] \in {"queued", "backoff"} \/ (st[j] = "delay" /\ j \notin closing)
  /\ st' = [st EXCEPT ![j] = "up"] /\ dies' = dies \ {j}
  /\ UNCHANGED <<protects, closing, late, shutSide>>

\* ... which ends, by itself or because Killall, Signal or Terminate told it to: protected jobs and jobs to be run again wait for their next run.
ProcessExits(j) ==
  /\ st[j] = "up"
  /\ \E next \in IF j \in protects THEN {"backoff"} ELSE {"delay", "ended"} :
       st' = [st EXCEPT ![j] = next]
  /\ UNCHANGED <<protects, closing, dies, late, shutSide>>

\* A job that is unscheduled does not wait any longer.
Unscheduled(j) ==
  /\ st[j] = "delay" /\ j \in closing
  /\ st' = [st EXCEPT ![j] = "ended"]
  /\ UNCHANGED <<protects, closing, dies, late, shutSide>>

-----------------------------------------------------------------------------
(* Shutdown.                                                               *)

Matches(id, m) == IF Last(m) = "*" THEN IsPrefix(Front(m), id) ELSE id = m

\* No pattern: every id matches.
MatchID(id, ids) == ids = {} \/ \E m \in ids : Matches(id, m)

\* restart and poweroff: the next call of Shutdown; terminateAll(TERM).
NextStage ==
  /\ phase \in {"off", "over"} /\ stage < Len(Stages)
  /\ stage' = stage + 1 /\ phase' = "term"
  /\ visits' = {j \in Ids : st[j] \notin {"absent", "ended"}} /\ awaited' = {}
  /\ UNCHANGED <<jobSide, terminated, skipped>>

\* What Terminate leaves of the protected jobs.
Unprotected(j) == protects \ {j}

\* terminateAll for one job: excepted, without a process, or signalled.
Visit(j) ==
  /\ phase \in {"term", "kill"} /\ j \in visits
  /\ visits' = visits \ {j}
  /\ \/ /\ MatchID(j, Stages[stage])
        /\ UNCHANGED <<jobSide, awaited, terminated, skipped>>
     \/ /\ ~MatchID(j, Stages[stage]) /\ (st[j] # "up" \/ j \in Internal)
        /\ skipped' = skipped \cup {j}
        /\ UNCHANGED <<jobSide, awaited, terminated>>
     \/ /\ ~MatchID(j, Stages[stage]) /\ st[j] = "up" /\ j \notin Internal
        /\ closing' = closing \cup {j} /\ protects' = Unprotected(j)
        /\ dies' = IF phase = "kill" THEN dies \cup {j} ELSE dies
        /\ awaited' = IF phase = "term" THEN awaited \cup {j} ELSE awaited
        /\ terminated' = [terminated EXCEPT ![j] = IF @ = 0 THEN stage ELSE @] /\ skipped' = skipped \ {j}
        /\ UNCHANGED <<st, late>>
  /\ UNCHANGED <<stage, phase>>

VisitsEnd ==
  /\ phase \in {"term", "kill"} /\ visits = {}
  /\ phase' = IF phase = "term" THEN "wait" ELSE "over"
  /\ UNCHANGED <<jobSide, stage, visits, awaited, terminated, skipped>>

\* The 90 seconds of the context are over.
GivesUp == TRUE

AfterWait == "kill"

\* Shutdown waits for the jobs it has signalled, and kills what is left.
WaitEnds ==
  /\ phase = "wait"
  /\ GivesUp \/ \A j \in awaited : st[j] = "ended"
  /\ phase' = AfterWait
  /\ visits' = {j \in Ids : st[j] \notin {"absent", "ended"}}
  /\ UNCHANGED <<jobSide, stage, awaited, terminated, skipped>>

ShutdownStep == NextStage \/ VisitsEnd \/ WaitEnds \/ \E j \in Ids : Visit(j)

ShutdownNext ==
  \/ ShutdownStep
  \/ \E j \in Ids : Arrive(j) \/ Spawn(j) \/ ProcessExits(j) \/ Unscheduled(j)

ShutdownSpec == ShutdownInit /\ [][ShutdownNext]_shutdownVars

-----------------------------------------------------------------------------
(* Properties.                                                             *)

\* The patterns that name a job.
Named(j, ids) == \E m \in ids : IF Last(m) = "*" THEN IsPrefix(Front(m), j) ELSE j = m

\* A job that is spared by an earlier stage (the file systems) is told to
\* terminate only when every job that this stage has signalled is over or killed.
SparedIsLast ==
  \A j \in Ids, s \in 1 .. Len(Stages) : Named(j, Stages[s]) /\ terminated[j] # 0 =>
    /\ terminated[j] > s
    /\ \A k \in Ids : terminated[k] = s /\ st[k] = "up" => k \in dies

\* A job whose termination got through does not run again.
TerminatedStaysDown ==
  [][\A j \in Ids : terminated[j] # 0 /\ st[j] # "up" => st'[j] # "up"]_shutdownVars

\* After the last stage only those run that were excepted, that are part of
\* core0, that had no process when they were looked at, that came later, or
\* that are dying.
OnlySkippedSurvive ==
  phase = "over" /\ stage = Len(Stages) =>
    \A j \in Ids : st[j] = "up" =>
      j \in Internal \cup skipped \cup late \cup dies \/ Named(j, Stages[stage])

\* A shutdown comes to its end, whatever the jobs do with their signals.
ShutdownEnds == (stage = 1) ~> (phase = "over" /\ stage = Len(Stages))

\* Shutdown respects its exceptions and nothing else: spared jobs come last, and
\* only what it could not see survives it.
ShutdownIsOrderly == SparedIsLast /\ OnlySkippedSurvive

\* Shutdown comes to its end, and no job that got its signal comes back.
ShutdownSucceeds == TerminatedStaysDown /\ ShutdownEnds
================================================================================
