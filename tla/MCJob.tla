--------------------------------- MODULE MCJob ---------------------------------
(***************************************************************************)
(* Instances for TLC of what a job goes through. A behaviour is about one  *)
(* of:                                                                     *)
(*   job       a command of each kind (with trials and a timeout, recurring*)
(*             protected, a builtin that takes no signals) and two clients;*)
(*   reap      two jobs and an orphan that share three pids;               *)
(*   shutdown  the shutdown of core0 over a protected service, a job that  *)
(*             only its prefix spares, and a protected service that nothing*)
(*             spares.                                                     *)
(***************************************************************************)
EXTENDS Job, PIDTable, Shutdown

CONSTANTS c1, c2, p1, p2, o1, n1, n2, n3

VARIABLE focus

Plain == [maxRestart |-> 0, recurring |-> FALSE, protected |-> FALSE,
          maxTime |-> FALSE, killable |-> TRUE]

Trial     == [Plain EXCEPT !.maxRestart = 2, !.maxTime = TRUE]
Recurrent == [Plain EXCEPT !.recurring = TRUE]
Service   == [Plain EXCEPT !.protected = TRUE]
Builtin   == [Plain EXCEPT !.maxTime = TRUE, !.killable = FALSE]

MCCommands == {Trial, Recurrent, Service, Builtin}

\* Ids are sequences, of which "zfs:" is the prefix that shutdown spares.
Redis == <<"redis">>
Zfs   == <<"zfs:", "a">>
Svc   == <<"svc">>

MCIds       == {Redis, Zfs, Svc}
MCProtected == {Redis, Svc}
MCStages    == << {Redis, <<"zfs:", "*">>}, {Redis} >>

\* bootstrap.go of coreX calls Shutdown without exceptions.
MCCoreXStages == << {} >>

mcVars == <<vars, reapVars, shutdownVars, focus>>

MCInit ==
  /\ focus \in {"job", "reap", "shutdown"}
  /\ Init /\ (focus = "job" \/ cmd = Builtin)
  /\ ReapInit
  /\ ShutdownInit /\ (focus = "shutdown" \/ st = [j \in Ids |-> "absent"])

MCNext ==
  \/ focus = "job" /\ Next /\ UNCHANGED <<reapVars, shutdownVars, focus>>
  \/ focus = "reap" /\ ReapNext /\ UNCHANGED <<vars, shutdownVars, focus>>
  \/ focus = "shutdown" /\ ShutdownNext /\ UNCHANGED <<vars, reapVars, focus>>

\* Goroutines run whenever they can where theirs is the part that runs. A select
\* with several cases ready picks each of them in the long run, and who waits
\* for the mutex of the pid table gets it. Nothing makes a process end by itself,
\* except that a shutdown's context ends and killed processes die; no client has
\* to call.
MCFairness ==
  /\ WF_vars(focus = "job" /\ Goroutine) /\ WF_vars(focus = "job" /\ TakeSignal)
  /\ WF_vars(focus = "job" /\ Timeout) /\ WF_vars(focus = "job" /\ ExitMessage)
  /\ WF_reapVars(focus = "reap" /\ Reaper) /\ SF_reapVars(focus = "reap" /\ Lookup)
  /\ \A p \in Proc : /\ WF_reapVars(focus = "reap" /\ RegisterStore(p))
                     /\ SF_reapVars(focus = "reap" /\ WaitPID(p))
  /\ \A p \in Child : WF_reapVars(focus = "reap" /\ Carrier(p))
  /\ WF_shutdownVars(focus = "shutdown" /\ ShutdownStep)
  /\ \A j \in Ids : WF_shutdownVars(focus = "shutdown" /\ j \in dies /\ ProcessExits(j))

MCSpec == MCInit /\ [][MCNext]_mcVars /\ MCFairness

\* Ends come and are final: a job that is killed or runs out of time stops, the
\* death of every child is noticed and its pid given back, and a shutdown ends with
\* what it terminated staying down.
EndsAreReached == JobsAreStopped /\ DeadAreReaped /\ ShutdownSucceeds

\* The shutdown of a container.
CoreXSpec == MCInit /\ focus = "shutdown" /\ [][MCNext]_mcVars
=============================================================================
