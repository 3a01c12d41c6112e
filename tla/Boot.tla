---------------------------------- MODULE Boot ----------------------------------
(***************************************************************************)
(* Booting the startup services: Bootstrap.Second of core0 runs three      *)
(* slices of the startup tree with pm.RunSlice (base/pm/pm.go), whose      *)
(* services wait for each other through the state machine of               *)
(* base/pm/waitmachine.go; the hooks of base/pm/runnerhook.go release it.  *)
(*                                                                         *)
(* Release first stores the state and then closes the channel; a waiter    *)
(* reads the state only after the close, so one action does both.          *)
(***************************************************************************)
EXTENDS Naturals

CONSTANTS
  Service,   \* keys of the services the tree kept
  Stage,     \* the slice, 1 to 3, each service is in
  After,     \* the services in each service's `after' list
  Conditional,  \* services whose condition the kernel command line decides
  Ready,     \* what marks a service running: "match", "delay" or only its "exit"
  Respawns   \* whether the service may be run again after an exit

ASSUME BootAssumption ==
  /\ Stage \in [Service -> 1..3]
  /\ After \in [Service -> SUBSET Service]
  /\ Conditional \subseteq Service
  /\ Ready \in [Service -> {"match", "delay", "exit"}]
  /\ Respawns \in [Service -> BOOLEAN]

VARIABLES
  cond,      \* whether the condition of each service holds; fixed at boot
  phase,     \* where Second is: slice 1, networking, slices 2 and 3, the end
  svc,       \* where each service is
  seen,      \* dependencies each waiting service has read
  verdict,   \* r in Wait: the conjunction of the states read so far
  open,      \* whether the channel of each key is closed (the key released)
  value,     \* stateW.s of each key
  tick,      \* the DelayHook of each service: none, its goroutine pending, fired
  matched,   \* the sync.Once of the MatchHook of each service
  exited,    \* the sync.Once of the ExitHook of each service
  wasUp      \* history: keys released with true at some time

vars == <<cond, phase, svc, seen, verdict, open, value, tick, matched, exited, wasUp>>

Phase   == {"slice1", "network", "slice2", "slice3", "booted"}
SvcPC   == {"init", "waiting", "running", "restarting", "over", "refused", "skipped"}
SliceOf == [slice1 |-> 1, slice2 |-> 2, slice3 |-> 3]
AfterPhase == [slice1 |-> "network", network |-> "slice2", slice2 |-> "slice3",
               slice3 |-> "booted"]

InSlice(s) == phase \in DOMAIN SliceOf /\ Stage[s] = SliceOf[phase]

Init ==
  /\ cond \in {f \in [Service -> BOOLEAN] : \A s \in Service \ Conditional : f[s]}
  /\ phase = "slice1"
  /\ svc = [s \in Service |-> "init"]
  /\ seen = [s \in Service |-> {}]
  /\ verdict = [s \in Service |-> TRUE]
  /\ open = [s \in Service |-> FALSE]
  /\ value = [s \in Service |-> FALSE]
  /\ tick = [s \in Service |-> "none"]
  /\ matched = [s \in Service |-> FALSE]
  /\ exited = [s \in Service |-> FALSE]
  /\ wasUp = {}

-----------------------------------------------------------------------------
\* Release(key, state): the last state written wins, and closing a closed
\* channel is recovered from.
Release(s, state) ==
  /\ value' = [value EXCEPT ![s] = state]
  /\ open'  = [open EXCEPT ![s] = TRUE]
  /\ wasUp' = IF state THEN wasUp \cup {s} ELSE wasUp

Keep == UNCHANGED <<open, value, wasUp>>

\* The keys of `after' the state machine of the slice knows: Wait skips others.
Known(s) == {d \in After[s] : Stage[d] = Stage[s]}

\* Wait(up.After...) has gone through the whole list.
Waited(s) == svc[s] = "waiting" /\ seen[s] = Known(s)

-----------------------------------------------------------------------------
(* Mutants: bugs this code could have, each caught by a property below.    *)

\* RunSlice does not release a service it skips.
SkipSilently(s) ==
  /\ InSlice(s) /\ svc[s] = "init" /\ ~cond[s]
  /\ svc' = [svc EXCEPT ![s] = "skipped"]
  /\ Keep
  /\ UNCHANGED <<cond, phase, seen, verdict, tick, matched, exited>>

\* Wait counts a key it does not know as failed.
RefuseForeign(s) ==
  /\ Waited(s) /\ (~verdict[s] \/ Known(s) # After[s])
  /\ svc' = [svc EXCEPT ![s] = "refused"]
  /\ Release(s, FALSE)
  /\ UNCHANGED <<cond, phase, seen, verdict, tick, matched, exited>>

\* RunSlice does not look at canRun.
RunUnconditionally(s) ==
  /\ Waited(s)
  /\ svc' = [svc EXCEPT ![s] = "running"]
  /\ Keep
  /\ UNCHANGED <<cond, phase, seen, verdict, tick, matched, exited>>

-----------------------------------------------------------------------------

\* The loop of RunSlice: skip a service whose condition does not hold, start
\* the goroutine of another. The loop never blocks, so its order is immaterial.
Skip(s) ==
  /\ InSlice(s) /\ svc[s] = "init" /\ ~cond[s]
  /\ svc' = [svc EXCEPT ![s] = "skipped"]
  /\ Release(s, FALSE)
  /\ UNCHANGED <<cond, phase, seen, verdict, tick, matched, exited>>

Launch(s) ==
  /\ InSlice(s) /\ svc[s] = "init" /\ cond[s]
  /\ svc' = [svc EXCEPT ![s] = "waiting"]
  /\ Keep
  /\ UNCHANGED <<cond, phase, seen, verdict, tick, matched, exited>>

\* Wait(up.After...): one released dependency is read. (The code reads them in
\* the order of the list; any order is allowed here.)
WaitOne(s, d) ==
  /\ svc[s] = "waiting"
  /\ d \in Known(s) \ seen[s]
  /\ open[d]
  /\ seen' = [seen EXCEPT ![s] = @ \cup {d}]
  /\ verdict' = [verdict EXCEPT ![s] = @ /\ value[d]]
  /\ Keep
  /\ UNCHANGED <<cond, phase, svc, tick, matched, exited>>

\* canRun is false: the service does not run, and is released as failed.
Refuse(s) ==
  /\ Waited(s) /\ ~verdict[s]
  /\ svc' = [svc EXCEPT ![s] = "refused"]
  /\ Release(s, FALSE)
  /\ UNCHANGED <<cond, phase, seen, verdict, tick, matched, exited>>

\* Run(c, hooks...) is accepted by the process manager ...
Run(s) ==
  /\ Waited(s) /\ verdict[s]
  /\ svc' = [svc EXCEPT ![s] = "running"]
  /\ Keep
  /\ UNCHANGED <<cond, phase, seen, verdict, tick, matched, exited>>

\* ... or returns an error.
RunError(s) ==
  /\ Waited(s) /\ verdict[s]
  /\ svc' = [svc EXCEPT ![s] = "over"]
  /\ Release(s, FALSE)
  /\ UNCHANGED <<cond, phase, seen, verdict, tick, matched, exited>>

\* The ticker of the job finds the delay passed: `go hook.Tick(d)'.
TickSpawn(s) ==
  /\ svc[s] = "running" /\ Ready[s] = "delay" /\ tick[s] = "none"
  /\ tick' = [tick EXCEPT ![s] = "pending"]
  /\ Keep
  /\ UNCHANGED <<cond, phase, svc, seen, verdict, matched, exited>>

\* That goroutine calls the action of the DelayHook, once. The service may have
\* exited in between.
TickFire(s) ==
  /\ tick[s] = "pending"
  /\ tick' = [tick EXCEPT ![s] = "fired"]
  /\ Release(s, TRUE)
  /\ UNCHANGED <<cond, phase, svc, seen, verdict, matched, exited>>

\* A message of the service matches: the action of the MatchHook, once.
Match(s) ==
  /\ svc[s] = "running" /\ Ready[s] = "match" /\ ~matched[s]
  /\ matched' = [matched EXCEPT ![s] = TRUE]
  /\ Release(s, TRUE)
  /\ UNCHANGED <<cond, phase, svc, seen, verdict, tick, exited>>

\* A run of the service ends; the ExitHook acts on the first exit only.
Exit(s, success) ==
  /\ svc[s] = "running"
  /\ exited' = [exited EXCEPT ![s] = TRUE]
  /\ IF exited[s] THEN Keep ELSE Release(s, success)
  /\ \/ svc' = [svc EXCEPT ![s] = "over"]
     \/ Respawns[s] /\ svc' = [svc EXCEPT ![s] = "restarting"]
  /\ UNCHANGED <<cond, phase, seen, verdict, tick, matched>>

Respawn(s) ==
  /\ svc[s] = "restarting"
  /\ svc' = [svc EXCEPT ![s] = "running"]
  /\ Keep
  /\ UNCHANGED <<cond, phase, seen, verdict, tick, matched, exited>>

\* WaitAll returns and Second goes on; between the first two slices it retries
\* setupNetworking until it succeeds.
Advance ==
  /\ phase # "booted"
  /\ \A s \in Service : InSlice(s) => (svc[s] # "init" /\ open[s])
  /\ phase' = AfterPhase[phase]
  /\ UNCHANGED <<cond, svc, seen, verdict, open, value, tick, matched, exited, wasUp>>

-----------------------------------------------------------------------------
Starter(s) ==
  \/ Skip(s) \/ Launch(s) \/ (\E d \in Service : WaitOne(s, d)) \/ Refuse(s)
  \/ Run(s) \/ RunError(s)

Execution(s) ==
  \/ TickSpawn(s) \/ TickFire(s) \/ Match(s) \/ Respawn(s)
  \/ \E success \in BOOLEAN : Exit(s, success)

Next == Advance \/ \E s \in Service : Starter(s) \/ Execution(s)

Spec == Init /\ [][Next]_vars

\* Goroutines run; the ticker ticks; the network comes up; and a service that is
\* only considered running when it matches or exits does one of the two.
Fairness ==
  /\ WF_vars(Advance)
  /\ \A s \in Service :
       /\ WF_vars(Starter(s))
       /\ WF_vars(TickSpawn(s)) /\ WF_vars(TickFire(s))
       /\ WF_vars(Ready[s] # "delay" /\ ~open[s] /\
                  (Match(s) \/ \E success \in BOOLEAN : Exit(s, success)))

FairSpec == Spec /\ Fairness

-----------------------------------------------------------------------------
(* Properties.                                                             *)

\* The types of the variables.
TypeOK ==
  /\ cond \in [Service -> BOOLEAN]
  /\ phase \in Phase
  /\ svc \in [Service -> SvcPC]
  /\ seen \in [Service -> SUBSET Service]
  /\ verdict \in [Service -> BOOLEAN]
  /\ open \in [Service -> BOOLEAN] /\ value \in [Service -> BOOLEAN]
  /\ tick \in [Service -> {"none", "pending", "fired"}]
  /\ matched \in [Service -> BOOLEAN] /\ exited \in [Service -> BOOLEAN]
  /\ wasUp \subseteq Service

Started(s) == svc[s] \in {"running", "restarting"} \/ exited[s]

\* "make sure a service won't start until it's dependencies are running": a
\* service that was started had each dependency of its slice considered running
\* at some time, however the hooks of the dependency race with each other.
StartsAfterDependencies ==
  \A s \in Service : Started(s) => \A d \in Known(s) : d \in wasUp

\* A service that is refused names a culprit: a dependency of its slice that
\* was skipped, refused, not accepted or has exited. A dependency that merely
\* runs never makes its dependents fail.
RefusalHasACause ==
  \A s \in Service : svc[s] = "refused" =>
    \E d \in Known(s) : svc[d] \in {"skipped", "refused", "over"} \/ exited[d]

\* Second ends: no service is waited for in vain, whichever services are
\* skipped, refused or fail.
BootCompletes == <>(phase = "booted")

\* "after: Lists the services ... that must be considered running before Core0
\* attempts to start this service, these services can be any of the services
\* defined in the other TOML files": the same for every dependency.
StartsAfterAllDependencies ==
  \A s \in Service : Started(s) => After[s] \subseteq wasUp
=============================================================================
