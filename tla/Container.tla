------------------------------- MODULE Container -------------------------------
(***************************************************************************)
(* The containers of core0 (apps/core0/subsys/containers: manager.go,      *)
(* container.go, comm.go): creation under a limit, the table of containers *)
(* and its ids, the job `core-<id>' with its PID and exit hooks, cleanup,  *)
(* and the commands that are dispatched to a container.                    *)
(*                                                                         *)
(* A container is named after the request that creates it. For a container *)
(* there are up to three goroutines: the request (createContainer, Start), *)
(* the job (process and exit hook), and the PID hook (onStart), which      *)
(* jobImb.RegisterPID starts with `go'.                                    *)
(***************************************************************************)
EXTENDS Naturals, FiniteSets, FiniteSetsExt

CONSTANTS
  Request,   \* requests to create a container, and the containers they create
  Cmd,       \* commands dispatched to containers, each with an id of its own
  MaxSeq,    \* math.MaxUint16: ids are 1 .. MaxSeq - 1
  MaxCount,  \* settings.Containers.MaxCount
  Nil

ASSUME ContainerAssumption ==
  /\ MaxSeq \in Nat /\ MaxSeq > 1
  /\ MaxCount \in Nat /\ MaxCount < MaxSeq
  /\ Nil \notin Request

VARIABLES
  containers,  \* containerManager.containers
  sequence,    \* containerManager.sequence
  create,      \* where each createContainer is
  id,          \* container.id
  runner,      \* container.runner # nil
  job,         \* the job core-<id>
  hook,        \* the goroutine of the PID hook
  clean,       \* where container.cleanup is
  closes,      \* how often forwardChan was closed
  forwarder,   \* whether container.forward and container.rewind run
  dispatch,    \* where the dispatch of each command is
  target,      \* the container it looked up
  flag,        \* the flag of the command: none, kept, expiring
  overtaken,   \* history: requests that read the count before another one's entry
  crashed      \* core0 died of a nil dereference in onStart

vars == <<containers, sequence, create, id, runner, job, hook, clean, closes,
          forwarder, dispatch, target, flag, overtaken, crashed>>

ID == 1 .. (MaxSeq - 1)

CreatePC   == {"new", "sequence", "set", "start", "run", "assign", "failing",
               "created", "failed", "refused"}
JobPC      == {"none", "started", "alive", "exiting", "over"}
HookPC     == {"none", "pending", "post", "over"}
CleanPC    == {"none", "close", "unset", "done"}
DispatchPC == {"new", "flag", "send", "remote", "answered", "failed", "lost"}

Init ==
  /\ containers = [n \in ID |-> Nil]
  /\ sequence = 0
  /\ create = [r \in Request |-> "new"]
  /\ id = [r \in Request |-> 0]
  /\ runner = [r \in Request |-> FALSE]
  /\ job = [r \in Request |-> "none"]
  /\ hook = [r \in Request |-> "none"]
  /\ clean = [r \in Request |-> "none"]
  /\ closes = [r \in Request |-> 0]
  /\ forwarder = [r \in Request |-> FALSE]
  /\ dispatch = [k \in Cmd |-> "new"]
  /\ target = [k \in Cmd |-> Nil]
  /\ flag = [k \in Cmd |-> "none"]
  /\ overtaken = {}
  /\ crashed = FALSE

Count == Cardinality({n \in ID : containers[n] # Nil})

Create(r, from, to) == ~crashed /\ create[r] = from /\ create' = [create EXCEPT ![r] = to]

-----------------------------------------------------------------------------
(* Mutants: bugs this code could have, each caught by a property below.    *)

\* getNextSequence does not look whether the id is in use.
NextSequenceBlind(r) ==
  /\ Create(r, "sequence", "set")
  /\ sequence' = IF sequence + 1 \in ID THEN sequence + 1 ELSE 1
  /\ id' = [id EXCEPT ![r] = sequence']
  /\ UNCHANGED <<containers, runner, job, hook, clean, closes, forwarder,
                 dispatch, target, flag, overtaken, crashed>>

\* rewind answers the client and leaves the flag.
RewindKeepsFlag(k) ==
  /\ dispatch[k] = "remote" /\ forwarder[target[k]] /\ ~crashed
  /\ dispatch' = [dispatch EXCEPT ![k] = "answered"]
  /\ UNCHANGED <<containers, sequence, create, id, runner, job, hook, clean,
                 closes, forwarder, target, flag, overtaken, crashed>>

\* Start leaves the cleanup of a container without a job to its exit hook.
StartFailsQuietly(r) ==
  /\ Create(r, "start", "failed")
  /\ UNCHANGED <<containers, sequence, id, runner, job, hook, clean, closes,
                 forwarder, dispatch, target, flag, overtaken, crashed>>

-----------------------------------------------------------------------------
(* The request: createContainer and Start.                                 *)

\* The count is read under a read lock, which is released again.
CheckCount(r) ==
  /\ Create(r, "new", IF Count >= MaxCount THEN "refused" ELSE "sequence")
  /\ UNCHANGED <<containers, sequence, id, runner, job, hook, clean, closes,
                 forwarder, dispatch, target, flag, overtaken, crashed>>

\* getNextSequence: a 16 bit counter that skips 0, MaxUint16 and the ids in use.
After(n, k) == (n + k) % (MaxSeq + 1)
Free(n) == n \in ID /\ containers[n] = Nil

\* Assumption: the counter does not go all the way round while a request is
\* between getNextSequence and setContainer.
NoLap(n) == \A r \in Request : create[r] = "set" => id[r] # n

NextSequence(r) ==
  /\ Create(r, "sequence", "set")
  /\ LET steps == {k \in 1 .. (MaxSeq + 1) : Free(After(sequence, k))}
         next  == After(sequence, Min(steps))
     IN  /\ steps # {} /\ NoLap(next)
         /\ sequence' = next
         /\ id' = [id EXCEPT ![r] = next]
  /\ UNCHANGED <<containers, runner, job, hook, clean, closes, forwarder,
                 dispatch, target, flag, overtaken, crashed>>

SetContainer(r) ==
  /\ Create(r, "set", "start")
  /\ containers' = [containers EXCEPT ![id[r]] = r]
  /\ overtaken' = overtaken \cup {s \in Request \ {r} : create[s] \in {"sequence", "set"}}
  /\ UNCHANGED <<sequence, id, runner, job, hook, clean, closes, forwarder,
                 dispatch, target, flag, crashed>>

\* sandbox or preStart fails: the deferred function of Start cleans up.
StartFails(r) ==
  /\ Create(r, "start", "failing")
  /\ clean' = [clean EXCEPT ![r] = "close"]
  /\ UNCHANGED <<containers, sequence, id, runner, job, hook, closes, forwarder,
                 dispatch, target, flag, overtaken, crashed>>

StartSucceeds(r) ==
  /\ Create(r, "start", "run")
  /\ UNCHANGED <<containers, sequence, id, runner, job, hook, clean, closes,
                 forwarder, dispatch, target, flag, overtaken, crashed>>

\* The job of a container leaves the table of the process manager only after
\* its exit hook has freed the id: the name core-<id> may still be taken.
NameTaken(r) ==
  \E s \in Request \ {r} : id[s] = id[r] /\ job[s] \in {"started", "alive", "exiting"}

RunJob(r) ==
  /\ Create(r, "run", "assign")
  /\ ~NameTaken(r)
  /\ job' = [job EXCEPT ![r] = "started"]
  /\ UNCHANGED <<containers, sequence, id, runner, hook, clean, closes,
                 forwarder, dispatch, target, flag, overtaken, crashed>>

RunJobDuplicate(r) ==
  /\ Create(r, "run", "failing")
  /\ NameTaken(r)
  /\ clean' = [clean EXCEPT ![r] = "close"]
  /\ UNCHANGED <<containers, sequence, id, runner, job, hook, closes, forwarder,
                 dispatch, target, flag, overtaken, crashed>>

\* `c.runner = runner', when the job runs already.
Assign(r) ==
  /\ Create(r, "assign", "created")
  /\ runner' = [runner EXCEPT ![r] = TRUE]
  /\ UNCHANGED <<containers, sequence, id, job, hook, clean, closes, forwarder,
                 dispatch, target, flag, overtaken, crashed>>

-----------------------------------------------------------------------------
(* The job and its hooks.                                                  *)

Job(r, from, to) == ~crashed /\ job[r] = from /\ job' = [job EXCEPT ![r] = to]

\* The process is forked and its pid registered: `go hook.PID(pid)'.
Fork(r) ==
  /\ Job(r, "started", "alive")
  /\ hook' = [hook EXCEPT ![r] = "pending"]
  /\ UNCHANGED <<containers, sequence, create, id, runner, clean, closes,
                 forwarder, dispatch, target, flag, overtaken, crashed>>

\* The process cannot be started, or it ends: the exit hook (onExit) cleans up.
Exit(r) ==
  /\ Job(r, "started", "exiting") \/ Job(r, "alive", "exiting")
  /\ clean' = [clean EXCEPT ![r] = "close"]
  /\ UNCHANGED <<containers, sequence, create, id, runner, hook, closes,
                 forwarder, dispatch, target, flag, overtaken, crashed>>

\* cleanUp of the process manager, after the hooks.
JobOver(r) ==
  /\ Job(r, "exiting", "over")
  /\ clean[r] = "done"
  /\ UNCHANGED <<containers, sequence, create, id, runner, hook, clean, closes,
                 forwarder, dispatch, target, flag, overtaken, crashed>>

\* onStart: c.runner.Process(), where c.runner may not be assigned yet; without
\* a process (it ended already) onStart returns.
OnStart(r) ==
  /\ ~crashed /\ hook[r] = "pending"
  /\ crashed' = ~runner[r]
  /\ hook' = [hook EXCEPT ![r] = IF runner[r] /\ job[r] = "alive" THEN "post" ELSE "over"]
  /\ UNCHANGED <<containers, sequence, create, id, runner, job, clean, closes,
                 forwarder, dispatch, target, flag, overtaken>>

\* The rest of onStart: postStart, `go c.rewind()' and `go c.forward()'. The
\* container may have been cleaned up meanwhile; forward then ends at once.
PostStart(r) ==
  /\ ~crashed /\ hook[r] = "post"
  /\ hook' = [hook EXCEPT ![r] = "over"]
  /\ forwarder' = [forwarder EXCEPT ![r] = closes[r] = 0]
  /\ UNCHANGED <<containers, sequence, create, id, runner, job, clean, closes,
                 dispatch, target, flag, overtaken, crashed>>

\* cleanup: close(c.forwardChan) and the channel of the process, which ends
\* forward and rewind: a command in the container is not answered any more ...
CloseForward(r) ==
  /\ ~crashed /\ clean[r] = "close"
  /\ clean' = [clean EXCEPT ![r] = "unset"]
  /\ closes' = [closes EXCEPT ![r] = @ + 1]
  /\ forwarder' = [forwarder EXCEPT ![r] = FALSE]
  /\ dispatch' = [k \in Cmd |-> IF dispatch[k] = "remote" /\ target[k] = r
                                THEN "lost" ELSE dispatch[k]]
  /\ UNCHANGED <<containers, sequence, create, id, runner, job, hook, target,
                 flag, overtaken, crashed>>

\* ... then the network and the mounts, then unsetContainer(c.id).
UnsetContainer(r) ==
  /\ ~crashed /\ clean[r] = "unset"
  /\ clean' = [clean EXCEPT ![r] = "done"]
  /\ containers' = [containers EXCEPT ![id[r]] = Nil]
  /\ create' = [create EXCEPT ![r] = IF @ = "failing" THEN "failed" ELSE @]
  /\ UNCHANGED <<sequence, id, runner, job, hook, closes, forwarder, dispatch,
                 target, flag, overtaken, crashed>>

-----------------------------------------------------------------------------
(* Commands for a container: dispatch, pushToContainer, forward, rewind.   *)

Send(k, from, to) == ~crashed /\ dispatch[k] = from /\ dispatch' = [dispatch EXCEPT ![k] = to]

\* The container is looked up under the read lock, and used without it.
Dispatch(k, n) ==
  /\ containers[n] # Nil
  /\ Send(k, "new", "flag")
  /\ target' = [target EXCEPT ![k] = containers[n]]
  /\ UNCHANGED <<containers, sequence, create, id, runner, job, hook, clean,
                 closes, forwarder, flag, overtaken, crashed>>

DispatchUnknown(k, n) ==
  /\ containers[n] = Nil
  /\ Send(k, "new", "failed")
  /\ UNCHANGED <<containers, sequence, create, id, runner, job, hook, clean,
                 closes, forwarder, target, flag, overtaken, crashed>>

\* m.sink.Flag(cmd.ID).
FlagCommand(k) ==
  /\ Send(k, "flag", "send")
  /\ flag' = [flag EXCEPT ![k] = "kept"]
  /\ UNCHANGED <<containers, sequence, create, id, runner, job, hook, clean,
                 closes, forwarder, target, overtaken, crashed>>

\* `c.forwardChan <- cmd' meets the receive of forward, which writes the command
\* to the process; when that has ended the command is lost.
ForwardCommand(k) ==
  /\ dispatch[k] = "send" /\ forwarder[target[k]]
  /\ Send(k, "send", IF job[target[k]] = "alive" THEN "remote" ELSE "lost")
  /\ UNCHANGED <<containers, sequence, create, id, runner, job, hook, clean,
                 closes, forwarder, target, flag, overtaken, crashed>>

\* Five seconds pass, or the channel is closed and the send panics: the builtin
\* fails.
DispatchFails(k) ==
  /\ Send(k, "send", "failed")
  /\ UNCHANGED <<containers, sequence, create, id, runner, job, hook, clean,
                 closes, forwarder, target, flag, overtaken, crashed>>

\* rewind reads the result, which the process may have left before it ended, and
\* calls sink.Forward: the flag gets its expiry and the client is answered.
Rewind(k) ==
  /\ Send(k, "remote", "answered")
  /\ forwarder[target[k]]
  /\ flag' = [flag EXCEPT ![k] = "expiring"]
  /\ UNCHANGED <<containers, sequence, create, id, runner, job, hook, clean,
                 closes, forwarder, target, overtaken, crashed>>

-----------------------------------------------------------------------------
RequestStep(r) ==
  \/ CheckCount(r) \/ NextSequence(r) \/ SetContainer(r) \/ StartFails(r)
  \/ StartSucceeds(r) \/ RunJob(r) \/ RunJobDuplicate(r) \/ Assign(r)

JobStep(r) ==
  \/ Fork(r) \/ Exit(r) \/ JobOver(r) \/ OnStart(r) \/ PostStart(r)
  \/ CloseForward(r) \/ UnsetContainer(r)

CommandStep(k) ==
  \/ \E n \in ID : Dispatch(k, n) \/ DispatchUnknown(k, n)
  \/ FlagCommand(k) \/ ForwardCommand(k) \/ DispatchFails(k) \/ Rewind(k)

Next ==
  \/ \E r \in Request : RequestStep(r) \/ JobStep(r)
  \/ \E k \in Cmd : CommandStep(k)

Spec == Init /\ [][Next]_vars

-----------------------------------------------------------------------------
(* Properties.                                                             *)

\* The types of the variables.
TypeOK ==
  /\ containers \in [ID -> Request \cup {Nil}]
  /\ sequence \in 0 .. MaxSeq
  /\ create \in [Request -> CreatePC]
  /\ id \in [Request -> 0 .. MaxSeq]
  /\ runner \in [Request -> BOOLEAN]
  /\ job \in [Request -> JobPC]
  /\ hook \in [Request -> HookPC]
  /\ clean \in [Request -> CleanPC]
  /\ closes \in [Request -> Nat]
  /\ forwarder \in [Request -> BOOLEAN]
  /\ dispatch \in [Cmd -> DispatchPC]
  /\ target \in [Cmd -> Request \cup {Nil}]
  /\ flag \in [Cmd -> {"none", "kept", "expiring"}]
  /\ overtaken \subseteq Request
  /\ crashed \in BOOLEAN

\* The container is in the table.
Entered(r) ==
  /\ create[r] \in {"start", "run", "assign", "failing", "created"}
  /\ clean[r] # "done"

\* cleanup deletes by id, and ids are used again: still every container has its
\* own entry from setContainer to its own cleanup.
EntryIsOwn == \A r \in Request : Entered(r) => containers[id[r]] = r

\* cleanup is called by Start when it fails and by the exit hook; never by both,
\* which would close a closed channel and panic.
ClosedOnce == \A r \in Request : closes[r] <= 1

\* A container that failed to start, or whose job is over, is not in the table
\* and not even on its way into it: whatever fails, cleanup has been there.
NothingIsLeft ==
  \A r \in Request :
    (create[r] = "failed" \/ job[r] = "over") =>
      /\ create[r] \in {"failed", "assign", "created"}
      /\ \A n \in ID : containers[n] # r
      /\ closes[r] = 1 /\ ~forwarder[r]

\* "max_count = 300 (max number of running containers...)": the limit is exceeded
\* only by requests that read the number of containers before another one
\* entered the table, and by no more than there are of them.
LimitOnlyOvertaken ==
  Count <= MaxCount + Cardinality({r \in overtaken : Entered(r)})

\* "Returns true if job still in running state": a flag outlives its command only
\* if the dispatch failed or the container ended, and an answered command's never
\* does.
FlagOutlivesOnlyFailure ==
  \A k \in Cmd :
    flag[k] = "kept" => \/ dispatch[k] \in {"send", "remote", "failed"}
                        \/ dispatch[k] = "lost" /\ job[target[k]] \in {"exiting", "over"}

\* The table of containers: entries are kept for their own containers, and
\* there are no more of them than the limit allows.
TableIsKept == TypeOK /\ EntryIsOwn /\ LimitOnlyOvertaken

\* Whatever fails, and whoever calls it, cleanup is done once.
CleansUpOnce == ClosedOnce /\ NothingIsLeft
=============================================================================
