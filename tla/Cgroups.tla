-------------------------------- MODULE Cgroups --------------------------------
(***************************************************************************)
(* The cgroup commands (apps/core0/subsys/cgroups): the groups of the      *)
(* memory and cpuset subsystems are directories, their settings and their  *)
(* members files of them.  Nothing in core0 remembers a group and nothing  *)
(* is locked: every command looks at the directories and changes them one  *)
(* file at a time, next to the other commands and to processes that fork   *)
(* and exit.  The kernel's side of the files is external.                  *)
(*                                                                         *)
(* The two settings of a group are a and b: limit and memsw limit of a     *)
(* memory group, cpus and mems of a cpuset group (0: the empty set).       *)
(***************************************************************************)
EXTENDS Integers, FiniteSets

CONSTANTS
  Caller,    \* concurrent cgroup commands
  Group,     \* pairs <<subsystem, name>>
  Pid,       \* process identifiers
  Asked,     \* the specs asked for, as records [a, b]; 0 means not given
  Unlimited  \* what -1 is written for, and the set of all cpus and mems

Subsystem == {"memory", "cpuset"}

RootGroup == <<"root", "">>

ASSUME CgroupAssumption ==
  /\ Group \subseteq Subsystem \X {g[2] : g \in Group}
  /\ Pid # {} /\ Asked \subseteq [a : Nat, b : Nat] /\ Unlimited \in Nat
  /\ \A s \in Asked : s.a + s.b < Unlimited

VARIABLES
  dir,     \* the groups whose directory exists
  files,   \* their settings
  live,    \* processes that exist
  member,  \* the group of each process in each subsystem
  command, \* what each caller does
  kept,    \* history: the limits a memory spec has set and nobody may change
  removed  \* history: groups removed while nobody was about to create them

cgroupVars == <<dir, files, live, member, command, kept, removed>>

Fresh(g) == IF g[1] = "memory" THEN [a |-> Unlimited, b |-> Unlimited] ELSE [a |-> 0, b |-> 0]

NoCommand == [pc |-> "idle"]
NoLimits == [a |-> 0, b |-> 0]

CgroupInit ==
  /\ dir = {} /\ files = [g \in Group |-> Fresh(g)]
  /\ live = {CHOOSE p \in Pid : TRUE}
  /\ member = [p \in Pid |-> [s \in Subsystem |-> RootGroup]]
  /\ command = [c \in Caller |-> NoCommand]
  /\ kept = [g \in Group |-> NoLimits] /\ removed = {}

Members(g) == {p \in live : member[p][g[1]] = g}

CommandAt(c, pc) == command[c].pc = pc

\* The next state of the callers: c goes on as f, and an undisturbed command on
\* the same group is disturbed when c changes something the operations ops depend on.
Moved(c, f, ops) ==
  [d \in Caller |->
     CASE d = c -> f
       [] d # c /\ ~CommandAt(d, "idle") /\ command[d].g = f.g /\ command[d].op \in ops
            -> [command[d] EXCEPT !.clean = FALSE]
       [] OTHER -> command[d]]

CommandTo(c, pc) == command' = Moved(c, [command[c] EXCEPT !.pc = pc], {})

\* A command ends; res is what it answers.
Ends(c, res) == command' = Moved(c, [command[c] EXCEPT !.pc = "done", !.res = res], {})

CommandOp == {"ensure", "remove", "reset", "tasks", "add", "del", "spec"}

\* What c does with the group it got.
AfterGet(op, g) ==
  CASE op = "ensure" -> "done"
    [] op = "reset"  -> "reset1"
    [] op = "tasks"  -> "tasks"
    [] op \in {"add", "del"} -> "task"
    [] op = "spec"   -> IF g[1] = "memory" THEN "limits" ELSE "write1"

\* Commands that look for the group with Get check that it exists first.
Looks(op) == op \notin {"ensure", "remove"}

\* A command arrives.
Begin(c) ==
  /\ CommandAt(c, "idle")
  /\ \E g \in Group, op \in CommandOp, p \in Pid, s \in Asked :
       /\ op \in {"add", "del"} \/ p = CHOOSE q \in Pid : TRUE
       /\ op = "spec" \/ s = CHOOSE t \in Asked : TRUE
       /\ command' = [command EXCEPT ![c] =
            [pc |-> IF op = "remove" THEN "rexists" ELSE IF Looks(op) THEN "exists" ELSE "stat",
             op |-> op, g |-> g, p |-> p, s |-> s, left |-> {}, swap |-> 0,
             made |-> FALSE, clean |-> TRUE, res |-> "ok"]]
       /\ kept' = IF op \in {"reset", "spec", "remove"} THEN [kept EXCEPT ![g] = NoLimits] ELSE kept
       /\ removed' = IF op = "ensure" THEN removed \ {g} ELSE removed
  /\ UNCHANGED <<dir, files, live, member>>

\* Get: Exists.
LookExists(c) ==
  /\ CommandAt(c, "exists")
  /\ IF command[c].g \in dir THEN CommandTo(c, "stat") ELSE Ends(c, "not found")
  /\ UNCHANGED <<dir, files, live, member, kept, removed>>

\* GetGroup: a group that is there is taken as it is.
StatFindsResets(c) == IF command[c].op = "ensure" THEN "reset1" ELSE AfterGet(command[c].op, command[c].g)
StatFinds(c) == AfterGet(command[c].op, command[c].g)

GetGroupStat(c) ==
  /\ CommandAt(c, "stat")
  /\ CommandTo(c, IF command[c].g \in dir THEN StatFinds(c) ELSE "mkdir")
  /\ UNCHANGED <<dir, files, live, member, kept, removed>>

\* GetGroup: Mkdir of a group that was not there.
GetGroupMkdir(c) ==
  /\ CommandAt(c, "mkdir")
  /\ LET g == command[c].g IN
     \/ /\ g \notin dir
        /\ dir' = dir \cup {g} /\ files' = [files EXCEPT ![g] = Fresh(g)]
        /\ command' = Moved(c, [command[c] EXCEPT !.pc = "reset1", !.made = TRUE],
                            {"remove", "spec", "reset"})
     \/ /\ g \in dir
        /\ Ends(c, "failed") /\ UNCHANGED <<dir, files>>
  /\ UNCHANGED <<live, member, kept, removed>>

\* The kernel takes a write of v to a setting of g: never a limit above the memsw limit.
Accepts(g, field, v) ==
  /\ g \in dir
  /\ g[1] = "memory" => IF field = "a" THEN v <= files[g].b ELSE v >= files[g].a

\* One WriteFile; pc is where c goes.  The kernel may refuse a value for
\* reasons of its own (memory in use, no such cpu).
Write(c, field, v, pc, mayRefuse) ==
  LET g == command[c].g IN
  \/ /\ Accepts(g, field, v)
     /\ files' = [files EXCEPT ![g] = IF field = "a" THEN [@ EXCEPT !.a = v] ELSE [@ EXCEPT !.b = v]]
     /\ command' = Moved(c, [command[c] EXCEPT !.pc = pc], {"spec", "reset"})
  \/ /\ ~Accepts(g, field, v)
     /\ CommandTo(c, pc) /\ UNCHANGED files
  \/ /\ mayRefuse /\ v # Unlimited
     /\ command' = [command EXCEPT ![c] = [@ EXCEPT !.pc = pc, !.clean = FALSE]]
     /\ UNCHANGED files

\* Reset: memory groups lose the memsw limit first, cpuset groups get cpus first.
Reset(c) ==
  /\ LET first == IF command[c].g[1] = "memory" THEN "b" ELSE "a" IN
     \/ CommandAt(c, "reset1") /\ Write(c, first, Unlimited, "reset2", FALSE)
     \/ CommandAt(c, "reset2") /\ Write(c, IF first = "a" THEN "b" ELSE "a", Unlimited, "reset3", FALSE)
     \/ /\ CommandAt(c, "reset3") /\ UNCHANGED files
        /\ IF command[c].made
           THEN command' = [command EXCEPT ![c] = [@ EXCEPT !.made = FALSE,
                                                 !.pc = AfterGet(command[c].op, command[c].g)]]
           ELSE Ends(c, "ok")
  /\ UNCHANGED <<dir, live, member, kept, removed>>

\* cgroup.tasks answers the members at the moment.
Tasks(c) ==
  /\ CommandAt(c, "tasks")
  /\ Ends(c, IF command[c].g \in dir THEN "ok" ELSE "failed")
  /\ UNCHANGED <<dir, files, live, member, kept, removed>>

\* The kernel moves a live process into a group, unless a cpuset has no cpus or mems.
MayJoin(p, g) ==
  /\ p \in live /\ g \in dir
  /\ g[1] = "cpuset" => files[g].a # 0 /\ files[g].b # 0

\* cgroup.task-add writes to the group, task-remove to the root: wherever p was.
TaskAddRemove(c) ==
  /\ CommandAt(c, "task")
  /\ LET g == command[c].g  p == command[c].p  add == command[c].op = "add" IN
     \/ /\ IF add THEN MayJoin(p, g) ELSE p \in live
        /\ member' = [member EXCEPT ![p][g[1]] = IF add THEN g ELSE RootGroup]
        /\ command' = Moved(c, [command[c] EXCEPT !.pc = "done"], IF add THEN {"remove"} ELSE {})
     \/ /\ ~(IF add THEN MayJoin(p, g) ELSE p \in live)
        /\ Ends(c, "failed") /\ UNCHANGED member
  /\ UNCHANGED <<dir, files, live, kept, removed>>

\* Limit reads the memsw limit it will order its writes by.  A spec without
\* a limit changes nothing.
ReadLimits(c) ==
  /\ CommandAt(c, "limits")
  /\ LET g == command[c].g IN
     CASE command[c].s.a = 0 -> Ends(c, "ok")
       [] command[c].s.a # 0 /\ g \notin dir -> Ends(c, "failed")
       [] OTHER -> command' = [command EXCEPT ![c] = [@ EXCEPT !.pc = "write1", !.swap = files[g].b]]
  /\ UNCHANGED <<dir, files, live, member, kept, removed>>

\* The limit whose file is written first.
SwapFirst(cswap, mem) == cswap < mem

\* Limit: two writes whose errors are ignored, memsw = mem + swap.
LimitWrite(c) ==
  /\ command[c].g[1] = "memory"
  /\ LET s == command[c].s  swapFirst == SwapFirst(command[c].swap, s.a)
         Set(field, pc) == Write(c, field, IF field = "a" THEN s.a ELSE s.a + s.b, pc, TRUE) IN
     \/ CommandAt(c, "write1") /\ Set(IF swapFirst THEN "b" ELSE "a", "write2")
     \/ CommandAt(c, "write2") /\ Set(IF swapFirst THEN "a" ELSE "b", "report")

\* cpusetSpec: the settings that are given, up to the first that fails.
CpusetWrite(c) ==
  /\ command[c].g[1] = "cpuset"
  /\ LET s == command[c].s
         Set(field, v, pc) ==
           \/ v = 0 /\ CommandTo(c, pc) /\ UNCHANGED files
           \/ v # 0 /\ command[c].g \in dir /\ Write(c, field, v, pc, FALSE)
           \/ v # 0 /\ Ends(c, "failed") /\ UNCHANGED files IN
     \/ CommandAt(c, "write1") /\ Set("a", s.a, "write2")
     \/ CommandAt(c, "write2") /\ Set("b", s.b, "report")

WriteSpec(c) ==
  /\ CommandAt(c, "write1") \/ CommandAt(c, "write2")
  /\ LimitWrite(c) \/ CpusetWrite(c)
  /\ UNCHANGED <<dir, live, member, kept, removed>>

Changing(d, g) == /\ ~CommandAt(d, "idle") /\ ~CommandAt(d, "done") /\ command[d].g = g
                  /\ command[d].op \in {"reset", "spec", "remove"} \/ command[d].made

\* The spec is answered with the limits as they are now.
Report(c) ==
  /\ CommandAt(c, "report") /\ Ends(c, "ok")
  /\ LET g == command[c].g IN
     kept' = IF g \in dir /\ command[c].clean /\ \A d \in Caller \ {c} : ~Changing(d, g)
             THEN [kept EXCEPT ![g] = files[g]] ELSE kept
  /\ UNCHANGED <<dir, files, live, member, removed>>

\* Remove: the members of a group that is there are read once ...
RemoveTasks(c) ==
  /\ \/ /\ CommandAt(c, "rexists")
        /\ IF command[c].g \in dir THEN CommandTo(c, "rtasks") ELSE Ends(c, "ok")
     \/ /\ CommandAt(c, "rtasks") /\ command[c].g \in dir
        /\ command' = [command EXCEPT ![c] = [@ EXCEPT !.pc = "rmove", !.clean = TRUE,
                                              !.left = Members(command[c].g)]]
     \/ /\ CommandAt(c, "rtasks") /\ command[c].g \notin dir /\ Ends(c, "failed")
  /\ UNCHANGED <<dir, files, live, member, kept, removed>>

\* What is left to move after one task.
Left(left, p) == left \ {p}

\* ... moved to the root one by one, errors ignored ...
RemoveMove(c) ==
  /\ CommandAt(c, "rmove")
  /\ \E p \in command[c].left :
       /\ member' = IF p \in live THEN [member EXCEPT ![p][command[c].g[1]] = RootGroup] ELSE member
       /\ command' = [command EXCEPT ![c].left = Left(@, p)]
  /\ UNCHANGED <<dir, files, live, kept, removed>>

\* ... and the directory goes if the kernel finds no member in it.
RemoveDir(c) ==
  /\ CommandAt(c, "rmove") /\ command[c].left = {}
  /\ LET g == command[c].g IN
     \/ /\ g \in dir /\ Members(g) = {}
        /\ dir' = dir \ {g}
        /\ command' = Moved(c, [command[c] EXCEPT !.pc = "done"], {"remove", "spec", "reset"})
        /\ removed' = IF \E d \in Caller : command[d].pc \in {"stat", "mkdir"} /\ command[d].g = g
                      THEN removed ELSE removed \cup {g}
     \/ /\ ~(g \in dir /\ Members(g) = {})
        /\ Ends(c, "failed") /\ UNCHANGED <<dir, removed>>
  /\ UNCHANGED <<files, live, member, kept>>

\* The answer is sent.
Answer(c) ==
  /\ CommandAt(c, "done") /\ command' = [command EXCEPT ![c] = NoCommand]
  /\ UNCHANGED <<dir, files, live, member, kept, removed>>

\* A child starts in the groups of its parent.
TaskForks ==
  /\ \E p \in live, q \in Pid \ live :
       /\ live' = live \cup {q} /\ member' = [member EXCEPT ![q] = member[p]]
       /\ command' = [c \in Caller |->
            IF CommandAt(c, "rmove") /\ \E s \in Subsystem : member[p][s] = command[c].g
            THEN [command[c] EXCEPT !.clean = FALSE] ELSE command[c]]
  /\ UNCHANGED <<dir, files, kept, removed>>

TaskExits ==
  /\ \E p \in live : live' = live \ {p} /\ live' # {}
                     /\ member' = [member EXCEPT ![p] = [s \in Subsystem |-> RootGroup]]
  /\ UNCHANGED <<dir, files, command, kept, removed>>

CgroupStep(c) ==
  \/ LookExists(c) \/ GetGroupStat(c) \/ GetGroupMkdir(c) \/ Reset(c)
  \/ Tasks(c) \/ TaskAddRemove(c)
  \/ ReadLimits(c) \/ WriteSpec(c) \/ Report(c)
  \/ RemoveTasks(c) \/ RemoveMove(c) \/ RemoveDir(c) \/ Answer(c)

CgroupNext == TaskForks \/ TaskExits \/ \E c \in Caller : Begin(c) \/ CgroupStep(c)

CgroupSpec == CgroupInit /\ [][CgroupNext]_cgroupVars

-----------------------------------------------------------------------------
\* Whatever the limits of the group were, a memory spec that nobody disturbs ends
\* with exactly the limits it asked for, although the kernel takes no limit above
\* the memsw limit and Limit ignores what the kernel refuses.
LimitIsSet ==
  \A c \in Caller :
    (/\ CommandAt(c, "done") /\ command[c].op = "spec" /\ command[c].res = "ok" /\ command[c].clean
     /\ command[c].g[1] = "memory" /\ command[c].s.a # 0)
    => files[command[c].g] = [a |-> command[c].s.a, b |-> command[c].s.a + command[c].s.b]

\* Limits that were set stay until the next spec, reset or remove of the group
\* arrives: ensuring the group, listing or adding tasks to it does not change
\* them, unless the command that created the group had not yet reset it.
LimitStays == \A g \in Group : kept[g] # NoLimits => g \in dir /\ files[g] = kept[g]

\* A removed group stays removed until it is ensured again; only a command that
\* had seen it before it was removed brings it back.
RemovedStaysRemoved == removed \cap dir = {}

\* Remove fails only if a task joined the group after its tasks were read, or
\* somebody else removed it.
RemoveFailsOnlyByNewTask ==
  \A c \in Caller :
    CommandAt(c, "done") /\ command[c].op = "remove" /\ command[c].res = "failed"
    => ~command[c].clean

\* A group's limits are the last ones set, and a removed group stays away.
LimitsAreKept == LimitIsSet /\ LimitStays /\ RemovedStaysRemoved /\ RemoveFailsOnlyByNewTask
================================================================================
