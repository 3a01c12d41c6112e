-------------------------------- MODULE Sandbox --------------------------------
(***************************************************************************)
(* The file systems of a container (apps/core0/subsys/containers:          *)
(* filesystem.go, backup.go, flist.go, and Start and cleanup as far as they*)
(* use them; apps/core0/helper/filesystem): the g8ufs daemons of its root  *)
(* and of its flist mounts, the mounts below its root, the directories with*)
(* the daemons' state, and the archives taken of a paused container.       *)
(*                                                                         *)
(* Goroutines: Start and cleanup (start), one job per g8ufs daemon with its*)
(* hooks, the job of coreX, and the commands that archive the container.   *)
(* g8ufs, restic, zflist and the kernel are external.                      *)
(***************************************************************************)
EXTENDS Naturals, FiniteSets

CONSTANTS
  Extra,    \* Args.Mount: subset of {"bind", "flist", "same"}: a directory of
            \* the host, an flist, and the flist of the root a second time
  Archiver  \* commands corex.backup and corex.flist.create

FS == {"root"} \cup (Extra \ {"bind"})

ASSUME SandboxAssumption == Extra \subseteq {"bind", "flist", "same"}

VARIABLES
  start,     \* where Start is, and after it the container
  todo,      \* the entries of Args.Mount that Start has not mounted
  now,       \* the file system MountFList is working on
  fs,        \* the job of each g8ufs: none, run, mounted, failed, ended, hooks, stuck, over
  jSet,      \* MountFList has assigned j, the job its exit hook reads
  once,      \* what o.Do decided for each daemon: no, ready, exit
  wiped,     \* daemons whose directory was removed while they ran
  mounts,    \* targets mounted below the root of the container
  backend,   \* the directory of the root's daemon exists
  layered,   \* an flist is layered on the root
  core,      \* the process of coreX: none, alive, dead
  coreRunner, \* container.runner # nil
  coreOver,  \* the job of coreX has ended (runner.Wait returns)
  sb,        \* onSBExit: none, wait, clean, done
  missed,    \* history: onSBExit found no runner to terminate
  core0Died, \* a nil job was dereferenced in the exit hook
  pidSet,    \* container.PID # 0
  stopped,   \* the processes of the container are stopped
  meta,      \* the file with the arguments of the container exists in its root
  archive,   \* where each archiver is: idle, ready, run, over
  overlap    \* history: two archivers were at work at a time

startVars == <<start, todo, now>>
fsVars == <<fs, jSet, once, wiped>>
coreVars == <<core, coreRunner, coreOver, pidSet>>
archiveVars == <<stopped, meta, archive, overlap>>
sandboxVars == <<startVars, fsVars, mounts, backend, layered, coreVars, sb, missed,
                 core0Died, archiveVars>>

SandboxInit ==
  /\ start = "new" /\ todo = Extra /\ now = "root"
  /\ fs = [f \in FS |-> "none"] /\ jSet = [f \in FS |-> FALSE]
  /\ once = [f \in FS |-> "no"] /\ wiped = {} /\ mounts = {}
  /\ backend = FALSE /\ layered = FALSE
  /\ core = "none" /\ coreRunner = FALSE /\ coreOver = FALSE /\ pidSet = FALSE
  /\ sb = "none" /\ missed = FALSE /\ core0Died = FALSE
  /\ stopped = FALSE /\ meta = FALSE /\ overlap = FALSE
  /\ archive = [a \in Archiver |-> "idle"]

-----------------------------------------------------------------------------
(* Mutants: bugs this code could have, each caught by a property below.    *)

\* An archive that fails does not resume the container.
ResumeOnSuccess(ok) == ok

-----------------------------------------------------------------------------
(* MountFList.                                                             *)

\* The path of a daemon's state: the namespace and a hash of the flist's URL.
BackendOf(f) == IF f = "same" THEN "root" ELSE f

Runs(f) == fs[f] \in {"run", "mounted"}

\* The backend is removed and made again, the meta data is fetched, or the
\* repository restored, and g8ufs is run: the job runs before j is assigned.
MountFListRun ==
  /\ start \in {"root", "extra"} /\ fs[now] = "none"
  /\ wiped' = wiped \cup {g \in FS \ {now} : Runs(g) /\ BackendOf(g) = BackendOf(now)}
  /\ backend' = TRUE
  /\ \/ /\ fs' = [fs EXCEPT ![now] = "run"]
        /\ UNCHANGED startVars
     \/ /\ start' = "failing"
        /\ UNCHANGED <<fs, todo, now>>
  /\ UNCHANGED <<jSet, once, mounts, layered, coreVars, sb, missed, core0Died, archiveVars>>

MountFListAssign ==
  /\ start \in {"root", "extra"} /\ fs[now] # "none" /\ ~jSet[now]
  /\ jSet' = [jSet EXCEPT ![now] = TRUE]
  /\ UNCHANGED <<startVars, fs, once, wiped, mounts, backend, layered, coreVars, sb, missed,
                 core0Died, archiveVars>>

\* wg.Wait, and then the files of Args.Config, which may fail to be written.
MountFListReturn ==
  /\ start \in {"root", "extra"} /\ jSet[now] /\ once[now] # "no"
  /\ \/ start' = "extras"
     \/ start' = "failing"
  /\ UNCHANGED <<todo, now, fsVars, mounts, backend, layered, coreVars, sb, missed, core0Died,
                 archiveVars>>

\* g8ufs says `mount starts', which the match hook takes for ready.
FSReady(f) ==
  /\ fs[f] = "run"
  /\ fs' = [fs EXCEPT ![f] = "mounted"]
  /\ once' = [once EXCEPT ![f] = "ready"]
  /\ mounts' = mounts \cup {f}
  /\ UNCHANGED <<startVars, jSet, wiped, backend, layered, coreVars, sb, missed, core0Died,
                 archiveVars>>

\* g8ufs ends: it fails, before or after it has mounted, or it was unmounted.
FSEnds(f) ==
  /\ Runs(f)
  /\ \E e \in {"failed", "ended"} :
       /\ e = "ended" => fs[f] = "mounted" /\ f \notin mounts
       /\ fs' = [fs EXCEPT ![f] = e]
  /\ UNCHANGED <<startVars, jSet, once, wiped, mounts, backend, layered, coreVars, sb, missed,
                 core0Died, archiveVars>>

\* onSBExit, the first exit hook of the root's daemon: Terminate signals coreX
\* and waits for its job if Start has assigned runner, and cleanSandbox follows.
SBTerminates == coreRunner

SBExit ==
  /\ fs["root"] \in {"failed", "ended"} /\ sb = "none"
  /\ sb' = IF SBTerminates THEN "wait" ELSE "clean"
  /\ missed' = (missed \/ ~SBTerminates)
  /\ UNCHANGED <<startVars, fsVars, mounts, backend, layered, coreVars, core0Died, archiveVars>>

SBWaits ==
  /\ sb = "wait" /\ coreOver
  /\ sb' = "clean"
  /\ UNCHANGED <<startVars, fsVars, mounts, backend, layered, coreVars, missed, core0Died,
                 archiveVars>>

\* cleanSandbox: unMountAll, deepest target first, and the directories.
BackendAfterClean == FALSE

SBClean ==
  /\ sb = "clean"
  /\ sb' = "done" /\ mounts' = {} /\ backend' = BackendAfterClean
  /\ UNCHANGED <<startVars, fsVars, layered, coreVars, missed, core0Died, archiveVars>>

\* The exit hook of MountFList. If nothing was decided and the daemon failed, it
\* waits for the job whose hook it is: job.start reports the end of a job only
\* when its hooks have returned (base/pm/job.go). A job it does not know yet is nil.
ExitDecides(ok) == TRUE

ExitHook(f) ==
  /\ fs[f] \in {"failed", "ended"} /\ (f = "root" => sb = "done")
  /\ IF once[f] # "no" \/ ~ExitDecides(fs[f] = "ended")
     THEN /\ fs' = [fs EXCEPT ![f] = "over"]
          /\ UNCHANGED <<once, core0Died>>
     ELSE IF fs[f] = "ended"
     THEN /\ fs' = [fs EXCEPT ![f] = "over"]
          /\ once' = [once EXCEPT ![f] = "exit"]
          /\ UNCHANGED core0Died
     ELSE /\ fs' = [fs EXCEPT ![f] = "stuck"]
          /\ core0Died' = (core0Died \/ ~jSet[f])
          /\ UNCHANGED once
  /\ UNCHANGED <<startVars, jSet, wiped, mounts, backend, layered, coreVars, sb, missed,
                 archiveVars>>

\* MergeFList: one flist on top of the root, if its daemon still runs.
MergeFList ==
  /\ start = "up" /\ Runs("root") /\ ~layered
  /\ layered' = TRUE
  /\ UNCHANGED <<startVars, fsVars, mounts, backend, coreVars, sb, missed, core0Died,
                 archiveVars>>

-----------------------------------------------------------------------------
(* Start: sandbox, preStart, RunFactory; and cleanup.                      *)

StartGoes(from, to) == start = from /\ start' = to

\* sandbox: what an earlier container with this id left is removed.
StartSandbox ==
  /\ StartGoes("new", "root")
  /\ backend' = FALSE
  /\ UNCHANGED <<todo, now, fsVars, mounts, layered, coreVars, sb, missed, core0Died, archiveVars>>

\* The loop over Args.Mount, a map: any entry may be next.
StartMount ==
  /\ start = "extras"
  /\ \E e \in todo :
       /\ todo' = todo \ {e}
       /\ \/ /\ e = "bind" /\ mounts' = mounts \cup {"bind"} /\ UNCHANGED <<start, now>>
          \/ /\ e = "bind" /\ start' = "failing" /\ UNCHANGED <<mounts, now>>
          \/ /\ e # "bind" /\ now' = e /\ start' = "extra" /\ UNCHANGED mounts
  /\ UNCHANGED <<fsVars, backend, layered, coreVars, sb, missed, core0Died, archiveVars>>

\* The mount of coreX, preStart, and RunFactory up to the start of the job: each
\* may fail. coreX is not found when the root is gone.
StartRun ==
  /\ start = "extras" /\ todo = {}
  /\ mounts' = mounts \cup {"coreX"}
  /\ \/ start' = "failing" /\ UNCHANGED core
     \/ "root" \in mounts /\ start' = "assign" /\ core' = "alive"
  /\ UNCHANGED <<todo, now, fsVars, backend, layered, coreRunner, coreOver, pidSet, sb, missed,
                 core0Died, archiveVars>>

StartAssign ==
  /\ StartGoes("assign", "up")
  /\ coreRunner' = TRUE
  /\ UNCHANGED <<todo, now, fsVars, mounts, backend, layered, core, coreOver, pidSet, sb,
                 missed, core0Died, archiveVars>>

\* cleanup of a Start that failed.
StartCleanup ==
  /\ StartGoes("failing", "failed")
  /\ mounts' = {}
  /\ UNCHANGED <<todo, now, fsVars, backend, layered, coreVars, sb, missed, core0Died,
                 archiveVars>>

CoreOnStart ==
  /\ core # "none" /\ ~pidSet
  /\ pidSet' = TRUE
  /\ UNCHANGED <<startVars, fsVars, mounts, backend, layered, core, coreRunner, coreOver, sb,
                 missed, core0Died, archiveVars>>

\* coreX ends, of itself or because of Terminate; a stopped process does not.
CoreDies ==
  /\ core = "alive" /\ ~stopped
  /\ core' = "dead"
  /\ UNCHANGED <<startVars, fsVars, mounts, backend, layered, coreRunner, coreOver, pidSet, sb,
                 missed, core0Died, archiveVars>>

\* onExit, with cleanup, and the end of the job.
CoreCleanup ==
  /\ core = "dead" /\ ~coreOver
  /\ mounts' = {} /\ coreOver' = TRUE
  /\ UNCHANGED <<startVars, fsVars, backend, layered, core, coreRunner, pidSet, sb, missed,
                 core0Died, archiveVars>>

-----------------------------------------------------------------------------
(* backup and flistCreate: the container is stopped while its files are    *)
(* read. Only backup writes the file of meta data, and removes it.         *)

Running(a) == archive[a] \in {"ready", "run"}

\* The container is in the table, and its PID is known.
ArchiveStart(a) ==
  /\ archive[a] = "idle" /\ start \in {"assign", "up"} /\ ~coreOver /\ pidSet
  /\ meta' = TRUE
  /\ overlap' = (overlap \/ \E o \in Archiver : Running(o))
  /\ archive' = [archive EXCEPT ![a] = "ready"]
  /\ UNCHANGED <<startVars, fsVars, mounts, backend, layered, coreVars, sb, missed, core0Died,
                 stopped>>

Paused == core = "alive"

ArchivePause(a) ==
  /\ archive[a] = "ready"
  /\ stopped' = Paused
  /\ archive' = [archive EXCEPT ![a] = "run"]
  /\ UNCHANGED <<startVars, fsVars, mounts, backend, layered, coreVars, sb, missed, core0Died,
                 meta, overlap>>

\* The deferred calls: the container is resumed, the file removed.
Resumes(ok) == TRUE

ArchiveEnd(a) ==
  /\ archive[a] = "run"
  /\ \E ok \in BOOLEAN : stopped' = (stopped /\ ~Resumes(ok))
  /\ meta' = FALSE
  /\ archive' = [archive EXCEPT ![a] = "over"]
  /\ UNCHANGED <<startVars, fsVars, mounts, backend, layered, coreVars, sb, missed, core0Died,
                 overlap>>

-----------------------------------------------------------------------------
StartSteps == StartSandbox \/ StartMount \/ StartRun \/ StartAssign \/ StartCleanup
              \/ MountFListRun \/ MountFListAssign \/ MountFListReturn
JobSteps == SBExit \/ SBWaits \/ SBClean \/ (\E f \in FS : ExitHook(f)) \/ CoreCleanup

SandboxNext ==
  /\ ~core0Died
  /\ \/ StartSteps \/ JobSteps \/ MergeFList \/ CoreOnStart \/ CoreDies
     \/ \E f \in FS : FSReady(f) \/ FSEnds(f)
     \/ \E a \in Archiver : ArchiveStart(a) \/ ArchivePause(a) \/ ArchiveEnd(a)

FileSystemSpec == SandboxInit /\ [][SandboxNext]_sandboxVars

-----------------------------------------------------------------------------
(* Properties.                                                             *)

\* When a container is gone and its root's daemon has ended, cleanup and
\* onSBExit between them have left no mount and no state of the daemon, whoever
\* came first. Only a Start that went on to mount flists after onSBExit had
\* cleaned up leaves a directory (the next container with this id removes it).
SandboxIsCleaned ==
  (start = "failed" \/ (start = "up" /\ coreOver)) /\ sb = "done" =>
    mounts = {} /\ (backend => missed /\ now # "root")

\* A daemon's state is not removed while it runs (MountFList begins with
\* RemoveAll of the backend), but for a container that mounts the flist of
\* its root a second time.
BackendIsOwn == wiped # {} => "same" \in Extra \ todo

\* A container outlives the daemon of its root only if the daemon ended before
\* Start had assigned runner: then onSBExit finds nothing to terminate.
OrphanOnlyInRace == core = "alive" /\ sb \in {"clean", "done"} => missed

\* A container is stopped only while an archive is taken of it: every way out of
\* backup and flistCreate resumes it.
StoppedOnlyByArchive == stopped => \E a \in Archiver : Running(a)

\* An archive is taken of a stopped container, with the file of its arguments:
\* only another archiver that ends in the meantime spoils that.
ArchiveIsConsistent ==
  \A a \in Archiver : archive[a] = "run" /\ core = "alive" => (stopped /\ meta) \/ overlap

\* Start comes to an end, unless a g8ufs daemon failed before it had mounted.
StartEndsOrSticks ==
  start = "root" ~> (start \in {"up", "failed"} \/ core0Died \/ \E f \in FS : fs[f] = "stuck")

\* MountFList returns when the daemon is ready or has ended (`wait for either of
\* the hooks (ready or exit)').
MountFListReturns == start = "root" ~> (start # "root" \/ core0Died)

\* What the file systems of a container need goes with the container, and an
\* archive is of a container that stands still.
FileSystemsAreTakenDown ==
  /\ SandboxIsCleaned /\ BackendIsOwn /\ OrphanOnlyInRace
  /\ StoppedOnlyByArchive /\ ArchiveIsConsistent
=============================================================================
