------------------------------- MODULE MCDevices -------------------------------
(***************************************************************************)
(* Instances for TLC of what containers and machines hold and have to give *)
(* back. A behaviour is about one of:                                      *)
(*   network  a container with every kind of network;                      *)
(*   sandbox  a container with a directory, an flist and its root's flist  *)
(*            mounted, and two commands that archive it;                   *)
(*   devices  a machine with a nic and a disk, a job that attaches and     *)
(*            detaches them, and a job that detaches them;                 *)
(*   handles, tree                                                         *)
(*            a file handle that two clients use; commands on a tree of    *)
(*            files that a recursive chmod walks.                          *)
(***************************************************************************)
EXTENDS ContainerNetwork, Sandbox, KvmDevices, FileHandles

VARIABLE focus

MCNS     == {[sys |-> 1, id |-> 1]}
MCSource == {[from |-> "", port |-> 2, protocols |-> {"tcp"}]}
MCNicLists ==
  {<<"default", "zerotier">>, <<"macvlan">>, <<"bridge", "vlan">>, <<"zerotier", "passthrough">>}

MCModeText == {<<"r">>, <<"w", "+">>, <<"+", "r">>, <<"a">>, <<"x", "+">>, <<"r", "w">>, <<"+">>}
MCPath == {<<"d">>, <<"d", "e">>, <<"d", "f">>}

networkVars == <<netVars, forwardVars>>
mcVars == <<networkVars, sandboxVars, deviceVars, fileVars, focus>>

MCInit ==
  /\ focus \in {"network", "sandbox", "devices", "handles", "tree"}
  /\ NetworkInit /\ ForwardInit /\ SandboxInit /\ FileInit
  /\ DevicesInit /\ (focus = "devices" \/ ~qemuArgs)

\* The second job only detaches, and a machine with arguments for qemu, which
\* concern its disks, has no nics.
FewOperations ==
  /\ devOp["j2"].at # "attach"
  /\ qemuArgs => \A j \in Job : devOp[j].dev \notin Nic

MCNext ==
  /\ UNCHANGED focus
  /\ \/ focus = "network" /\ NetworkNext /\ UNCHANGED <<sandboxVars, deviceVars, fileVars>>
     \/ focus = "sandbox" /\ SandboxNext /\ UNCHANGED <<networkVars, deviceVars, fileVars>>
     \/ /\ focus = "devices" /\ DevicesNext /\ FewOperations'
        /\ UNCHANGED <<networkVars, sandboxVars, fileVars>>
     \/ focus = "handles" /\ HandleNext /\ UNCHANGED <<networkVars, sandboxVars, deviceVars>>
     \/ focus = "tree" /\ TreeNext /\ UNCHANGED <<networkVars, sandboxVars, deviceVars>>

\* Goroutines proceed where theirs is the part that runs. Of commands and deaths
\* nothing is said; g8ufs either mounts or fails; libvirt's event loop and the job
\* kvm.events run; time passes, and the janitor of go-cache runs and calls what
\* it was given.
MCFairness ==
  /\ \A b \in Box : /\ WF_networkVars(focus = "network" /\ BoxSteps(b))
                    /\ WF_networkVars(focus = "network" /\ OpSteps(b))
  /\ WF_sandboxVars(focus = "sandbox" /\ ~core0Died /\ StartSteps)
  /\ WF_sandboxVars(focus = "sandbox" /\ ~core0Died /\ JobSteps)
  /\ \A f \in FS : WF_sandboxVars(focus = "sandbox" /\ ~core0Died /\ fs[f] = "run" /\ (FSReady(f) \/ FSEnds(f)))
  /\ WF_deviceVars(focus = "devices" /\ (HandleDevice \/ HandleLifecycle))
  /\ WF_deviceVars(focus = "devices" /\ EventsRead)
  /\ \A h \in Handle : /\ WF_fileVars(focus = "handles" /\ Elapse(h))
                       /\ WF_fileVars(focus = "handles" /\ Evict(h))
  /\ WF_fileVars(focus = "handles" /\ Collect)
  /\ \A u \in User : WF_fileVars(focus = "handles" /\ (OpenSet(u) \/ UseSet(u) \/ Use(u)))

MCSpec == MCInit /\ [][MCNext]_mcVars /\ MCFairness

\* The file systems of a container alone.
SandboxSpec == MCInit /\ focus = "sandbox" /\ [][MCNext]_mcVars /\ MCFairness

\* Nothing stays behind because a goroutine waits for ever: dead containers are
\* removed, Start ends, libvirt's events are handled and idle files closed, each
\* unless its module says what it waits for.
GoroutinesGetThrough == DeadIsRemoved /\ StartEndsOrSticks /\ EventsAreHandled /\ IdleIsClosed
=============================================================================
