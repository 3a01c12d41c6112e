---------------------------------- MODULE Kvm ----------------------------------
(***************************************************************************)
(* The life of virtual machines (apps/core0/subsys/kvm): create, what      *)
(* libvirt does with the domain, the event loop that cleans up after it,   *)
(* and the port forwards of each machine.                                  *)
(*                                                                         *)
(* libvirt is external: a domain appears, stops at any time, and its       *)
(* "stopped" event reaches the one goroutine that handles events, later    *)
(* and in order. handleStopped runs there, and in a create that fails; it  *)
(* takes its lock for the first of its steps only.                         *)
(***************************************************************************)
EXTENDS PortForward, Sequences

CONSTANTS
  Machine,      \* uuids
  MachineSource,\* the sources of the forwards that machines are asked for
  SequenceMod,       \* sequence numbers have 16 bits: 2^16
  ReservedSeq,  \* ReservedSequences: 0, 1 and 0xffff
  MaxCreates,   \* bound: machines that are created or migrated here
  NoSeq

ASSUME KvmAssumption ==
  /\ MaxCreates \in Nat /\ SequenceMod \in Nat \ {0}
  /\ ReservedSeq \subseteq 0..(SequenceMod - 1) /\ ReservedSeq # 0..(SequenceMod - 1)
  /\ \A q \in 0..(SequenceMod - 1) \ ReservedSeq : [sys |-> 2, id |-> q] \in NS
  /\ NoSeq \notin Nat \cup Machine /\ "loop" \notin Machine /\ MachineSource \subseteq Source

VARIABLES
  vm,         \* what libvirt has: "none", "running" (or paused), "gone"
  info,       \* domainsInfo: the sequence number of a machine, or NoSeq
  mounted,    \* whether the flist of a machine is mounted
  vmSequence, \* kvmManager.sequence
  vmCreate,   \* a create: [at, seq, todo]
  stopping,   \* handleStopped, by actor: [at, uuid, seq]
  events,     \* stopped events of libvirt not handled yet
  adding,     \* a portforward-add between its lookup and its call: [uuid, seq]
  stale,      \* history: sequence numbers that two machines got, that a late
              \* portforward-add used, or of machines that have no DomainInfo
  unmountFailed, \* history: machines whose unmount failed
  creates,    \* how many machines were created or migrated here
  given       \* history: forwards of a machine: those set for it, not removed by
              \* command

kvmVars == <<vm, info, mounted, vmSequence, vmCreate, stopping, events, adding, stale,
             unmountFailed, creates, given>>

NoCreate == [at |-> "none", seq |-> NoSeq, todo |-> {}]
NoStop   == [at |-> "none", uuid |-> NoSeq, seq |-> NoSeq]
NoAdd    == [uuid |-> NoSeq, seq |-> NoSeq]

KvmInit ==
  /\ vm = [u \in Machine |-> "none"]
  /\ info = [u \in Machine |-> NoSeq]
  /\ mounted = [u \in Machine |-> FALSE]
  /\ vmSequence = 0
  /\ vmCreate = [u \in Machine |-> NoCreate]
  /\ stopping = [a \in Machine \cup {"loop"} |-> NoStop]
  /\ events = <<>> /\ adding = NoAdd
  /\ stale = {} /\ unmountFailed = {} /\ creates = 0
  /\ given = [u \in Machine |-> {}]

-----------------------------------------------------------------------------
(* Mutants.                                                                *)

\* handleStopped leaves the port forwards alone.
AfterForgetUnmount(s) == "unmount"

-----------------------------------------------------------------------------
(* Sequence numbers: they name the address, the MAC and the namespace of   *)
(* the port forwards of a machine. Whether one is in use is not looked at. *)

NextMachineSequence ==
  LET after == [i \in 1..SequenceMod |-> (vmSequence + i) % SequenceMod]
  IN  after[Min({i \in 1..SequenceMod : after[i] \notin ReservedSeq})]

ForwardId(seq) == [sys |-> 2, id |-> seq]

InUse(seq) == (\E u \in Machine : info[u] = seq \/ vmCreate[u].seq = seq)
              \/ (\E a \in DOMAIN stopping : stopping[a].seq = seq) \/ adding.seq = seq

-----------------------------------------------------------------------------
(* create                                                                  *)

At(u, at) == vmCreate[u].at = at
GoOn(u, at) == vmCreate' = [vmCreate EXCEPT ![u].at = at] /\ UNCHANGED stopping

\* Nothing under way that would still clean up after the machine.
Settled(u) ==
  /\ vmCreate[u] = NoCreate
  /\ \A i \in 1..Len(events) : events[i] # u
  /\ \A a \in DOMAIN stopping : stopping[a].uuid # u

\* The deferred function: handleStopped, in the goroutine of the create.
CreateFailed(u) ==
  /\ vmCreate' = [vmCreate EXCEPT ![u] = NoCreate]
  /\ stopping' = [stopping EXCEPT ![u] = [at |-> "forget", uuid |-> u, seq |-> NoSeq]]

\* Every machine has a uuid of its own; the model uses one again when nothing of
\* the machine that had it is left.
Unused(u) == /\ vm[u] \in {"none", "gone"} /\ Settled(u) /\ info[u] = NoSeq /\ ~mounted[u]
             /\ stopping[u] = NoStop /\ adding.uuid # u

\* Valid parameters, a number, the domain, and, without an flist, its DomainInfo;
\* todo are the forwards it asks for.
CreateBegin(u, flist, todo) ==
  /\ Unused(u) /\ creates < MaxCreates /\ creates' = creates + 1
  /\ vm' = [vm EXCEPT ![u] = "none"]
  /\ given' = [given EXCEPT ![u] = {}]
  /\ vmSequence' = NextMachineSequence
  /\ vmCreate' = [vmCreate EXCEPT ![u] =
       [at |-> IF flist THEN "mount" ELSE "net", seq |-> NextMachineSequence, todo |-> todo]]
  /\ stale' = IF InUse(NextMachineSequence) THEN stale \cup {NextMachineSequence} ELSE stale
  /\ info' = IF flist THEN info ELSE [info EXCEPT ![u] = NextMachineSequence]
  /\ UNCHANGED <<mounted, stopping, events, adding, unmountFailed>>
  /\ UNCHANGED forwardVars

\* flistMount, and the DomainInfo. It unmounts again when the flist's boot.yaml cannot be read.
CreateMount(u) ==
  /\ At(u, "mount")
  /\ \/ /\ mounted' = [mounted EXCEPT ![u] = TRUE]
        /\ info' = [info EXCEPT ![u] = vmCreate[u].seq]
        /\ GoOn(u, "net") /\ UNCHANGED vm
     \/ /\ vmCreate' = [vmCreate EXCEPT ![u] = NoCreate]
        /\ vm' = [vm EXCEPT ![u] = "gone"]
        /\ UNCHANGED <<info, mounted, stopping>>
  /\ UNCHANGED <<vmSequence, events, adding, stale, unmountFailed, given, creates>>
  /\ UNCHANGED forwardVars

\* setNetworking of the default nic: one forward after the other.
CreateForward(u) ==
  /\ At(u, "net")
  /\ \E s \in vmCreate[u].todo, d \in Dest :
       /\ SetPortForward(ForwardId(vmCreate[u].seq), s, d)
       /\ vmCreate' = [vmCreate EXCEPT ![u].todo = @ \ {s}]
       /\ given' = [given EXCEPT ![u] = @ \cup {s}]
  /\ UNCHANGED <<vm, info, mounted, vmSequence, stopping, events, adding, stale, unmountFailed, creates>>

\* A refused forward, a bridge, a DHCP host or a vlan that cannot be set up.
CreateNetworkFails(u) ==
  /\ At(u, "net") /\ CreateFailed(u)
  /\ vm' = [vm EXCEPT ![u] = "gone"]
  /\ UNCHANGED <<info, mounted, vmSequence, events, adding, stale, unmountFailed, given, creates>>
  /\ UNCHANGED forwardVars

\* DomainCreateXML.
CreateDomain(u) ==
  /\ At(u, "net") /\ vmCreate[u].todo = {}
  /\ \/ vm' = [vm EXCEPT ![u] = "running"] /\ GoOn(u, "check")
     \/ vm' = [vm EXCEPT ![u] = "gone"] /\ CreateFailed(u)
  /\ UNCHANGED <<info, mounted, vmSequence, events, adding, stale, unmountFailed, given, creates>>
  /\ UNCHANGED forwardVars

\* The domain and its DomainInfo are read back: they may be gone already.
CreateCheck(u) ==
  /\ At(u, "check")
  /\ IF vm[u] = "running" /\ info[u] # NoSeq
     THEN vmCreate' = [vmCreate EXCEPT ![u] = NoCreate] /\ UNCHANGED stopping
     ELSE CreateFailed(u)
  /\ UNCHANGED <<vm, info, mounted, vmSequence, events, adding, stale, unmountFailed, given, creates>>
  /\ UNCHANGED forwardVars

-----------------------------------------------------------------------------
(* libvirt.                                                                *)

\* The domain stops: destroy, shutdown, migrate to another node, or by itself.
\* The exit of its file system destroys it too.
DomainStops(u) ==
  /\ vm[u] = "running"
  /\ vm' = [vm EXCEPT ![u] = "gone"]
  /\ events' = Append(events, u)
  /\ \/ UNCHANGED mounted
     \/ mounted[u] /\ mounted' = [mounted EXCEPT ![u] = FALSE]
  /\ UNCHANGED <<info, vmSequence, vmCreate, stopping, adding, stale, unmountFailed, given, creates>>
  /\ UNCHANGED forwardVars

\* prepareMigrationTarget: networking for a machine that arrives by migration. It
\* takes a number and sets the forwards, and keeps no DomainInfo.
MigrateIn(u, s) ==
  /\ Unused(u) /\ creates < MaxCreates /\ creates' = creates + 1
  /\ vmSequence' = NextMachineSequence
  /\ stale' = stale \cup {NextMachineSequence}
  /\ \E d \in Dest : SetPortForward(ForwardId(NextMachineSequence), s, d)
  /\ vm' = [vm EXCEPT ![u] = "running"]
  /\ UNCHANGED <<info, mounted, vmCreate, stopping, events, adding, unmountFailed, given>>

-----------------------------------------------------------------------------
(* Events and handleStopped.                                               *)

\* The event loop takes the next event: domaineLifeCycleHandler.
LoopTakes ==
  /\ events # <<>> /\ stopping["loop"] = NoStop
  /\ stopping' = [stopping EXCEPT !["loop"] = [at |-> "forget", uuid |-> Head(events), seq |-> NoSeq]]
  /\ events' = Tail(events)
  /\ UNCHANGED <<vm, info, mounted, vmSequence, vmCreate, adding, stale, unmountFailed, given, creates>>
  /\ UNCHANGED forwardVars

\* What follows: RemoveAll for a machine that has a DomainInfo, and the unmount.
AfterForget(s) == IF info[s.uuid] = NoSeq THEN "unmount" ELSE "forwards"

StopForget(a) ==
  /\ stopping[a].at = "forget"
  /\ LET u == stopping[a].uuid IN
       /\ stopping' = [stopping EXCEPT ![a] = [@ EXCEPT !.at = AfterForget(stopping[a]), !.seq = info[u]]]
       /\ info' = [info EXCEPT ![u] = NoSeq]
  /\ UNCHANGED <<vm, mounted, vmSequence, vmCreate, events, adding, stale, unmountFailed, given, creates>>
  /\ UNCHANGED forwardVars

StopForwards(a) ==
  /\ stopping[a].at = "forwards"
  /\ RemoveAll(ForwardId(stopping[a].seq))
  /\ stopping' = [stopping EXCEPT ![a].at = "unmount", ![a].seq = NoSeq]
  /\ UNCHANGED <<vm, info, mounted, vmSequence, vmCreate, events, adding, stale, unmountFailed, given, creates>>

\* flistUnmount; EINVAL, of a machine without an flist, is no error.
StopUnmount(a) ==
  /\ stopping[a].at = "unmount"
  /\ LET u == stopping[a].uuid IN
     \/ mounted' = [mounted EXCEPT ![u] = FALSE] /\ UNCHANGED unmountFailed
     \/ mounted[u] /\ unmountFailed' = unmountFailed \cup {u} /\ UNCHANGED mounted
  /\ stopping' = [stopping EXCEPT ![a] = NoStop]
  /\ UNCHANGED <<vm, info, vmSequence, vmCreate, events, adding, stale, given, creates>>
  /\ UNCHANGED forwardVars

-----------------------------------------------------------------------------
(* kvm.portforward-add and kvm.portforward-remove                          *)

AddLookup(u) ==
  /\ adding = NoAdd /\ vm[u] = "running" /\ info[u] # NoSeq
  /\ adding' = [uuid |-> u, seq |-> info[u]]
  /\ UNCHANGED <<vm, info, mounted, vmSequence, vmCreate, stopping, events, stale,
                 unmountFailed, given, creates>>
  /\ UNCHANGED forwardVars

AddForward ==
  /\ adding # NoAdd
  /\ \/ /\ \E s \in MachineSource, d \in Dest :
             /\ SetPortForward(ForwardId(adding.seq), s, d)
             /\ given' = [given EXCEPT ![adding.uuid] = @ \cup {s}]
        /\ stale' = IF info[adding.uuid] = adding.seq THEN stale ELSE stale \cup {adding.seq}
     \/ UNCHANGED <<forwardVars, given, stale>>
  /\ adding' = NoAdd
  /\ UNCHANGED <<vm, info, mounted, vmSequence, vmCreate, stopping, events, unmountFailed, creates>>

RemoveForward(u, s) ==
  /\ vm[u] = "running" /\ info[u] # NoSeq
  /\ RemovePortForward(ForwardId(info[u]), s)
  /\ given' = [given EXCEPT ![u] = {t \in @ : t.port # s.port}]
  /\ UNCHANGED <<vm, info, mounted, vmSequence, vmCreate, stopping, events, adding, stale, unmountFailed, creates>>

KvmNext ==
  \/ \E u \in Machine :
       \/ \E flist \in BOOLEAN, todo \in {{}} \cup {{s} : s \in MachineSource} : CreateBegin(u, flist, todo)
       \/ CreateMount(u) \/ CreateForward(u) \/ CreateNetworkFails(u)
       \/ CreateDomain(u) \/ CreateCheck(u)
       \/ DomainStops(u) \/ AddLookup(u)
       \/ \E s \in MachineSource : MigrateIn(u, s) \/ RemoveForward(u, s)
  \/ \E a \in Machine \cup {"loop"} : StopForget(a) \/ StopForwards(a) \/ StopUnmount(a)
  \/ LoopTakes \/ AddForward

\* Machines and the rules of their forwards.
machineVars == <<kvmVars, forwardVars>>
KvmSpec == KvmInit /\ ForwardInit /\ [][KvmNext]_machineVars

-----------------------------------------------------------------------------
(* Properties.                                                             *)

\* When a machine is gone, or its create failed at whatever step, nothing of it is
\* left: no DomainInfo, no mounted flist unless its unmount failed. A failing
\* create and the event loop may clean up at the same time.
MachineLeavesNothing ==
  \A u \in Machine : (vm[u] = "gone" /\ Settled(u)) =>
     /\ info[u] = NoSeq
     /\ mounted[u] => u \in unmountFailed

\* Port forwards of machines belong to machines the manager knows or is about to
\* clean up, except those nft did not drop, of machines that came by migration,
\* and of a portforward-add that finished after the machine was forgotten.
ForwardHasMachine ==
  \A r \in rules : \/ r.port \in broken \/ r.ns.sys # 2 \/ r.ns.id \in stale
                   \/ \E u \in Machine : info[u] = r.ns.id
                   \/ \E a \in DOMAIN stopping : stopping[a].seq = r.ns.id

\* A running machine keeps the forwards it was given until a command removes
\* them: the end of another machine takes none of them, unless the sequence
\* numbers went once around and both had the same.
ForwardsStay ==
  \A u \in Machine :
    (vm[u] = "running" /\ info[u] # NoSeq /\ info[u] \notin stale) =>
       \A s \in given[u] : \E r \in OfNamespace(ForwardId(info[u])) : r.port = s.port

\* Numbers that belong to the network, the gateway and the broadcast address are
\* given to no machine, also after the 16 bit counter wrapped around.
SequenceNotReserved == \A u \in Machine : info[u] \notin ReservedSeq

\* A machine gets what it asked for and leaves nothing of it, although numbers
\* and ports come back.
MachinesAreSeparate ==
  /\ MachineLeavesNothing /\ ForwardHasMachine /\ ForwardsStay /\ SequenceNotReserved
=============================================================================
