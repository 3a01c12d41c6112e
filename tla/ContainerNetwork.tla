---------------------------- MODULE ContainerNetwork ----------------------------
(***************************************************************************)
(* The networks of containers (apps/core0/subsys/containers: network.go,   *)
(* and nicAdd, nicRemove, portforwardAdd and portforwardRemove of          *)
(* manager.go): links, network namespace, zerotier daemon and forwards of a*)
(* container from Start to the end of cleanup.                             *)
(*                                                                         *)
(* Up to five goroutines work on a container: Start and later the exit hook*)
(* (box), the PID hook (pidHook), a client's nicAdd or nicRemove (nicOp),  *)
(* the watcher of zerotier (watch), and clients' portforward commands. The *)
(* kernel, `ip', zerotier and OVS are external: each call may fail.        *)
(***************************************************************************)
EXTENDS PortForward, Sequences

CONSTANTS
  Box,      \* containers
  NicLists, \* the lists of types of nics a container may be created with
  AddTypes, \* types of nics clients add later
  MaxNics   \* bound: nics of a container

\* `vlan' stands for vlan and vxlan, which differ in the command OVS gets.
NicType == {"vlan", "default", "bridge", "macvlan", "passthrough", "zerotier"}
ASSUME NetworkAssumption ==
  /\ MaxNics \in Nat /\ AddTypes \subseteq NicType
  /\ \A l \in NicLists : l \in Seq(NicType) /\ Len(l) <= MaxNics

VARIABLES
  box,      \* <<where, nic, nics>>: Start, and after the process ended cleanup
  pidHook,  \* <<where, nic, nics>>: onStart
  nicOp,    \* <<where, nic>>: nicAdd or nicRemove, which holds conM.RLock
  nics,     \* Args.Nics: [type, state, moved]
  links,    \* where the link of each nic is: none, host, ns, back
  proc,     \* the process: none, alive, dead
  pid,      \* container.PID > 0
  mounted,  \* /run/netns/<id> is mounted
  zt,       \* the zerotier daemon runs
  ztOnce,   \* container.zto was done
  zterr,    \* container.zterr # nil
  watch,    \* the goroutine of watchZerotier: none, wait, over
  terminating, \* container.terminating
  lateAdd   \* history: what was added to a network being destroyed, or failed to go

netVars == <<box, pidHook, nicOp, nics, links, proc, pid, mounted, zt, ztOnce, zterr, watch,
             terminating, lateAdd>>

NetworkInit ==
  /\ box = [b \in Box |-> <<"new", 0, 0>>] /\ pidHook = [b \in Box |-> <<"none", 0, 0>>]
  /\ nicOp = [b \in Box |-> <<"none", 0>>]
  /\ nics = [b \in Box |-> <<>>] /\ links = [b \in Box |-> <<>>]
  /\ proc = [b \in Box |-> "none"] /\ watch = [b \in Box |-> "none"]
  /\ pid = [b \in Box |-> FALSE] /\ mounted = [b \in Box |-> FALSE]
  /\ zt = [b \in Box |-> FALSE] /\ ztOnce = [b \in Box |-> FALSE]
  /\ zterr = [b \in Box |-> FALSE] /\ terminating = [b \in Box |-> FALSE]
  /\ lateAdd = [b \in Box |-> {}]

\* The namespace of port forwards, one for each container, and the address rules
\* lead to.
forwardId(b) == [sys |-> 1, id |-> b]
getDefaultIP(b) == CHOOSE d \in Dest : TRUE
Forwarded(b) == {r \in rules : r.ns = forwardId(b)}

At(b, where) == box[b][1] = where
InTable(b) == ~At(b, "new") /\ ~At(b, "set") /\ ~At(b, "gone")
Destroying(b) == box[b][1] \in {"destroy", "killzt", "unmount", "restore", "unset", "gone"}

-----------------------------------------------------------------------------
(* Mutants: bugs this code could have, each caught by a property below.    *)

\* onStart assigns c.PID when postStart has returned.
OnStartPIDLate(b) ==
  /\ pidHook[b][1] = "pid"
  /\ pidHook' = [pidHook EXCEPT ![b] = <<"namespace", 0, 0>>]
  /\ UNCHANGED <<box, nicOp, nics, links, proc, pid, mounted, zt, ztOnce, zterr, watch,
                 terminating, lateAdd>>

-----------------------------------------------------------------------------
(* conM is a sync.RWMutex: RLock waits while a writer waits, even when the *)
(* caller holds a read lock already.                                       *)

WriterWaits == \E b \in Box : box[b][1] \in {"set", "unset"}
ReaderHolds == \E b \in Box : nicOp[b][1] # "none"

-----------------------------------------------------------------------------
(* Links. Those in a namespace go with it; a passthrough device comes back.*)

NsAlive(p, m, z) == p = "alive" \/ m \/ z
Settle(b, alive) ==
  [i \in DOMAIN links[b] |->
     IF links[b][i] # "ns" \/ alive THEN links[b][i]
     ELSE IF nics[b][i].type = "passthrough" THEN "back" ELSE "none"]

\* preStartNetwork of one nic: what it may leave behind, and with which error.
\* A failure after LinkAdd, or after the rename of a device, leaves the link.
PreOutcomes(b, i) ==
  IF nics[b][i].type = "zerotier" THEN {<<TRUE, "none">>}
  ELSE {<<TRUE, "host">>, <<FALSE, "none">>, <<FALSE, "host">>}

\* preVlanNetwork and preVxlanNetwork ask for the container with OVS's tag.
AsksTable(b, i) == nics[b][i].type = "vlan"

PreState(b, i, ok, link) ==
  /\ nics' = [nics EXCEPT ![b][i].state = IF ok THEN "unknown" ELSE "error"]
  /\ links' = [links EXCEPT ![b][i] = link]

\* setupLink: the link is taken by its name and moved to the process, and then
\* renamed and given its addresses, which may fail.
SetupLink(b, i) ==
  \/ /\ links[b][i] = "host" /\ proc[b] = "alive" /\ pid[b]
     /\ links' = [links EXCEPT ![b][i] = "ns"]
     /\ \E s \in {"configured", "error"} :
          nics' = [nics EXCEPT ![b][i] = [@ EXCEPT !.state = s, !.moved = TRUE]]
  \/ /\ nics' = [nics EXCEPT ![b][i].state = "error"]
     /\ UNCHANGED links

\* joinZerotierNetwork: the first caller starts the daemon, in the namespace as
\* /run/netns has it, and the watcher. The error of a start is never cleared.
JoinZerotier(b, i) ==
  /\ UNCHANGED links
  /\ IF ztOnce[b] THEN UNCHANGED <<zt, ztOnce, watch, lateAdd, zterr>>
     ELSE \E up \in {mounted[b], FALSE} :
          /\ ztOnce' = [ztOnce EXCEPT ![b] = TRUE]
          /\ watch' = [watch EXCEPT ![b] = "wait"]
          /\ zt' = [zt EXCEPT ![b] = up]
          /\ zterr' = [zterr EXCEPT ![b] = ~up]
          /\ lateAdd' = [lateAdd EXCEPT ![b] =
                           IF Destroying(b) THEN @ \cup {"zerotier"} ELSE @]
  /\ \E s \in {"configured", "error"} :
       /\ s = "configured" => ~zterr'[b] /\ zt'[b]
       /\ nics' = [nics EXCEPT ![b][i].state = s]

\* postStartNetwork of one nic.
PostNic(b, i) ==
  IF nics[b][i].type = "zerotier" THEN JoinZerotier(b, i)
  ELSE SetupLink(b, i) /\ UNCHANGED <<zt, ztOnce, watch, lateAdd, zterr>>

-----------------------------------------------------------------------------
(* Start.                                                                  *)

Go(b, where, i, n) == box' = [box EXCEPT ![b] = <<where, i, n>>]

\* createContainer, up to the wait for conM in setContainer.
CreateBox(b) ==
  /\ At(b, "new")
  /\ \E l \in NicLists :
       /\ nics' = [nics EXCEPT ![b] =
                     [i \in DOMAIN l |-> [type |-> l[i], state |-> "unknown", moved |-> FALSE]]]
       /\ links' = [links EXCEPT ![b] = [i \in DOMAIN l |-> "none"]]
  /\ Go(b, "set", 0, 0)
  /\ UNCHANGED <<pidHook, nicOp, proc, pid, mounted, zt, ztOnce, zterr, watch, terminating,
                 lateAdd, forwardVars>>

\* range evaluates Args.Nics once: nics added later are not among its n.
SetBox(b) ==
  /\ At(b, "set") /\ ~ReaderHolds
  /\ Go(b, "pre", 1, Len(nics[b]))
  /\ UNCHANGED <<pidHook, nicOp, nics, links, proc, pid, mounted, zt, ztOnce, zterr, watch,
                 terminating, lateAdd, forwardVars>>

\* preStartIsolatedNetworking: the first error ends Start, which cleans up.
PreStartNic(b) ==
  LET i == box[b][2]  n == box[b][3] IN
  /\ At(b, "pre") /\ i <= n
  /\ AsksTable(b, i) => ~WriterWaits
  /\ \E o \in PreOutcomes(b, i) :
       /\ PreState(b, i, o[1], o[2])
       /\ IF ~o[1] THEN Go(b, "destroy", 1, Len(nics[b]))
          ELSE IF nics[b][i].type = "default" THEN Go(b, "forward", i, n)
          ELSE Go(b, "pre", i + 1, n)
  /\ UNCHANGED <<pidHook, nicOp, proc, pid, mounted, zt, ztOnce, zterr, watch, terminating,
                 lateAdd, forwardVars>>

\* setPortForwards, one of Args.Port after the other (here: any of Source).
PreStartForward(b) ==
  LET i == box[b][2]  n == box[b][3] IN
  /\ At(b, "forward")
  /\ \/ \E s \in Source :
          /\ SetPortForward(forwardId(b), s, getDefaultIP(b))
          /\ UNCHANGED <<box, nics>>
     \/ Go(b, "pre", i + 1, n) /\ UNCHANGED <<nics, forwardVars>>
     \/ /\ Go(b, "destroy", 1, Len(nics[b]))
        /\ nics' = [nics EXCEPT ![b][i].state = "error"]
        /\ UNCHANGED forwardVars
  /\ UNCHANGED <<pidHook, nicOp, links, proc, pid, mounted, zt, ztOnce, zterr, watch,
                 terminating, lateAdd>>

\* RunFactory starts the process, whose PID hook runs in a goroutine, or fails.
Run(b) ==
  /\ At(b, "pre") /\ box[b][2] > box[b][3]
  /\ \/ /\ Go(b, "up", 0, 0)
        /\ proc' = [proc EXCEPT ![b] = "alive"]
        /\ pidHook' = [pidHook EXCEPT ![b] = <<"pid", 0, 0>>]
     \/ Go(b, "destroy", 1, Len(nics[b])) /\ UNCHANGED <<proc, pidHook>>
  /\ UNCHANGED <<nicOp, nics, links, pid, mounted, zt, ztOnce, zterr, watch, terminating,
                 lateAdd, forwardVars>>

Die(b) ==
  /\ proc[b] = "alive"
  /\ proc' = [proc EXCEPT ![b] = "dead"]
  /\ links' = [links EXCEPT ![b] = Settle(b, NsAlive("dead", mounted[b], zt[b]))]
  /\ UNCHANGED <<box, pidHook, nicOp, nics, pid, mounted, zt, ztOnce, zterr, watch, terminating,
                 lateAdd, forwardVars>>

OnExit(b) ==
  /\ At(b, "up") /\ proc[b] = "dead"
  /\ terminating' = [terminating EXCEPT ![b] = TRUE]
  /\ Go(b, "destroy", 1, Len(nics[b]))
  /\ UNCHANGED <<pidHook, nicOp, nics, links, proc, pid, mounted, zt, ztOnce, zterr, watch,
                 lateAdd, forwardVars>>

-----------------------------------------------------------------------------
(* The PID hook: onStart.                                                  *)

OnStartPID(b) ==
  /\ pidHook[b][1] = "pid"
  /\ pid' = [pid EXCEPT ![b] = TRUE]
  /\ pidHook' = [pidHook EXCEPT ![b] = <<"namespace", 0, 0>>]
  /\ UNCHANGED <<box, nicOp, nics, links, proc, mounted, zt, ztOnce, zterr, watch,
                 terminating, lateAdd>>

\* namespace and setupLO: the namespace is mounted from /proc/<pid>.
OnStartNamespace(b) ==
  /\ pidHook[b][1] = "namespace"
  /\ \E m \in {proc[b] = "alive", FALSE}, lo \in BOOLEAN :
       /\ mounted' = [mounted EXCEPT ![b] = m]
       /\ pidHook' = [pidHook EXCEPT ![b] = IF m /\ lo THEN <<"post", 1, Len(nics[b])>>
                                      ELSE <<"over", 0, 0>>]
  /\ UNCHANGED <<box, nicOp, nics, links, proc, pid, zt, ztOnce, zterr, watch, terminating,
                 lateAdd, forwardVars>>

OnStartNic(b) ==
  LET i == pidHook[b][2]  n == pidHook[b][3] IN
  /\ pidHook[b][1] = "post"
  /\ IF i > n
     THEN /\ pidHook' = [pidHook EXCEPT ![b] = <<"over", 0, 0>>]
          /\ UNCHANGED <<nics, links, zt, ztOnce, watch, lateAdd, zterr>>
     ELSE /\ pidHook' = [pidHook EXCEPT ![b] = <<"post", i + 1, n>>]
          /\ PostNic(b, i)
  /\ UNCHANGED <<box, nicOp, proc, pid, mounted, terminating, forwardVars>>

-----------------------------------------------------------------------------
(* watchZerotier, and the end of the daemon.                               *)

ZerotierDies(b) ==
  /\ zt[b]
  /\ zt' = [zt EXCEPT ![b] = FALSE]
  /\ links' = [links EXCEPT ![b] = Settle(b, NsAlive(proc[b], mounted[b], FALSE))]
  /\ UNCHANGED <<box, pidHook, nicOp, nics, proc, pid, mounted, ztOnce, zterr, watch,
                 terminating, lateAdd, forwardVars>>

WatchEnds(b) == terminating[b]

Watch(b) ==
  /\ watch[b] = "wait" /\ ~zt[b]
  /\ IF WatchEnds(b) THEN watch' = [watch EXCEPT ![b] = "over"] /\ UNCHANGED <<zt, zterr>>
     ELSE \E up \in {mounted[b], FALSE} :
          /\ zt' = [zt EXCEPT ![b] = up]
          /\ zterr' = [zterr EXCEPT ![b] = @ \/ ~up]
          /\ UNCHANGED watch
  /\ UNCHANGED <<box, pidHook, nicOp, nics, links, proc, pid, mounted, ztOnce, terminating,
                 lateAdd, forwardVars>>

-----------------------------------------------------------------------------
(* cleanup: destroyNetwork, and unsetContainer, which waits for conM.      *)

\* The types whose host end destroyNetwork takes away.
DestroyedTypes(b, i) == {"vlan", "default"}

\* unBridge fails when OVS does; LinkDel of a veth takes its peer along.
DestroyNic(b) ==
  LET i == box[b][2]  n == box[b][3] IN
  /\ At(b, "destroy") /\ i <= n
  /\ Go(b, "destroy", i + 1, n)
  /\ AsksTable(b, i) => ~WriterWaits
  /\ LET unbridge == nics[b][i].type \in DestroyedTypes(b, i) IN
     /\ nics' = IF unbridge THEN [nics EXCEPT ![b][i].state = "destroyed"] ELSE nics
     /\ \E fails \in {FALSE, AsksTable(b, i)} :
          /\ links' = IF unbridge /\ ~fails THEN [links EXCEPT ![b][i] = "none"] ELSE links
          /\ lateAdd' = [lateAdd EXCEPT ![b] = IF fails THEN @ \cup {"ovs"} ELSE @]
     /\ IF unbridge /\ nics[b][i].type = "default" THEN RemoveAll(forwardId(b))
        ELSE UNCHANGED forwardVars
  /\ UNCHANGED <<pidHook, nicOp, proc, pid, mounted, zt, ztOnce, zterr, watch, terminating>>

DestroyLinksDone(b) ==
  /\ At(b, "destroy") /\ box[b][2] > box[b][3]
  /\ Go(b, "killzt", 0, 0)
  /\ UNCHANGED <<pidHook, nicOp, nics, links, proc, pid, mounted, zt, ztOnce, zterr, watch,
                 terminating, lateAdd, forwardVars>>

KillZerotier(b) ==
  /\ At(b, "killzt")
  /\ zt' = [zt EXCEPT ![b] = FALSE]
  /\ links' = [links EXCEPT ![b] = Settle(b, NsAlive(proc[b], mounted[b], FALSE))]
  /\ Go(b, "unmount", 0, 0)
  /\ UNCHANGED <<pidHook, nicOp, nics, proc, pid, mounted, ztOnce, zterr, watch, terminating,
                 lateAdd, forwardVars>>

UnmountNamespace(b) ==
  /\ At(b, "unmount")
  /\ mounted' = [mounted EXCEPT ![b] = @ /\ ~pid[b]]
  /\ links' = [links EXCEPT ![b] = Settle(b, NsAlive(proc[b], mounted'[b], zt[b]))]
  /\ Go(b, "restore", 0, 0)
  /\ UNCHANGED <<pidHook, nicOp, nics, proc, pid, zt, ztOnce, zterr, watch, terminating,
                 lateAdd, forwardVars>>

\* destroyPassthroughNetwork: the device is found by its index, under whatever
\* name, once it is in the host's namespace; after 3 seconds it is given up.
Restored == {"host", "back"}
RestorePassthrough(b) ==
  /\ At(b, "restore")
  /\ links' = [links EXCEPT ![b] =
       [i \in DOMAIN @ |-> IF nics[b][i].type = "passthrough" /\ @[i] \in Restored
                           THEN "none" ELSE @[i]]]
  /\ Go(b, "unset", 0, 0)
  /\ UNCHANGED <<pidHook, nicOp, nics, proc, pid, mounted, zt, ztOnce, zterr, watch, terminating,
                 lateAdd, forwardVars>>

UnsetBox(b) ==
  /\ At(b, "unset") /\ ~ReaderHolds
  /\ Go(b, "gone", 0, 0)
  /\ UNCHANGED <<pidHook, nicOp, nics, links, proc, pid, mounted, zt, ztOnce, zterr, watch,
                 terminating, lateAdd, forwardVars>>

-----------------------------------------------------------------------------
(* Commands of clients, under conM.RLock.                                  *)

\* ContainerCreateArguments.Validate, on the nics. A passthrough device in use
\* is not found by its name, so it fails every later nicAdd.
Exclusive == {{"default"}, {"bridge"}, {"macvlan", "passthrough"}}
Validate(l, where) ==
  /\ \A e \in Exclusive :
       Cardinality({i \in DOMAIN l : l[i].type \in e /\ l[i].state # "destroyed"}) <= 1
  /\ \A i \in DOMAIN l :
       l[i].type = "passthrough" /\ l[i].state # "destroyed" => where[i] = "none"

Op(b, where, i) == nicOp' = [nicOp EXCEPT ![b] = <<where, i>>]
Refused(b) == Op(b, "none", 0)

NicAdd(b) ==
  /\ InTable(b) /\ ~WriterWaits /\ nicOp[b][1] = "none" /\ Len(nics[b]) < MaxNics
  /\ \E t \in AddTypes :
       LET l == Append(nics[b], [type |-> t, state |-> "unknown", moved |-> FALSE])
           where == Append(links[b], "none") IN
       IF Validate(l, where)
       THEN /\ nics' = [nics EXCEPT ![b] = l]
            /\ links' = [links EXCEPT ![b] = where]
            /\ Op(b, "pre", Len(l))
       ELSE Refused(b) /\ UNCHANGED <<nics, links>>
  /\ UNCHANGED <<box, pidHook, proc, pid, mounted, zt, ztOnce, zterr, watch, terminating,
                 lateAdd, forwardVars>>

\* preStartNetwork in nicAdd: for a vlan it takes conM.RLock a second time.
\* The forwards of Args.Port are set again for a default nic: they are taken
\* then, or there are none.
NicAddPre(b) ==
  LET i == nicOp[b][2] IN
  /\ nicOp[b][1] = "pre"
  /\ AsksTable(b, i) => ~WriterWaits
  /\ \E o \in PreOutcomes(b, i) :
       /\ PreState(b, i, o[1], o[2])
       /\ IF o[1] THEN Op(b, "post", i) ELSE Op(b, "none", 0)
  /\ lateAdd' = [lateAdd EXCEPT ![b] = IF Destroying(b) THEN @ \cup {"nic"} ELSE @]
  /\ UNCHANGED <<box, pidHook, proc, pid, mounted, zt, ztOnce, zterr, watch, terminating,
                 forwardVars>>

NicAddPost(b) ==
  /\ nicOp[b][1] = "post"
  /\ PostNic(b, nicOp[b][2])
  /\ Op(b, "none", 0)
  /\ UNCHANGED <<box, pidHook, proc, pid, mounted, terminating, forwardVars>>

NicRemove(b) ==
  /\ InTable(b) /\ ~WriterWaits /\ nicOp[b][1] = "none"
  /\ \E i \in DOMAIN nics[b] : nics[b][i].state = "configured" /\ Op(b, "remove", i)
  /\ UNCHANGED <<box, pidHook, nics, links, proc, pid, mounted, zt, ztOnce, zterr, watch,
                 terminating, lateAdd, forwardVars>>

\* unBridge marks the nic destroyed before it tries; a moved passthrough device
\* is not found under its name on the host, and stays. unLink, for a macvlan,
\* marks it only when `ip link del' succeeded; leaving a zerotier network fails
\* for good after one failed start of the daemon.
NicRemoveDo(b) ==
  LET i == nicOp[b][2]  t == nics[b][nicOp[b][2]].type IN
  /\ nicOp[b][1] = "remove"
  /\ AsksTable(b, i) => ~WriterWaits
  /\ \E s \in {"destroyed", "error", "configured"} :
       /\ s = "error" => t = "zerotier"
       /\ s = "configured" => t = "macvlan"
       /\ t = "zerotier" /\ zterr[b] => s = "error"
       /\ nics' = [nics EXCEPT ![b][i].state = s]
       /\ \E fails \in {FALSE, AsksTable(b, i)} :
            links' = IF s = "destroyed" /\ t \notin {"passthrough", "zerotier"} /\ ~fails
                     THEN [links EXCEPT ![b][i] = "none"] ELSE links
  /\ Op(b, "none", 0)
  /\ UNCHANGED <<box, pidHook, proc, pid, mounted, zt, ztOnce, zterr, watch, terminating,
                 lateAdd, forwardVars>>

\* portforwardAdd wants a nic of type default, in whatever state it is.
HasDefault(b) == \E i \in DOMAIN nics[b] : nics[b][i].type = "default"

PortForwardAdd(b) ==
  /\ InTable(b) /\ ~WriterWaits /\ HasDefault(b)
  /\ \E s \in Source : SetPortForward(forwardId(b), s, getDefaultIP(b))
  /\ lateAdd' = [lateAdd EXCEPT ![b] = IF Destroying(b) THEN @ \cup {"forward"} ELSE @]
  /\ UNCHANGED <<box, pidHook, nicOp, nics, links, proc, pid, mounted, zt, ztOnce, zterr, watch,
                 terminating>>

PortForwardRemove(b) ==
  /\ InTable(b) /\ ~WriterWaits
  /\ \E s \in Source : RemovePortForward(forwardId(b), s)
  /\ UNCHANGED netVars

-----------------------------------------------------------------------------
\* What the goroutines of a container do on their own, apart from dying.
BoxSteps(b) ==
  \/ SetBox(b) \/ PreStartNic(b) \/ Run(b) \/ OnExit(b)
  \/ (OnStartPID(b) /\ UNCHANGED forwardVars) \/ OnStartNamespace(b) \/ OnStartNic(b)
  \/ DestroyNic(b) \/ DestroyLinksDone(b) \/ KillZerotier(b) \/ UnmountNamespace(b)
  \/ RestorePassthrough(b) \/ UnsetBox(b)

OpSteps(b) == NicAddPre(b) \/ NicAddPost(b) \/ NicRemoveDo(b)

NetworkNext ==
  \E b \in Box :
    \/ CreateBox(b) \/ PreStartForward(b) \/ BoxSteps(b) \/ OpSteps(b)
    \/ Die(b) \/ ZerotierDies(b) \/ Watch(b)
    \/ NicAdd(b) \/ NicRemove(b) \/ PortForwardAdd(b) \/ PortForwardRemove(b)

NetworkSpec == NetworkInit /\ ForwardInit /\ [][NetworkNext]_<<netVars, forwardVars>>

-----------------------------------------------------------------------------
(* Properties.                                                             *)

Ended(b) == At(b, "gone") /\ pidHook[b][1] \in {"none", "over"}

\* Links of a container that is gone are gone as well (destroyNetwork), even
\* if its PID hook was still moving them when the process had died: those of
\* the default and the vlan networks always, those of bridges, macvlans and
\* passthrough devices if they got into the namespace. What stays is what
\* nicAdd set up while the network was being destroyed, what a zerotier daemon
\* started in that time holds, and a link OVS failed to give up.
LinksAreRemoved ==
  \A b \in Box : Ended(b) /\ lateAdd[b] = {} =>
    \A i \in DOMAIN nics[b] :
      nics[b][i].type \in {"vlan", "default", "passthrough"} \/ nics[b][i].moved =>
        links[b][i] = "none"

\* The mount of the namespace never outlives the container, however late the
\* PID hook runs: it mounts only while the process lives, after c.PID was set.
NamespaceUnmounted == \A b \in Box : Ended(b) => ~mounted[b]

\* Forwards of a container that is gone are those a client added while the
\* network was being destroyed, or those nft failed to drop (RemoveAll).
ForwardsAreRemoved ==
  \A b \in Box : Ended(b) =>
    "forward" \in lateAdd[b] \/ \A r \in Forwarded(b) : r.port \in broken

\* A zerotier daemon outlives its container only if it was started for the
\* first time while the network was being destroyed: the watcher does not
\* restart one that destroyNetwork killed.
ZerotierEnds == \A b \in Box : Ended(b) /\ zt[b] => "zerotier" \in lateAdd[b]

\* nicAdd or nicRemove of a vlan asks the table of containers again while it
\* holds the read lock; a writer that came in between waits for it, and it for
\* the writer: from then on no container is created or removed.
NestedRead == \E b \in Box : nicOp[b][1] \in {"pre", "remove"} /\ AsksTable(b, nicOp[b][2])
LockedUp == WriterWaits /\ NestedRead

\* Once its process died a container leaves the table (cleanup), unless the
\* manager locks itself up in a nested read lock.
DeadIsRemoved ==
  \A b \in Box : (At(b, "up") /\ proc[b] = "dead") ~> (At(b, "gone") \/ LockedUp)

\* What the network of a container set up goes with the container, wherever in
\* its start the process died.
NetworkIsTakenDown == LinksAreRemoved /\ NamespaceUnmounted /\ ForwardsAreRemoved /\ ZerotierEnds
=============================================================================
