-------------------------------- MODULE Bridge --------------------------------
(***************************************************************************)
(* Bridges (apps/core0/builtin/bridge.go): links, their networks, the      *)
(* dnsmasq job and the firewall rules of each.                             *)
(*                                                                         *)
(* create holds bridgeMgr.m until it returns. delete locks it and unlocks  *)
(* it at once: it waits for a create under way, and may then overlap with  *)
(* later creates and with other deletes.                                   *)
(***************************************************************************)
EXTENDS Nft

CONSTANTS
  BridgeName, \* names of bridges
  Net,        \* networks: [ip, len] with AddrBits bits of address
  AddrBits,   \* the width of an address
  MaxIndex    \* bound: links the kernel creates

ASSUME BridgeAssumption ==
  /\ AddrBits \in Nat /\ MaxIndex \in Nat /\ None \notin Net
  /\ Net \subseteq [ip : 0..(2^AddrBits - 1), len : 0..AddrBits]

\* The law of exponents for the masks of addresses.  It asks nothing of the constants:
\* it is what the provers have to be told about ^.
ASSUME PowerAssumption ==
  \A a, b \in 0..AddrBits : 2^a \in Nat \ {0} /\ 2^(a + b) = 2^a * 2^b

VARIABLES
  link,       \* index of the link of a name, 0 if there is none
  addr,       \* the network of a link: index to a member of Net, or None
  dnsmasq,    \* the job dnsmasq-<name>: [state, index]
  bridgeLock, \* who holds bridgeMgr.m
  bridgeCmd,  \* what each client's command is doing
  lastIndex,  \* the last index of a link
  ready,      \* history: bridges created with nat and not being deleted
  abandoned   \* history: bridges of which create failed in setNAT

bridgeVars ==
  <<link, addr, dnsmasq, bridgeLock, bridgeCmd, lastIndex, ready, abandoned>>

Off == [state |-> "off", index |-> 0]

BridgeInit ==
  /\ link = [b \in BridgeName |-> 0]
  /\ addr = [i \in 1..MaxIndex |-> None]
  /\ dnsmasq = [b \in BridgeName |-> Off]
  /\ bridgeLock = None /\ lastIndex = 0
  /\ bridgeCmd = [c \in Client |-> Idle]
  /\ ready = {} /\ abandoned = {}

Live == {link[b] : b \in BridgeName} \ {0}

-----------------------------------------------------------------------------
(* Mutants.                                                                *)

\* create unlocks at once, as delete does.
LockFreeAlways == TRUE

-----------------------------------------------------------------------------
(* Networks.                                                               *)

Mask(ip, len) == ip - (ip % 2^(AddrBits - len))
NetContains(n, ip) == Mask(ip, n.len) = Mask(n.ip, n.len)

\* How nft and NetworkMatchFilter see the network of an address.
Prefix(n) == <<Mask(n.ip, n.len), n.len>>

Intersect(n, m) == NetContains(m, Mask(n.ip, m.len)) \/ NetContains(n, Mask(m.ip, n.len))

\* conflict: some link has an address in the range.
Conflict(n) == \E i \in Live : addr[i] # None /\ Intersect(addr[i], n)

\* A bridge's own address is not the one of its network.
ValidNet(n) == n.ip # Mask(n.ip, n.len)

-----------------------------------------------------------------------------
(* bridge.create                                                           *)

LockFree == bridgeLock = None

\* The deferred LinkDel of a create that fails: it deletes the link by its index.
LinkDel(i) ==
  /\ link' = [b \in BridgeName |-> IF link[b] = i THEN 0 ELSE link[b]]
  /\ addr' = [addr EXCEPT ![i] = None]

EndCreate(c) ==
  /\ bridgeCmd' = [bridgeCmd EXCEPT ![c] = Idle]
  /\ bridgeLock' = None

Creating(c, at) == bridgeCmd[c].op = "create" /\ bridgeCmd[c].at = at

GoTo(c, at) ==
  bridgeCmd' = [bridgeCmd EXCEPT ![c].at = at] /\ UNCHANGED bridgeLock

\* Arguments are validated, the lock is taken and the link is added.
CreateLink(c, b, n) ==
  /\ bridgeCmd[c] = Idle /\ LockFree
  /\ link[b] = 0 /\ lastIndex < MaxIndex
  /\ lastIndex' = lastIndex + 1
  /\ link' = [link EXCEPT ![b] = lastIndex + 1]
  /\ bridgeLock' = c
  /\ bridgeCmd' = [bridgeCmd EXCEPT ![c] =
       [op |-> "create", at |-> "nft", name |-> b, index |-> lastIndex + 1, net |-> n]]
  /\ UNCHANGED <<kernelRules, addr, dnsmasq, ready, abandoned>>

\* nft accepts the rule only while the link exists. Its error does not reach the
\* deferred function, so that the link stays; errors before it do.
CreateNft(c) ==
  /\ Creating(c, "nft")
  /\ LET i == bridgeCmd[c].index IN
     \/ /\ i \in Live
        /\ Apply("filter/input", {<<"meta", "iif", i>>, <<"verdict", "accept">>}, <<"bridge", i>>)
        /\ IF bridgeCmd[c].net = None THEN EndCreate(c) ELSE GoTo(c, "conflict")
        /\ UNCHANGED <<link, addr>>
     \/ EndCreate(c) /\ UNCHANGED <<kernelRules, link, addr>>
     \/ LinkDel(i) /\ EndCreate(c) /\ UNCHANGED kernelRules
  /\ UNCHANGED <<dnsmasq, lastIndex, ready, abandoned>>

CreateConflict(c) ==
  /\ Creating(c, "conflict")
  /\ IF ValidNet(bridgeCmd[c].net) /\ ~Conflict(bridgeCmd[c].net)
     THEN GoTo(c, "addr") /\ UNCHANGED <<link, addr>>
     ELSE LinkDel(bridgeCmd[c].index) /\ EndCreate(c)
  /\ UNCHANGED <<kernelRules, dnsmasq, lastIndex, ready, abandoned>>

CreateAddr(c) ==
  /\ Creating(c, "addr")
  /\ LET i == bridgeCmd[c].index IN
     IF i \in Live
     THEN /\ addr' = [addr EXCEPT ![i] = bridgeCmd[c].net]
          /\ GoTo(c, "dnsmasq") /\ UNCHANGED link
     ELSE LinkDel(i) /\ EndCreate(c)
  /\ UNCHANGED <<kernelRules, dnsmasq, lastIndex, ready, abandoned>>

\* pm.Run refuses the id of a job that has not ended yet.
CreateDnsmasq(c) ==
  /\ Creating(c, "dnsmasq")
  /\ LET b == bridgeCmd[c].name  i == bridgeCmd[c].index IN
     IF dnsmasq[b] = Off
     THEN /\ dnsmasq' = [dnsmasq EXCEPT ![b] = [state |-> "running", index |-> i]]
          /\ GoTo(c, "nat") /\ UNCHANGED <<link, addr>>
     ELSE LinkDel(i) /\ EndCreate(c) /\ UNCHANGED dnsmasq
  /\ UNCHANGED <<kernelRules, lastIndex, ready, abandoned>>

\* setNAT; when it fails the link is deleted and dnsmasq runs on.
CreateNat(c) ==
  /\ Creating(c, "nat")
  /\ LET i == bridgeCmd[c].index IN
     \/ /\ Apply("nat/post", {<<"match", "ip saddr", Prefix(bridgeCmd[c].net)>>,
                               <<"verdict", "masquerade">>}, <<"nat", i>>)
        /\ ready' = ready \cup {i}
        /\ UNCHANGED <<link, addr, abandoned>>
     \/ LinkDel(i) /\ abandoned' = abandoned \cup {i} /\ UNCHANGED <<kernelRules, ready>>
     \/ UNCHANGED <<link, addr, kernelRules, ready, abandoned>> \* nat was not asked for
  /\ EndCreate(c)
  /\ UNCHANGED <<dnsmasq, lastIndex>>

-----------------------------------------------------------------------------
(* bridge.delete                                                           *)

\* pm.Kill of the job of the bridge.
Killed(b) == IF dnsmasq[b].state = "running" THEN [dnsmasq[b] EXCEPT !.state = "dying"] ELSE dnsmasq[b]

\* b.m.Lock() and b.m.Unlock(), one after the other.
DeleteBarrier == bridgeLock = None

Deleting(c, at) == bridgeCmd[c].op = "delete" /\ bridgeCmd[c].at = at

\* The link is looked up, and its dnsmasq killed.
DeleteLookup(c, b) ==
  /\ bridgeCmd[c] = Idle /\ DeleteBarrier /\ link[b] # 0
  /\ bridgeCmd' = [bridgeCmd EXCEPT ![c] = [op |-> "delete", at |-> "nat", index |-> link[b]]]
  /\ dnsmasq' = [dnsmasq EXCEPT ![b] = Killed(b)]
  /\ ready' = ready \ {link[b]}
  /\ UNCHANGED <<kernelRules, link, addr, bridgeLock, lastIndex, abandoned>>

\* The rules unsetNAT looks for: those of the network of the bridge.
NatMatches(n) == Find({{<<"chain", "nat/post">>, <<"match", "ip saddr", Prefix(n)>>}})

\* unsetNAT goes on after a failure, and reports it: delete then ends.
DeleteNat(c) ==
  /\ Deleting(c, "nat")
  /\ LET i == bridgeCmd[c].index
         found == IF addr[i] = None THEN {} ELSE NatMatches(addr[i])
     IN \E failed \in SUBSET found :
          /\ ruleset' = ruleset \ (found \ failed)
          /\ bridgeCmd' = [bridgeCmd EXCEPT ![c] =
               IF failed # {} \/ i \notin Live THEN Idle ELSE [@ EXCEPT !.at = "link"]]
  /\ UNCHANGED <<lastHandle, link, addr, dnsmasq, bridgeLock, lastIndex, ready, abandoned>>

DeleteLink(c) ==
  /\ Deleting(c, "link")
  /\ IF bridgeCmd[c].index \in Live
     THEN LinkDel(bridgeCmd[c].index) /\ GoTo(c, "rules")
     ELSE bridgeCmd' = [bridgeCmd EXCEPT ![c] = Idle] /\ UNCHANGED <<link, addr, bridgeLock>>
  /\ UNCHANGED <<kernelRules, dnsmasq, lastIndex, ready, abandoned>>

\* unNFT: the rules of the index; failures are logged.
InputMatches(i) == Find({{<<"chain", "filter/input">>, <<"meta", "iif", i>>}})

DeleteRules(c) ==
  /\ Deleting(c, "rules")
  /\ \E failed \in SUBSET InputMatches(bridgeCmd[c].index) :
       ruleset' = ruleset \ (InputMatches(bridgeCmd[c].index) \ failed)
  /\ bridgeCmd' = [bridgeCmd EXCEPT ![c] = Idle]
  /\ UNCHANGED <<lastHandle, link, addr, dnsmasq, bridgeLock, lastIndex, ready, abandoned>>

\* The job ends: it was killed, or it fails.
DnsmasqExits(b) ==
  /\ dnsmasq[b] # Off
  /\ dnsmasq' = [dnsmasq EXCEPT ![b] = Off]
  /\ UNCHANGED <<kernelRules, link, addr, bridgeLock, bridgeCmd, lastIndex, ready, abandoned>>

BridgeNext ==
  \/ \E c \in Client, b \in BridgeName, n \in Net \cup {None} : CreateLink(c, b, n)
  \/ \E c \in Client, b \in BridgeName : DeleteLookup(c, b)
  \/ \E c \in Client : \/ CreateNft(c) \/ CreateConflict(c) \/ CreateAddr(c)
                       \/ CreateDnsmasq(c) \/ CreateNat(c)
                       \/ DeleteNat(c) \/ DeleteLink(c) \/ DeleteRules(c)
  \/ \E b \in BridgeName : DnsmasqExits(b)

-----------------------------------------------------------------------------
(* Properties.                                                             *)

HostsOf(n) == {ip \in 0..(2^AddrBits - 1) : NetContains(n, ip)}

\* What intersect is for: networks that share an address intersect.
IntersectIsComplete(nets) ==
  \A n, m \in nets : HostsOf(n) \cap HostsOf(m) # {} => Intersect(n, m)

\* No two bridges have networks with an address in common: intersect finds every
\* overlap, and between the check of a create and its AddrAdd no other create
\* gets in.
BridgesDisjoint ==
  \A i, j \in Live : (i # j /\ addr[i] # None /\ addr[j] # None)
                      => HostsOf(addr[i]) \cap HostsOf(addr[j]) = {}

\* Masquerading and the bridge it was set up for go together: no rule survives
\* its bridge, although delete does not hold the lock and two deletes may
\* overlap; and a bridge that was created with nat keeps its rule until somebody
\* deletes that bridge.
NatFollowsBridge ==
  /\ \A r \in ruleset : r.by[1] = "nat" => r.by[2] \in Live
  /\ \A i \in ready : \E r \in ruleset : r.by = <<"nat", i>>

\* A dnsmasq that nobody told to stop serves a bridge that exists, unless create
\* failed in its last step: it deletes the link and lets dnsmasq run.
DnsmasqHasBridge ==
  \A b \in BridgeName :
    dnsmasq[b].state = "running" => link[b] = dnsmasq[b].index \/ dnsmasq[b].index \in abandoned

\* Rules, NAT and dnsmasq on the host are those of the ports and bridges that
\* commands left behind, in whatever order they ran.
RulesFollowCommands ==
  /\ DropCloses /\ BootRulesStay
  /\ BridgesDisjoint /\ NatFollowsBridge /\ DnsmasqHasBridge
=============================================================================
