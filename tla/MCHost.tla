--------------------------------- MODULE MCHost ---------------------------------
(***************************************************************************)
(* Instances for TLC of what commands do to the host. A behaviour is about *)
(* one of:                                                                 *)
(*   forward, monitor   port forwards of two namespaces; the set of the    *)
(*                      host's addresses;                                  *)
(*   port, bridge       rules that open ports; bridges, with NAT, dnsmasq  *)
(*                      and rules, by two concurrent commands;             *)
(*   disk, mount        disks and partitions that come and go; the table of*)
(*                      mounts;                                            *)
(*   pool, volume, show devices of a btrfs pool; subvolumes and quotas; the*)
(*                      output of `btrfs filesystem show';                 *)
(*   memory, cpuset     cgroups of that subsystem, by two commands;        *)
(*   kvm                two machines whose sequence numbers come back.     *)
(***************************************************************************)
EXTENDS Kvm, Bridge, Disk, Btrfs, Cgroups

CONSTANTS m1, m2

VARIABLE focus

MCNS == [sys : {1, 2}, id : {1, 2}]

HttpSource == [from |-> "", port |-> 2, protocols |-> {"tcp"}]
MCSource ==
  {HttpSource, [from |-> "10.1.2.3/16", port |-> 2, protocols |-> {"tcp", "udp"}],
   [from |-> "", port |-> 4, protocols |-> {"udp"}],
   [from |-> "", port |-> 9, protocols |-> {"tcp"}]}
MCMachineSource == {HttpSource}

MCNet == {[ip |-> 1, len |-> 1], [ip |-> 3, len |-> 1], [ip |-> 1, len |-> 0]}

\* intersect finds every overlap of networks of this width.
ASSUME IntersectAssumption == IntersectIsComplete([ip : 0..(2^AddrBits - 1), len : 0..AddrBits])

MCMountLines == {[device |-> "a", point |-> 1], [device |-> "a", point |-> 2],
                 [device |-> "b", point |-> 3]}

MCGroup == {<<"memory", "g">>, <<"cpuset", "g">>}
MCAsked == {[a |-> 2, b |-> 1], [a |-> 4, b |-> 0]}

mcVars == <<forwardVars, kvmVars, nftVars, bridgeVars, diskVars, btrfsVars, cgroupVars, focus>>

MCInit ==
  /\ focus \in {"forward", "monitor", "port", "bridge", "disk", "mount", "pool",
                "volume", "show", "memory", "cpuset", "kvm"}
  /\ ForwardInit /\ KvmInit /\ NftInit /\ BridgeInit /\ DiskInit /\ CgroupInit
  /\ BtrfsInit /\ (focus = "pool" \/ holds = [d \in BDevice |-> "nothing"])

\* The forwards of containers; those of machines belong to the behaviours of kvm.
OfContainers == \A r \in rules : r.ns.sys = 1

\* The second disk has no sectors, as a card reader without a card.
SecondIsEmpty == disk["d2"].size = 0

\* Commands on memory overlap, the second of them one that makes, limits or removes
\* the group; commands on cpuset come one after the other: what they share is the
\* same code.
OneSubsystem ==
  /\ \A c \in Caller : command[c] # NoCommand => command[c].g[1] = focus
  /\ command["c2"] # NoCommand =>
       focus = "memory" /\ command["c2"].op \in {"ensure", "spec", "remove"}

\* The first machine to come is m1, and only m1 boots from an flist and is given
\* forwards by command.
MachinesInOrder ==
  /\ creates = 1 => vm[m2] = "none" /\ vmCreate[m2] = NoCreate
  /\ vmCreate[m2].at # "mount" /\ adding.uuid # m2

ForwardPart ==
  \/ focus = "forward" /\ ForwardNext /\ OfContainers'
  \/ focus = "monitor" /\ MonitorNext

NftPart ==
  \/ focus = "port" /\ PortNext /\ UNCHANGED bridgeVars
  \/ focus = "bridge" /\ BridgeNext /\ UNCHANGED <<portCmd, closed>>

DiskPart ==
  \/ focus = "disk" /\ DiskNext /\ SecondIsEmpty'
  \/ focus = "mount" /\ MountNext

BtrfsPart ==
  \/ focus = "pool" /\ PoolNext
  \/ focus = "volume" /\ VolumeNext
  \/ focus = "show" /\ ShowNext

CgroupPart == focus \in {"memory", "cpuset"} /\ CgroupNext /\ OneSubsystem'

KvmPart == focus = "kvm" /\ KvmNext /\ MachinesInOrder'

MCNext ==
  /\ UNCHANGED focus
  /\ \/ /\ ForwardPart
        /\ UNCHANGED <<kvmVars, nftVars, bridgeVars, diskVars, btrfsVars, cgroupVars>>
     \/ /\ NftPart
        /\ UNCHANGED <<forwardVars, kvmVars, diskVars, btrfsVars, cgroupVars>>
     \/ /\ DiskPart
        /\ UNCHANGED <<forwardVars, kvmVars, nftVars, bridgeVars, btrfsVars, cgroupVars>>
     \/ /\ BtrfsPart
        /\ UNCHANGED <<forwardVars, kvmVars, nftVars, bridgeVars, diskVars, cgroupVars>>
     \/ /\ CgroupPart
        /\ UNCHANGED <<forwardVars, kvmVars, nftVars, bridgeVars, diskVars, btrfsVars>>
     \/ /\ KvmPart
        /\ UNCHANGED <<nftVars, bridgeVars, diskVars, btrfsVars, cgroupVars>>

MCSpec == MCInit /\ [][MCNext]_mcVars

\* What one step of a command answers: a port below the range only when the range
\* is in use, and all mounts when asked for the mounts.
StepsAreComplete == [][LowPortOnlyWhenFull /\ MountsAreComplete]_mcVars

\* Disks alone.
DiskMCSpec == MCInit /\ focus = "disk" /\ [][MCNext]_mcVars
=============================================================================
