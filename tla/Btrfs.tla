--------------------------------- MODULE Btrfs ---------------------------------
(***************************************************************************)
(* The btrfs commands (apps/core0/builtin/btrfs/btrfs.go): file systems    *)
(* over devices, subvolumes and their quotas, and what the commands read   *)
(* out of the output of the btrfs tool.  A quota is set with two calls of  *)
(* the tool, and a list of subvolumes with their quotas is read with two;  *)
(* other commands run between them.  The tool is external.                 *)
(***************************************************************************)
EXTENDS Naturals, Sequences, SequencesExt, FiniteSets

CONSTANTS
  BDevice,  \* block devices
  Volume,   \* paths of subvolumes
  Quota,    \* the limits that are set: positive numbers
  Worker,   \* concurrent commands
  MaxId,    \* bound: subvolumes ever created
  Lines,    \* kinds of lines of `btrfs filesystem show'
  MaxLines  \* bound: their number

ASSUME BtrfsAssumption ==
  /\ Quota \subseteq Nat \ {0} /\ MaxId \in Nat
  /\ Lines \subseteq {"warning", "label", "total", "devid", "missing", ""}

VARIABLES
  holds,   \* what each device holds: nothing, other (data of others), fs, pool
           \* (a device of the mounted file system)
  wiped,   \* history: devices whose data went without being asked to
  volume,  \* the id of the subvolume at each path, 0 if there is none
  limit,   \* the qgroups 0/id: their limit, 0 for none
  enabled, \* quotas are enabled
  nextId,  \* ids are never used again
  worker,  \* what each command does
  output,  \* what `btrfs filesystem show' printed
  shown    \* <<>>, or the outcome of parseList

volumeVars == <<volume, limit, enabled, nextId, worker>>
poolVars == <<holds, wiped>>
showVars == <<output, shown>>
btrfsVars == <<poolVars, volumeVars, showVars>>

NoWorker == [pc |-> "idle"]

BtrfsInit ==
  /\ holds \in [BDevice -> {"nothing", "other"}] /\ wiped = {}
  /\ volume = [v \in Volume |-> 0] /\ limit = [i \in 1 .. MaxId |-> 0]
  /\ enabled = FALSE /\ nextId = 1
  /\ worker = [w \in Worker |-> NoWorker]
  /\ output = <<>> /\ shown = <<>>

-----------------------------------------------------------------------------
(* Mutants: bugs this code could have, each caught by a property below.    *)

\* The quotas are joined to the subvolumes by their path.
GroupOfPath(v, id) == volume[v]

\* A file system with one device is taken for noise.
EnoughForTwo(lines) == Len(lines) >= 4

-----------------------------------------------------------------------------
(* File systems and devices.                                               *)

\* CreateArgument.Validate.
ValidCreate(devs, metadata, data) ==
  devs # {} /\ {metadata, data} \subseteq {"", "single", "dup", "raid0", "raid1", "raid5", "raid6", "raid10"}

\* -f is given if the caller asks for it.
Forced(overwrite) == overwrite

\* mkfs.btrfs: refuses devices that are mounted, devices with data unless it is
\* forced, and too few devices for the profile.
Create ==
  \E devs \in SUBSET BDevice, profile \in {"", "raid1", "raid7"}, overwrite \in BOOLEAN :
    /\ ValidCreate(devs, profile, profile)
    /\ \A d \in devs : holds[d] # "pool" /\ (holds[d] # "nothing" => Forced(overwrite))
    /\ profile = "raid1" => Cardinality(devs) >= 2
    /\ holds' = [d \in BDevice |-> IF d \in devs THEN "fs" ELSE holds[d]]
    /\ wiped' = IF overwrite THEN wiped ELSE wiped \cup {d \in devs : holds[d] # "nothing"}
    /\ UNCHANGED <<volumeVars, showVars>>

\* The devices of the file systems are mounted.
MountPool ==
  /\ \E d \in BDevice : holds[d] = "fs"
  /\ holds' = [d \in BDevice |-> IF holds[d] = "fs" THEN "pool" ELSE holds[d]]
  /\ UNCHANGED <<wiped, volumeVars, showVars>>

\* DeviceAdd always forces: what a device that is not mounted holds is lost.
DeviceAdd ==
  \E devs \in SUBSET BDevice \ {{}} :
    /\ \E d \in BDevice : holds[d] = "pool"
    /\ \A d \in devs : holds[d] # "pool"
    /\ holds' = [d \in BDevice |-> IF d \in devs THEN "pool" ELSE holds[d]]
    /\ UNCHANGED <<wiped, volumeVars, showVars>>

\* The tool does not remove the last device.
DeviceRemove ==
  \E devs \in SUBSET BDevice \ {{}} :
    /\ \A d \in devs : holds[d] = "pool"
    /\ \E d \in BDevice \ devs : holds[d] = "pool"
    /\ holds' = [d \in BDevice |-> IF d \in devs THEN "nothing" ELSE holds[d]]
    /\ UNCHANGED <<wiped, volumeVars, showVars>>

PoolNext == Create \/ MountPool \/ DeviceAdd \/ DeviceRemove

-----------------------------------------------------------------------------
(* Subvolumes.                                                             *)

\* SubvolCreate and SubvolSnapshot: a new subvolume, with an id of its own.
SubvolCreate ==
  /\ nextId <= MaxId /\ nextId' = nextId + 1
  /\ \E v \in Volume : volume[v] = 0 /\ volume' = [volume EXCEPT ![v] = nextId]
  /\ UNCHANGED <<limit, enabled, worker, poolVars, showVars>>

\* A snapshot needs a source; the quota of the source is not taken over.
SubvolSnapshot ==
  /\ nextId <= MaxId /\ nextId' = nextId + 1
  /\ \E v, s \in Volume : volume[v] = 0 /\ volume[s] # 0 /\ volume' = [volume EXCEPT ![v] = nextId]
  /\ UNCHANGED <<limit, enabled, worker, poolVars, showVars>>

\* SubvolDelete leaves the qgroup behind.
SubvolDelete ==
  /\ \E v \in Volume : volume[v] # 0 /\ volume' = [volume EXCEPT ![v] = 0]
  /\ UNCHANGED <<limit, enabled, nextId, worker, poolVars, showVars>>

\* SubvolQuota enables the quotas ...
QuotaEnable(w) ==
  /\ worker[w] = NoWorker
  /\ \E v \in Volume, q \in Quota :
       /\ volume[v] # 0
       /\ worker' = [worker EXCEPT ![w] = [pc |-> "limit", v |-> v, q |-> q]]
  /\ enabled' = TRUE
  /\ UNCHANGED <<volume, limit, nextId, poolVars, showVars>>

\* ... and then limits what is at the path now, if anything is.
QuotaLimit(w) ==
  /\ worker[w].pc = "limit"
  /\ LET id == volume[worker[w].v] IN
     /\ worker' = [worker EXCEPT ![w] = NoWorker]
     /\ limit' = IF id = 0 THEN limit ELSE [limit EXCEPT ![id] = worker[w].q]
  /\ UNCHANGED <<volume, enabled, nextId, poolVars, showVars>>

\* SubvolList reads the ids and paths ...
SubvolListVolumes(w) ==
  /\ worker[w] = NoWorker
  /\ worker' = [worker EXCEPT ![w] = [pc |-> "qgroups", ids |-> volume, failed |-> FALSE,
                                      quota |-> [v \in Volume |-> 0], seen |-> limit]]
  /\ UNCHANGED <<volume, limit, enabled, nextId, poolVars, showVars>>

\* The qgroup of a listed subvolume: 0/id.
GroupOf(v, id) == id

\* ... and then the qgroups.  When the tool fails, which it does when quotas are
\* not enabled, there are no quotas: IndexAny finds some letter of "No such file
\* or directory" in whatever the tool printed.
SubvolListQGroups(w) ==
  /\ worker[w].pc = "qgroups"
  /\ LET r == worker[w] IN
     \/ /\ enabled
        /\ worker' = [worker EXCEPT ![w] = [r EXCEPT !.pc = "listed", !.seen = limit,
             !.quota = [v \in Volume |-> IF r.ids[v] = 0 \/ GroupOf(v, r.ids[v]) = 0 THEN 0
                                         ELSE limit[GroupOf(v, r.ids[v])]]]]
     \/ worker' = [worker EXCEPT ![w] = [r EXCEPT !.pc = "listed", !.failed = TRUE]]
  /\ UNCHANGED <<volume, limit, enabled, nextId, poolVars, showVars>>

SubvolListEnds(w) ==
  /\ worker[w].pc = "listed"
  /\ worker' = [worker EXCEPT ![w] = NoWorker]
  /\ UNCHANGED <<volume, limit, enabled, nextId, poolVars, showVars>>

VolumeNext ==
  \/ SubvolCreate \/ SubvolSnapshot \/ SubvolDelete
  \/ \E w \in Worker : \/ QuotaEnable(w) \/ QuotaLimit(w)
                       \/ SubvolListVolumes(w) \/ SubvolListQGroups(w) \/ SubvolListEnds(w)

-----------------------------------------------------------------------------
(* `btrfs filesystem show': blocks of lines separated by empty lines.      *)

\* The tool prints something; the lines after it are read by parseList.
Show ==
  /\ shown = <<>> /\ output = <<>>
  /\ output' \in SeqOf(Lines, MaxLines)
  /\ UNCHANGED <<shown, poolVars, volumeVars>>

Starts(out) == {i \in DOMAIN out : out[i] # "" /\ (i = 1 \/ out[i - 1] = "")}
BlockAt(out, i) == LET ends == {j \in i .. Len(out) : out[j] = ""} IN
                   SubSeq(out, i, IF ends = {} THEN Len(out)
                                  ELSE (CHOOSE j \in ends : \A k \in ends : j <= k) - 1)

\* The blocks of the output, in their order.
Blocks(out) ==
  LET starts == SetToSortSeq(Starts(out), LAMBDA a, b : a < b) IN
  [k \in DOMAIN starts |-> BlockAt(out, starts[k])]

\* What comes before the label is cut off; a block without a label is cut at -1,
\* which panics.
FromLabel(block) == SubSeq(block, SelectInSeq(block, LAMBDA l : l = "label"), Len(block))

Enough(lines) == Len(lines) >= 3

\* parseFS: the label, the totals, and then devices among warnings.  A line that
\* is neither is left out.
ParseFS(lines) ==
  [ok |-> lines[2] = "total",
   devices |-> Len(SelectSeq(SubSeq(lines, 3, Len(lines)), LAMBDA l : l = "devid")),
   warnings |-> Len(SelectSeq(SubSeq(lines, 3, Len(lines)), LAMBDA l : l = "missing"))]

\* The outcome: the file systems found, up to the first that does not parse.
ParseList(out) ==
  LET blocks == Blocks(out)
      bad == \E k \in DOMAIN blocks : "label" \notin ToSet(blocks[k])
      cut == [k \in DOMAIN blocks |-> FromLabel(blocks[k])]
      fss == SelectSeq(cut, LAMBDA b : Enough(b))
      parsed == [k \in DOMAIN fss |-> ParseFS(fss[k])]
  IN  IF bad THEN [res |-> "panic", fss |-> <<>>]
      ELSE IF \E k \in DOMAIN parsed : ~parsed[k].ok THEN [res |-> "error", fss |-> <<>>]
      ELSE [res |-> "ok", fss |-> parsed]

\* List and Info.  Info takes the first file system, and panics if there is none.
ParseShown ==
  /\ output # <<>> /\ shown = <<>>
  /\ shown' = <<ParseList(output)>>
  /\ UNCHANGED <<output, poolVars, volumeVars>>

ShowNext == Show \/ ParseShown

BtrfsSpec == BtrfsInit /\ [][PoolNext \/ VolumeNext \/ ShowNext]_btrfsVars

-----------------------------------------------------------------------------
(* Properties.                                                             *)

\* Only a create that was asked to overwrite, or the adding of a device, takes a
\* device with data in it.
NothingWiped == wiped = {}

\* A subvolume is listed with the limit of its own qgroup as it was when the
\* qgroups were read, or with none: never with that of a subvolume that has
\* taken its path between the two calls of the tool.
QuotaIsOwn ==
  \A w \in Worker : worker[w].pc = "listed" =>
    \A v \in Volume : LET r == worker[w] IN
      /\ r.quota[v] # 0 => r.ids[v] # 0 /\ r.quota[v] = r.seen[r.ids[v]]
      /\ ~r.failed /\ r.ids[v] # 0 => r.quota[v] = r.seen[r.ids[v]]

\* A file system as the tool prints it, with the warnings it may put before
\* the label and after the totals.
IsFS(block) ==
  \E n \in 0 .. Len(block) :
    /\ \A i \in 1 .. n : block[i] = "warning"
    /\ Len(block) >= n + 3 /\ block[n + 1] = "label" /\ block[n + 2] = "total"
    /\ \A i \in n + 3 .. Len(block) : block[i] \in {"devid", "missing"}

\* Every file system that is printed is listed, with all of its devices; the
\* parser panics only on a block without a label.
ShownAreListed ==
  shown # <<>> =>
    /\ shown[1].res = "panic" =>
         \E k \in DOMAIN Blocks(output) : "label" \notin ToSet(Blocks(output)[k])
    /\ (\A k \in DOMAIN Blocks(output) : IsFS(Blocks(output)[k])) =>
         /\ shown[1].res = "ok" /\ Len(shown[1].fss) = Len(Blocks(output))
         /\ \A k \in DOMAIN Blocks(output) :
              shown[1].fss[k].devices = Cardinality({i \in DOMAIN Blocks(output)[k] : Blocks(output)[k][i] = "devid"})

\* No device is wiped unasked, and the quotas listed are those of their volume.
PoolsAreKept == NothingWiped /\ QuotaIsOwn
================================================================================
