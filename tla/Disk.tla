--------------------------------- MODULE Disk ----------------------------------
(***************************************************************************)
(* The disk commands (apps/core0/builtin/disk.go): getinfo, list, mounts   *)
(* and protect put their answers together from several reads (stat, lsblk, *)
(* files of /sys/block, parted) while disks come and go and partitions are *)
(* made and deleted.  The kernel and the tools are external.               *)
(***************************************************************************)
EXTENDS Naturals, Sequences, SequencesExt, FiniteSets

CONSTANTS
  DiskName,   \* disks
  PartName,   \* partitions
  Sectors,    \* bound: sectors of the largest disk
  BlockSize,  \* bytes of a sector
  Wrap,       \* 2^64: the numbers of the answers are uint64
  DiskReader, \* concurrent disk commands
  MountLines, \* lines of /proc/mounts: [device, point, options]
  MaxMounts,  \* bound: mounts at a time
  NoDisk

ASSUME DiskAssumption ==
  /\ Sectors \in Nat /\ BlockSize \in Nat \ {0} /\ Wrap \in Nat /\ Wrap > 2 * Sectors * BlockSize
  /\ IsFiniteSet(DiskName) /\ DiskName \cap PartName = {} /\ NoDisk \notin DiskName \cup PartName

VARIABLES
  disk,    \* [here, size, table] of each disk
  part,    \* [of, start, size] of each partition
  readOnly,\* devices that are read only
  reader,  \* what each command does
  mtab,    \* /proc/mounts
  mounts   \* the last answer of disk.mounts

diskVars == <<disk, part, readOnly, reader, mtab, mounts>>

Absent == [here |-> FALSE, size |-> 0, table |-> FALSE]
NoPart == [of |-> NoDisk, start |-> 0, size |-> 0]
NoReader == [op |-> "none"]

DiskInit ==
  /\ disk = [d \in DiskName |-> Absent]
  /\ part = [p \in PartName |-> NoPart]
  /\ readOnly = {} /\ reader = [c \in DiskReader |-> NoReader]
  /\ mtab = <<>> /\ mounts = <<>>

PartsOf(d) == {p \in PartName : part[p].of = d}
SectorsOf(p) == part[p].start .. part[p].start + part[p].size - 1
UsedOf(d) == UNION {SectorsOf(p) : p \in PartsOf(d)}
FreeOf(d) == (0 .. disk[d].size - 1) \ UsedOf(d)

-----------------------------------------------------------------------------
(* Mutants: bugs this code could have, each caught by a property below.    *)

\* list asks for the block size of every device lsblk shows, partitions too.
ListedAll == {d \in DiskName : disk[d].here} \cup {p \in PartName : part[p].of # NoDisk}

-----------------------------------------------------------------------------
(* The kernel.  A command is disturbed by what changes under it.           *)

Disturb == reader' = [c \in DiskReader |->
             IF reader[c] = NoReader THEN NoReader ELSE [reader[c] EXCEPT !.clean = FALSE]]

Plug(d) ==
  /\ ~disk[d].here
  /\ \E s \in 0 .. Sectors, t \in BOOLEAN : disk' = [disk EXCEPT ![d] = [here |-> TRUE, size |-> s, table |-> t]]
  /\ Disturb /\ UNCHANGED <<part, readOnly, mtab, mounts>>

Unplug(d) ==
  /\ disk[d].here
  /\ disk' = [disk EXCEPT ![d] = Absent]
  /\ part' = [p \in PartName |-> IF part[p].of = d THEN NoPart ELSE part[p]]
  /\ readOnly' = readOnly \ (PartsOf(d) \cup {d})
  /\ Disturb /\ UNCHANGED <<mtab, mounts>>

MakePart(p, d) ==
  /\ part[p].of = NoDisk /\ disk[d].table
  /\ \E s \in FreeOf(d), z \in 1 .. Sectors :
       /\ s .. s + z - 1 \subseteq FreeOf(d)
       /\ part' = [part EXCEPT ![p] = [of |-> d, start |-> s, size |-> z]]
  /\ Disturb /\ UNCHANGED <<disk, readOnly, mtab, mounts>>

DeletePart(p) ==
  /\ part[p].of # NoDisk
  /\ part' = [part EXCEPT ![p] = NoPart] /\ readOnly' = readOnly \ {p}
  /\ Disturb /\ UNCHANGED <<disk, mtab, mounts>>

\* A file system is mounted, or the last one unmounted.
MountChange ==
  /\ \/ Len(mtab) < MaxMounts /\ \E l \in MountLines : mtab' = Append(mtab, l)
     \/ mtab # <<>> /\ mtab' = Front(mtab)
  /\ UNCHANGED <<disk, part, readOnly, reader, mounts>>

-----------------------------------------------------------------------------
(* The reads of a command, each <<what, device>>; `ans' is the answer so   *)
(* far, by device.                                                         *)

DiskInfoReads(d) == <<<<"stat", d>>, <<"lsblk", d>>, <<"bs", d>>, <<"size", d>>, <<"parted", d>>>>
PartInfoReads(d, p) == <<<<"stat", d>>, <<"stat", p>>, <<"lsblk", p>>, <<"bs", d>>, <<"start", p>>, <<"psize", p>>>>
ListReads(d) == <<<<"stat", d>>, <<"bs", d>>, <<"size", d>>, <<"parted", d>>>>

\* The devices list goes through: the top level of lsblk, which has the
\* partitions among the children of their disks.
Listed == {d \in DiskName : disk[d].here}

\* One disk after the other.
ListTodo(ds) == [i \in 1 .. 4 * Len(ds) |-> ListReads(ds[((i - 1) \div 4) + 1])[((i - 1) % 4) + 1]]

Nothing == [children |-> {}, start |-> 0, size |-> 0, bs |-> 0, free |-> {}]

Command(c, op, d, p, reads) ==
  reader' = [reader EXCEPT ![c] = [op |-> op, disk |-> d, part |-> p, todo |-> reads,
               ans |-> [x \in DiskName \cup PartName |-> Nothing], devs |-> {},
               clean |-> TRUE, bad |-> FALSE, res |-> "none"]]

\* info: of a disk, or of a partition and the disk the caller says it is on.
Info(c) ==
  /\ reader[c] = NoReader
  /\ \/ \E d \in DiskName \cup PartName : Command(c, "disk", d, NoDisk, DiskInfoReads(d))
     \/ \E d \in DiskName, p \in PartName : Command(c, "part", d, p, PartInfoReads(d, p))
  /\ UNCHANGED <<disk, part, readOnly, mtab, mounts>>

\* list and protect begin with lsblk of everything; no device, no output.
DiskList(c) ==
  /\ reader[c] = NoReader
  /\ \/ Command(c, "list", NoDisk, NoDisk, <<<<"ls", NoDisk>>>>)
     \/ \E p \in PartName : Command(c, "protect", NoDisk, p, <<<<"ls", NoDisk>>>>)
  /\ UNCHANGED <<disk, part, readOnly, mtab, mounts>>

IsDisk(x) == x \in DiskName /\ disk[x].here
IsPart(x) == x \in PartName /\ part[x].of # NoDisk

\* The read finds what it asks for: only disks have a block size, a size and a
\* table below /sys/block, and a partition is found below its own disk.
Finds(r, what, x) ==
  CASE what = "ls" -> TRUE
    [] what \in {"stat", "lsblk"} -> IsDisk(x) \/ IsPart(x)
    [] what \in {"bs", "size"} -> IsDisk(x)
    [] what = "parted" -> IsDisk(x) /\ disk[x].table
    [] what \in {"start", "psize"} -> IsPart(x) /\ part[x].of = r.disk

ReadInto(a, what, x) ==
  CASE what = "lsblk" -> [a EXCEPT !.children = IF IsDisk(x) THEN UsedOf(x) ELSE {}]
    [] what = "bs" -> [a EXCEPT !.bs = BlockSize]
    [] what = "size" -> [a EXCEPT !.size = disk[x].size * a.bs]
    [] what = "parted" -> [a EXCEPT !.free = FreeOf(x)]
    [] what = "start" -> [a EXCEPT !.start = part[x].start * BlockSize]
    [] what = "psize" -> [a EXCEPT !.size = part[x].size * BlockSize]
    [] OTHER -> a

\* One read that succeeds.
ReadStep(c) ==
  /\ reader[c] # NoReader /\ reader[c].todo # <<>>
  /\ LET r == reader[c]  what == Head(r.todo)[1]  x == Head(r.todo)[2] IN
     /\ Finds(r, what, x)
     /\ reader' = [reader EXCEPT ![c] =
          IF what = "ls"
          THEN [r EXCEPT !.devs = Listed,
                         !.ans = [y \in DOMAIN r.ans |-> IF y \in DiskName THEN [Nothing EXCEPT !.children = UsedOf(y)] ELSE Nothing],
                         !.todo = ListTodo(SetToSeq(Listed))]
          ELSE [r EXCEPT !.todo = Tail(@), !.ans[x] = ReadInto(@, what, x), !.devs = @ \cup (IF what \in {"size", "psize"} THEN {x} ELSE {})]]
  /\ UNCHANGED <<disk, part, readOnly, mtab, mounts>>

\* The first read that fails ends the command, also a list of other disks.
ReadFails(c) ==
  /\ reader[c] # NoReader /\ reader[c].todo # <<>> /\ reader[c].res = "none"
  /\ LET r == reader[c]  what == Head(r.todo)[1]  x == Head(r.todo)[2] IN
     /\ ~Finds(r, what, x)
     /\ reader' = [reader EXCEPT ![c] =
          [r EXCEPT !.todo = <<>>, !.res = "failed",
                    !.bad = \/ what = "parted" /\ IsDisk(x)
                            \/ r.op = "disk" /\ ~IsDisk(x)
                            \/ r.op = "part" /\ ~(IsDisk(r.disk) /\ part[r.part].of = r.disk)]]
  /\ UNCHANGED <<disk, part, readOnly, mtab, mounts>>

\* The type of what list returns.
ListResultType == "[]*DiskInfoResult"

\* protect takes the list for the answer of lsblk and fails if it is not; then it
\* makes the partition and its disk read only.
Protects(r) == r.op = "protect" /\ ListResultType = "lsblkListResult"

\* All was read.
ReadAll(c) ==
  /\ reader[c] # NoReader /\ reader[c].todo = <<>> /\ reader[c].res = "none"
  /\ LET r == reader[c] IN
     /\ reader' = [reader EXCEPT ![c].res = IF r.op # "protect" \/ Protects(r) THEN "ok" ELSE "failed"]
     /\ readOnly' = IF Protects(r) THEN readOnly \cup {r.part, part[r.part].of} ELSE readOnly
  /\ UNCHANGED <<disk, part, mtab, mounts>>

DiskAnswer(c) ==
  /\ reader[c] # NoReader /\ reader[c].res # "none"
  /\ reader' = [reader EXCEPT ![c] = NoReader]
  /\ UNCHANGED <<disk, part, readOnly, mtab, mounts>>

End(start, size) == (start + size + Wrap - 1) % Wrap

\* mounts: the lines of each device, in their order.
Grouped(ms, dev) == SelectSeq(ms, LAMBDA m : m.device = dev)
Devices(ms) == {ms[i].device : i \in DOMAIN ms}

Mounts ==
  /\ mounts' = [dev \in Devices(mtab) |-> Grouped(mtab, dev)]
  /\ UNCHANGED <<disk, part, readOnly, reader, mtab>>

DiskNext ==
  \/ \E d \in DiskName : Plug(d) \/ Unplug(d) \/ \E p \in PartName : MakePart(p, d)
  \/ \E p \in PartName : DeletePart(p)
  \/ \E c \in DiskReader : \/ Info(c) \/ DiskList(c) \/ ReadStep(c) \/ ReadFails(c)
                           \/ ReadAll(c) \/ DiskAnswer(c)

MountNext == MountChange \/ Mounts

DiskSpec == DiskInit /\ [][DiskNext \/ MountNext]_diskVars

-----------------------------------------------------------------------------
(* Properties.                                                             *)

Ended(c, res) == reader[c] # NoReader /\ reader[c].res = res

\* An answer during which nothing changed is exact: the bytes from start to end
\* are those of the device and hold it exactly, and the free blocks of a disk are
\* those its partitions leave.  The end of an empty disk is the largest number.
InfoIsExact ==
  \A c \in DiskReader : Ended(c, "ok") /\ reader[c].clean =>
    \A x \in reader[c].devs :
      LET a == reader[c].ans[x]
          first == IF x \in PartName THEN part[x].start ELSE 0
          sectors == IF x \in PartName THEN part[x].size ELSE disk[x].size IN
      /\ a.start = first * BlockSize /\ a.size = sectors * BlockSize
      /\ IF sectors = 0 THEN End(a.start, a.size) = Wrap - 1
         ELSE End(a.start, a.size) = (first + sectors) * BlockSize - 1
      /\ x \in DiskName => a.free \cap a.children = {} /\ a.free \cup a.children = 0 .. sectors - 1

\* A command fails only if a device came or went meanwhile, if it was asked for
\* something that is not there, or if a disk has no partition table: list then
\* fails for all disks.
FailsOnlyOnChange ==
  \A c \in DiskReader : Ended(c, "failed") /\ reader[c].op # "protect" => ~reader[c].clean \/ reader[c].bad

\* disk.mounts answers every mount once, those of a device in the order of
\* the mounts.
MountsAreComplete ==
  mounts' # mounts =>
    /\ DOMAIN mounts' = {mtab[i].device : i \in DOMAIN mtab}
    /\ \A d \in DOMAIN mounts' :
         /\ Len(mounts'[d]) = Cardinality({i \in DOMAIN mtab : mtab[i].device = d})
         /\ \A i, j \in DOMAIN mtab : i < j /\ mtab[i].device = d /\ mtab[j].device = d =>
              \E k, l \in DOMAIN mounts'[d] : k < l /\ mounts'[d][k] = mtab[i] /\ mounts'[d][l] = mtab[j]

\* A partition that was there all the time disk.protect ran is read only after it.
ProtectedIsReadOnly ==
  \A c \in DiskReader :
    (reader[c] # NoReader /\ reader[c].res # "none" /\ reader[c].op = "protect" /\ reader[c].clean
     /\ ~reader[c].bad /\ part[reader[c].part].of # NoDisk)
    => reader[c].part \in readOnly

\* Answers about disks are those of one moment, or the command fails for a
\* change that happened meanwhile.
DisksAreAnswered == InfoIsExact /\ FailsOnlyOnChange
================================================================================
