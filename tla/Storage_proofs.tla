----------------------------- MODULE Storage_proofs -----------------------------
(***************************************************************************)
(* Proofs about Disk and Btrfs, for any number of devices, partitions,     *)
(* subvolumes and concurrent commands.                                     *)
(*                                                                         *)
(* An answer about disks is put together from several reads, so exactness  *)
(* is not inductive: DiskIInv says of every command under which nothing    *)
(* changed which reads are still before it and that what it has read of a  *)
(* device is what the device is, and of the kernel that partitions lie     *)
(* within disks that are there.  BtrfsIInv says that a list of subvolumes  *)
(* holds no quota until the qgroups were read.                             *)
(***************************************************************************)
EXTENDS Disk, Btrfs, FiniteSetTheorems, SequenceTheorems, TLAPS

-----------------------------------------------------------------------------
(* Disks: the kernel's side.                                               *)

Device == DiskName \cup PartName

DiskIn(dk, x) == x \in DiskName /\ dk[x].here
PartIn(pt, x) == x \in PartName /\ pt[x].of # NoDisk
UsedIn(pt, d) == UNION {pt[p].start .. pt[p].start + pt[p].size - 1 : p \in {q \in PartName : pt[q].of = d}}
FreeIn(dk, pt, d) == (0 .. dk[d].size - 1) \ UsedIn(pt, d)

\* A partition is of a disk that is there, and within it.
KernelOK(dk, pt) ==
  /\ dk \in [DiskName -> [here : BOOLEAN, size : 0 .. Sectors, table : BOOLEAN]]
  /\ pt \in [PartName -> [of : DiskName \cup {NoDisk}, start : Nat, size : Nat]]
  /\ \A d \in DiskName : dk[d].table => dk[d].here
  /\ \A p \in PartName : pt[p].of # NoDisk => /\ dk[pt[p].of].here /\ pt[p].size >= 1
                                             /\ pt[p].start + pt[p].size <= dk[pt[p].of].size

LEMMA SameNames ==
  /\ \A x : IsDisk(x) <=> DiskIn(disk, x)
  /\ \A x : IsPart(x) <=> PartIn(part, x)
  /\ \A d : UsedOf(d) = UsedIn(part, d) /\ FreeOf(d) = FreeIn(disk, part, d)
BY DEF IsDisk, IsPart, DiskIn, PartIn, UsedOf, UsedIn, FreeOf, FreeIn, SectorsOf, PartsOf

LEMMA UsedIsInside ==
  ASSUME NEW dk, NEW pt, KernelOK(dk, pt), NEW d \in DiskName
  PROVE  UsedIn(pt, d) \subseteq 0 .. dk[d].size - 1
<1> SUFFICES ASSUME NEW p \in PartName, pt[p].of = d, NEW i \in pt[p].start .. pt[p].start + pt[p].size - 1
             PROVE  i \in 0 .. dk[d].size - 1
  BY DEF UsedIn
<1>1. d # NoDisk
  BY DiskAssumption
<1>2. pt[p].start + pt[p].size <= dk[d].size
  BY <1>1 DEF KernelOK
<1>3. pt[p].start \in Nat /\ pt[p].size \in Nat /\ dk[d].size \in Nat
  BY DEF KernelOK
<1> QED
  BY <1>2, <1>3

-----------------------------------------------------------------------------
(* Disks: what a command has read.                                         *)

What == {"ls", "stat", "lsblk", "bs", "size", "parted", "start", "psize"}
Ans == [children : SUBSET Nat, start : Nat, size : Nat, bs : Nat, free : SUBSET Nat]
ReaderRec ==
  [op : {"disk", "part", "list", "protect"}, disk : Device \cup {NoDisk}, part : PartName \cup {NoDisk},
   todo : Seq(What \X (Device \cup {NoDisk})), ans : [Device -> Ans], devs : SUBSET Device,
   clean : BOOLEAN, bad : BOOLEAN, res : {"none", "ok", "failed"}]

Pending(todo, w, x) == \E i \in 1 .. Len(todo) : todo[i] = <<w, x>>

\* The reads each command may have before it.
ReadsOf(r) ==
  CASE r.op = "disk" -> {"stat", "lsblk", "bs", "size", "parted"} \X {r.disk}
    [] r.op = "part" -> ({"stat", "bs"} \X {r.disk}) \cup ({"stat", "lsblk", "start", "psize"} \X {r.part})
    [] OTHER -> {<<"ls", NoDisk>>} \cup ({"stat", "bs", "size", "parted"} \X r.devs)

\* The disks that a command answers about.
Targets(r) == IF r.op = "disk" THEN {r.disk} ELSE IF r.op = "part" THEN {} ELSE r.devs

\* The block size is read before the size that is multiplied with it.
BsFirst(todo, bs, x) ==
  bs = BlockSize \/ \A i \in 1 .. Len(todo) :
                      todo[i] = <<"size", x>> => \E j \in 1 .. Len(todo) : j < i /\ todo[j] = <<"bs", x>>

\* What was read of a disk, and is not to be read, is what it is.
DiskRead(todo, a, dk, pt, x) ==
  /\ a.start = 0 /\ BsFirst(todo, a.bs, x)
  /\ Pending(todo, "lsblk", x) \/ (DiskIn(dk, x) => a.children = UsedIn(pt, x))
  /\ Pending(todo, "size", x) \/ (DiskIn(dk, x) /\ a.size = dk[x].size * BlockSize)
  /\ Pending(todo, "parted", x) \/ a.free = FreeIn(dk, pt, x)

\* The same for a partition.
PartRead(todo, a, pt, x) ==
  /\ Pending(todo, "start", x) \/ a.start = pt[x].start * BlockSize
  /\ Pending(todo, "psize", x) \/ (PartIn(pt, x) /\ a.size = pt[x].size * BlockSize)

\* The form of a command, and what holds as long as nothing changed under it.
FormOK(r) ==
  /\ r \in ReaderRec
  /\ \A i \in 1 .. Len(r.todo) : r.todo[i] \in ReadsOf(r)
  /\ r.op = "disk" => r.disk \in Device /\ r.devs \subseteq {r.disk}
  /\ r.op = "part" => r.disk \in DiskName /\ r.part \in PartName /\ r.devs \subseteq {r.part}
  /\ r.op \in {"list", "protect"} => r.devs \subseteq DiskName
  /\ r.todo # <<>> => r.res = "none"

ExactOK(r, dk, pt) ==
  /\ r.op \in {"list", "protect"} => \A x \in r.devs : DiskIn(dk, x)
  /\ r.res # "failed" => /\ \A x \in Targets(r) : DiskRead(r.todo, r.ans[x], dk, pt, x)
                         /\ r.op = "part" => PartRead(r.todo, r.ans[r.part], pt, r.part)
  /\ r.res = "failed" /\ r.op # "protect" => r.bad

ReaderOK(r, dk, pt) == r = NoReader \/ (FormOK(r) /\ (r.clean => ExactOK(r, dk, pt)))

DiskIInv ==
  /\ KernelOK(disk, part) /\ DOMAIN reader = DiskReader
  /\ \A c \in DiskReader : ReaderOK(reader[c], disk, part)

LEMMA RecIsNotIdle == \A r \in ReaderRec : r # NoReader
<1> SUFFICES ASSUME NEW r \in ReaderRec PROVE r # NoReader
  OBVIOUS
<1>1. r.op # "none"
  BY DEF ReaderRec
<1>2. NoReader.op = "none"
  BY DEF NoReader
<1> QED
  BY <1>1, <1>2

LEMMA DiskInitIInv == DiskInit => DiskIInv
<1> SUFFICES ASSUME DiskInit PROVE DiskIInv
  OBVIOUS
<1>1. KernelOK(disk, part)
  BY DiskAssumption DEF DiskInit, KernelOK, Absent, NoPart
<1> QED
  BY <1>1 DEF DiskInit, DiskIInv, ReaderOK

\* One read less to do.
LEMMA PendingTail ==
  ASSUME NEW S, NEW todo \in Seq(S), todo # <<>>, NEW w, NEW x, Pending(todo, w, x), Head(todo) # <<w, x>>
  PROVE  Pending(Tail(todo), w, x)
<1>1. Len(todo) \in Nat /\ Len(Tail(todo)) = Len(todo) - 1 /\ Head(todo) = todo[1]
  OBVIOUS
<1>2. \A i \in 1 .. Len(Tail(todo)) : Tail(todo)[i] = todo[i + 1]
  BY HeadTailProperties
<1>3. PICK i \in 1 .. Len(todo) : todo[i] = <<w, x>>
  BY DEF Pending
<1>4. i # 1
  BY <1>1, <1>3
<1>5. i - 1 \in 1 .. Len(Tail(todo)) /\ (i - 1) + 1 = i
  BY <1>1, <1>3, <1>4
<1>6. Tail(todo)[i - 1] = <<w, x>>
  BY <1>2, <1>3, <1>5
<1> QED
  BY <1>5, <1>6 DEF Pending

LEMMA BsFirstTail ==
  ASSUME NEW S, NEW todo \in Seq(S), todo # <<>>, NEW bs, NEW x, BsFirst(todo, bs, x), Head(todo) # <<"bs", x>>
  PROVE  BsFirst(Tail(todo), bs, x)
<1>1. Len(todo) \in Nat /\ Len(Tail(todo)) = Len(todo) - 1 /\ Head(todo) = todo[1]
  OBVIOUS
<1>2. \A i \in 1 .. Len(Tail(todo)) : Tail(todo)[i] = todo[i + 1]
  BY HeadTailProperties
<1> SUFFICES ASSUME bs # BlockSize, NEW i \in 1 .. Len(Tail(todo)), Tail(todo)[i] = <<"size", x>>
             PROVE  \E j \in 1 .. Len(Tail(todo)) : j < i /\ Tail(todo)[j] = <<"bs", x>>
  BY DEF BsFirst
<1>3. i + 1 \in 1 .. Len(todo) /\ todo[i + 1] = <<"size", x>>
  BY <1>1, <1>2
<1>4. PICK j \in 1 .. Len(todo) : j < i + 1 /\ todo[j] = <<"bs", x>>
  BY <1>3 DEF BsFirst
<1>5. j # 1
  BY <1>1, <1>4
<1>6. j - 1 \in 1 .. Len(Tail(todo)) /\ (j - 1) + 1 = j /\ j - 1 < i
  BY <1>1, <1>4, <1>5
<1>7. Tail(todo)[j - 1] = <<"bs", x>>
  BY <1>2, <1>4, <1>6
<1> QED
  BY <1>6, <1>7

\* The size is read when the block size is known.
LEMMA BsIsFirst ==
  ASSUME NEW S, NEW todo \in Seq(S), todo # <<>>, NEW bs, NEW x, BsFirst(todo, bs, x), Head(todo) = <<"size", x>>
  PROVE  bs = BlockSize
<1>1. 1 \in 1 .. Len(todo) /\ todo[1] = <<"size", x>>
  <2>1. Len(todo) \in Nat /\ Len(todo) # 0
    BY EmptySeq
  <2> QED
    BY <2>1
<1>2. ~ \E j \in 1 .. Len(todo) : j < 1
  OBVIOUS
<1> QED
  BY <1>1, <1>2 DEF BsFirst

\* A read of another device.
LEMMA OtherDiskRead ==
  ASSUME NEW S, NEW todo \in Seq(S), todo # <<>>, NEW w, NEW y, Head(todo) = <<w, y>>,
         NEW a, NEW dk, NEW pt, NEW x, x # y, DiskRead(todo, a, dk, pt, x)
  PROVE  DiskRead(Tail(todo), a, dk, pt, x)
<1>1. \A v : Head(todo) # <<v, x>>
  OBVIOUS
<1>2. BsFirst(Tail(todo), a.bs, x)
  BY <1>1, BsFirstTail DEF DiskRead
<1>3. \A v : Pending(todo, v, x) => Pending(Tail(todo), v, x)
  BY <1>1, PendingTail
<1> QED
  BY <1>2, <1>3 DEF DiskRead

\* A read of this device: one field becomes what it is.
LEMMA ThisDiskRead ==
  ASSUME NEW S, NEW todo \in Seq(S), todo # <<>>, NEW a, NEW b, NEW dk, NEW pt, NEW x,
         NEW w \in {"stat", "lsblk", "bs", "size", "parted"}, Head(todo) = <<w, x>>,
         DiskRead(todo, a, dk, pt, x), w = "size" => DiskIn(dk, x),
         b.start = a.start,
         b.bs = IF w = "bs" THEN BlockSize ELSE a.bs,
         b.children = IF w = "lsblk" THEN (IF DiskIn(dk, x) THEN UsedIn(pt, x) ELSE {}) ELSE a.children,
         b.size = IF w = "size" THEN dk[x].size * a.bs ELSE a.size,
         b.free = IF w = "parted" THEN FreeIn(dk, pt, x) ELSE a.free
  PROVE  DiskRead(Tail(todo), b, dk, pt, x)
<1>1. \A v : v # w => Head(todo) # <<v, x>>
  OBVIOUS
<1>2. \A v : v # w /\ Pending(todo, v, x) => Pending(Tail(todo), v, x)
  BY <1>1, PendingTail
<1>3. BsFirst(Tail(todo), b.bs, x)
  <2>1. CASE w = "bs"
    BY <2>1 DEF BsFirst
  <2>2. CASE w # "bs"
    <3>1. Head(todo) # <<"bs", x>> /\ BsFirst(todo, a.bs, x) /\ b.bs = a.bs
      BY <1>1, <2>2 DEF DiskRead
    <3> QED
      BY <3>1, BsFirstTail
  <2> QED
    BY <2>1, <2>2
<1>4. b.start = 0
  BY DEF DiskRead
<1>5. Pending(Tail(todo), "lsblk", x) \/ (DiskIn(dk, x) => b.children = UsedIn(pt, x))
  <2>1. CASE w = "lsblk"
    BY <2>1
  <2>2. CASE w # "lsblk"
    BY <1>2, <2>2 DEF DiskRead
  <2> QED
    BY <2>1, <2>2
<1>6. Pending(Tail(todo), "size", x) \/ (DiskIn(dk, x) /\ b.size = dk[x].size * BlockSize)
  <2>1. CASE w = "size"
    <3>1. a.bs = BlockSize
      BY <2>1, BsIsFirst DEF DiskRead
    <3> QED
      BY <2>1, <3>1
  <2>2. CASE w # "size"
    BY <1>2, <2>2 DEF DiskRead
  <2> QED
    BY <2>1, <2>2
<1>7. Pending(Tail(todo), "parted", x) \/ b.free = FreeIn(dk, pt, x)
  <2>1. CASE w = "parted"
    BY <2>1
  <2>2. CASE w # "parted"
    BY <1>2, <2>2 DEF DiskRead
  <2> QED
    BY <2>1, <2>2
<1> QED
  BY <1>3, <1>4, <1>5, <1>6, <1>7 DEF DiskRead

LEMMA OtherPartRead ==
  ASSUME NEW S, NEW todo \in Seq(S), todo # <<>>, NEW w, NEW y, Head(todo) = <<w, y>>,
         NEW a, NEW pt, NEW x, x # y, PartRead(todo, a, pt, x)
  PROVE  PartRead(Tail(todo), a, pt, x)
<1>1. \A v : Head(todo) # <<v, x>>
  OBVIOUS
<1>2. \A v : Pending(todo, v, x) => Pending(Tail(todo), v, x)
  BY <1>1, PendingTail
<1> QED
  BY <1>2 DEF PartRead

LEMMA ThisPartRead ==
  ASSUME NEW S, NEW todo \in Seq(S), todo # <<>>, NEW a, NEW b, NEW pt, NEW x,
         NEW w \in {"stat", "lsblk", "start", "psize"}, Head(todo) = <<w, x>>,
         PartRead(todo, a, pt, x), w = "psize" => PartIn(pt, x),
         b.start = IF w = "start" THEN pt[x].start * BlockSize ELSE a.start,
         b.size = IF w = "psize" THEN pt[x].size * BlockSize ELSE a.size
  PROVE  PartRead(Tail(todo), b, pt, x)
<1>1. \A v : v # w => Head(todo) # <<v, x>>
  OBVIOUS
<1>2. \A v : v # w /\ Pending(todo, v, x) => Pending(Tail(todo), v, x)
  BY <1>1, PendingTail
<1>3. Pending(Tail(todo), "start", x) \/ b.start = pt[x].start * BlockSize
  <2>1. CASE w = "start"
    BY <2>1
  <2>2. CASE w # "start"
    BY <1>2, <2>2 DEF PartRead
  <2> QED
    BY <2>1, <2>2
<1>4. Pending(Tail(todo), "psize", x) \/ (PartIn(pt, x) /\ b.size = pt[x].size * BlockSize)
  <2>1. CASE w = "psize"
    BY <2>1
  <2>2. CASE w # "psize"
    BY <1>2, <2>2 DEF PartRead
  <2> QED
    BY <2>1, <2>2
<1> QED
  BY <1>3, <1>4 DEF PartRead

\* What one read puts into an answer.
LEMMA ReadIntoFields ==
  ASSUME KernelOK(disk, part), NEW a \in Ans, NEW w \in What \ {"ls"}, NEW x \in Device,
         w \in {"size", "parted"} => DiskIn(disk, x), w \in {"start", "psize"} => PartIn(part, x)
  PROVE  LET b == ReadInto(a, w, x) IN
         /\ b \in Ans
         /\ b.start = IF w = "start" THEN part[x].start * BlockSize ELSE a.start
         /\ b.bs = IF w = "bs" THEN BlockSize ELSE a.bs
         /\ b.children = IF w = "lsblk" THEN (IF DiskIn(disk, x) THEN UsedIn(part, x) ELSE {}) ELSE a.children
         /\ b.size = IF w = "size" THEN disk[x].size * a.bs
                     ELSE IF w = "psize" THEN part[x].size * BlockSize ELSE a.size
         /\ b.free = IF w = "parted" THEN FreeIn(disk, part, x) ELSE a.free
<1> USE DiskAssumption
<1>1. /\ a.start \in Nat /\ a.bs \in Nat /\ a.size \in Nat /\ a.free \in SUBSET Nat /\ a.children \in SUBSET Nat
      /\ BlockSize \in Nat
  BY DEF Ans
<1>2. CASE w = "lsblk"
  <2>1. ReadInto(a, w, x) = [a EXCEPT !.children = IF DiskIn(disk, x) THEN UsedIn(part, x) ELSE {}]
    BY <1>2, SameNames DEF ReadInto
  <2>2. (IF DiskIn(disk, x) THEN UsedIn(part, x) ELSE {}) \in SUBSET Nat
    <3>1. CASE DiskIn(disk, x)
      <4>1. UsedIn(part, x) \subseteq 0 .. disk[x].size - 1
        BY <3>1, UsedIsInside DEF DiskIn
      <4> QED
        BY <3>1, <4>1
    <3> QED
      BY <3>1
  <2> HIDE DEF DiskIn, UsedIn
  <2> QED
    BY <1>2, <2>1, <2>2 DEF Ans
<1>3. CASE w = "bs"
  <2>1. ReadInto(a, w, x) = [a EXCEPT !.bs = BlockSize]
    BY <1>3 DEF ReadInto
  <2> QED
    BY <1>1, <1>3, <2>1 DEF Ans
<1>4. CASE w = "size"
  <2>1. ReadInto(a, w, x) = [a EXCEPT !.size = disk[x].size * a.bs]
    BY <1>4 DEF ReadInto
  <2>2. disk[x].size \in Nat /\ disk[x].size * a.bs \in Nat
    BY <1>1, <1>4 DEF DiskIn, KernelOK
  <2> QED
    BY <1>4, <2>1, <2>2 DEF Ans
<1>5. CASE w = "parted"
  <2>1. ReadInto(a, w, x) = [a EXCEPT !.free = FreeIn(disk, part, x)]
    BY <1>5, SameNames DEF ReadInto
  <2>2. FreeIn(disk, part, x) \in SUBSET Nat
    BY DEF FreeIn
  <2> QED
    BY <1>5, <2>1, <2>2 DEF Ans
<1>6. CASE w = "start"
  <2>1. ReadInto(a, w, x) = [a EXCEPT !.start = part[x].start * BlockSize]
    BY <1>6 DEF ReadInto
  <2>2. part[x].start \in Nat /\ part[x].start * BlockSize \in Nat
    BY <1>1, <1>6 DEF PartIn, KernelOK
  <2> QED
    BY <1>6, <2>1, <2>2 DEF Ans
<1>7. CASE w = "psize"
  <2>1. ReadInto(a, w, x) = [a EXCEPT !.size = part[x].size * BlockSize]
    BY <1>7 DEF ReadInto
  <2>2. part[x].size \in Nat /\ part[x].size * BlockSize \in Nat
    BY <1>1, <1>7 DEF PartIn, KernelOK
  <2> QED
    BY <1>7, <2>1, <2>2 DEF Ans
<1>8. CASE w = "stat"
  <2>1. ReadInto(a, w, x) = a
    BY <1>8 DEF ReadInto
  <2> QED
    BY <1>8, <2>1
<1> QED
  BY <1>2, <1>3, <1>4, <1>5, <1>6, <1>7, <1>8 DEF What

\* The reads of a command, by its op.
LEMMA ReadsOfOps ==
  ASSUME NEW r
  PROVE  /\ r.op = "disk" => ReadsOf(r) = {"stat", "lsblk", "bs", "size", "parted"} \X {r.disk}
         /\ r.op = "part" => ReadsOf(r) = ({"stat", "bs"} \X {r.disk}) \cup ({"stat", "lsblk", "start", "psize"} \X {r.part})
         /\ r.op \in {"list", "protect"} => ReadsOf(r) = {<<"ls", NoDisk>>} \cup ({"stat", "bs", "size", "parted"} \X r.devs)
BY DEF ReadsOf

\* The next read of a command.
LEMMA NextRead ==
  ASSUME NEW r, FormOK(r), r.todo # <<>>, NEW w, NEW x, Head(r.todo) = <<w, x>>
  PROVE  /\ <<w, x>> \in ReadsOf(r) /\ r.res = "none"
         /\ r.op = "disk" => x = r.disk /\ w \in {"stat", "lsblk", "bs", "size", "parted"}
         /\ r.op = "part" => \/ x = r.disk /\ w \in {"stat", "bs"}
                             \/ x = r.part /\ w \in {"stat", "lsblk", "start", "psize"}
         /\ r.op \in {"list", "protect"} /\ w # "ls" => x \in r.devs /\ w \in {"stat", "bs", "size", "parted"}
         /\ w # "ls" => w \in What \ {"ls"} /\ x \in Device
<1>1. r.todo \in Seq(What \X (Device \cup {NoDisk})) /\ r.op \in {"disk", "part", "list", "protect"}
  BY DEF FormOK, ReaderRec
<1>2. Len(r.todo) \in Nat /\ Len(r.todo) # 0 /\ Head(r.todo) = r.todo[1]
  BY <1>1, EmptySeq
<1>3. 1 \in 1 .. Len(r.todo)
  BY <1>2
<1>4. <<w, x>> \in ReadsOf(r)
  BY <1>2, <1>3 DEF FormOK
<1>5. r.op = "disk" => x = r.disk /\ w \in {"stat", "lsblk", "bs", "size", "parted"}
  BY <1>4, ReadsOfOps
<1>6. r.op = "part" => \/ x = r.disk /\ w \in {"stat", "bs"}
                       \/ x = r.part /\ w \in {"stat", "lsblk", "start", "psize"}
  BY <1>4, ReadsOfOps
<1>7. r.op \in {"list", "protect"} /\ w # "ls" => x \in r.devs /\ w \in {"stat", "bs", "size", "parted"}
  BY <1>4, ReadsOfOps
<1>8. w # "ls" => w \in What \ {"ls"} /\ x \in Device
  BY <1>1, <1>5, <1>6, <1>7 DEF FormOK, What, Device
<1> QED
  BY <1>4, <1>5, <1>6, <1>7, <1>8 DEF FormOK

\* What a read finds was there.
LEMMA FindsMeans ==
  ASSUME NEW r, NEW w \in What, NEW x, Finds(r, w, x)
  PROVE  /\ w \in {"bs", "size", "parted"} => DiskIn(disk, x)
         /\ w \in {"start", "psize"} => PartIn(part, x)
<1>1. CASE w \in {"bs", "size"}
  BY <1>1, SameNames DEF Finds
<1>2. CASE w = "parted"
  BY <1>2, SameNames DEF Finds
<1>3. CASE w \in {"start", "psize"}
  BY <1>3, SameNames DEF Finds
<1> QED
  BY <1>1, <1>2, <1>3

\* One read that succeeds.
LEMMA ReadOne ==
  ASSUME KernelOK(disk, part), NEW r, FormOK(r), r.clean => ExactOK(r, disk, part), r.todo # <<>>,
         NEW w, NEW x, Head(r.todo) = <<w, x>>, w # "ls", Finds(r, w, x),
         NEW s, s = [r EXCEPT !.todo = Tail(@), !.ans[x] = ReadInto(@, w, x),
                              !.devs = @ \cup (IF w \in {"size", "psize"} THEN {x} ELSE {})]
  PROVE  ReaderOK(s, disk, part)
<1> DEFINE b == ReadInto(r.ans[x], w, x)
           todo == r.todo
<1>1. /\ r \in ReaderRec /\ todo \in Seq(What \X (Device \cup {NoDisk})) /\ r.ans \in [Device -> Ans]
      /\ r.devs \in SUBSET Device /\ r.op \in {"disk", "part", "list", "protect"} /\ r.clean \in BOOLEAN
  BY DEF FormOK, ReaderRec
<1>2. /\ r.res = "none" /\ w \in What \ {"ls"} /\ x \in Device
      /\ r.op = "disk" => x = r.disk /\ w \in {"stat", "lsblk", "bs", "size", "parted"}
      /\ r.op = "part" => \/ x = r.disk /\ w \in {"stat", "bs"}
                          \/ x = r.part /\ w \in {"stat", "lsblk", "start", "psize"}
      /\ r.op \in {"list", "protect"} => x \in r.devs /\ w \in {"stat", "bs", "size", "parted"}
  BY NextRead
<1>3. /\ w \in {"bs", "size", "parted"} => DiskIn(disk, x)
      /\ w \in {"start", "psize"} => PartIn(part, x)
  BY <1>2, FindsMeans
<1>4. r.ans[x] \in Ans
  BY <1>1, <1>2
<1>5. /\ b \in Ans
      /\ b.start = IF w = "start" THEN part[x].start * BlockSize ELSE r.ans[x].start
      /\ b.bs = IF w = "bs" THEN BlockSize ELSE r.ans[x].bs
      /\ b.children = IF w = "lsblk" THEN (IF DiskIn(disk, x) THEN UsedIn(part, x) ELSE {}) ELSE r.ans[x].children
      /\ b.size = IF w = "size" THEN disk[x].size * r.ans[x].bs
                  ELSE IF w = "psize" THEN part[x].size * BlockSize ELSE r.ans[x].size
      /\ b.free = IF w = "parted" THEN FreeIn(disk, part, x) ELSE r.ans[x].free
  BY <1>2, <1>3, <1>4, ReadIntoFields
<1> DEFINE d == r.devs \cup (IF w \in {"size", "psize"} THEN {x} ELSE {})
<1>6. /\ s.op = r.op /\ s.disk = r.disk /\ s.part = r.part /\ s.clean = r.clean /\ s.bad = r.bad /\ s.res = r.res
      /\ s.todo = Tail(todo) /\ s.ans = [r.ans EXCEPT ![x] = b] /\ s.devs = d
  BY <1>1 DEF ReaderRec
<1>7. s.ans \in [Device -> Ans] /\ s.ans[x] = b /\ \A y \in Device : y # x => s.ans[y] = r.ans[y]
  BY <1>1, <1>2, <1>5, <1>6
<1> HIDE DEF b, todo
<1>8. Tail(todo) \in Seq(What \X (Device \cup {NoDisk})) /\ Len(Tail(todo)) = Len(todo) - 1 /\ Len(todo) \in Nat
      /\ \A i \in 1 .. Len(Tail(todo)) : Tail(todo)[i] = todo[i + 1]
  BY <1>1, HeadTailProperties DEF todo
<1>9. d \in SUBSET Device
  BY <1>1, <1>2
<1>10. s \in ReaderRec
  BY <1>1, <1>6, <1>7, <1>8, <1>9 DEF ReaderRec
<1>11. /\ r.op = "disk" => r.disk \in Device /\ d \subseteq {r.disk}
       /\ r.op = "part" => r.disk \in DiskName /\ r.part \in PartName /\ d \subseteq {r.part}
       /\ r.op \in {"list", "protect"} => d = r.devs /\ r.devs \subseteq DiskName
  BY <1>2 DEF FormOK
<1>12. ReadsOf(s) = ReadsOf(r)
  <2>1. CASE r.op = "disk"
    <3>1. s.op = "disk" /\ s.disk = r.disk
      BY <1>6, <2>1
    <3> QED
      BY <2>1, <3>1 DEF ReadsOf
  <2>2. CASE r.op = "part"
    <3>1. s.op = "part" /\ s.disk = r.disk /\ s.part = r.part
      BY <1>6, <2>2
    <3> QED
      BY <2>2, <3>1 DEF ReadsOf
  <2>3. CASE r.op \in {"list", "protect"}
    <3>1. s.devs = r.devs /\ s.op \in {"list", "protect"}
      BY <1>6, <1>11, <2>3
    <3> QED
      BY <2>3, <3>1, ReadsOfOps
  <2> QED
    BY <1>1, <2>1, <2>2, <2>3
<1>13. \A i \in 1 .. Len(s.todo) : s.todo[i] \in ReadsOf(s)
  <2> TAKE i \in 1 .. Len(s.todo)
  <2>1. i + 1 \in 1 .. Len(todo) /\ s.todo[i] = todo[i + 1]
    BY <1>6, <1>8
  <2> QED
    BY <1>12, <2>1 DEF FormOK, todo
<1>14. FormOK(s)
  BY <1>2, <1>6, <1>10, <1>11, <1>13 DEF FormOK
<1>15. ASSUME r.clean PROVE ExactOK(s, disk, part)
  <2>1. ExactOK(r, disk, part) /\ r.res # "failed"
    BY <1>2, <1>15
  <2>2. Targets(s) = Targets(r)
    BY <1>1, <1>6, <1>11 DEF Targets
  <2>3. r.op \in {"list", "protect"} => \A y \in s.devs : DiskIn(disk, y)
    BY <1>6, <1>11, <2>1 DEF ExactOK
  <2>4. ASSUME NEW y \in Targets(r) PROVE DiskRead(Tail(todo), s.ans[y], disk, part, y)
    <3>1. DiskRead(todo, r.ans[y], disk, part, y)
      BY <2>1, <2>4 DEF ExactOK, todo
    <3>2. y \in Device /\ r.op # "part"
      BY <1>1, <1>11, <2>4 DEF Targets
    <3>3. CASE y # x
      <4>1. s.ans[y] = r.ans[y]
        BY <1>7, <3>2, <3>3
      <4> QED
        BY <1>1, <3>1, <3>3, <4>1, OtherDiskRead DEF todo
    <3>4. CASE y = x
      <4>1. w \in {"stat", "lsblk", "bs", "size", "parted"}
        BY <1>1, <1>2, <3>2
      <4>2. /\ b.start = r.ans[x].start
            /\ b.size = IF w = "size" THEN disk[x].size * r.ans[x].bs ELSE r.ans[x].size
            /\ w = "size" => DiskIn(disk, x)
        BY <1>3, <1>5, <4>1
      <4>3. DiskRead(todo, r.ans[x], disk, part, x)
        BY <3>1, <3>4
      <4>4. todo # <<>> /\ Head(todo) = <<w, x>>
        BY DEF todo
      <4>5. DiskRead(Tail(todo), b, disk, part, x)
        BY <1>1, <1>5, <4>1, <4>2, <4>3, <4>4, ThisDiskRead
      <4> QED
        BY <1>7, <3>4, <4>5
    <3> QED
      BY <3>3, <3>4
  <2>5. ASSUME r.op = "part" PROVE PartRead(Tail(todo), s.ans[r.part], part, r.part)
    <3>1. PartRead(todo, r.ans[r.part], part, r.part)
      BY <2>1, <2>5 DEF ExactOK, todo
    <3>2. r.part \in PartName /\ r.disk \in DiskName /\ r.disk # r.part /\ r.part \in Device
      BY <1>11, <2>5, DiskAssumption DEF Device
    <3>3. CASE r.part # x
      <4>1. s.ans[r.part] = r.ans[r.part]
        BY <1>7, <3>2, <3>3
      <4> QED
        BY <1>1, <3>1, <3>3, <4>1, OtherPartRead DEF todo
    <3>4. CASE r.part = x
      <4>1. w \in {"stat", "lsblk", "start", "psize"}
        BY <1>2, <2>5, <3>2, <3>4
      <4>2. /\ b.size = IF w = "psize" THEN part[x].size * BlockSize ELSE r.ans[x].size
            /\ w = "psize" => PartIn(part, x)
        BY <1>3, <1>5, <4>1
      <4>3. PartRead(todo, r.ans[x], part, x)
        BY <3>1, <3>4
      <4>4. todo # <<>> /\ Head(todo) = <<w, x>>
        BY DEF todo
      <4>5. PartRead(Tail(todo), b, part, x)
        BY <1>1, <1>5, <4>1, <4>2, <4>3, <4>4, ThisPartRead
      <4> QED
        BY <1>7, <3>4, <4>5
    <3> QED
      BY <3>3, <3>4
  <2> QED
    BY <1>2, <1>6, <2>2, <2>3, <2>4, <2>5 DEF ExactOK
<1> QED
  BY <1>6, <1>14, <1>15 DEF ReaderOK

\* The first read that fails.
LEMMA ReadNone ==
  ASSUME KernelOK(disk, part), NEW r, FormOK(r), r.clean => ExactOK(r, disk, part), r.todo # <<>>,
         NEW w, NEW x, Head(r.todo) = <<w, x>>, ~Finds(r, w, x),
         NEW s, s = [r EXCEPT !.todo = <<>>, !.res = "failed",
                    !.bad = \/ w = "parted" /\ IsDisk(x)
                            \/ r.op = "disk" /\ ~IsDisk(x)
                            \/ r.op = "part" /\ ~(IsDisk(r.disk) /\ part[r.part].of = r.disk)]
  PROVE  ReaderOK(s, disk, part)
<1> DEFINE bad == \/ w = "parted" /\ IsDisk(x)
                  \/ r.op = "disk" /\ ~IsDisk(x)
                  \/ r.op = "part" /\ ~(IsDisk(r.disk) /\ part[r.part].of = r.disk)
<1>1. PICK v \in BOOLEAN : v <=> bad
  OBVIOUS
<1>2. s = [r EXCEPT !.todo = <<>>, !.res = "failed", !.bad = v]
  <2>1. CASE bad
    <3>1. v = TRUE /\ bad = TRUE
      BY <1>1, <2>1
    <3> QED
      BY <3>1
  <2>2. CASE ~bad
    <3>1. v = FALSE /\ bad = FALSE
      BY <1>1, <2>2
    <3> QED
      BY <3>1
  <2> QED
    BY <2>1, <2>2
<1> HIDE DEF bad
<1>3. r \in ReaderRec /\ r.op \in {"disk", "part", "list", "protect"}
  BY DEF FormOK, ReaderRec
<1>4. /\ s.op = r.op /\ s.disk = r.disk /\ s.part = r.part /\ s.clean = r.clean /\ s.devs = r.devs
      /\ s.todo = <<>> /\ s.res = "failed" /\ s.bad = v /\ s \in ReaderRec
  <2>1. <<>> \in Seq(What \X (Device \cup {NoDisk}))
    OBVIOUS
  <2>2. CASE v = TRUE
    BY <1>2, <1>3, <2>1, <2>2 DEF ReaderRec
  <2>3. CASE v = FALSE
    BY <1>2, <1>3, <2>1, <2>3 DEF ReaderRec
  <2> QED
    BY <1>1, <2>2, <2>3
<1>5. FormOK(s)
  BY <1>4 DEF FormOK
<1>6. /\ r.op = "disk" => x = r.disk /\ w \in {"stat", "lsblk", "bs", "size", "parted"}
      /\ r.op = "part" => \/ x = r.disk /\ w \in {"stat", "bs"}
                          \/ x = r.part /\ w \in {"stat", "lsblk", "start", "psize"}
      /\ r.op \in {"list", "protect"} /\ w # "ls" => x \in r.devs /\ w \in {"stat", "bs", "size", "parted"}
  BY NextRead
<1>7. w # "ls"
  BY DEF Finds
<1>8. ASSUME r.clean, r.op # "protect" PROVE v
  <2> SUFFICES bad
    BY <1>1
  <2>1. CASE r.op = "disk"
    <3>1. CASE IsDisk(x)
      <4>1. w = "parted"
        BY <1>6, <2>1, <3>1 DEF Finds
      <4> QED
        BY <3>1, <4>1 DEF bad
    <3>2. CASE ~IsDisk(x)
      BY <2>1, <3>2 DEF bad
    <3> QED
      BY <3>1, <3>2
  <2>2. CASE r.op = "part"
    <3> SUFFICES ASSUME IsDisk(r.disk), part[r.part].of = r.disk PROVE FALSE
      BY <2>2 DEF bad
    <3>1. IsPart(r.part)
      BY <2>2, DiskAssumption DEF IsPart, FormOK
    <3>2. CASE x = r.disk /\ w \in {"stat", "bs"}
      BY <3>2 DEF Finds
    <3>3. CASE x = r.part /\ w \in {"stat", "lsblk", "start", "psize"}
      BY <3>1, <3>3 DEF Finds
    <3> QED
      BY <1>6, <2>2, <3>2, <3>3
  <2>3. CASE r.op = "list"
    <3>1. x \in r.devs /\ w \in {"stat", "bs", "size", "parted"}
      BY <1>6, <1>7, <2>3
    <3>2. IsDisk(x)
      BY <1>8, <2>3, <3>1, SameNames DEF ExactOK
    <3>3. w = "parted"
      BY <3>1, <3>2 DEF Finds
    <3> QED
      BY <3>2, <3>3 DEF bad
  <2> QED
    BY <1>3, <1>8, <2>1, <2>2, <2>3
<1>9. ASSUME r.clean PROVE ExactOK(s, disk, part)
  <2>1. r.op \in {"list", "protect"} => \A y \in r.devs : DiskIn(disk, y)
    BY <1>9 DEF ExactOK
  <2> QED
    BY <1>4, <1>8, <1>9, <2>1 DEF ExactOK
<1> QED
  BY <1>4, <1>5, <1>9 DEF ReaderOK

-----------------------------------------------------------------------------
(* Disks: list.                                                            *)

\* SetToSeq has every element.
LEMMA SetToSeqIsOnto ==
  ASSUME NEW S, IsFiniteSet(S)
  PROVE  SetToSeq(S) \in Seq(S) /\ \A x \in S : \E k \in 1 .. Len(SetToSeq(S)) : SetToSeq(S)[k] = x
<1> DEFINE n == Cardinality(S)
           o == SetToSeq(S)
<1>1. n \in Nat /\ ExistsBijection(1 .. n, S)
  BY FS_CardinalityType
<1>2. PICK f : f \in Bijection(1 .. n, S)
  BY <1>1 DEF ExistsBijection
<1>3. f \in [1 .. n -> S] /\ IsInjective(f)
  BY <1>2 DEF Bijection, Injection, IsInjective
<1>4. o \in [1 .. n -> S] /\ IsInjective(o)
  BY <1>3 DEF SetToSeq
<1> HIDE DEF o, n
<1>5. o \in Injection(1 .. n, S)
  BY <1>4 DEF Injection, IsInjective
<1>6. IsFiniteSet(1 .. n) /\ Cardinality(1 .. n) = n
  BY <1>1, FS_Interval
<1>7. o \in Surjection(1 .. n, S)
  BY <1>5, <1>6, FS_Injection DEF n
<1>8. o \in Seq(S) /\ Len(o) = n
  BY <1>1, <1>4
<1>9. \A x \in S : \E k \in 1 .. n : o[k] = x
  BY <1>7 DEF Surjection
<1> QED
  BY <1>8, <1>9 DEF o

\* The reads of list: those of one disk after those of another.
LEMMA ListTodoAt ==
  ASSUME NEW D, NEW o \in Seq(D), NEW k \in 1 .. Len(o), NEW j \in 1 .. 4
  PROVE  4 * (k - 1) + j \in 1 .. 4 * Len(o) /\ ListTodo(o)[4 * (k - 1) + j] = ListReads(o[k])[j]
<1> DEFINE i == 4 * (k - 1) + j
<1>1. Len(o) \in Nat
  OBVIOUS
<1>2. i \in 1 .. 4 * Len(o)
  BY <1>1
<1>3. ((i - 1) \div 4) + 1 = k /\ ((i - 1) % 4) + 1 = j
  BY <1>1
<1> HIDE DEF i
<1>4. ListTodo(o)[i] = ListReads(o[((i - 1) \div 4) + 1])[((i - 1) % 4) + 1]
  BY <1>2 DEF ListTodo
<1> QED
  BY <1>2, <1>3, <1>4 DEF i

LEMMA ListTodoFacts ==
  ASSUME NEW D, NEW o \in Seq(D)
  PROVE  /\ ListTodo(o) \in Seq({"stat", "bs", "size", "parted"} \X D)
         /\ \A k \in 1 .. Len(o) : Pending(ListTodo(o), "size", o[k]) /\ Pending(ListTodo(o), "parted", o[k])
         /\ \A bs, x : BsFirst(ListTodo(o), bs, x)
<1> DEFINE n == Len(o)
           td == ListTodo(o)
           W == {"stat", "bs", "size", "parted"}
<1>1. n \in Nat
  OBVIOUS
<1>2. \A k \in 1 .. n, j \in 1 .. 4 : 4 * (k - 1) + j \in 1 .. 4 * n /\ td[4 * (k - 1) + j] = ListReads(o[k])[j]
  BY ListTodoAt
<1>3. \A k \in 1 .. n : /\ ListReads(o[k])[1] = <<"stat", o[k]>> /\ ListReads(o[k])[2] = <<"bs", o[k]>>
                         /\ ListReads(o[k])[3] = <<"size", o[k]>> /\ ListReads(o[k])[4] = <<"parted", o[k]>>
  BY DEF ListReads
<1>4. ASSUME NEW i \in 1 .. 4 * n PROVE \E k \in 1 .. n, j \in 1 .. 4 : i = 4 * (k - 1) + j
  <2> DEFINE k == ((i - 1) \div 4) + 1
             j == ((i - 1) % 4) + 1
  <2>1. k \in 1 .. n /\ j \in 1 .. 4 /\ i = 4 * (k - 1) + j
    BY <1>1, <1>4
  <2> HIDE DEF k, j
  <2> QED
    BY <2>1
<1>5. DOMAIN td = 1 .. 4 * n /\ td = [i \in 1 .. 4 * n |-> td[i]]
  BY DEF ListTodo
<1> HIDE DEF td
<1>6. ASSUME NEW i \in 1 .. 4 * n PROVE td[i] \in W \X D
  <2>1. PICK k \in 1 .. n, j \in 1 .. 4 : i = 4 * (k - 1) + j
    BY <1>4, <1>6
  <2>2. td[i] = ListReads(o[k])[j]
    BY <1>2, <2>1
  <2>3. o[k] \in D
    BY <2>1, ElementOfSeq
  <2>4. j = 1 \/ j = 2 \/ j = 3 \/ j = 4
    BY <2>1
  <2>5. ListReads(o[k])[j] \in W \X D
    <3>1. CASE j = 1
      <4>1. ListReads(o[k])[j] = <<"stat", o[k]>>
        BY <1>3, <2>1, <3>1
      <4>2. <<"stat", o[k]>> \in W \X D
        BY <2>3
      <4> QED
        BY <4>1, <4>2
    <3>2. CASE j = 2
      <4>1. ListReads(o[k])[j] = <<"bs", o[k]>>
        BY <1>3, <2>1, <3>2
      <4>2. <<"bs", o[k]>> \in W \X D
        BY <2>3
      <4> QED
        BY <4>1, <4>2
    <3>3. CASE j = 3
      <4>1. ListReads(o[k])[j] = <<"size", o[k]>>
        BY <1>3, <2>1, <3>3
      <4>2. <<"size", o[k]>> \in W \X D
        BY <2>3
      <4> QED
        BY <4>1, <4>2
    <3>4. CASE j = 4
      <4>1. ListReads(o[k])[j] = <<"parted", o[k]>>
        BY <1>3, <2>1, <3>4
      <4>2. <<"parted", o[k]>> \in W \X D
        BY <2>3
      <4> QED
        BY <4>1, <4>2
    <3> QED
      BY <2>4, <3>1, <3>2, <3>3, <3>4
  <2> QED
    BY <2>2, <2>5
<1>7. 4 * n \in Nat
  BY <1>1
<1>8. td \in Seq(W \X D) /\ Len(td) = 4 * n
  <2> HIDE DEF n, W
  <2> QED
    BY <1>5, <1>6, <1>7, IsASeq
<1>9. ASSUME NEW k \in 1 .. n PROVE Pending(td, "size", o[k]) /\ Pending(td, "parted", o[k])
  <2>1. 4 * (k - 1) + 3 \in 1 .. Len(td) /\ td[4 * (k - 1) + 3] = <<"size", o[k]>>
    BY <1>2, <1>3, <1>8, 3 \in 1 .. 4
  <2>2. 4 * (k - 1) + 4 \in 1 .. Len(td) /\ td[4 * (k - 1) + 4] = <<"parted", o[k]>>
    BY <1>2, <1>3, <1>8, 4 \in 1 .. 4
  <2> QED
    BY <2>1, <2>2 DEF Pending
<1>10. ASSUME NEW x, NEW i \in 1 .. Len(td), td[i] = <<"size", x>>
       PROVE  \E l \in 1 .. Len(td) : l < i /\ td[l] = <<"bs", x>>
  <2>1. PICK k \in 1 .. n, j \in 1 .. 4 : i = 4 * (k - 1) + j
    BY <1>4, <1>8, <1>10
  <2>2. ListReads(o[k])[j] = <<"size", x>>
    BY <1>2, <1>10, <2>1
  <2>3. j = 1 \/ j = 2 \/ j = 3 \/ j = 4
    BY <2>1
  <2>4. j = 3 /\ o[k] = x
    BY <1>3, <2>2, <2>3
  <2>5. 4 * (k - 1) + 2 \in 1 .. Len(td) /\ td[4 * (k - 1) + 2] = <<"bs", x>>
    BY <1>2, <1>3, <1>8, <2>4, 2 \in 1 .. 4
  <2>6. 4 * (k - 1) + 2 < i
    BY <1>1, <2>1, <2>4
  <2> QED
    BY <2>5, <2>6
<1> QED
  BY <1>8, <1>9, <1>10 DEF BsFirst, td

\* list and protect begin: all the disks there are, and the reads of each.
LEMMA ReadList ==
  ASSUME KernelOK(disk, part), NEW r, FormOK(r), r.todo # <<>>, NEW x, Head(r.todo) = <<"ls", x>>,
         NEW s, s = [r EXCEPT !.devs = Listed,
                              !.ans = [y \in DOMAIN r.ans |-> IF y \in DiskName THEN [Nothing EXCEPT !.children = UsedOf(y)] ELSE Nothing],
                              !.todo = ListTodo(SetToSeq(Listed))]
  PROVE  ReaderOK(s, disk, part)
<1> DEFINE o == SetToSeq(Listed)
           A == [y \in Device |-> IF y \in DiskName THEN [Nothing EXCEPT !.children = UsedOf(y)] ELSE Nothing]
<1>1. /\ r \in ReaderRec /\ r.op \in {"disk", "part", "list", "protect"} /\ DOMAIN r.ans = Device
  BY DEF FormOK, ReaderRec
<1>2. r.res = "none" /\ r.op \in {"list", "protect"}
  <2>1. r.res = "none" /\ r.op # "disk" /\ r.op # "part"
    BY NextRead
  <2> QED
    BY <1>1, <2>1
<1>3. Listed \subseteq DiskName /\ IsFiniteSet(Listed) /\ \A y \in Listed : DiskIn(disk, y)
  <2>1. Listed \in SUBSET DiskName
    BY DEF Listed
  <2>2. IsFiniteSet(Listed)
    BY <2>1, DiskAssumption, FS_Subset
  <2> QED
    BY <2>1, <2>2 DEF Listed, DiskIn
<1> HIDE DEF Listed
<1>4. o \in Seq(Listed) /\ \A y \in Listed : \E k \in 1 .. Len(o) : o[k] = y
  BY <1>3, SetToSeqIsOnto
<1> HIDE DEF o
<1>5. /\ ListTodo(o) \in Seq({"stat", "bs", "size", "parted"} \X Listed)
      /\ \A k \in 1 .. Len(o) : Pending(ListTodo(o), "size", o[k]) /\ Pending(ListTodo(o), "parted", o[k])
      /\ \A bs, y : BsFirst(ListTodo(o), bs, y)
  BY <1>4, ListTodoFacts
<1>6. ASSUME NEW y \in Device PROVE A[y] \in Ans /\ A[y].start = 0 /\ (y \in DiskName => A[y].children = UsedIn(part, y))
  <2>1. CASE y \in DiskName
    <3>1. UsedIn(part, y) \subseteq 0 .. disk[y].size - 1 /\ UsedOf(y) = UsedIn(part, y)
      BY <2>1, UsedIsInside, SameNames
    <3>2. A[y] = [children |-> UsedIn(part, y), start |-> 0, size |-> 0, bs |-> 0, free |-> {}]
      BY <1>6, <2>1, <3>1 DEF Nothing
    <3>3. UsedIn(part, y) \in SUBSET Nat
      BY <3>1
    <3> QED
      BY <3>2, <3>3 DEF Ans
  <2>2. CASE y \notin DiskName
    <3>1. A[y] = Nothing
      BY <1>6, <2>2
    <3> QED
      BY <2>2, <3>1 DEF Ans, Nothing
  <2> QED
    BY <2>1, <2>2
<1>7. A \in [Device -> Ans]
  BY <1>6
<1>8. s = [r EXCEPT !.devs = Listed, !.ans = A, !.todo = ListTodo(o)]
  BY <1>1 DEF o
<1> HIDE DEF A
<1>9. ListTodo(o) \in Seq(What \X (Device \cup {NoDisk}))
  <2>1. {"stat", "bs", "size", "parted"} \X Listed \subseteq What \X (Device \cup {NoDisk})
    BY <1>3 DEF What, Device
  <2> QED
    BY <1>5, <2>1, SeqMonotonic
<1>10. Listed \in SUBSET Device
  BY <1>3 DEF Device
<1> DEFINE td == ListTodo(o)
<1> HIDE DEF td
<1>11. /\ s.op = r.op /\ s.disk = r.disk /\ s.part = r.part /\ s.clean = r.clean /\ s.bad = r.bad /\ s.res = r.res
       /\ s.todo = td /\ s.ans = A /\ s.devs = Listed
  BY <1>1, <1>8 DEF ReaderRec, td
<1>12. s \in ReaderRec
  BY <1>1, <1>7, <1>9, <1>10, <1>11 DEF ReaderRec, td
<1>13. \A i \in 1 .. Len(s.todo) : s.todo[i] \in ReadsOf(s)
  <2>1. ReadsOf(s) = {<<"ls", NoDisk>>} \cup ({"stat", "bs", "size", "parted"} \X Listed)
    BY <1>2, <1>11, ReadsOfOps
  <2>2. \A i \in 1 .. Len(td) : td[i] \in {"stat", "bs", "size", "parted"} \X Listed
    BY <1>5, ElementOfSeq DEF td
  <2> QED
    BY <1>11, <2>1, <2>2
<1>14. FormOK(s)
  BY <1>2, <1>3, <1>11, <1>12, <1>13 DEF FormOK
<1>15. Targets(s) = Listed
  BY <1>2, <1>11 DEF Targets
<1>16. ASSUME NEW y \in Listed PROVE DiskRead(td, A[y], disk, part, y)
  <2>1. Pending(td, "size", y) /\ Pending(td, "parted", y)
    BY <1>4, <1>5 DEF td
  <2>2. BsFirst(td, A[y].bs, y)
    BY <1>5 DEF td
  <2>3. A[y].start = 0 /\ A[y].children = UsedIn(part, y)
    BY <1>3, <1>6, <1>10
  <2> QED
    BY <2>1, <2>2, <2>3 DEF DiskRead
<1>17. ExactOK(s, disk, part)
  BY <1>2, <1>3, <1>11, <1>15, <1>16 DEF ExactOK
<1> QED
  BY <1>14, <1>17 DEF ReaderOK

-----------------------------------------------------------------------------
(* Disks: the steps.                                                       *)

\* A new command has read nothing.
NewReader(op, d, p, reads) ==
  [op |-> op, disk |-> d, part |-> p, todo |-> reads,
   ans |-> [x \in DiskName \cup PartName |-> Nothing], devs |-> {},
   clean |-> TRUE, bad |-> FALSE, res |-> "none"]

NewForm(s, op, d, p, reads) ==
  /\ s \in ReaderRec /\ s.op = op /\ s.disk = d /\ s.part = p /\ s.todo = reads
  /\ s.devs = {} /\ s.clean = TRUE /\ s.res = "none"
  /\ \A x \in Device : s.ans[x] = Nothing

LEMMA NewReaderForm ==
  ASSUME NEW op \in {"disk", "part", "list", "protect"}, NEW d \in Device \cup {NoDisk},
         NEW p \in PartName \cup {NoDisk}, NEW reads \in Seq(What \X (Device \cup {NoDisk}))
  PROVE  NewForm(NewReader(op, d, p, reads), op, d, p, reads)
<1> DEFINE A == [x \in Device |-> Nothing]
           s == NewReader(op, d, p, reads)
<1>1. Nothing \in Ans
  BY DEF Nothing, Ans
<1>2. A \in [Device -> Ans] /\ \A x \in Device : A[x] = Nothing
  BY <1>1
<1>3. s = [op |-> op, disk |-> d, part |-> p, todo |-> reads, ans |-> A, devs |-> {},
           clean |-> TRUE, bad |-> FALSE, res |-> "none"]
  BY DEF NewReader, Device
<1> HIDE DEF A, s
<1>4. /\ s.op = op /\ s.disk = d /\ s.part = p /\ s.todo = reads
      /\ s.devs = {} /\ s.clean = TRUE /\ s.res = "none" /\ s.ans = A
  BY <1>3
<1>5. s \in ReaderRec
  BY <1>2, <1>3 DEF ReaderRec
<1> QED
  BY <1>2, <1>4, <1>5 DEF NewForm, s

LEMMA NewDiskInfo ==
  ASSUME NEW d \in Device
  PROVE  ReaderOK(NewReader("disk", d, NoDisk, DiskInfoReads(d)), disk, part)
<1> DEFINE t == DiskInfoReads(d)
           s == NewReader("disk", d, NoDisk, t)
<1>1. /\ t[1] = <<"stat", d>> /\ t[2] = <<"lsblk", d>> /\ t[3] = <<"bs", d>> /\ t[4] = <<"size", d>>
      /\ t[5] = <<"parted", d>> /\ Len(t) = 5
  BY DEF DiskInfoReads
<1>2. t \in Seq(What \X (Device \cup {NoDisk}))
  BY DEF DiskInfoReads, What
<1> HIDE DEF t
<1>s. s = NewReader("disk", d, NoDisk, t)
  OBVIOUS
<1> HIDE DEF s
<1>3. /\ s \in ReaderRec /\ s.op = "disk" /\ s.disk = d /\ s.part = NoDisk /\ s.todo = t
      /\ s.devs = {} /\ s.clean = TRUE /\ s.res = "none" /\ \A x \in Device : s.ans[x] = Nothing
  <2>1. "disk" \in {"disk", "part", "list", "protect"} /\ d \in Device \cup {NoDisk} /\ NoDisk \in PartName \cup {NoDisk}
    OBVIOUS
  <2>2. NewForm(NewReader("disk", d, NoDisk, t), "disk", d, NoDisk, t)
    BY <1>2, <2>1, NewReaderForm
  <2> QED
    BY <1>s, <2>2 DEF NewForm
<1>4. \A i \in 1 .. 5 : i = 1 \/ i = 2 \/ i = 3 \/ i = 4 \/ i = 5
  OBVIOUS
<1>5. ReadsOf(s) = {"stat", "lsblk", "bs", "size", "parted"} \X {d}
  BY <1>3, ReadsOfOps
<1>6. ASSUME NEW i \in 1 .. 5 PROVE t[i] \in ReadsOf(s)
  BY <1>1, <1>4, <1>5, <1>6
<1>7. FormOK(s)
  BY <1>1, <1>3, <1>6 DEF FormOK
<1>8. Pending(t, "lsblk", d) /\ Pending(t, "size", d) /\ Pending(t, "parted", d)
  <2>1. 2 \in 1 .. 5 /\ 4 \in 1 .. 5 /\ 5 \in 1 .. 5
    OBVIOUS
  <2> QED
    BY <1>1, <2>1 DEF Pending
<1>9. BsFirst(t, 0, d)
  <2> SUFFICES ASSUME NEW i \in 1 .. 5, t[i] = <<"size", d>>
               PROVE  \E j \in 1 .. 5 : j < i /\ t[j] = <<"bs", d>>
    BY <1>1 DEF BsFirst
  <2>1. i = 4
    BY <1>1, <1>4
  <2>2. 3 \in 1 .. 5 /\ 3 < i
    BY <2>1
  <2> QED
    BY <1>1, <2>2
<1>10. s.ans[d].start = 0 /\ s.ans[d].bs = 0
  BY <1>3 DEF Nothing
<1>11. DiskRead(t, s.ans[d], disk, part, d)
  BY <1>8, <1>9, <1>10 DEF DiskRead
<1>12. ExactOK(s, disk, part)
  BY <1>3, <1>11 DEF ExactOK, Targets
<1> QED
  BY <1>7, <1>12 DEF ReaderOK, s, t

LEMMA NewPartInfo ==
  ASSUME NEW d \in DiskName, NEW p \in PartName
  PROVE  ReaderOK(NewReader("part", d, p, PartInfoReads(d, p)), disk, part)
<1> DEFINE t == PartInfoReads(d, p)
           s == NewReader("part", d, p, t)
<1> USE DEF Device
<1>1. /\ t[1] = <<"stat", d>> /\ t[2] = <<"stat", p>> /\ t[3] = <<"lsblk", p>> /\ t[4] = <<"bs", d>>
      /\ t[5] = <<"start", p>> /\ t[6] = <<"psize", p>> /\ Len(t) = 6
  BY DEF PartInfoReads
<1>2. t \in Seq(What \X (Device \cup {NoDisk}))
  BY DEF PartInfoReads, What
<1> HIDE DEF t
<1>s. s = NewReader("part", d, p, t)
  OBVIOUS
<1> HIDE DEF s
<1>3. /\ s \in ReaderRec /\ s.op = "part" /\ s.disk = d /\ s.part = p /\ s.todo = t
      /\ s.devs = {} /\ s.clean = TRUE /\ s.res = "none"
  <2> HIDE DEF Device
  <2>1. "part" \in {"disk", "part", "list", "protect"} /\ d \in Device \cup {NoDisk} /\ p \in PartName \cup {NoDisk}
    BY DEF Device
  <2>2. NewForm(NewReader("part", d, p, t), "part", d, p, t)
    BY <1>2, <2>1, NewReaderForm
  <2> QED
    BY <1>s, <2>2 DEF NewForm
<1>4. \A i \in 1 .. 6 : i = 1 \/ i = 2 \/ i = 3 \/ i = 4 \/ i = 5 \/ i = 6
  OBVIOUS
<1>5. ReadsOf(s) = ({"stat", "bs"} \X {d}) \cup ({"stat", "lsblk", "start", "psize"} \X {p})
  BY <1>3, ReadsOfOps
<1>6. ASSUME NEW i \in 1 .. 6 PROVE t[i] \in ReadsOf(s)
  <2>1. t[1] \in ReadsOf(s) /\ t[2] \in ReadsOf(s) /\ t[3] \in ReadsOf(s)
    BY <1>1, <1>5
  <2>2. t[4] \in ReadsOf(s) /\ t[5] \in ReadsOf(s) /\ t[6] \in ReadsOf(s)
    BY <1>1, <1>5
  <2> HIDE DEF ReadsOf
  <2> QED
    BY <1>4, <1>6, <2>1, <2>2
<1>7. FormOK(s)
  BY <1>1, <1>3, <1>6 DEF FormOK
<1>8. Pending(t, "start", p) /\ Pending(t, "psize", p)
  <2>1. 5 \in 1 .. 6 /\ 6 \in 1 .. 6
    OBVIOUS
  <2> QED
    BY <1>1, <2>1 DEF Pending
<1>9. PartRead(t, s.ans[p], part, p)
  BY <1>8 DEF PartRead
<1>10. ExactOK(s, disk, part)
  BY <1>3, <1>9 DEF ExactOK, Targets
<1> QED
  BY <1>7, <1>10 DEF ReaderOK, s, t

LEMMA NewList ==
  ASSUME NEW op \in {"list", "protect"}, NEW p \in PartName \cup {NoDisk}
  PROVE  ReaderOK(NewReader(op, NoDisk, p, <<<<"ls", NoDisk>>>>), disk, part)
<1> DEFINE t == <<<<"ls", NoDisk>>>>
           s == NewReader(op, NoDisk, p, t)
<1>1. t[1] = <<"ls", NoDisk>> /\ Len(t) = 1
  OBVIOUS
<1>2. t \in Seq(What \X (Device \cup {NoDisk}))
  BY DEF What
<1> HIDE DEF t
<1>s. s = NewReader(op, NoDisk, p, t)
  OBVIOUS
<1> HIDE DEF s
<1>3. /\ s \in ReaderRec /\ s.op = op /\ s.disk = NoDisk /\ s.part = p /\ s.todo = t
      /\ s.devs = {} /\ s.clean = TRUE /\ s.res = "none"
  <2>1. op \in {"disk", "part", "list", "protect"} /\ NoDisk \in Device \cup {NoDisk}
    OBVIOUS
  <2>2. NewForm(NewReader(op, NoDisk, p, t), op, NoDisk, p, t)
    BY <1>2, <2>1, NewReaderForm
  <2> QED
    BY <1>s, <2>2 DEF NewForm
<1>4. <<"ls", NoDisk>> \in ReadsOf(s)
  BY <1>3, ReadsOfOps
<1>5. FormOK(s)
  <2>1. \A i \in 1 .. Len(t) : t[i] \in ReadsOf(s)
    <3>1. \A i \in 1 .. Len(t) : i = 1
      BY <1>1
    <3> QED
      BY <1>1, <1>4, <3>1
  <2> QED
    BY <1>3, <2>1 DEF FormOK
<1>6. ExactOK(s, disk, part)
  BY <1>3 DEF ExactOK, Targets
<1> QED
  BY <1>5, <1>6 DEF ReaderOK, s, t

\* What changes under a command only disturbs it.
LEMMA DisturbKeeps ==
  ASSUME DiskIInv, Disturb, NEW c \in DiskReader
  PROVE  DOMAIN reader' = DiskReader /\ ReaderOK(reader[c], disk, part)'
<1>1. DOMAIN reader' = DiskReader
  BY DEF Disturb
<1>2. reader'[c] = IF reader[c] = NoReader THEN NoReader ELSE [reader[c] EXCEPT !.clean = FALSE]
  BY DEF Disturb
<1>3. CASE reader[c] = NoReader
  BY <1>1, <1>2, <1>3 DEF ReaderOK
<1>4. CASE reader[c] # NoReader
  <2> DEFINE r == reader[c]
             s == reader'[c]
  <2>1. FormOK(r) /\ r \in ReaderRec
    BY <1>4 DEF DiskIInv, ReaderOK, FormOK
  <2>2. s = [r EXCEPT !.clean = FALSE]
    BY <1>2, <1>4
  <2> HIDE DEF r, s
  <2>3. /\ s \in ReaderRec /\ s.op = r.op /\ s.disk = r.disk /\ s.part = r.part /\ s.todo = r.todo
        /\ s.devs = r.devs /\ s.clean = FALSE /\ s.res = r.res
    BY <2>1, <2>2 DEF ReaderRec
  <2>4. r.op \in {"disk", "part", "list", "protect"}
    BY <2>1 DEF ReaderRec
  <2>5. ReadsOf(s) = ReadsOf(r)
    BY <2>3 DEF ReadsOf
  <2>6. FormOK(s)
    BY <2>1, <2>3, <2>5 DEF FormOK
  <2> QED
    BY <1>1, <2>3, <2>6 DEF ReaderOK, s
<1> QED
  BY <1>3, <1>4

\* One command moves, the kernel does not.
LEMMA OneReader ==
  ASSUME DiskIInv, NEW c \in DiskReader, NEW s, reader' = [reader EXCEPT ![c] = s],
         ReaderOK(s, disk, part), UNCHANGED <<disk, part>>
  PROVE  DiskIInv'
<1>1. DOMAIN reader' = DiskReader /\ reader'[c] = s
  BY DEF DiskIInv
<1>2. \A b \in DiskReader : b # c => reader'[b] = reader[b]
  BY DEF DiskIInv
<1>3. disk' = disk /\ part' = part
  OBVIOUS
<1>4. ASSUME NEW b \in DiskReader PROVE ReaderOK(reader'[b], disk, part)
  <2>1. CASE b = c
    BY <1>1, <2>1
  <2>2. CASE b # c
    BY <1>2, <2>2 DEF DiskIInv
  <2> QED
    BY <2>1, <2>2
<1> HIDE DEF ReaderOK, KernelOK
<1>5. KernelOK(disk, part)' /\ \A b \in DiskReader : ReaderOK(reader[b], disk, part)'
  BY <1>3, <1>4 DEF DiskIInv
<1> QED
  BY <1>1, <1>5 DEF DiskIInv

\* The kernel keeps its own side.
LEMMA PlugIInv ==
  ASSUME DiskIInv, NEW d \in DiskName, Plug(d)
  PROVE  DiskIInv'
<1>1. PICK s \in 0 .. Sectors, t \in BOOLEAN : disk' = [disk EXCEPT ![d] = [here |-> TRUE, size |-> s, table |-> t]]
  BY DEF Plug
<1>2. part' = part /\ ~disk[d].here /\ Disturb
  BY DEF Plug
<1>3. KernelOK(disk, part)
  BY DEF DiskIInv
<1>4. [here |-> TRUE, size |-> s, table |-> t] \in [here : BOOLEAN, size : 0 .. Sectors, table : BOOLEAN]
  OBVIOUS
<1>5. disk' \in [DiskName -> [here : BOOLEAN, size : 0 .. Sectors, table : BOOLEAN]]
  BY <1>1, <1>3, <1>4 DEF KernelOK
<1>6. disk'[d].here /\ \A e \in DiskName : e # d => disk'[e] = disk[e]
  BY <1>1, <1>3 DEF KernelOK
<1>7. \A e \in DiskName : disk'[e].table => disk'[e].here
  BY <1>3, <1>6 DEF KernelOK
<1>8. ASSUME NEW p \in PartName, part[p].of # NoDisk
      PROVE  /\ disk'[part[p].of].here /\ part[p].size >= 1
             /\ part[p].start + part[p].size <= disk'[part[p].of].size
  <2>1. /\ disk[part[p].of].here /\ part[p].size >= 1 /\ part[p].of \in DiskName
        /\ part[p].start + part[p].size <= disk[part[p].of].size
    BY <1>3, <1>8 DEF KernelOK
  <2>2. part[p].of # d
    BY <1>2, <2>1
  <2> QED
    BY <1>6, <2>1, <2>2
<1>9. KernelOK(disk, part)'
  BY <1>2, <1>3, <1>5, <1>7, <1>8 DEF KernelOK
<1> QED
  BY <1>2, <1>9, DisturbKeeps DEF DiskIInv, Disturb

LEMMA UnplugIInv ==
  ASSUME DiskIInv, NEW d \in DiskName, Unplug(d)
  PROVE  DiskIInv'
<1>1. /\ disk' = [disk EXCEPT ![d] = Absent] /\ Disturb
      /\ part' = [p \in PartName |-> IF part[p].of = d THEN NoPart ELSE part[p]]
  BY DEF Unplug
<1>2. KernelOK(disk, part)
  BY DEF DiskIInv
<1>3. Absent \in [here : BOOLEAN, size : 0 .. Sectors, table : BOOLEAN] /\ ~Absent.table
  BY DiskAssumption DEF Absent
<1>4. disk' \in [DiskName -> [here : BOOLEAN, size : 0 .. Sectors, table : BOOLEAN]]
  BY <1>1, <1>2, <1>3 DEF KernelOK
<1>5. disk'[d] = Absent /\ \A e \in DiskName : e # d => disk'[e] = disk[e]
  BY <1>1, <1>2 DEF KernelOK
<1>6. \A e \in DiskName : disk'[e].table => disk'[e].here
  BY <1>2, <1>3, <1>5 DEF KernelOK
<1>7. NoPart \in [of : DiskName \cup {NoDisk}, start : Nat, size : Nat] /\ NoPart.of = NoDisk
  BY DEF NoPart
<1>8. part' \in [PartName -> [of : DiskName \cup {NoDisk}, start : Nat, size : Nat]]
  BY <1>1, <1>2, <1>7 DEF KernelOK
<1>9. ASSUME NEW p \in PartName, part'[p].of # NoDisk
      PROVE  /\ disk'[part'[p].of].here /\ part'[p].size >= 1
             /\ part'[p].start + part'[p].size <= disk'[part'[p].of].size
  <2>1. part'[p] = part[p] /\ part[p].of # d
    BY <1>1, <1>7, <1>9
  <2>2. /\ disk[part[p].of].here /\ part[p].size >= 1 /\ part[p].of \in DiskName
        /\ part[p].start + part[p].size <= disk[part[p].of].size
    BY <1>2, <1>9, <2>1 DEF KernelOK
  <2> QED
    BY <1>5, <2>1, <2>2
<1>10. KernelOK(disk, part)'
  BY <1>4, <1>6, <1>8, <1>9 DEF KernelOK
<1> QED
  BY <1>1, <1>10, DisturbKeeps DEF DiskIInv, Disturb

LEMMA MakePartIInv ==
  ASSUME DiskIInv, NEW p \in PartName, NEW d \in DiskName, MakePart(p, d)
  PROVE  DiskIInv'
<1>1. PICK s \in FreeOf(d), z \in 1 .. Sectors :
        s .. s + z - 1 \subseteq FreeOf(d) /\ part' = [part EXCEPT ![p] = [of |-> d, start |-> s, size |-> z]]
  BY DEF MakePart
<1>2. disk' = disk /\ disk[d].table /\ Disturb
  BY DEF MakePart
<1>3. KernelOK(disk, part)
  BY DEF DiskIInv
<1>4. disk[d].size \in Nat /\ disk[d].here
  BY <1>2, <1>3, DiskAssumption DEF KernelOK
<1>5. FreeOf(d) \subseteq 0 .. disk[d].size - 1
  BY DEF FreeOf
<1>6. s \in Nat /\ z \in Nat /\ z >= 1 /\ s + z <= disk[d].size
  <2>1. s \in Nat /\ z \in Nat /\ z >= 1
    BY <1>4, <1>5, DiskAssumption
  <2>2. s + z - 1 \in s .. s + z - 1
    BY <2>1
  <2>3. s + z - 1 \in 0 .. disk[d].size - 1
    BY <1>1, <1>5, <2>2
  <2> QED
    BY <1>4, <2>1, <2>3
<1>7. [of |-> d, start |-> s, size |-> z] \in [of : DiskName \cup {NoDisk}, start : Nat, size : Nat]
  BY <1>6
<1>8. part' \in [PartName -> [of : DiskName \cup {NoDisk}, start : Nat, size : Nat]]
  BY <1>1, <1>3, <1>7 DEF KernelOK
<1>9. /\ part'[p].of = d /\ part'[p].start = s /\ part'[p].size = z
      /\ \A q \in PartName : q # p => part'[q] = part[q]
  BY <1>1, <1>3 DEF KernelOK
<1>10. ASSUME NEW q \in PartName, part'[q].of # NoDisk
       PROVE  /\ disk[part'[q].of].here /\ part'[q].size >= 1
              /\ part'[q].start + part'[q].size <= disk[part'[q].of].size
  <2>1. CASE q = p
    BY <1>4, <1>6, <1>9, <2>1
  <2>2. CASE q # p
    BY <1>3, <1>9, <1>10, <2>2 DEF KernelOK
  <2> QED
    BY <2>1, <2>2
<1>11. KernelOK(disk, part)'
  BY <1>2, <1>3, <1>8, <1>10 DEF KernelOK
<1> QED
  BY <1>2, <1>11, DisturbKeeps DEF DiskIInv, Disturb

LEMMA DeletePartIInv ==
  ASSUME DiskIInv, NEW p \in PartName, DeletePart(p)
  PROVE  DiskIInv'
<1>1. part' = [part EXCEPT ![p] = NoPart] /\ disk' = disk /\ Disturb
  BY DEF DeletePart
<1>2. KernelOK(disk, part)
  BY DEF DiskIInv
<1>3. NoPart \in [of : DiskName \cup {NoDisk}, start : Nat, size : Nat] /\ NoPart.of = NoDisk
  BY DEF NoPart
<1>4. part' \in [PartName -> [of : DiskName \cup {NoDisk}, start : Nat, size : Nat]]
  BY <1>1, <1>2, <1>3 DEF KernelOK
<1>5. \A q \in PartName : part'[q] = NoPart \/ part'[q] = part[q]
  BY <1>1, <1>2 DEF KernelOK
<1>6. ASSUME NEW q \in PartName, part'[q].of # NoDisk
      PROVE  /\ disk[part'[q].of].here /\ part'[q].size >= 1
             /\ part'[q].start + part'[q].size <= disk[part'[q].of].size
  <2>1. part'[q] = part[q]
    BY <1>3, <1>5, <1>6
  <2> QED
    BY <1>2, <1>6, <2>1 DEF KernelOK
<1>7. KernelOK(disk, part)'
  BY <1>1, <1>2, <1>4, <1>6 DEF KernelOK
<1> QED
  BY <1>1, <1>7, DisturbKeeps DEF DiskIInv, Disturb

LEMMA InfoIInv ==
  ASSUME DiskIInv, NEW c \in DiskReader, Info(c)
  PROVE  DiskIInv'
<1>1. CASE \E d \in DiskName \cup PartName : Command(c, "disk", d, NoDisk, DiskInfoReads(d))
  <2>1. PICK d \in Device : Command(c, "disk", d, NoDisk, DiskInfoReads(d))
    BY <1>1 DEF Device
  <2>2. reader' = [reader EXCEPT ![c] = NewReader("disk", d, NoDisk, DiskInfoReads(d))]
    BY <2>1 DEF Command, NewReader
  <2> QED
    BY <2>2, NewDiskInfo, OneReader DEF Info
<1>2. CASE \E d \in DiskName, p \in PartName : Command(c, "part", d, p, PartInfoReads(d, p))
  <2>1. PICK d \in DiskName, p \in PartName : Command(c, "part", d, p, PartInfoReads(d, p))
    BY <1>2
  <2>2. reader' = [reader EXCEPT ![c] = NewReader("part", d, p, PartInfoReads(d, p))]
    BY <2>1 DEF Command, NewReader
  <2> QED
    BY <2>2, NewPartInfo, OneReader DEF Info
<1> QED
  BY <1>1, <1>2 DEF Info

LEMMA DiskListIInv ==
  ASSUME DiskIInv, NEW c \in DiskReader, DiskList(c)
  PROVE  DiskIInv'
<1>1. \E op \in {"list", "protect"}, p \in PartName \cup {NoDisk} : Command(c, op, NoDisk, p, <<<<"ls", NoDisk>>>>)
  BY DEF DiskList
<1>2. PICK op \in {"list", "protect"}, p \in PartName \cup {NoDisk} :
        Command(c, op, NoDisk, p, <<<<"ls", NoDisk>>>>)
  BY <1>1
<1>3. reader' = [reader EXCEPT ![c] = NewReader(op, NoDisk, p, <<<<"ls", NoDisk>>>>)]
  BY <1>2 DEF Command, NewReader
<1> QED
  BY <1>3, NewList, OneReader DEF DiskList

LEMMA ReadStepIInv ==
  ASSUME DiskIInv, NEW c \in DiskReader, ReadStep(c)
  PROVE  DiskIInv'
<1> DEFINE r == reader[c]
           w == Head(r.todo)[1]
           x == Head(r.todo)[2]
           ls == [r EXCEPT !.devs = Listed,
                           !.ans = [y \in DOMAIN r.ans |-> IF y \in DiskName THEN [Nothing EXCEPT !.children = UsedOf(y)] ELSE Nothing],
                           !.todo = ListTodo(SetToSeq(Listed))]
           one == [r EXCEPT !.todo = Tail(@), !.ans[x] = ReadInto(@, w, x),
                            !.devs = @ \cup (IF w \in {"size", "psize"} THEN {x} ELSE {})]
<1>1. /\ r # NoReader /\ r.todo # <<>> /\ Finds(r, w, x) /\ UNCHANGED <<disk, part>>
      /\ reader' = [reader EXCEPT ![c] = IF w = "ls" THEN ls ELSE one]
  BY DEF ReadStep
<1>2. KernelOK(disk, part) /\ FormOK(r) /\ (r.clean => ExactOK(r, disk, part))
  BY <1>1 DEF DiskIInv, ReaderOK
<1>3. Head(r.todo) = <<w, x>>
  <2>1. r.todo \in Seq(What \X (Device \cup {NoDisk}))
    BY <1>2 DEF FormOK, ReaderRec
  <2>2. Head(r.todo) \in What \X (Device \cup {NoDisk})
    BY <1>1, <2>1, HeadTailProperties
  <2> QED
    BY <2>2
<1>4. CASE w = "ls"
  <2>1. ReaderOK(ls, disk, part)
    <3> HIDE DEF r, x
    <3> QED
      BY <1>1, <1>2, <1>3, <1>4, ReadList DEF w
  <2>2. reader' = [reader EXCEPT ![c] = ls]
    BY <1>1, <1>4
  <2> HIDE DEF ls
  <2> QED
    BY <1>1, <2>1, <2>2, OneReader
<1>5. CASE w # "ls"
  <2>1. ReaderOK(one, disk, part)
    <3> HIDE DEF r, x, w
    <3> QED
      BY <1>1, <1>2, <1>3, <1>5, ReadOne
  <2>2. reader' = [reader EXCEPT ![c] = one]
    BY <1>1, <1>5
  <2> HIDE DEF one
  <2> QED
    BY <1>1, <2>1, <2>2, OneReader
<1> QED
  BY <1>4, <1>5

LEMMA ReadFailsIInv ==
  ASSUME DiskIInv, NEW c \in DiskReader, ReadFails(c)
  PROVE  DiskIInv'
<1> DEFINE r == reader[c]
           w == Head(r.todo)[1]
           x == Head(r.todo)[2]
           none == [r EXCEPT !.todo = <<>>, !.res = "failed",
                             !.bad = \/ w = "parted" /\ IsDisk(x)
                                     \/ r.op = "disk" /\ ~IsDisk(x)
                                     \/ r.op = "part" /\ ~(IsDisk(r.disk) /\ part[r.part].of = r.disk)]
<1>1. /\ r # NoReader /\ r.todo # <<>> /\ ~Finds(r, w, x) /\ UNCHANGED <<disk, part>>
      /\ reader' = [reader EXCEPT ![c] = none]
  BY DEF ReadFails
<1>2. KernelOK(disk, part) /\ FormOK(r) /\ (r.clean => ExactOK(r, disk, part))
  BY <1>1 DEF DiskIInv, ReaderOK
<1>3. Head(r.todo) = <<w, x>>
  <2>1. r.todo \in Seq(What \X (Device \cup {NoDisk}))
    BY <1>2 DEF FormOK, ReaderRec
  <2>2. Head(r.todo) \in What \X (Device \cup {NoDisk})
    BY <1>1, <2>1, HeadTailProperties
  <2> QED
    BY <2>2
<1>4. ReaderOK(none, disk, part)
  <2> HIDE DEF r, x, w
  <2> QED
    BY <1>1, <1>2, <1>3, ReadNone
<1> HIDE DEF none
<1> QED
  BY <1>1, <1>4, OneReader

LEMMA ReadAllIInv ==
  ASSUME DiskIInv, NEW c \in DiskReader, ReadAll(c)
  PROVE  DiskIInv'
<1> DEFINE r == reader[c]
<1>1. r # NoReader /\ r.todo = <<>> /\ r.res = "none" /\ UNCHANGED <<disk, part>>
  BY DEF ReadAll
<1>2. PICK v \in {"ok", "failed"} :
        reader' = [reader EXCEPT ![c].res = v] /\ (v = "failed" => r.op = "protect")
  BY DEF ReadAll
<1> DEFINE s == [r EXCEPT !.res = v]
<1>3. reader' = [reader EXCEPT ![c] = s]
  BY <1>2
<1>4. FormOK(r) /\ (r.clean => ExactOK(r, disk, part)) /\ r \in ReaderRec
  BY <1>1 DEF DiskIInv, ReaderOK, FormOK
<1> HIDE DEF r
<1>5. /\ s \in ReaderRec /\ s.op = r.op /\ s.disk = r.disk /\ s.part = r.part /\ s.todo = r.todo /\ s.ans = r.ans
      /\ s.devs = r.devs /\ s.clean = r.clean /\ s.bad = r.bad /\ s.res = v
  BY <1>4 DEF ReaderRec
<1> HIDE DEF s
<1>6. ReadsOf(s) = ReadsOf(r) /\ Targets(s) = Targets(r)
  BY <1>5 DEF ReadsOf, Targets
<1>7. FormOK(s)
  BY <1>1, <1>4, <1>5, <1>6 DEF FormOK
<1>8. r.clean => ExactOK(s, disk, part)
  <2> HIDE DEF DiskRead, PartRead
  <2> QED
    BY <1>1, <1>2, <1>4, <1>5, <1>6 DEF ExactOK
<1>9. ReaderOK(s, disk, part)
  BY <1>5, <1>7, <1>8 DEF ReaderOK
<1> QED
  BY <1>1, <1>3, <1>9, OneReader

LEMMA DiskAnswerIInv ==
  ASSUME DiskIInv, NEW c \in DiskReader, DiskAnswer(c)
  PROVE  DiskIInv'
<1>1. ReaderOK(NoReader, disk, part)
  BY DEF ReaderOK
<1> QED
  BY <1>1, OneReader DEF DiskAnswer

LEMMA DiskIdleIInv ==
  ASSUME DiskIInv, UNCHANGED <<disk, part, reader>>
  PROVE  DiskIInv'
BY DEF DiskIInv, ReaderOK, FormOK, ExactOK, KernelOK, DiskRead, PartRead, DiskIn, PartIn, UsedIn, FreeIn, Targets

LEMMA DiskNextIInv == DiskIInv /\ [DiskNext \/ MountNext]_diskVars => DiskIInv'
<1> SUFFICES ASSUME DiskIInv, [DiskNext \/ MountNext]_diskVars PROVE DiskIInv'
  OBVIOUS
<1>1. CASE DiskNext
  <2>1. ASSUME NEW d \in DiskName, Plug(d) \/ Unplug(d) \/ \E p \in PartName : MakePart(p, d) PROVE DiskIInv'
    BY <2>1, PlugIInv, UnplugIInv, MakePartIInv
  <2>2. ASSUME NEW c \in DiskReader,
               Info(c) \/ DiskList(c) \/ ReadStep(c) \/ ReadFails(c) \/ ReadAll(c) \/ DiskAnswer(c)
        PROVE  DiskIInv'
    BY <2>2, InfoIInv, DiskListIInv, ReadStepIInv, ReadFailsIInv, ReadAllIInv, DiskAnswerIInv
  <2> QED
    BY <1>1, <2>1, <2>2, DeletePartIInv DEF DiskNext
<1>2. CASE MountNext
  BY <1>2, DiskIdleIInv DEF MountNext, MountChange, Mounts
<1>3. CASE UNCHANGED diskVars
  BY <1>3, DiskIdleIInv DEF diskVars
<1> QED
  BY <1>1, <1>2, <1>3

-----------------------------------------------------------------------------
(* Disks: the answers.                                                     *)

\* A number below the modulus is kept.
LEMMA SmallRemainder ==
  ASSUME NEW m \in Nat, m > 0, NEW a \in 0 .. m - 1
  PROVE  (a + m) % m = a
OBVIOUS

\* The last byte: of what ends within the largest disk, and of nothing.
LEMMA EndOf ==
  ASSUME NEW f \in Nat, NEW z \in Nat, f + z <= Sectors
  PROVE  /\ z # 0 => End(f * BlockSize, z * BlockSize) = (f + z) * BlockSize - 1
         /\ f = 0 /\ z = 0 => End(f * BlockSize, z * BlockSize) = Wrap - 1
<1> DEFINE e == (f + z) * BlockSize
<1>1. BlockSize \in Nat /\ BlockSize >= 1 /\ Wrap \in Nat /\ Sectors \in Nat
  BY DiskAssumption
<1>2. Sectors * BlockSize \in Nat /\ Wrap > 2 * Sectors * BlockSize /\ 2 * Sectors * BlockSize = 2 * (Sectors * BlockSize)
  BY <1>1, DiskAssumption
<1>3. e \in Nat /\ f * BlockSize \in Nat /\ z * BlockSize \in Nat /\ e = f * BlockSize + z * BlockSize
  BY <1>1
<1>4. e <= Sectors * BlockSize
  <2>1. PICK k \in Nat : Sectors = (f + z) + k
    <3>1. Sectors - (f + z) \in Nat /\ Sectors = (f + z) + (Sectors - (f + z))
      BY <1>1
    <3> QED
      BY <3>1
  <2>2. k * BlockSize \in Nat /\ Sectors * BlockSize = e + k * BlockSize
    BY <1>1, <2>1
  <2> QED
    BY <1>2, <1>3, <2>2
<1>5. End(f * BlockSize, z * BlockSize) = (e + Wrap - 1) % Wrap
  BY <1>3 DEF End
<1>6. ASSUME z # 0 PROVE e - 1 \in 0 .. Wrap - 1
  <2>1. e >= 1
    BY <1>1, <1>6
  <2> HIDE DEF e
  <2> QED
    BY <1>1, <1>2, <1>3, <1>4, <2>1
<1>7. ASSUME z # 0 PROVE End(f * BlockSize, z * BlockSize) = e - 1
  <2> HIDE DEF e
  <2>1. e + Wrap - 1 = (e - 1) + Wrap
    BY <1>1, <1>3
  <2>2. ((e - 1) + Wrap) % Wrap = e - 1
    BY <1>1, <1>2, <1>6, <1>7, SmallRemainder
  <2> QED
    BY <1>5, <2>1, <2>2
<1>8. ASSUME f = 0, z = 0 PROVE End(f * BlockSize, z * BlockSize) = Wrap - 1
  <2>1. e = 0
    BY <1>1, <1>8
  <2>2. Wrap > 0
    BY <1>1, <1>2
  <2> HIDE DEF e
  <2>3. (0 + Wrap - 1) % Wrap = Wrap - 1
    BY <1>1, <2>2
  <2> QED
    BY <1>5, <2>1, <2>3
<1> QED
  BY <1>7, <1>8

\* The answer about one device.
LEMMA OneIsExact ==
  ASSUME DiskIInv, NEW c \in DiskReader, Ended(c, "ok"), reader[c].clean, NEW x \in reader[c].devs
  PROVE  LET a == reader[c].ans[x]
             first == IF x \in PartName THEN part[x].start ELSE 0
             sectors == IF x \in PartName THEN part[x].size ELSE disk[x].size IN
         /\ a.start = first * BlockSize /\ a.size = sectors * BlockSize
         /\ IF sectors = 0 THEN End(a.start, a.size) = Wrap - 1
            ELSE End(a.start, a.size) = (first + sectors) * BlockSize - 1
         /\ x \in DiskName => a.free \cap a.children = {} /\ a.free \cup a.children = 0 .. sectors - 1
<1> DEFINE r == reader[c]
<1>1. FormOK(r) /\ ExactOK(r, disk, part) /\ r.todo = <<>> /\ r.res = "ok" /\ KernelOK(disk, part)
  <2>1. r # NoReader /\ r.res = "ok" /\ ReaderOK(r, disk, part) /\ r.clean /\ KernelOK(disk, part)
    BY DEF Ended, DiskIInv
  <2> HIDE DEF r
  <2>2. FormOK(r) /\ ExactOK(r, disk, part)
    BY <2>1 DEF ReaderOK
  <2>3. r.todo = <<>>
    BY <2>1, <2>2 DEF FormOK
  <2> QED
    BY <2>1, <2>2, <2>3
<1>2. r.op \in {"disk", "part", "list", "protect"} /\ x \in r.devs
  BY <1>1 DEF FormOK, ReaderRec
<1> HIDE DEF r
<1>3. \A w : ~Pending(r.todo, w, x)
  BY <1>1 DEF Pending
<1>4. BlockSize \in Nat /\ Sectors \in Nat /\ DiskName \cap PartName = {} /\ NoDisk \notin DiskName
  BY DiskAssumption
<1>5. CASE r.op = "part"
  <2>1. x = r.part /\ x \in PartName /\ x \notin DiskName
    BY <1>1, <1>2, <1>4, <1>5 DEF FormOK
  <2>2. PartRead(r.todo, r.ans[x], part, x)
    BY <1>1, <1>5, <2>1 DEF ExactOK
  <2>3. r.ans[x].start = part[x].start * BlockSize /\ r.ans[x].size = part[x].size * BlockSize /\ part[x].of # NoDisk
    BY <1>3, <2>2 DEF PartRead, PartIn
  <2>4. /\ part[x].start \in Nat /\ part[x].size \in Nat /\ part[x].size >= 1 /\ part[x].of \in DiskName
        /\ part[x].start + part[x].size <= disk[part[x].of].size /\ disk[part[x].of].size \in 0 .. Sectors
    BY <1>1, <2>1, <2>3 DEF KernelOK
  <2>5. part[x].start + part[x].size <= Sectors /\ part[x].size # 0
    BY <1>4, <2>4
  <2>6. End(r.ans[x].start, r.ans[x].size) = (part[x].start + part[x].size) * BlockSize - 1
    BY <2>3, <2>4, <2>5, EndOf
  <2> QED
    BY <2>1, <2>3, <2>5, <2>6 DEF r
<1>6. CASE r.op # "part"
  <2>1. x \in Targets(r)
    BY <1>1, <1>2, <1>6 DEF Targets, FormOK
  <2>2. DiskRead(r.todo, r.ans[x], disk, part, x)
    BY <1>1, <2>1 DEF ExactOK
  <2>3. /\ r.ans[x].start = 0 /\ DiskIn(disk, x) /\ r.ans[x].size = disk[x].size * BlockSize
        /\ r.ans[x].children = UsedIn(part, x) /\ r.ans[x].free = FreeIn(disk, part, x)
    BY <1>3, <2>2 DEF DiskRead
  <2>4. x \in DiskName /\ x \notin PartName
    BY <1>4, <2>3 DEF DiskIn
  <2>5. disk[x].size \in Nat /\ disk[x].size <= Sectors
    BY <1>1, <1>4, <2>4 DEF KernelOK
  <2>6. 0 * BlockSize = 0 /\ 0 + disk[x].size = disk[x].size
    BY <1>4, <2>5
  <2>7. /\ disk[x].size # 0 => End(0, disk[x].size * BlockSize) = (0 + disk[x].size) * BlockSize - 1
        /\ disk[x].size = 0 => End(0, disk[x].size * BlockSize) = Wrap - 1
    BY <2>5, <2>6, EndOf
  <2>8. UsedIn(part, x) \subseteq 0 .. disk[x].size - 1
    BY <1>1, <2>4, UsedIsInside
  <2>9. /\ r.ans[x].free \cap r.ans[x].children = {}
        /\ r.ans[x].free \cup r.ans[x].children = 0 .. disk[x].size - 1
    BY <2>3, <2>8 DEF FreeIn
  <2> QED
    BY <2>3, <2>4, <2>6, <2>7, <2>9 DEF r
<1> QED
  BY <1>5, <1>6

LEMMA DiskIInvAnswers == DiskIInv => DisksAreAnswered
<1> SUFFICES ASSUME DiskIInv PROVE DisksAreAnswered
  OBVIOUS
<1>1. InfoIsExact
  BY OneIsExact DEF InfoIsExact
<1>2. ASSUME NEW c \in DiskReader, Ended(c, "failed"), reader[c].op # "protect", reader[c].clean PROVE reader[c].bad
  BY <1>2 DEF DiskIInv, ReaderOK, ExactOK, Ended
<1> QED
  BY <1>1, <1>2 DEF DisksAreAnswered, FailsOnlyOnChange

\* disk.getinfo and disk.list (disk.go), put together from several reads
\* while disks and partitions come and go, for any number of disks, partitions
\* and commands: an answer during which nothing changed is exact in every number
\* it gives, the end that wraps for an empty disk included, and a command that
\* fails was disturbed or was asked for what is not there.
THEOREM DisksAnswered == DiskSpec => []DisksAreAnswered
<1>1. DiskInit => DiskIInv
  BY DiskInitIInv
<1>2. DiskIInv /\ [DiskNext \/ MountNext]_diskVars => DiskIInv'
  BY DiskNextIInv
<1>3. DiskIInv => DisksAreAnswered
  BY DiskIInvAnswers
<1> QED
  BY <1>1, <1>2, <1>3, PTL DEF DiskSpec

-----------------------------------------------------------------------------
(* Btrfs.                                                                  *)

\* A command that lists subvolumes has read no quota before the qgroups, and then
\* the limits of the ids it had read before.
WorkerOK(r) ==
  \/ r = NoWorker
  \/ r \in [pc : {"limit"}, v : Volume, q : Quota]
  \/ /\ r \in [pc : {"qgroups", "listed"}, ids : [Volume -> Nat], failed : BOOLEAN,
              quota : [Volume -> Nat], seen : [1 .. MaxId -> Nat]]
     /\ r.pc = "qgroups" => ~r.failed /\ \A v \in Volume : r.quota[v] = 0
     /\ r.pc = "listed" => \A v \in Volume :
          /\ r.quota[v] # 0 => r.ids[v] # 0 /\ r.quota[v] = r.seen[r.ids[v]]
          /\ ~r.failed /\ r.ids[v] # 0 => r.quota[v] = r.seen[r.ids[v]]
     /\ \A v \in Volume : r.ids[v] \in 0 .. MaxId

BtrfsIInv ==
  /\ wiped = {}
  /\ nextId \in 1 .. MaxId + 1 /\ volume \in [Volume -> 0 .. MaxId] /\ limit \in [1 .. MaxId -> Nat]
  /\ DOMAIN worker = Worker
  /\ \A w \in Worker : WorkerOK(worker[w])

LEMMA BtrfsInitIInv == BtrfsInit => BtrfsIInv
<1> SUFFICES ASSUME BtrfsInit PROVE BtrfsIInv
  OBVIOUS
<1>1. MaxId \in Nat
  BY BtrfsAssumption
<1>2. nextId \in 1 .. MaxId + 1
  BY <1>1 DEF BtrfsInit
<1>3. volume \in [Volume -> 0 .. MaxId]
  BY <1>1 DEF BtrfsInit
<1>4. limit \in [1 .. MaxId -> Nat]
  BY DEF BtrfsInit
<1>5. DOMAIN worker = Worker /\ \A w \in Worker : WorkerOK(worker[w])
  BY DEF BtrfsInit, WorkerOK
<1> QED
  BY <1>2, <1>3, <1>4, <1>5 DEF BtrfsInit, BtrfsIInv

LEMMA NotListed == ASSUME NEW r, r = NoWorker \/ r \in [pc : {"limit"}, v : Volume, q : Quota]
                   PROVE  r.pc \notin {"qgroups", "listed"}
BY DEF NoWorker

\* One command moves.
LEMMA OneWorker ==
  ASSUME BtrfsIInv, NEW w \in Worker, NEW r, worker' = [worker EXCEPT ![w] = r], WorkerOK(r)
  PROVE  DOMAIN worker' = Worker /\ \A u \in Worker : WorkerOK(worker'[u])
<1>1. DOMAIN worker' = Worker /\ worker'[w] = r /\ \A u \in Worker : u # w => worker'[u] = worker[u]
  BY DEF BtrfsIInv
<1>2. ASSUME NEW u \in Worker PROVE WorkerOK(worker'[u])
  <2>1. CASE u = w
    BY <1>1, <2>1
  <2>2. CASE u # w
    <3>1. WorkerOK(worker[u])
      BY DEF BtrfsIInv
    <3> QED
      BY <1>1, <2>2, <3>1
  <2> QED
    BY <2>1, <2>2
<1> QED
  BY <1>1, <1>2

\* The limits of the ids that were read.
LEMMA QGroupsOK ==
  ASSUME BtrfsIInv, NEW w \in Worker, SubvolListQGroups(w)
  PROVE  BtrfsIInv'
<1> DEFINE r == worker[w]
           Qu == [v \in Volume |-> IF r.ids[v] = 0 \/ GroupOf(v, r.ids[v]) = 0 THEN 0 ELSE limit[GroupOf(v, r.ids[v])]]
           read == [r EXCEPT !.pc = "listed", !.seen = limit, !.quota = Qu]
           fails == [r EXCEPT !.pc = "listed", !.failed = TRUE]
<1>1. r.pc = "qgroups" /\ WorkerOK(r) /\ limit \in [1 .. MaxId -> Nat]
  BY DEF SubvolListQGroups, BtrfsIInv
<1>2. /\ r \in [pc : {"qgroups", "listed"}, ids : [Volume -> Nat], failed : BOOLEAN,
               quota : [Volume -> Nat], seen : [1 .. MaxId -> Nat]]
      /\ ~r.failed /\ \A v \in Volume : r.quota[v] = 0 /\ r.ids[v] \in 0 .. MaxId
  <2> HIDE DEF r
  <2> QED
    BY <1>1, NotListed DEF WorkerOK
<1>3. worker' = [worker EXCEPT ![w] = read] \/ worker' = [worker EXCEPT ![w] = fails]
  BY DEF SubvolListQGroups
<1> HIDE DEF r
<1>4. \A v \in Volume : IF r.ids[v] = 0 THEN Qu[v] = 0 ELSE Qu[v] = limit[r.ids[v]]
  BY DEF GroupOf
<1>5. Qu \in [Volume -> Nat]
  <2> SUFFICES ASSUME NEW v \in Volume PROVE Qu[v] \in Nat
    OBVIOUS
  <2>0. MaxId \in Nat /\ r.ids[v] \in 0 .. MaxId
    BY <1>2, BtrfsAssumption
  <2>1. r.ids[v] = 0 \/ r.ids[v] \in 1 .. MaxId
    BY <2>0
  <2> HIDE DEF Qu
  <2>2. CASE r.ids[v] = 0
    BY <1>4, <2>2
  <2>3. CASE r.ids[v] # 0
    <3>1. limit[r.ids[v]] \in Nat
      BY <1>1, <2>1, <2>3
    <3> QED
      BY <1>4, <2>3, <3>1
  <2> QED
    BY <2>2, <2>3
<1> HIDE DEF Qu
<1>6. WorkerOK(read)
  <2>1. /\ read \in [pc : {"qgroups", "listed"}, ids : [Volume -> Nat], failed : BOOLEAN,
                     quota : [Volume -> Nat], seen : [1 .. MaxId -> Nat]]
        /\ read.pc = "listed" /\ read.ids = r.ids /\ read.quota = Qu /\ read.seen = limit
    BY <1>1, <1>2, <1>5
  <2> HIDE DEF read
  <2> QED
    BY <1>2, <1>4, <2>1 DEF WorkerOK
<1>7. WorkerOK(fails)
  <2>1. /\ fails \in [pc : {"qgroups", "listed"}, ids : [Volume -> Nat], failed : BOOLEAN,
                      quota : [Volume -> Nat], seen : [1 .. MaxId -> Nat]]
        /\ fails.pc = "listed" /\ fails.ids = r.ids /\ fails.quota = r.quota /\ fails.failed
    BY <1>2
  <2> HIDE DEF fails
  <2> QED
    BY <1>2, <2>1 DEF WorkerOK
<1> HIDE DEF read, fails
<1>8. DOMAIN worker' = Worker /\ \A u \in Worker : WorkerOK(worker'[u])
  BY <1>3, <1>6, <1>7, OneWorker
<1> QED
  BY <1>8 DEF SubvolListQGroups, BtrfsIInv, WorkerOK, poolVars

LEMMA SubvolsKeep ==
  ASSUME BtrfsIInv, SubvolCreate \/ SubvolSnapshot \/ SubvolDelete
  PROVE  BtrfsIInv'
<1>1. MaxId \in Nat
  BY BtrfsAssumption
<1>2. /\ nextId' \in 1 .. MaxId + 1 /\ volume' \in [Volume -> 0 .. MaxId]
      /\ wiped' = wiped /\ limit' = limit /\ worker' = worker
  <2>1. CASE SubvolCreate
    BY <1>1, <2>1 DEF BtrfsIInv, SubvolCreate, poolVars
  <2>2. CASE SubvolSnapshot
    BY <1>1, <2>2 DEF BtrfsIInv, SubvolSnapshot, poolVars
  <2>3. CASE SubvolDelete
    BY <1>1, <2>3 DEF BtrfsIInv, SubvolDelete, poolVars
  <2> QED
    BY <2>1, <2>2, <2>3
<1> QED
  BY <1>2 DEF BtrfsIInv, WorkerOK

LEMMA QuotaKeeps ==
  ASSUME BtrfsIInv, NEW w \in Worker, QuotaEnable(w) \/ QuotaLimit(w)
  PROVE  BtrfsIInv'
<1>1. CASE QuotaEnable(w)
  <2>1. PICK v \in Volume, q \in Quota : worker' = [worker EXCEPT ![w] = [pc |-> "limit", v |-> v, q |-> q]]
    BY <1>1 DEF QuotaEnable
  <2>2. WorkerOK([pc |-> "limit", v |-> v, q |-> q])
    BY DEF WorkerOK
  <2>3. DOMAIN worker' = Worker /\ \A u \in Worker : WorkerOK(worker'[u])
    BY <2>1, <2>2, OneWorker
  <2> QED
    BY <1>1, <2>3 DEF QuotaEnable, BtrfsIInv, WorkerOK, poolVars
<1>2. CASE QuotaLimit(w)
  <2> DEFINE r == worker[w]
             id == volume[r.v]
  <2>1. r.pc = "limit" /\ worker' = [worker EXCEPT ![w] = NoWorker]
    BY <1>2 DEF QuotaLimit
  <2>2. WorkerOK(r)
    BY DEF BtrfsIInv
  <2>3. r.v \in Volume /\ r.q \in Nat
    <3> HIDE DEF r
    <3>1. r # NoWorker
      BY <2>1 DEF NoWorker
    <3>2. r \in [pc : {"limit"}, v : Volume, q : Quota]
      BY <2>1, <2>2, <3>1 DEF WorkerOK
    <3> QED
      BY <3>2, BtrfsAssumption
  <2>4. id \in 0 .. MaxId
    BY <2>3 DEF BtrfsIInv
  <2>5. limit' = IF id = 0 THEN limit ELSE [limit EXCEPT ![id] = r.q]
    BY <1>2 DEF QuotaLimit
  <2>6. limit' \in [1 .. MaxId -> Nat]
    <3> HIDE DEF id, r
    <3> QED
      BY <2>3, <2>4, <2>5 DEF BtrfsIInv
  <2>7. WorkerOK(NoWorker)
    BY DEF WorkerOK
  <2>8. DOMAIN worker' = Worker /\ \A u \in Worker : WorkerOK(worker'[u])
    BY <2>1, <2>7, OneWorker
  <2> QED
    BY <1>2, <2>6, <2>8 DEF QuotaLimit, BtrfsIInv, WorkerOK, poolVars
<1> QED
  BY <1>1, <1>2

LEMMA ListKeeps ==
  ASSUME BtrfsIInv, NEW w \in Worker, SubvolListVolumes(w) \/ SubvolListEnds(w)
  PROVE  BtrfsIInv'
<1>1. PICK r : worker' = [worker EXCEPT ![w] = r] /\ WorkerOK(r)
  <2>1. CASE SubvolListVolumes(w)
    <3> DEFINE Z == [v \in Volume |-> 0]
               r == [pc |-> "qgroups", ids |-> volume, failed |-> FALSE, quota |-> Z, seen |-> limit]
    <3>1. Z \in [Volume -> Nat] /\ \A v \in Volume : Z[v] = 0
      OBVIOUS
    <3>2. worker' = [worker EXCEPT ![w] = r]
      BY <2>1 DEF SubvolListVolumes
    <3> HIDE DEF Z
    <3>3. volume \in [Volume -> Nat] /\ (\A v \in Volume : volume[v] \in 0 .. MaxId) /\ limit \in [1 .. MaxId -> Nat]
      <4>1. volume \in [Volume -> 0 .. MaxId] /\ limit \in [1 .. MaxId -> Nat]
        BY DEF BtrfsIInv
      <4>2. MaxId \in Nat
        BY BtrfsAssumption
      <4>3. volume \in [Volume -> Nat]
        BY <4>1, <4>2
      <4> QED
        BY <4>1, <4>3
    <3>4. /\ r \in [pc : {"qgroups", "listed"}, ids : [Volume -> Nat], failed : BOOLEAN,
                    quota : [Volume -> Nat], seen : [1 .. MaxId -> Nat]]
          /\ r.pc = "qgroups" /\ ~r.failed /\ r.quota = Z /\ r.ids = volume
      BY <3>1, <3>3
    <3> HIDE DEF r
    <3>5. WorkerOK(r)
      BY <3>1, <3>3, <3>4 DEF WorkerOK
    <3> QED
      BY <3>2, <3>5
  <2>2. CASE SubvolListEnds(w)
    BY <2>2 DEF SubvolListEnds, WorkerOK
  <2> QED
    BY <2>1, <2>2
<1>2. DOMAIN worker' = Worker /\ \A u \in Worker : WorkerOK(worker'[u])
  BY <1>1, OneWorker
<1>3. wiped' = wiped /\ nextId' = nextId /\ volume' = volume /\ limit' = limit
  BY DEF SubvolListVolumes, SubvolListEnds, poolVars
<1> QED
  BY <1>2, <1>3 DEF BtrfsIInv, WorkerOK

LEMMA BtrfsIdle ==
  ASSUME BtrfsIInv, wiped' = wiped, UNCHANGED volumeVars
  PROVE  BtrfsIInv'
BY DEF BtrfsIInv, WorkerOK, volumeVars

LEMMA PoolKeeps ==
  ASSUME BtrfsIInv, PoolNext
  PROVE  BtrfsIInv'
<1>1. UNCHANGED volumeVars
  BY DEF PoolNext, Create, MountPool, DeviceAdd, DeviceRemove
<1>2. wiped' = wiped
  <2>1. CASE Create
    <3>1. PICK devs \in SUBSET BDevice, overwrite \in BOOLEAN :
            /\ \A d \in devs : holds[d] # "pool" /\ (holds[d] # "nothing" => Forced(overwrite))
            /\ wiped' = IF overwrite THEN wiped ELSE wiped \cup {d \in devs : holds[d] # "nothing"}
      BY <2>1 DEF Create
    <3>2. CASE overwrite
      BY <3>1, <3>2
    <3>3. CASE ~overwrite
      <4>1. {d \in devs : holds[d] # "nothing"} = {}
        BY <3>1, <3>3 DEF Forced
      <4> QED
        BY <3>1, <3>3, <4>1
    <3> QED
      BY <3>2, <3>3
  <2> QED
    BY <2>1 DEF PoolNext, MountPool, DeviceAdd, DeviceRemove
<1> QED
  BY <1>1, <1>2, BtrfsIdle

LEMMA BtrfsNextIInv == BtrfsIInv /\ [PoolNext \/ VolumeNext \/ ShowNext]_btrfsVars => BtrfsIInv'
<1> SUFFICES ASSUME BtrfsIInv, [PoolNext \/ VolumeNext \/ ShowNext]_btrfsVars PROVE BtrfsIInv'
  OBVIOUS
<1>1. CASE PoolNext
  BY <1>1, PoolKeeps
<1>2. CASE VolumeNext
  BY <1>2, SubvolsKeep, QuotaKeeps, QGroupsOK, ListKeeps DEF VolumeNext
<1>3. CASE ShowNext
  BY <1>3, BtrfsIdle DEF ShowNext, Show, ParseShown, poolVars
<1>4. CASE UNCHANGED btrfsVars
  BY <1>4, BtrfsIdle DEF btrfsVars, poolVars
<1> QED
  BY <1>1, <1>2, <1>3, <1>4

LEMMA BtrfsIInvKeeps == BtrfsIInv => PoolsAreKept
<1> SUFFICES ASSUME BtrfsIInv PROVE PoolsAreKept
  OBVIOUS
<1>1. ASSUME NEW w \in Worker, worker[w].pc = "listed", NEW v \in Volume
      PROVE  /\ worker[w].quota[v] # 0 => worker[w].ids[v] # 0 /\ worker[w].quota[v] = worker[w].seen[worker[w].ids[v]]
             /\ ~worker[w].failed /\ worker[w].ids[v] # 0 => worker[w].quota[v] = worker[w].seen[worker[w].ids[v]]
  <2> DEFINE r == worker[w]
  <2>1. WorkerOK(r) /\ r.pc = "listed"
    BY <1>1 DEF BtrfsIInv
  <2> HIDE DEF r
  <2>2. /\ r.quota[v] # 0 => r.ids[v] # 0 /\ r.quota[v] = r.seen[r.ids[v]]
        /\ ~r.failed /\ r.ids[v] # 0 => r.quota[v] = r.seen[r.ids[v]]
    BY <2>1, NotListed DEF WorkerOK
  <2> QED
    BY <2>2 DEF r
<1>2. QuotaIsOwn
  BY <1>1 DEF QuotaIsOwn
<1> QED
  BY <1>2 DEF PoolsAreKept, NothingWiped, BtrfsIInv

\* The btrfs commands (btrfs.go), for any number of devices, subvolumes and
\* concurrent commands: mkfs takes no device with data in it that the caller did
\* not give up, and the list of subvolumes, read with two calls of the tool,
\* joins a quota to the subvolume it belongs to, whatever was created, deleted
\* and limited between the two.
THEOREM PoolsKept == BtrfsSpec => []PoolsAreKept
<1>1. BtrfsInit => BtrfsIInv
  BY BtrfsInitIInv
<1>2. BtrfsIInv /\ [PoolNext \/ VolumeNext \/ ShowNext]_btrfsVars => BtrfsIInv'
  BY BtrfsNextIInv
<1>3. BtrfsIInv => PoolsAreKept
  BY BtrfsIInvKeeps
<1> QED
  BY <1>1, <1>2, <1>3, PTL DEF BtrfsSpec
=============================================================================
