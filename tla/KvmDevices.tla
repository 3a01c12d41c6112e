------------------------------ MODULE KvmDevices ------------------------------
(***************************************************************************)
(* Nics and disks of a running machine (kvm/manager.go), the wait for the  *)
(* answer of the guest when one is removed (kvm/sync.go), and the one      *)
(* goroutine that handles all events of libvirt (kvm/events.go).           *)
(*                                                                         *)
(* DetachDeviceFlags only asks the guest; libvirt tells later that the     *)
(* device was removed or that the removal failed, and Sync passes that on  *)
(* to the job that waits for it, over a channel with one place.            *)
(***************************************************************************)
EXTENDS Naturals, Sequences, FiniteSets

CONSTANTS
  Job,        \* jobs that attach and detach devices of the machine
  Nic, Disk,  \* devices, known to libvirt by their alias
  EventCap,   \* capacity of kvmManager.evch (100)
  MaxLife,    \* bound: lifecycle events
  MaxChannels, \* bound: calls of Expect
  NoDevice

Device == Nic \cup Disk

ASSUME DevicesAssumption ==
  /\ EventCap \in Nat \ {0} /\ MaxLife \in Nat /\ MaxChannels \in Nat
  /\ NoDevice \notin Device /\ Nic \cap Disk = {}

VARIABLES
  devLive,    \* the devices of the domain
  devInfo,    \* the devices in DomainInfo (Nics and Media)
  qemuArgs,   \* whether the domain has arguments for qemu (zdb disks, kvm)
  removing,   \* devices the guest was asked to remove
  devOp,      \* what a job does: [at, dev, chan, result, answered]
  expected,   \* Sync.m: the channel of a device, 0 if there is none
  channel,    \* the channels: "empty", "full" or "closed"
  syncStuck,  \* Sync.s was locked and nobody will unlock it
  lvEvents,   \* events of libvirt that are not handled yet
  evch,       \* number of events in evch
  life,       \* number of lifecycle events so far
  overlapped, \* history: devices of which two removals overlapped
  messy       \* history: jobs overlapped, or a device left after the timeout

deviceVars == <<devLive, devInfo, qemuArgs, removing, devOp, expected, channel, syncStuck,
                lvEvents, evch, life, overlapped, messy>>

NoOp == [at |-> "idle", dev |-> NoDevice, chan |-> 0, result |-> "none", answered |-> FALSE]

DevicesInit ==
  /\ devLive = {} /\ devInfo = {} /\ removing = {} /\ qemuArgs \in BOOLEAN
  /\ devOp = [j \in Job |-> NoOp]
  /\ expected = [d \in Device |-> 0] /\ channel = <<>>
  /\ syncStuck = FALSE /\ lvEvents = <<>> /\ evch = 0 /\ life = 0
  /\ overlapped = {} /\ messy = FALSE

-----------------------------------------------------------------------------
(* Mutants.                                                                *)

\* A nic that was removed stays in the DomainInfo.
InfoAfterNicKept == devInfo

-----------------------------------------------------------------------------
(* attachDisk and addNic.                                                  *)

Step(j, at) == devOp' = [devOp EXCEPT ![j].at = at]

Others(j) == {i \in Job \ {j} : devOp[i] # NoOp}

\* The domain is looked up: the device must not be in it.
AttachLookup(j, d) ==
  /\ devOp[j] = NoOp /\ d \notin devLive
  /\ devOp' = [devOp EXCEPT ![j] = [NoOp EXCEPT !.at = "attach", !.dev = d]]
  /\ messy' = (messy \/ Others(j) # {})
  /\ UNCHANGED <<devLive, devInfo, qemuArgs, removing, expected, channel, syncStuck, lvEvents,
                 evch, life, overlapped>>

\* attachDevice; libvirt refuses a device that came meanwhile, or fails.
AttachDevice(j) ==
  /\ devOp[j].at = "attach"
  /\ \/ devOp[j].dev \notin devLive /\ devLive' = devLive \cup {devOp[j].dev} /\ Step(j, "added")
     \/ devOp' = [devOp EXCEPT ![j] = NoOp] /\ UNCHANGED devLive
  /\ UNCHANGED <<devInfo, qemuArgs, removing, expected, channel, syncStuck, lvEvents, evch, life,
                 overlapped, messy>>

\* updateMediaInfo reads the disks back; with any argument for qemu it fails, for
\* it takes each of them for a zdb disk.
InfoAfterDisk == IF qemuArgs THEN devInfo ELSE (devInfo \cap Nic) \cup (devLive \cap Disk)

\* updateNics keeps the nics that the domain still has.
InfoAfterNic == devInfo \ (Nic \ devLive)

AttachInfo(j) ==
  /\ devOp[j].at = "added"
  /\ devInfo' = IF devOp[j].dev \in Disk THEN InfoAfterDisk ELSE devInfo \cup {devOp[j].dev}
  /\ devOp' = [devOp EXCEPT ![j] = NoOp]
  /\ UNCHANGED <<devLive, qemuArgs, removing, expected, channel, syncStuck, lvEvents, evch, life,
                 overlapped, messy>>

-----------------------------------------------------------------------------
(* detachDisk and removeNic: detachDevice.                                 *)

DetachLookup(j, d) ==
  /\ devOp[j] = NoOp /\ d \in devLive
  /\ devOp' = [devOp EXCEPT ![j] = [NoOp EXCEPT !.at = "expect", !.dev = d]]
  /\ messy' = (messy \/ Others(j) # {})
  /\ UNCHANGED <<devLive, devInfo, qemuArgs, removing, expected, channel, syncStuck, lvEvents,
                 evch, life, overlapped>>

\* Expect: a channel for the device, in place of one that is there.
Expect(j) ==
  LET d == devOp[j].dev IN
    /\ channel' = Append(channel, "empty")
    /\ expected' = [expected EXCEPT ![d] = Len(channel) + 1]
    /\ overlapped' = IF expected[d] # 0 THEN overlapped \cup {d} ELSE overlapped

DetachExpect(j) ==
  /\ devOp[j].at = "expect" /\ ~syncStuck /\ Len(channel) < MaxChannels
  /\ Expect(j) /\ Step(j, "detach")
  /\ UNCHANGED <<devLive, devInfo, qemuArgs, removing, syncStuck, lvEvents, evch, life, messy>>

\* DetachDeviceFlags: the guest is asked, or libvirt fails.
DetachAsk(j) ==
  /\ devOp[j].at = "detach"
  /\ \/ devOp[j].dev \in devLive /\ removing' = removing \cup {devOp[j].dev} /\ Step(j, "wait")
     \/ devOp' = [devOp EXCEPT ![j].at = "unexpect", ![j].result = "failed"] /\ UNCHANGED removing
  /\ UNCHANGED <<devLive, devInfo, qemuArgs, expected, channel, syncStuck, lvEvents, evch, life,
                 overlapped, messy>>

\* Wait looks for the channel; without one it returns and keeps the lock.
WaitLookup(j) ==
  /\ devOp[j].at = "wait" /\ ~syncStuck
  /\ LET ch == expected[devOp[j].dev] IN
     IF ch = 0
     THEN /\ syncStuck' = TRUE
          /\ devOp' = [devOp EXCEPT ![j].at = "unexpect", ![j].result = "failed"]
     ELSE /\ devOp' = [devOp EXCEPT ![j].at = "select", ![j].chan = ch]
          /\ UNCHANGED syncStuck
  /\ UNCHANGED <<devLive, devInfo, qemuArgs, removing, expected, channel, lvEvents, evch, life,
                 overlapped, messy>>

TimedOut == "timeout"

\* The select of Wait: an answer (a closed channel is one too), or three seconds.
WaitSelect(j) ==
  /\ devOp[j].at = "select"
  /\ LET ch == devOp[j].chan IN
     \/ /\ channel[ch] # "empty"
        /\ channel' = [channel EXCEPT ![ch] = IF @ = "full" THEN "empty" ELSE @]
        /\ devOp' = [devOp EXCEPT ![j].at = "unexpect", ![j].result = "ok"]
        /\ UNCHANGED messy
     \/ /\ devOp' = [devOp EXCEPT ![j].at = "unexpect", ![j].result = TimedOut]
        /\ messy' = TRUE /\ UNCHANGED channel
  /\ UNCHANGED <<devLive, devInfo, qemuArgs, removing, expected, syncStuck, lvEvents, evch, life,
                 overlapped>>

\* The deferred Unexpect closes the channel of the device, whoever's it is.
DetachUnexpect(j) ==
  /\ devOp[j].at = "unexpect" /\ ~syncStuck
  /\ LET d == devOp[j].dev IN
       /\ channel' = [i \in DOMAIN channel |-> IF i = expected[d] THEN "closed" ELSE channel[i]]
       /\ expected' = [expected EXCEPT ![d] = 0]
  /\ devOp' = [devOp EXCEPT ![j] = IF @.result = "ok" THEN [@ EXCEPT !.at = "removed"] ELSE NoOp]
  /\ UNCHANGED <<devLive, devInfo, qemuArgs, removing, syncStuck, lvEvents, evch, life, overlapped,
                 messy>>

DetachInfo(j) ==
  /\ devOp[j].at = "removed"
  /\ devInfo' = IF devOp[j].dev \in Disk THEN InfoAfterDisk ELSE InfoAfterNic
  /\ devOp' = [devOp EXCEPT ![j] = NoOp]
  /\ UNCHANGED <<devLive, qemuArgs, removing, expected, channel, syncStuck, lvEvents, evch, life,
                 overlapped, messy>>

-----------------------------------------------------------------------------
(* libvirt, and the goroutine that handles its events.                     *)

GuestAnswers(d) ==
  /\ d \in removing
  /\ removing' = removing \ {d}
  /\ lvEvents' = Append(lvEvents, d)
  /\ devLive' \in {devLive, devLive \ {d}}
  /\ UNCHANGED <<devInfo, qemuArgs, devOp, expected, channel, syncStuck, evch, life, overlapped, messy>>

LifecycleEvent ==
  /\ life < MaxLife /\ life' = life + 1
  /\ lvEvents' = Append(lvEvents, NoDevice)
  /\ UNCHANGED <<devLive, devInfo, qemuArgs, removing, devOp, expected, channel, syncStuck, evch,
                 overlapped, messy>>

\* Release, for a device that was removed and for one that was not. It does not
\* wait: a full channel, or none, loses the event.
HandleDevice ==
  /\ lvEvents # <<>> /\ Head(lvEvents) \in Device /\ ~syncStuck
  /\ LET d == Head(lvEvents) IN
       /\ channel' = [i \in DOMAIN channel |-> IF i = expected[d] THEN "full" ELSE channel[i]]
       /\ devOp' = [j \in Job |-> IF devOp[j].dev = d THEN [devOp[j] EXCEPT !.answered = TRUE] ELSE devOp[j]]
  /\ lvEvents' = Tail(lvEvents)
  /\ UNCHANGED <<devLive, devInfo, qemuArgs, removing, expected, syncStuck, evch, life, overlapped, messy>>

\* domaineLifeCycleHandler ends with a send to evch.
HandleLifecycle ==
  /\ lvEvents # <<>> /\ Head(lvEvents) = NoDevice /\ evch < EventCap
  /\ evch' = evch + 1
  /\ lvEvents' = Tail(lvEvents)
  /\ UNCHANGED <<devLive, devInfo, qemuArgs, removing, devOp, expected, channel, syncStuck, life,
                 overlapped, messy>>

\* The job kvm.events.
EventsRead ==
  /\ evch > 0 /\ evch' = evch - 1
  /\ UNCHANGED <<devLive, devInfo, qemuArgs, removing, devOp, expected, channel, syncStuck,
                 lvEvents, life, overlapped, messy>>

DevicesNext ==
  \/ \E j \in Job : \/ \E d \in Device : AttachLookup(j, d) \/ DetachLookup(j, d)
                    \/ AttachDevice(j) \/ AttachInfo(j)
                    \/ DetachExpect(j) \/ DetachAsk(j) \/ WaitLookup(j) \/ WaitSelect(j)
                    \/ DetachUnexpect(j) \/ DetachInfo(j)
  \/ \E d \in Device : GuestAnswers(d)
  \/ LifecycleEvent \/ HandleDevice \/ HandleLifecycle \/ EventsRead

DevicesSpec == DevicesInit /\ [][DevicesNext]_deviceVars

-----------------------------------------------------------------------------
(* Properties.                                                             *)

\* The lock of Sync is lost, and with it the event loop, only if two jobs were
\* removing the same device at the same time.
SyncStuckOnlyByOverlap == syncStuck => overlapped # {}

\* A job reports that a device is gone only after libvirt answered about that very
\* device since the job began, also when answers come late, before the job gets
\* to wait for them, or not at all; but for removals of one device that overlap.
RemovalWasAnswered ==
  \A j \in Job : devOp[j].result = "ok" => devOp[j].answered \/ devOp[j].dev \in overlapped

\* While no job is changing devices, DomainInfo tells what the domain has, also
\* after a removal that failed; unless jobs overlapped, or a removal came after
\* the timeout, or disks changed of a machine with arguments for qemu.
InfoFollowsDevices ==
  (~messy /\ \A j \in Job : devOp[j] = NoOp) =>
     \A d \in Device : (d \in devInfo <=> d \in devLive) \/ (qemuArgs /\ d \in Disk)

\* Events of libvirt are handled, whatever jobs do, until the lock is lost.
EventsAreHandled == (lvEvents # <<>>) ~> (lvEvents = <<>> \/ syncStuck)

\* Jobs and the handler of libvirt's events agree on the devices of a machine.
DevicesAreKnown == SyncStuckOnlyByOverlap /\ RemovalWasAnswered /\ InfoFollowsDevices
=============================================================================
